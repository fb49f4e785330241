--------------------------- MODULE MCTcpClientMgr ---------------------------
(* Small instances of TcpClientMgr.                                        *)
EXTENDS TcpClientMgr
=============================================================================
