----------------------------- MODULE MCProcess -----------------------------
(* A program with threads alone, or two daemons that compete; each program *)
(* can be forked once.                                                     *)
EXTENDS Process

CONSTANTS app, appChild, one, other, oneChild

MCPid      == {app, appChild, one, other, oneChild}
MCThreaded == {app, appChild}
MCStarts   == {{app}, {one, other}}
=============================================================================
