-------------------------- MODULE TcpClientProofs --------------------------
(***************************************************************************)
(* The TCP client and the manager that selects among several.              *)
(*                                                                         *)
(* The first part is about one client (Spec): it leaks no descriptor and   *)
(* keeps both streams at a packet boundary, for every set of names,        *)
(* addresses and descriptors and every length of a packet.  The second is  *)
(* about the manager (MgrSpec): selection fails only when it must and      *)
(* passes no client over for long, for every number of clients and every   *)
(* width of the index.                                                     *)
(***************************************************************************)
EXTENDS TcpClient, TcpClientMgr, WordArithmetic

-----------------------------------------------------------------------------
(* One client.                                                             *)

(***************************************************************************)
(* What makes the two properties inductive: which steps of a connect have  *)
(* a socket and which of them a connection, a client without a socket has  *)
(* no bytes in either stream, and the position in the stream that a call   *)
(* works on is what the call has transferred so far.                       *)
(***************************************************************************)
NoSocket ==
    ~ Connected => pc \notin {"send", "recv"} /\ frag = 0 /\ rpos = 0 /\ told = FALSE

Linked ==
    /\ pc = "socket" => ~ Connected /\ link = "none"
    /\ pc = "connect" => Connected /\ link = "none"
    /\ pc \notin {"socket", "connect"} => (Connected <=> link # "none")

Positions ==
    told = FALSE =>
        /\ frag = IF pc = "send" THEN done ELSE 0
        /\ rpos = IF pc = "recv" THEN done ELSE 0

ClientInv == TypeOK /\ fds = m_fd /\ NoSocket /\ Linked /\ Positions

-----------------------------------------------------------------------------
(* The position after n more bytes of a packet.                            *)
LEMMA PositionMoves ==
    ASSUME NEW x \in 0 .. (PacketLen - 1), NEW n \in 1 .. PacketLen
    PROVE  /\ (x + n) % PacketLen \in 0 .. (PacketLen - 1)
           /\ x + n < PacketLen => (x + n) % PacketLen = x + n
           /\ x + n = PacketLen => (x + n) % PacketLen = 0
<1>1. PacketLen \in Nat \ {0} /\ x + n \in Int /\ x + n >= 0
  BY PacketLenAssumption
<1>2. (x + n) % PacketLen \in 0 .. (PacketLen - 1)
  BY <1>1, DivMod, Zenon
<1>3. ASSUME x + n < PacketLen PROVE (x + n) % PacketLen = x + n
  <2>1. x + n \in 0 .. (PacketLen - 1)
    BY <1>1, <1>3
  <2> QED
    BY <1>1, <2>1, ModSmall, Zenon
<1>4. ASSUME x + n = PacketLen PROVE (x + n) % PacketLen = 0
  <2>1. x + n = PacketLen * 1 + 0 /\ 1 \in Int /\ 0 \in 0 .. (PacketLen - 1)
    BY <1>1, <1>4
  <2> QED
    BY <1>1, <2>1, ModUnique, Zenon
<1> QED
  BY <1>2, <1>3, <1>4

-----------------------------------------------------------------------------
(* Initially.                                                              *)
LEMMA ClientInitially == Init => ClientInv
<1> SUFFICES ASSUME Init PROVE ClientInv
  OBVIOUS
<1>1. TypeOK
  <2>1. 0 \in 0 .. (PacketLen - 1) /\ 0 \in 0 .. MaxErrors
    BY PacketLenAssumption, ErrorsAssumption
  <2>2. rest \in Seq(Addr)
    BY DEF Init
  <2> QED
    BY <2>1, <2>2 DEF Init, TypeOK
<1>2. fds = m_fd /\ NoSocket /\ Linked /\ Positions
  BY DEF Init, NoSocket, Linked, Positions, Connected
<1> QED
  BY <1>1, <1>2 DEF ClientInv

(* close() leaves no descriptor open and no bytes in the streams.          *)
LEMMA Closing ==
    ASSUME ClientInv, CloseEffect, pc' \in {"idle", "next"}, done' \in {0, done},
           rest' \in Seq(Addr), errors' \in 0 .. MaxErrors, UNCHANGED <<names, network>>
    PROVE  ClientInv'
<1>1. 0 \in 0 .. (PacketLen - 1)
  BY PacketLenAssumption
<1>2. fds' = {} /\ m_fd' = {}
  BY DEF ClientInv, CloseEffect
<1>3. TypeOK'
  BY <1>1, <1>2 DEF ClientInv, CloseEffect, TypeOK, names, network
<1>4. NoSocket' /\ Linked' /\ Positions'
  BY <1>2 DEF CloseEffect, NoSocket, Linked, Positions, Connected
<1> QED
  BY <1>2, <1>3, <1>4 DEF ClientInv

(* The addresses to try are addresses.                                     *)
LEMMA Resolving ==
    ASSUME ClientInv, NEW h \in Host \cup {NoHost}, pc = "idle", Resolve(h)
    PROVE  pc' \in {"idle", "next"} /\ rest' \in Seq(Addr)
<1>1. rest \in Seq(Addr) /\ dns \subseteq Host
  BY DEF ClientInv, TypeOK
<1>2. CASE h # NoHost /\ h \in dns /\ addrs_of[h] # << >>
  <2>1. pc' = "next" /\ rest' = addrs_of[h]
    BY <1>2 DEF Resolve
  <2>2. addrs_of[h] \in Seq(Addr)
    BY <1>1, <1>2, AddrsAssumption
  <2> QED
    BY <2>1, <2>2
<1>3. CASE ~ (h # NoHost /\ h \in dns /\ addrs_of[h] # << >>)
  BY <1>1, <1>3 DEF Resolve
<1> QED
  BY <1>2, <1>3

-----------------------------------------------------------------------------
(* Every step keeps the invariant.                                         *)

LEMMA ConnectStep ==
    ASSUME ClientInv, connect PROVE ClientInv'
  BY DEF ClientInv, connect, TypeOK, NoSocket, Linked, Positions, Connected, names, socket,
         network, attempt, streams

LEMMA ConnectToStep ==
    ASSUME ClientInv, NEW h \in Host, connect_to(h) PROVE ClientInv'
<1>1. pc = "idle" /\ Resolve(h) /\ m_str_host' = h
  BY DEF connect_to
<1>2. pc' \in {"idle", "next"} /\ rest' \in Seq(Addr)
  BY <1>1, Resolving
<1>3. UNCHANGED <<m_ip, m_fd, fds, link, unread, up, dns, errors, done, frag, rpos, told>>
  BY DEF connect_to, socket, network, streams
<1>4. TypeOK'
  BY <1>1, <1>2, <1>3 DEF ClientInv, TypeOK
<1> QED
  BY <1>1, <1>2, <1>3, <1>4 DEF ClientInv, NoSocket, Linked, Positions, Connected

LEMMA ReconnectStep ==
    ASSUME ClientInv, reconnect PROVE ClientInv'
<1>1. PICK h \in Host \cup {NoHost} : h = m_str_host
  BY DEF ClientInv, TypeOK
<1>2. pc = "idle" /\ Resolve(h)
  BY <1>1, Zenon DEF reconnect
<1>3. pc' \in {"idle", "next"} /\ rest' \in Seq(Addr)
  BY <1>2, Resolving
<1>4. errors' \in 0 .. MaxErrors /\ done' = done
  BY DEF ClientInv, TypeOK, reconnect
<1> QED
  BY <1>3, <1>4, Closing DEF reconnect

(* The loop of connect_host goes on to the next address.                   *)
LEMMA NextAddressStep ==
    ASSUME ClientInv, next_address PROVE ClientInv'
<1>1. rest \in Seq(Addr) /\ rest # << >> /\ pc = "next"
  BY DEF ClientInv, TypeOK, next_address
<1>2. Head(rest) \in Addr /\ Tail(rest) \in Seq(Addr)
  BY <1>1
<1>3. UNCHANGED <<m_str_host, m_fd, fds, link, unread, up, dns, errors, done, frag, rpos, told>>
  BY DEF next_address, socket, network, streams
<1>4. /\ m_ip' \in Addr /\ rest' \in Seq(Addr)
      /\ pc' = IF Connected THEN "idle" ELSE "socket"
  <2>1. CASE Connected
    BY <1>2, <2>1 DEF next_address
  <2>2. CASE ~ Connected
    BY <1>2, <2>2 DEF next_address
  <2> QED
    BY <2>1, <2>2
<1>5. TypeOK'
  BY <1>3, <1>4 DEF ClientInv, TypeOK
<1> QED
  BY <1>1, <1>3, <1>4, <1>5 DEF ClientInv, NoSocket, Linked, Positions, Connected

LEMMA SocketStep ==
    ASSUME ClientInv, socket_created PROVE ClientInv'
<1>1. PICK fd \in Fd : m_fd' = {fd} /\ fds' = fds \cup {fd}
  BY DEF socket_created
<1>2. /\ pc = "socket" /\ pc' = "connect" /\ fds = {}
      /\ UNCHANGED <<m_str_host, m_ip, link, unread, up, dns, rest, errors, done, frag, rpos, told>>
  BY DEF ClientInv, Linked, Connected, socket_created, names, network, attempt, streams
<1>3. TypeOK'
  BY <1>1, <1>2 DEF ClientInv, TypeOK
<1> QED
  BY <1>1, <1>2, <1>3 DEF ClientInv, NoSocket, Linked, Positions, Connected

(* An attempt fails, before there is a socket or after.                    *)
LEMMA FailStep ==
    ASSUME ClientInv, socket_fails \/ connect_fails PROVE ClientInv'
<1>1. pc' \in {"idle", "next"} /\ rest' \in Seq(Addr) /\ done' = done
  BY DEF ClientInv, TypeOK, socket_fails, connect_fails, AddressFailed
<1>2. errors' \in 0 .. MaxErrors
  BY ErrorsAssumption DEF ClientInv, TypeOK, socket_fails, connect_fails, Error
<1>3. CASE socket_fails
  <2>1. pc = "socket" /\ UNCHANGED <<m_str_host, m_ip, m_fd, fds, link, unread, up, dns, frag, rpos, told>>
    BY <1>3 DEF socket_fails, names, socket, network, streams
  <2>2. TypeOK'
    BY <1>1, <1>2, <2>1 DEF ClientInv, TypeOK
  <2> QED
    BY <1>1, <2>1, <2>2 DEF ClientInv, NoSocket, Linked, Positions, Connected
<1>4. CASE connect_fails
  BY <1>1, <1>2, <1>4, Closing DEF connect_fails
<1> QED
  BY <1>3, <1>4

LEMMA ConnectedStep ==
    ASSUME ClientInv, connect_succeeds PROVE ClientInv'
<1>1. /\ pc = "connect" /\ pc' = "idle" /\ link' = "up" /\ unread' = FALSE /\ rest' = << >>
      /\ UNCHANGED <<m_str_host, m_ip, m_fd, fds, up, dns, errors, done, frag, rpos, told>>
  BY DEF connect_succeeds, names, network, streams
<1>2. rest' \in Seq(Addr)
  BY <1>1
<1>3. TypeOK'
  BY <1>1, <1>2 DEF ClientInv, TypeOK
<1> QED
  BY <1>1, <1>3 DEF ClientInv, NoSocket, Linked, Positions, Connected

LEMMA ConnectingStep ==
    ASSUME ClientInv, Connecting PROVE ClientInv'
<1>1. CASE next_address
  BY <1>1, NextAddressStep
<1>2. CASE socket_created
  BY <1>2, SocketStep
<1>3. CASE socket_fails \/ connect_fails
  BY <1>3, FailStep
<1>4. CASE connect_succeeds
  BY <1>4, ConnectedStep
<1> QED
  BY <1>1, <1>2, <1>3, <1>4, Zenon DEF Connecting

(* A call that ends with a close.                                          *)
LEMMA ClosingOnly ==
    ASSUME ClientInv, CloseEffect, pc' = "idle", done' \in {0, done},
           UNCHANGED <<names, network, attempt>>
    PROVE  ClientInv'
<1>1. rest' \in Seq(Addr) /\ errors' \in 0 .. MaxErrors
  BY DEF ClientInv, TypeOK, attempt
<1> QED
  BY <1>1, Closing

LEMMA BeginStep ==
    ASSUME ClientInv, NEW op \in {"send", "recv"}, Begin(op) PROVE ClientInv'
  BY PacketLenAssumption
  DEF ClientInv, Begin, TypeOK, NoSocket, Linked, Positions, Connected, names, socket, network, attempt, streams

LEMMA SendStep ==
    ASSUME ClientInv, NEW n \in 1 .. PacketLen, send_some(n) PROVE ClientInv'
<1>1. /\ frag \in 0 .. (PacketLen - 1) /\ done \in 0 .. (PacketLen - 1)
      /\ PacketLen \in Nat \ {0} /\ n \in Nat
  BY PacketLenAssumption DEF ClientInv, TypeOK
<1>2. /\ frag' = (frag + n) % PacketLen /\ done + n <= PacketLen
      /\ frag' \in 0 .. (PacketLen - 1)
  BY <1>1, PositionMoves DEF send_some
<1>3. CASE done + n >= PacketLen
  <2>1. pc' = "idle" /\ done' = 0 /\ done + n = PacketLen
    BY <1>1, <1>2, <1>3 DEF send_some, Finish
  <2>2. told = FALSE => frag' = 0 /\ rpos = 0
    <3>1. told = FALSE => frag = done /\ rpos = 0
      BY DEF ClientInv, Positions, send_some
    <3> QED
      BY <1>1, <1>2, <2>1, <3>1, PositionMoves
  <2> QED
    BY <1>1, <1>2, <2>1, <2>2
    DEF ClientInv, send_some, TypeOK, NoSocket, Linked, Positions, Connected, names, socket, network, attempt
<1>4. CASE ~ (done + n >= PacketLen)
  <2>1. pc' = "send" /\ done' = done + n /\ done + n < PacketLen
    BY <1>1, <1>2, <1>4 DEF send_some, Finish
  <2>2. told = FALSE => frag' = done + n /\ rpos = 0
    <3>1. told = FALSE => frag = done /\ rpos = 0
      BY DEF ClientInv, Positions, send_some
    <3> QED
      BY <1>1, <1>2, <2>1, <3>1, PositionMoves
  <2> QED
    BY <1>1, <1>2, <2>1, <2>2
    DEF ClientInv, send_some, TypeOK, NoSocket, Linked, Positions, Connected, names, socket, network, attempt
<1> QED
  BY <1>3, <1>4

LEMMA RecvStep ==
    ASSUME ClientInv, NEW n \in 1 .. PacketLen, recv_some(n) PROVE ClientInv'
<1>1. /\ rpos \in 0 .. (PacketLen - 1) /\ done \in 0 .. (PacketLen - 1)
      /\ PacketLen \in Nat \ {0} /\ n \in Nat
  BY PacketLenAssumption DEF ClientInv, TypeOK
<1>2. /\ rpos' = (rpos + n) % PacketLen /\ done + n <= PacketLen
      /\ rpos' \in 0 .. (PacketLen - 1)
  BY <1>1, PositionMoves DEF recv_some
<1>3. CASE done + n >= PacketLen
  <2>1. pc' = "idle" /\ done' = 0 /\ done + n = PacketLen
    BY <1>1, <1>2, <1>3 DEF recv_some, Finish
  <2>2. told = FALSE => rpos' = 0 /\ frag = 0
    <3>1. told = FALSE => rpos = done /\ frag = 0
      BY DEF ClientInv, Positions, recv_some
    <3> QED
      BY <1>1, <1>2, <2>1, <3>1, PositionMoves
  <2> QED
    BY <1>1, <1>2, <2>1, <2>2
    DEF ClientInv, recv_some, TypeOK, NoSocket, Linked, Positions, Connected, names, network, attempt
<1>4. CASE ~ (done + n >= PacketLen)
  <2>1. pc' = "recv" /\ done' = done + n /\ done + n < PacketLen
    BY <1>1, <1>2, <1>4 DEF recv_some, Finish
  <2>2. told = FALSE => rpos' = done + n /\ frag = 0
    <3>1. told = FALSE => rpos = done /\ frag = 0
      BY DEF ClientInv, Positions, recv_some
    <3> QED
      BY <1>1, <1>2, <2>1, <3>1, PositionMoves
  <2> QED
    BY <1>1, <1>2, <2>1, <2>2
    DEF ClientInv, recv_some, TypeOK, NoSocket, Linked, Positions, Connected, names, network, attempt
<1> QED
  BY <1>3, <1>4

LEMMA SendTimeoutStep ==
    ASSUME ClientInv, send_timeout PROVE ClientInv'
<1>1. CASE done = 0
  BY <1>1, PacketLenAssumption
  DEF ClientInv, send_timeout, TypeOK, NoSocket, Linked, Positions, Connected, names, socket, network, attempt, streams
<1>2. CASE done # 0
  BY <1>2, ClosingOnly DEF send_timeout
<1> QED
  BY <1>1, <1>2

LEMMA RecvTimeoutStep ==
    ASSUME ClientInv, recv_timeout PROVE ClientInv'
  BY PacketLenAssumption
  DEF ClientInv, recv_timeout, TypeOK, NoSocket, Linked, Positions, Connected, names, socket, network, attempt

LEMMA TransferStep ==
    ASSUME ClientInv, Transfer PROVE ClientInv'
<1>1. CASE \E n \in 1 .. PacketLen : send_some(n)
  BY <1>1, SendStep
<1>2. CASE send_timeout
  BY <1>2, SendTimeoutStep
<1>3. CASE \E n \in 1 .. PacketLen : recv_some(n)
  BY <1>3, RecvStep
<1>4. CASE recv_timeout
  BY <1>4, RecvTimeoutStep
<1>5. CASE transfer_fails
  BY <1>5, ClosingOnly DEF transfer_fails
<1> QED
  BY <1>1, <1>2, <1>3, <1>4, <1>5, Zenon DEF Transfer

LEMMA WritevStep ==
    ASSUME ClientInv, NEW n \in 1 .. PacketLen, writev(n) PROVE ClientInv'
<1>1. frag \in 0 .. (PacketLen - 1) /\ PacketLen \in Nat \ {0} /\ n \in Nat /\ n <= PacketLen
  BY PacketLenAssumption DEF ClientInv, TypeOK
<1>2. frag' = (frag + n) % PacketLen /\ frag' \in 0 .. (PacketLen - 1)
  BY <1>1, PositionMoves DEF writev
<1>3. told' \in BOOLEAN /\ (told' = FALSE => told = FALSE /\ ~ (n < PacketLen))
  BY Zenon DEF writev, ClientInv, TypeOK
<1>4. told' = FALSE => frag' = 0 /\ rpos = 0
  <2>1. told' = FALSE => frag = 0 /\ rpos = 0 /\ n = PacketLen
    BY <1>1, <1>3 DEF ClientInv, Positions, writev
  <2> QED
    BY <1>1, <1>2, <2>1, PositionMoves
<1> QED
  BY <1>2, <1>3, <1>4
  DEF ClientInv, writev, TypeOK, NoSocket, Linked, Positions, Connected, names, socket, network, attempt

LEMMA ReadvStep ==
    ASSUME ClientInv, NEW n \in 1 .. PacketLen, readv(n) PROVE ClientInv'
<1>1. rpos \in 0 .. (PacketLen - 1) /\ PacketLen \in Nat \ {0} /\ n \in Nat /\ n <= PacketLen
  BY PacketLenAssumption DEF ClientInv, TypeOK
<1>2. rpos' = (rpos + n) % PacketLen /\ rpos' \in 0 .. (PacketLen - 1)
  BY <1>1, PositionMoves DEF readv
<1>3. told' \in BOOLEAN /\ (told' = FALSE => told = FALSE /\ ~ (n < PacketLen))
  BY Zenon DEF readv, ClientInv, TypeOK
<1>4. told' = FALSE => rpos' = 0 /\ frag = 0
  <2>1. told' = FALSE => rpos = 0 /\ frag = 0 /\ n = PacketLen
    BY <1>1, <1>3 DEF ClientInv, Positions, readv
  <2> QED
    BY <1>1, <1>2, <2>1, PositionMoves
<1> QED
  BY <1>2, <1>3, <1>4
  DEF ClientInv, readv, TypeOK, NoSocket, Linked, Positions, Connected, names, network, attempt

LEMMA EnvironmentStep ==
    ASSUME ClientInv, server_sends \/ server_closes \/ link_breaks \/ network_changes
    PROVE  ClientInv'
<1>1. CASE server_sends
  BY <1>1 DEF ClientInv, server_sends, TypeOK, NoSocket, Linked, Positions, Connected, names, network, attempt, streams
<1>2. CASE server_closes
  BY <1>2 DEF ClientInv, server_closes, TypeOK, NoSocket, Linked, Positions, Connected, names, network, attempt, streams
<1>3. CASE link_breaks
  BY <1>3 DEF ClientInv, link_breaks, TypeOK, NoSocket, Linked, Positions, Connected, names, network, attempt, streams
<1>4. CASE network_changes
  <2>1. up' \subseteq Addr /\ dns' \subseteq Host
    BY <1>4 DEF ClientInv, TypeOK, network_changes
  <2> QED
    BY <1>4, <2>1
    DEF ClientInv, network_changes, TypeOK, NoSocket, Linked, Positions, Connected, names, socket,
        attempt, streams
<1> QED
  BY <1>1, <1>2, <1>3, <1>4

-----------------------------------------------------------------------------
(***************************************************************************)
(* The invariant holds in every state.                                     *)
(***************************************************************************)
THEOREM ClientInvariance == Spec => []ClientInv
<1>1. ASSUME ClientInv, [Next]_vars PROVE ClientInv'
  <2>1. CASE connect
    BY <1>1, <2>1, ConnectStep
  <2>2. CASE \E h \in Host : connect_to(h)
    BY <1>1, <2>2, ConnectToStep
  <2>3. CASE reconnect
    BY <1>1, <2>3, ReconnectStep
  <2>12. CASE Connecting
    BY <1>1, <2>12, ConnectingStep
  <2>4. CASE close
    BY <1>1, <2>4, ClosingOnly DEF close
  <2>5. CASE \E op \in {"send", "recv"} : Begin(op)
    BY <1>1, <2>5, BeginStep
  <2>6. CASE Transfer
    BY <1>1, <2>6, TransferStep
  <2>7. CASE \E n \in 1 .. PacketLen : writev(n)
    BY <1>1, <2>7, WritevStep
  <2>8. CASE \E n \in 1 .. PacketLen : readv(n)
    BY <1>1, <2>8, ReadvStep
  <2>9. CASE vector_fails
    BY <1>1, <2>9, ClosingOnly DEF vector_fails
  <2>10. CASE server_sends \/ server_closes \/ link_breaks \/ network_changes
    BY <1>1, <2>10, EnvironmentStep
  <2>11. CASE UNCHANGED vars
    BY <1>1, <2>11 DEF ClientInv, TypeOK, NoSocket, Linked, Positions, Connected, vars
  <2> QED
    BY <1>1, <2>1, <2>2, <2>3, <2>4, <2>5, <2>6, <2>7, <2>8, <2>9, <2>10, <2>11, <2>12, Zenon DEF Next
<1> QED
  BY <1>1, ClientInitially, PTL DEF Spec

(***************************************************************************)
(* The client owns exactly the descriptor it knows of, at every step of a  *)
(* connect and after any sequence of connects, reconnects, failed          *)
(* transfers and failures of the network (tcp_client.cpp:19-64, 97-120).   *)
(***************************************************************************)
THEOREM DescriptorsAreOwned == Spec => []NoFdLeak
<1>1. ClientInv => NoFdLeak
  BY DEF ClientInv, NoFdLeak, Linked
<1> QED
  BY <1>1, ClientInvariance, PTL

(***************************************************************************)
(* Between calls both streams are at a packet boundary, unless a result    *)
(* told the caller otherwise.                                              *)
(***************************************************************************)
THEOREM StreamsStayInStep == Spec => []StreamsInStep
<1>1. ClientInv => StreamsInStep
  <2>1. TypeOK /\ ~ told => told = FALSE
    BY Zenon DEF TypeOK
  <2> QED
    BY <2>1 DEF ClientInv, StreamsInStep, Positions
<1> QED
  BY <1>1, ClientInvariance, PTL

-----------------------------------------------------------------------------
(* The manager.                                                            *)

WaitBound(n) == (IF IndexWord % n = 0 THEN 1 ELSE 2) * (n - 1)

(***************************************************************************)
(* The inductive invariant: the turn of every client comes after so few    *)
(* more rounds of the loop that it stays within its bound even if each of  *)
(* them selects somebody else; a client without a socket does not wait.    *)
(***************************************************************************)
Turns ==
    \A i \in Ids(m_conn_count) :
        /\ ~ m_connections[i] => waited[i] = 0
        /\ \E d \in 0 .. (WaitBound(m_conn_count) - waited[i]) : Candidate(d) = i

MgrInv == MgrTypeOK /\ Turns

-----------------------------------------------------------------------------
(* When the turn of a client comes.                                        *)

LEMMA CountFacts ==
    ASSUME MgrTypeOK
    PROVE  /\ IndexWord \in Nat \ {0} /\ m_conn_count \in Nat /\ m_conn_count <= IndexWord
           /\ m_conn_index \in Nat /\ m_conn_index < IndexWord
  BY IndexWordAssumption, MaxConnsAssumption DEF MgrTypeOK

(* Client i is looked at after (i - index) % n rounds if the index does    *)
(* not wrap around before, or wraps around at a multiple of n.             *)
LEMMA TurnBeforeWrap ==
    ASSUME NEW W \in Nat \ {0}, NEW n \in Nat \ {0}, NEW x \in 0 .. (W - 1), NEW i \in 0 .. (n - 1)
    PROVE  \E e \in 0 .. (n - 1) :
              /\ x + e < W => ((x + e) % W) % n = i
              /\ W % n = 0 => ((x + e) % W) % n = i
<1>1. i - x \in Int /\ x \in Int /\ i \in Int
  OBVIOUS
<1> DEFINE e == (i - x) % n
<1>2. e \in 0 .. (n - 1)
  BY <1>1, DivMod, Zenon
<1>3. (x + e) % n = i
  <2>1. Divides(n, n)
    <3>1. n = 1 * n /\ 1 \in Int
      OBVIOUS
    <3> QED
      BY <3>1, Zenon DEF Divides
  <2>2. (e + x) % n = ((i - x) + x) % n
    BY <1>1, <2>1, ModModAdd, Zenon
  <2>3. (i - x) + x = i /\ i % n = i
    BY <1>1, ModSmall
  <2>4. e + x = x + e
    BY <1>1, <1>2
  <2> QED
    BY <2>2, <2>3, <2>4
<1> HIDE DEF e
<1>4. x + e < W => ((x + e) % W) % n = i
  <2> SUFFICES ASSUME x + e < W PROVE (x + e) % W = x + e
    BY <1>3, Zenon
  <2>1. x + e \in 0 .. (W - 1)
    BY <1>2
  <2> QED
    BY <2>1, ModSmall, Zenon
<1>5. W % n = 0 => ((x + e) % W) % n = i
  <2> SUFFICES ASSUME W % n = 0 PROVE ((x + e) % W) % n = (x + e) % n
    BY <1>3, Zenon
  <2>1. PICK q \in Int : W = n * q + (W % n)
    <3>1. W \in Int
      OBVIOUS
    <3> QED
      BY <3>1, DivMod, Zenon
  <2>2. W = q * n
    BY <2>1
  <2>3. Divides(n, W)
    BY <2>2, Zenon DEF Divides
  <2>4. x + e \in Int
    BY <1>2
  <2> QED
    BY <2>3, <2>4, ModMod, Zenon
<1> QED
  BY <1>2, <1>4, <1>5, Zenon

LEMMA WaitBoundFacts ==
    ASSUME NEW n \in Nat \ {0}
    PROVE  /\ WaitBound(n) \in Nat /\ n - 1 <= WaitBound(n)
           /\ IndexWord % n # 0 => WaitBound(n) = 2 * (n - 1)
<1>1. 1 * (n - 1) \in Nat /\ 2 * (n - 1) \in Nat
  OBVIOUS
<1> QED
  BY <1>1 DEF WaitBound

(* In any case the turn comes within two rounds of the clients.            *)
LEMMA TurnComes ==
    ASSUME NEW n \in Nat \ {0}, n <= IndexWord,
           NEW x \in 0 .. (IndexWord - 1), NEW i \in 0 .. (n - 1)
    PROVE  \E d \in 0 .. WaitBound(n) : ((x + d) % IndexWord) % n = i
<1> DEFINE W == IndexWord
<1>0. W \in Nat \ {0}
  BY IndexWordAssumption
<1> HIDE DEF W
<1>1. PICK e \in 0 .. (n - 1) :
          /\ x + e < W => ((x + e) % W) % n = i
          /\ W % n = 0 => ((x + e) % W) % n = i
  BY <1>0, TurnBeforeWrap, Zenon DEF W
<1>2. CASE x + e < W \/ W % n = 0
  <2>1. e \in 0 .. WaitBound(n)
    BY WaitBoundFacts
  <2> QED
    BY <1>1, <1>2, <2>1, Zenon DEF W
<1>3. CASE ~ (x + e < W) /\ W % n # 0
  <2> DEFINE d == (W - x) + i
  <2>1. WaitBound(n) = 2 * (n - 1)
    BY <1>3, WaitBoundFacts, Zenon DEF W
  <2>2. d \in 0 .. 2 * (n - 1) /\ x + d = i + W * 1 /\ i \in Int /\ i \in 0 .. (W - 1)
    BY <1>0, <1>3 DEF W
  <2>3. (x + d) % W = i
    <3>1. (i + W * 1) % W = i % W
      <4>1. i \in Int /\ 1 \in Int
        OBVIOUS
      <4> QED
        BY <1>0, <4>1, ModAddMultiple, Zenon
    <3>2. i % W = i
      BY <1>0, <2>2, ModSmall
    <3> QED
      BY <2>2, <3>1, <3>2
  <2>4. i % n = i
    BY ModSmall
  <2> QED
    BY <2>1, <2>2, <2>3, <2>4 DEF W
<1> QED
  BY <1>2, <1>3

-----------------------------------------------------------------------------
(* The loop.                                                               *)

LEMMA CandidateFacts ==
    ASSUME MgrTypeOK, m_conn_count > 0, NEW i \in Nat
    PROVE  Candidate(i) \in Ids(m_conn_count)
<1>1. m_conn_index + i \in Int /\ IndexWord \in Nat \ {0} /\ m_conn_count \in Nat \ {0}
  BY CountFacts
<1>2. (m_conn_index + i) % IndexWord \in Int
  BY <1>1
<1> QED
  BY <1>1, <1>2, DivMod, Zenon DEF Candidate, Ids

(* The loop stops in the first round that finds a socket, or after one     *)
(* round for each client.                                                  *)
LEMMA RoundsFacts ==
    ASSUME MgrTypeOK, m_conn_count > 0
    PROVE  /\ RoundsRun \in 1 .. m_conn_count
           /\ Hits = {} => RoundsRun = m_conn_count /\ \A i \in Ids(m_conn_count) : ~ m_connections[Candidate(i)]
           /\ Hits # {} => RoundsRun - 1 \in Hits /\ \A i \in 0 .. (RoundsRun - 2) : ~ m_connections[Candidate(i)]
<1>1. m_conn_count \in Nat /\ Hits \subseteq Ids(m_conn_count)
  BY CountFacts DEF Hits
<1>2. CASE Hits = {}
  <2>1. RoundsRun = m_conn_count
    BY <1>2 DEF RoundsRun
  <2>2. \A i \in Ids(m_conn_count) : ~ m_connections[Candidate(i)]
    BY <1>2, Zenon DEF Hits
  <2> QED
    BY <1>1, <1>2, <2>1, <2>2
<1>3. CASE Hits # {}
  <2> DEFINE h == CHOOSE i \in Hits : \A j \in Hits : i <= j
  <2>1. Hits \subseteq Nat
    BY <1>1 DEF Ids
  <2>2. h \in Hits /\ \A j \in Hits : h <= j
    <3>1. \E i \in Hits : \A j \in Hits : i <= j
      BY <1>3, <2>1, LeastElement, Zenon
    <3> QED
      BY <3>1, Zenon
  <2>3. RoundsRun = 1 + h
    BY <1>3, Zenon DEF RoundsRun
  <2> HIDE DEF h
  <2>4. h \in 0 .. (m_conn_count - 1)
    BY <1>1, <2>2, Zenon DEF Ids
  <2>5. RoundsRun \in 1 .. m_conn_count /\ RoundsRun - 1 = h
    BY <1>1, <2>3, <2>4
  <2>6. ASSUME NEW i \in 0 .. (RoundsRun - 2) PROVE ~ m_connections[Candidate(i)]
    <3>1. i \in Ids(m_conn_count) /\ ~ (h <= i)
      BY <1>1, <2>4, <2>5 DEF Ids
    <3>2. i \notin Hits
      BY <2>2, <3>1, Zenon
    <3> QED
      BY <3>1, <3>2, Zenon DEF Hits
  <2> QED
    BY <1>3, <2>2, <2>5, <2>6, Zenon
<1> QED
  BY <1>2, <1>3

(* After r rounds everybody's turn is r rounds nearer.                     *)
LEMMA TurnsApproach ==
    ASSUME MgrTypeOK, NEW r \in Nat, NEW e \in Nat
    PROVE  ((((m_conn_index + r) % IndexWord) + e) % IndexWord) % m_conn_count = Candidate(r + e)
<1>1. /\ IndexWord \in Nat \ {0} /\ m_conn_index + r \in Int /\ e \in Int
      /\ (m_conn_index + r) + e = m_conn_index + (r + e)
  BY CountFacts
<1>2. Divides(IndexWord, IndexWord)
  <2>1. IndexWord = 1 * IndexWord /\ 1 \in Int
    BY <1>1
  <2> QED
    BY <2>1, Zenon DEF Divides
<1>3. (((m_conn_index + r) % IndexWord) + e) % IndexWord = ((m_conn_index + r) + e) % IndexWord
  BY <1>1, <1>2, ModModAdd, Zenon
<1> QED
  BY <1>1, <1>3 DEF Candidate

-----------------------------------------------------------------------------
(* The invariant is inductive.                                             *)

(* Sockets come and go: nobody's wait grows.                               *)
LEMMA SocketsStep ==
    ASSUME MgrInv, NEW conns \in [Ids(m_conn_count) -> BOOLEAN], Sockets(conns),
           m_conn_count' = m_conn_count, m_conn_index' = m_conn_index
    PROVE  /\ m_connections' \in [Ids(m_conn_count) -> BOOLEAN]
           /\ waited' \in [Ids(m_conn_count) -> Nat]
           /\ Turns'
<1>1. waited \in [Ids(m_conn_count) -> Nat]
  BY DEF MgrInv, MgrTypeOK
<1>2. waited' = [i \in Ids(m_conn_count) |-> IF conns[i] THEN waited[i] ELSE 0]
  BY <1>1 DEF Sockets
<1>3. ASSUME NEW i \in Ids(m_conn_count)
      PROVE  /\ ~ conns[i] => waited'[i] = 0
             /\ \E d \in 0 .. (WaitBound(m_conn_count) - waited'[i]) : Candidate(d)' = i
  <2>1. PICK d \in 0 .. (WaitBound(m_conn_count) - waited[i]) : Candidate(d) = i
    BY Zenon DEF MgrInv, Turns
  <2>2. waited'[i] \in Nat /\ waited'[i] <= waited[i] /\ (~ conns[i] => waited'[i] = 0)
    BY <1>1, <1>2
  <2>3. d \in 0 .. (WaitBound(m_conn_count) - waited'[i])
    <3>1. WaitBound(m_conn_count) \in Nat
      <4>1. m_conn_count \in Nat \ {0}
        BY CountFacts DEF MgrInv, Ids
      <4> QED
        BY <4>1, WaitBoundFacts, Zenon
    <3>2. waited[i] \in Nat
      BY <1>1
    <3> QED
      BY <2>2, <3>1, <3>2
  <2>4. Candidate(d)' = Candidate(d)
    BY DEF Candidate
  <2> QED
    BY <2>1, <2>2, <2>3, <2>4, Zenon
<1>4. Turns'
  BY <1>3 DEF Turns, Sockets, WaitBound
<1>5. waited' \in [Ids(m_conn_count) -> Nat]
  BY <1>1, <1>2
<1> QED
  BY <1>4, <1>5 DEF Sockets

(* A new list of clients: everybody's turn is within the bound.            *)
LEMMA FreshTurns ==
    ASSUME MgrTypeOK', \A i \in Ids(m_conn_count') : waited'[i] = 0
    PROVE  Turns'
<1>1. ASSUME NEW i \in Ids(m_conn_count')
      PROVE  \E d \in 0 .. (WaitBound(m_conn_count') - 0) : Candidate(d)' = i
  <2>1. /\ IndexWord \in Nat \ {0} /\ m_conn_count' \in Nat \ {0} /\ m_conn_count' <= IndexWord
        /\ m_conn_index' \in 0 .. (IndexWord - 1) /\ i \in 0 .. (m_conn_count' - 1)
    <3>1. /\ m_conn_count' \in 0 .. MaxConns /\ m_conn_index' \in 0 .. (IndexWord - 1)
          /\ i \in 0 .. (m_conn_count' - 1)
      BY Zenon DEF MgrTypeOK, Ids
    <3>2. IndexWord \in Nat \ {0} /\ m_conn_count' \in Nat /\ m_conn_count' <= IndexWord
      BY <3>1, IndexWordAssumption, MaxConnsAssumption
    <3>3. m_conn_count' # 0
      <4> SUFFICES ASSUME m_conn_count' = 0 PROVE FALSE
        OBVIOUS
      <4>1. i \in 0 .. (0 - 1)
        BY <3>1, Zenon
      <4> QED
        BY <4>1
    <3> QED
      BY <3>1, <3>2, <3>3
  <2>2. PICK d \in 0 .. WaitBound(m_conn_count') : ((m_conn_index' + d) % IndexWord) % m_conn_count' = i
    BY <2>1, TurnComes, Zenon
  <2>3. WaitBound(m_conn_count') \in Nat
    BY <2>1, WaitBoundFacts, Zenon
  <2>4. d \in 0 .. (WaitBound(m_conn_count') - 0)
    BY <2>2, <2>3
  <2> QED
    BY <2>2, <2>4 DEF Candidate
<1> QED
  BY <1>1 DEF Turns, WaitBound

LEMMA SelectStep ==
    ASSUME MgrInv, select_connection
    PROVE  MgrInv'
<1> DEFINE n == m_conn_count
           r == RoundsRun
<1>0. MgrTypeOK /\ n > 0 /\ n \in Nat \ {0} /\ IndexWord \in Nat \ {0} /\ m_conn_index \in Nat
  BY CountFacts DEF MgrInv, select_connection
<1>1. /\ waited \in [Ids(n) -> Nat] /\ m_connections \in [Ids(n) -> BOOLEAN]
      /\ \A i \in Ids(n) : ~ m_connections[i] => waited[i] = 0
  BY DEF MgrInv, MgrTypeOK, Turns
<1>2. /\ r \in 1 .. n
      /\ Hits = {} => r = n /\ \A i \in Ids(n) : ~ m_connections[Candidate(i)]
      /\ Hits # {} => r - 1 \in Hits /\ \A i \in 0 .. (r - 2) : ~ m_connections[Candidate(i)]
  BY <1>0, RoundsFacts, Zenon
<1>3. /\ m_conn_count' = n /\ m_connections' = m_connections /\ m_send_type' = m_send_type
      /\ m_conn_index' = (m_conn_index + r) % IndexWord
      /\ sel' = IF Hits = {} THEN -1 ELSE Candidate(r - 1)
      /\ waited' = [i \in Ids(n) |-> IF sel' = -1 THEN waited[i]
                                     ELSE IF i = sel' \/ ~ m_connections[i] THEN 0 ELSE waited[i] + 1]
  BY DEF select_connection, NextIndex
<1> HIDE DEF n, r
<1>4. sel' \in -1 .. (n - 1) /\ (sel' = -1 <=> Hits = {})
  <2>1. CASE Hits = {}
    BY <1>0, <1>3, <2>1
  <2>2. CASE Hits # {}
    <3>1. r - 1 \in Nat
      BY <1>2
    <3>2. Candidate(r - 1) \in Ids(n)
      BY <1>0, <3>1, CandidateFacts, Zenon DEF n
    <3> QED
      BY <1>0, <1>3, <2>2, <3>2 DEF Ids
  <2> QED
    BY <2>1, <2>2
<1>5. m_conn_index' \in 0 .. (IndexWord - 1)
  <2>1. m_conn_index + r \in Int
    BY <1>0, <1>2
  <2> QED
    BY <1>0, <1>3, <2>1, DivMod, Zenon
<1>6. waited' \in [Ids(n) -> Nat]
  BY <1>1, <1>3
<1>7. wrapped' \in BOOLEAN
  BY DEF select_connection
<1>8. MgrTypeOK'
  BY <1>1, <1>3, <1>4, <1>5, <1>6, <1>7 DEF MgrInv, MgrTypeOK, n
<1>9. ASSUME NEW i \in Ids(n)
      PROVE  /\ ~ m_connections[i] => waited'[i] = 0
             /\ \E d \in 0 .. (WaitBound(n) - waited'[i]) : Candidate(d)' = i
  <2>1. CASE waited'[i] = 0
    <3>1. \E d \in 0 .. (WaitBound(n) - 0) : Candidate(d)' = i
      <4>1. /\ m_conn_index' \in 0 .. (IndexWord - 1) /\ n <= IndexWord /\ i \in 0 .. (n - 1)
            /\ m_conn_count' = n
        BY <1>0, <1>3, <1>5, CountFacts DEF Ids, n
      <4>2. PICK d \in 0 .. WaitBound(n) : ((m_conn_index' + d) % IndexWord) % n = i
        BY <1>0, <4>1, TurnComes, Zenon
      <4>3. WaitBound(n) \in Nat
        BY <1>0, WaitBoundFacts, Zenon
      <4>4. d \in 0 .. (WaitBound(n) - 0)
        BY <4>2, <4>3
      <4> QED
        BY <1>3, <4>2, <4>4 DEF Candidate
    <3> QED
      BY <2>1, <3>1, Zenon
  <2>2. CASE waited'[i] # 0
    <3>1. m_connections[i]
      BY <1>1, <1>3, <2>2
    <3>2. PICK d \in 0 .. (WaitBound(n) - waited[i]) : Candidate(d) = i
      BY Zenon DEF MgrInv, Turns, n
    <3>3. d >= r
      <4> SUFFICES ASSUME d < r PROVE FALSE
        BY <1>2, <3>2
      <4>1. CASE Hits = {}
        <5>1. d \in Ids(n)
          BY <1>2, <4>1 DEF Ids
        <5> QED
          BY <1>2, <3>1, <3>2, <4>1, <5>1, Zenon
      <4>2. CASE Hits # {} /\ d < r - 1
        <5>1. d \in 0 .. (r - 2)
          BY <1>2, <4>2
        <5> QED
          BY <1>2, <3>1, <3>2, <4>2, <5>1, Zenon
      <4>3. CASE Hits # {} /\ d = r - 1
        <5>1. i = sel' /\ sel' # -1
          BY <1>3, <1>4, <3>2, <4>3, Zenon
        <5>2. waited'[i] = 0
          BY <1>3, <5>1, Zenon
        <5> QED
          BY <2>2, <5>2
      <4> QED
        BY <1>2, <4>1, <4>2, <4>3
    <3>4. PICK e \in Nat : d = r + e
      <4>1. d - r \in Nat /\ d = r + (d - r)
        BY <1>2, <3>3
      <4> QED
        BY <4>1, Zenon
    <3>5. Candidate(e)' = i
      <4>1. r \in Nat
        BY <1>2
      <4> QED
        BY <1>0, <1>3, <3>2, <3>4, <4>1, TurnsApproach DEF n, Candidate
    <3>6. e \in 0 .. (WaitBound(n) - waited'[i])
      <4>1. waited[i] \in Nat /\ waited'[i] \in Nat /\ waited'[i] <= waited[i] + 1
        BY <1>1, <1>3, <1>6
      <4>2. WaitBound(n) \in Nat
        BY <1>0, WaitBoundFacts, Zenon
      <4> QED
        BY <1>2, <3>4, <4>1, <4>2
    <3> QED
      BY <3>1, <3>5, <3>6, Zenon
  <2> QED
    BY <2>1, <2>2
<1>10. Turns'
  BY <1>3, <1>9 DEF Turns, WaitBound
<1> QED
  BY <1>8, <1>10 DEF MgrInv

LEMMA MgrInitInv == MgrInit => MgrInv
<1> SUFFICES ASSUME MgrInit PROVE MgrInv
  OBVIOUS
<1>1. Ids(0) = {} /\ << >> \in [{} -> BOOLEAN] /\ << >> \in [{} -> Nat]
  BY DEF Ids
<1>2. MgrTypeOK
  <2>1. 0 \in 0 .. MaxConns /\ 0 \in 0 .. (IndexWord - 1) /\ -1 \in -1 .. (0 - 1)
    BY IndexWordAssumption, MaxConnsAssumption
  <2> QED
    BY <1>1, <2>1 DEF MgrInit, MgrTypeOK
<1> QED
  BY <1>1, <1>2 DEF MgrInit, Turns, MgrInv

LEMMA MgrNextInv == MgrInv /\ [MgrNext]_mgrVars => MgrInv'
<1> SUFFICES ASSUME MgrInv, [MgrNext]_mgrVars PROVE MgrInv'
  OBVIOUS
<1>0. /\ m_conn_count \in 0 .. MaxConns /\ m_conn_index \in 0 .. (IndexWord - 1)
      /\ m_connections \in [Ids(m_conn_count) -> BOOLEAN]
      /\ m_send_type \in {0, 1}
      /\ sel \in -1 .. (m_conn_count - 1) /\ wrapped \in BOOLEAN
      /\ waited \in [Ids(m_conn_count) -> Nat]
  BY Zenon DEF MgrInv, MgrTypeOK
<1>1. CASE UNCHANGED mgrVars
  BY <1>1 DEF mgrVars, MgrInv, MgrTypeOK, Turns, Candidate
<1>2. ASSUME NEW conns \in [Ids(m_conn_count) -> BOOLEAN], Sockets(conns),
             UNCHANGED <<m_conn_count, m_conn_index, m_send_type, last>>
      PROVE  MgrInv'
  <2>1. /\ m_connections' \in [Ids(m_conn_count) -> BOOLEAN]
        /\ waited' \in [Ids(m_conn_count) -> Nat]
        /\ Turns'
    BY <1>2, SocketsStep, Zenon
  <2>2. MgrTypeOK'
    BY <1>0, <1>2, <2>1 DEF last, MgrTypeOK
  <2> QED
    BY <2>1, <2>2 DEF MgrInv
<1>3. ASSUME NEW k \in 0 .. MaxConns, NEW send_type \in {0, 1, 2}, init(k, send_type) PROVE MgrInv'
  <2>1. PICK conns \in [Ids(k) -> BOOLEAN] : Sockets(conns)
    BY <1>3 DEF init
  <2>2. DOMAIN waited = {}
    BY <1>0, <1>3 DEF init, Ids
  <2>3. m_connections' = conns /\ waited' = [i \in Ids(k) |-> 0]
    BY <2>1, <2>2 DEF Sockets
  <2>4. MgrTypeOK'
    BY <1>0, <1>3, <2>3, MaxConnsAssumption DEF init, last, MgrTypeOK
  <2>5. Turns'
    BY <1>3, <2>3, <2>4, FreshTurns DEF init
  <2> QED
    BY <2>4, <2>5 DEF MgrInv
<1>4. CASE uninit
  <2>1. Ids(0) = {} /\ << >> \in [{} -> BOOLEAN] /\ m_connections' = << >>
        /\ DOMAIN << >> = {} /\ waited' \in [{} -> Nat]
    BY <1>4 DEF uninit, Sockets, Ids
  <2>2. MgrTypeOK'
    <3>1. 0 \in 0 .. MaxConns /\ 0 \in 0 .. (IndexWord - 1) /\ -1 \in -1 .. (0 - 1)
      BY IndexWordAssumption, MaxConnsAssumption
    <3> QED
      BY <1>0, <1>4, <2>1, <3>1 DEF uninit, MgrTypeOK
  <2> QED
    BY <1>4, <2>1, <2>2 DEF uninit, Turns, MgrInv
<1>5. CASE check_connection
  BY <1>2, <1>5, Zenon DEF check_connection
<1>6. ASSUME NEW id \in 0 .. MaxConns, close_connection(id) PROVE MgrInv'
  <2>1. [i \in Ids(m_conn_count) |-> i # id /\ m_connections[i]] \in [Ids(m_conn_count) -> BOOLEAN]
    BY <1>0
  <2> QED
    BY <1>2, <1>6, <2>1, Zenon DEF close_connection
<1>7. ASSUME NEW id \in 0 .. MaxConns, transfer(id) PROVE MgrInv'
  <2>1. PICK alive \in BOOLEAN : Sockets([m_connections EXCEPT ![id] = @ /\ alive])
    BY <1>7, Zenon DEF transfer
  <2>2. [m_connections EXCEPT ![id] = @ /\ alive] \in [Ids(m_conn_count) -> BOOLEAN]
    BY <1>0
  <2> QED
    BY <1>2, <1>7, <2>1, <2>2, Zenon DEF transfer
<1> QED
  BY <1>1, <1>3, <1>4, <1>5, <1>6, <1>7, SelectStep, Zenon DEF MgrNext, init_refused

(* The invariant holds in every reachable state.                           *)
THEOREM MgrInvariance == MgrSpec => []MgrInv
  BY MgrInitInv, MgrNextInv, PTL DEF MgrSpec

(* Selection balances the load: a client with a socket is passed over by   *)
(* at most one round of selections of the others, or two where the wrap of *)
(* the index comes between (tcp_client_mgr.cpp:107-115).                   *)
THEOREM LoadIsBalanced == MgrSpec => []BoundedWait
<1>1. MgrInv => BoundedWait
  <2> SUFFICES ASSUME MgrInv, NEW i \in Ids(m_conn_count)
               PROVE  waited[i] <= WaitBound(m_conn_count)
    BY DEF MgrInv, BoundedWait, WaitBound
  <2>1. PICK d \in 0 .. (WaitBound(m_conn_count) - waited[i]) : Candidate(d) = i
    BY Zenon DEF MgrInv, Turns
  <2>2. m_conn_count \in Nat \ {0}
    BY CountFacts DEF MgrInv, Ids
  <2>3. WaitBound(m_conn_count) \in Nat /\ waited[i] \in Nat
    BY <2>2, WaitBoundFacts DEF MgrInv, MgrTypeOK
  <2> QED
    BY <2>1, <2>3
<1> QED
  BY MgrInvariance, <1>1, PTL

(* Selection fails only when every connection is lost, as its log line     *)
(* says, except where the index wraps around inside the loop               *)
(* (tcp_client_mgr.cpp:110-118).                                           *)
THEOREM FailureIsExplained == MgrSpec => FailureExplained
<1>1. MgrInv /\ [MgrNext]_mgrVars =>
         [select_connection /\ sel' = -1 =>
             AllLost \/ (wrapped' /\ IndexWord % m_conn_count # 0)]_mgrVars
  <2> SUFFICES ASSUME MgrInv, select_connection, sel' = -1,
                      ~ (wrapped' /\ IndexWord % m_conn_count # 0)
               PROVE  AllLost
    BY Zenon
  <2>0. MgrTypeOK /\ m_conn_count \in Nat \ {0} /\ m_conn_count > 0 /\ IndexWord \in Nat \ {0}
        /\ m_conn_index \in 0 .. (IndexWord - 1)
    BY CountFacts DEF MgrInv, select_connection
  <2>1. Hits = {}
    <3> SUFFICES ASSUME Hits # {} PROVE FALSE
      OBVIOUS
    <3>1. RoundsRun - 1 \in Nat
      BY <2>0, RoundsFacts
    <3>2. Candidate(RoundsRun - 1) \in Ids(m_conn_count)
      BY <2>0, <3>1, CandidateFacts, Zenon
    <3> QED
      BY <2>0, <3>2 DEF select_connection, Ids
  <2>2. RoundsRun = m_conn_count /\ \A e \in Ids(m_conn_count) : ~ m_connections[Candidate(e)]
    BY <2>0, <2>1, RoundsFacts, Zenon
  <2>3. IndexWord % m_conn_count = 0 \/ m_conn_index + m_conn_count <= IndexWord
    <3>1. IndexWord % m_conn_count = 0 \/ ~ (m_conn_index + m_conn_count > IndexWord)
      BY <2>2, Zenon DEF select_connection
    <3> QED
      BY <2>0, <3>1
  <2>4. ASSUME NEW i \in Ids(m_conn_count) PROVE ~ m_connections[i]
    <3>1. i \in 0 .. (m_conn_count - 1)
      BY DEF Ids
    <3>2. PICK e \in 0 .. (m_conn_count - 1) :
              /\ m_conn_index + e < IndexWord => Candidate(e) = i
              /\ IndexWord % m_conn_count = 0 => Candidate(e) = i
      BY <2>0, <3>1, TurnBeforeWrap, Zenon DEF Candidate
    <3>3. Candidate(e) = i
      BY <2>0, <2>3, <3>2
    <3> QED
      BY <2>2, <3>2, <3>3 DEF Ids
  <2> QED
    BY <2>4 DEF AllLost
<1> QED
  BY MgrInvariance, <1>1, PTL DEF MgrSpec, FailureExplained
=============================================================================
