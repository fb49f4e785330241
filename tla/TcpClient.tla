----------------------------- MODULE TcpClient -----------------------------
(***************************************************************************)
(* TcpClient (tcp_client.h, tcp_client.cpp): a blocking TCP client with    *)
(* send and receive timeouts, used by one thread.                          *)
(*                                                                         *)
(* The network is the environment: an address may become reachable or not, *)
(* a name may stop resolving, the server may close the connection, and the *)
(* connection may break, also between the steps of a connect.  A connect   *)
(* to an address that is up succeeds.                                      *)
(* Callers exchange packets of PacketLen bytes.  frag counts the bytes of  *)
(* an incomplete packet that the server holds, rpos those that the client  *)
(* has taken of an incomplete packet of the server's.                      *)
(***************************************************************************)
EXTENDS Integers, Sequences

CONSTANTS Host, Addr, NoHost, NoAddr,
          addrs_of,    \* the addresses a name resolves to, in order
          Fd,          \* the descriptors socket() hands out
          PacketLen,
          MaxErrors    \* bound on failures of socket() and setsockopt()

ASSUME AddrsAssumption == addrs_of \in [Host -> Seq(Addr)]
ASSUME PacketLenAssumption == PacketLen \in Nat \ {0}
ASSUME ErrorsAssumption == MaxErrors \in Nat

VARIABLES
    m_fd,       \* {} or the set of its one descriptor
    m_str_host, \* the name last given to connect, with its port
    m_ip,
    fds,        \* the descriptors the process has open
    link,       \* "none", "up", "closed" by the server, or "broken"
    unread,     \* the socket holds bytes of the server's
    up,         \* the addresses that accept connections
    dns,        \* the names that resolve
    pc,         \* "idle", inside "send" or "recv", or in a connect: before the
                \* "next" address, before "socket", or with a socket to "connect"
    rest,       \* the addresses connect_host has still to try
    errors,     \* failures of socket() and setsockopt() so far
    done,       \* bytes that call has transferred
    frag, rpos, \* the positions in the two streams, see above
    told        \* the caller was told that a transfer is incomplete

vars    == <<m_fd, m_str_host, m_ip, fds, link, unread, up, dns, pc, rest, errors,
             done, frag, rpos, told>>
names   == <<m_str_host, m_ip>>
socket  == <<m_fd, fds, link, unread>>
streams == <<frag, rpos, told>>
attempt == <<rest, errors>>
network == <<up, dns>>

\* the two constructors: without an address, or with one
Init ==
    /\ m_fd = {} /\ fds = {} /\ link = "none" /\ unread = FALSE
    /\ m_str_host = NoHost /\ m_ip \in Addr \cup {NoAddr}
    /\ up = Addr /\ dns = Host
    /\ pc = "idle" /\ rest = << >> /\ errors = 0 /\ done = 0
    /\ frag = 0 /\ rpos = 0 /\ told = FALSE

Connected == m_fd # {}

\* what close() does to the socket, and so to the streams
CloseEffect ==
    /\ m_fd' = {} /\ fds' = fds \ m_fd
    /\ link' = "none" /\ unread' = FALSE
    /\ frag' = 0 /\ rpos' = 0 /\ told' = FALSE

-----------------------------------------------------------------------------
(* Connecting.                                                             *)

\* connect() without a socket; with one it returns that socket
connect ==
    /\ pc = "idle" /\ ~ Connected /\ m_ip # NoAddr
    /\ pc' = "socket"
    /\ UNCHANGED <<names, socket, network, attempt, done, streams>>

\* connect_host() up to its loop over the addresses
Resolve(h) ==
    IF h # NoHost /\ h \in dns /\ addrs_of[h] # << >>
    THEN pc' = "next" /\ rest' = addrs_of[h]
    ELSE UNCHANGED <<pc, rest>>

connect_to(h) ==
    /\ pc = "idle"
    /\ m_str_host' = h
    /\ Resolve(h)
    /\ UNCHANGED <<m_ip, socket, network, errors, done, streams>>

\* the peek finds a byte, or would have to wait for one
is_real_alive == Connected /\ (unread \/ link = "up")

\* mutant: the dead socket is kept, so connect returns it
reconnect_NoClose ==
    /\ pc = "idle" /\ ~ is_real_alive
    /\ Resolve(m_str_host)
    /\ UNCHANGED <<names, socket, network, errors, done, streams>>

\* a socket that is not alive is closed, then connect_host
reconnect ==
    /\ pc = "idle" /\ ~ is_real_alive
    /\ CloseEffect
    /\ Resolve(m_str_host)
    /\ UNCHANGED <<names, network, errors, done>>

\* the next address becomes m_ip; if a socket is open already, connect
\* returns that socket and the loop ends
next_address ==
    /\ pc = "next" /\ rest # << >>
    /\ m_ip' = Head(rest)
    /\ IF Connected THEN pc' = "idle" /\ rest' = << >>
                    ELSE pc' = "socket" /\ rest' = Tail(rest)
    /\ UNCHANGED <<m_str_host, socket, network, errors, done, streams>>

socket_created ==
    /\ pc = "socket"
    /\ \E fd \in Fd \ fds : m_fd' = {fd} /\ fds' = fds \cup {fd}
    /\ pc' = "connect"
    /\ UNCHANGED <<names, link, unread, network, attempt, done, streams>>

\* mutant: connect_host does not try another address
AddressFailed_GivesUp == pc' = "idle" /\ rest' = << >>

\* connect() has failed: the loop of connect_host goes on
AddressFailed == pc' = (IF rest = << >> THEN "idle" ELSE "next") /\ UNCHANGED rest

Error == errors < MaxErrors /\ errors' = errors + 1

socket_fails ==
    /\ pc = "socket" /\ Error
    /\ AddressFailed
    /\ UNCHANGED <<names, socket, network, done, streams>>

connect_succeeds ==
    /\ pc = "connect" /\ m_ip \in up
    /\ link' = "up" /\ unread' = FALSE
    /\ pc' = "idle" /\ rest' = << >>
    /\ UNCHANGED <<names, m_fd, fds, network, errors, done, streams>>

\* mutant: the socket that was not connected is kept
connect_fails_KeepsSocket ==
    /\ pc = "connect"
    /\ \/ m_ip \notin up /\ UNCHANGED errors
       \/ Error
    /\ AddressFailed
    /\ UNCHANGED <<names, socket, network, done, streams>>

\* the address does not accept, or an option cannot be set: close()
connect_fails ==
    /\ pc = "connect"
    /\ \/ m_ip \notin up /\ UNCHANGED errors
       \/ Error
    /\ CloseEffect
    /\ AddressFailed
    /\ UNCHANGED <<names, network, done>>

close ==
    /\ pc = "idle" /\ Connected
    /\ CloseEffect
    /\ UNCHANGED <<names, network, pc, attempt, done>>

-----------------------------------------------------------------------------
(* Transfers.  send and recv loop over the system call; EINTR repeats it.  *)

Begin(op) ==
    /\ pc = "idle" /\ Connected
    /\ pc' = op /\ done' = 0
    /\ UNCHANGED <<names, socket, network, attempt, streams>>

\* the loop ends when PacketLen bytes have been transferred
Finish(n) ==
    IF n >= PacketLen THEN pc' = "idle" /\ done' = 0 ELSE pc' = pc /\ done' = n

send_some(n) ==
    /\ pc = "send" /\ done + n <= PacketLen
    /\ frag' = (frag + n) % PacketLen
    /\ Finish(done + n)
    /\ UNCHANGED <<names, socket, network, attempt, rpos, told>>

\* mutant: a timeout in the middle of a packet is only reported
send_timeout_KeepsSocket ==
    /\ pc = "send"
    /\ pc' = "idle" /\ done' = 0
    /\ UNCHANGED <<names, socket, network, attempt, streams>>

\* nothing sent yet: the timeout is reported; in the middle of a packet the
\* socket is closed, so that the server drops the fragment
send_timeout ==
    /\ pc = "send"
    /\ pc' = "idle" /\ done' = 0
    /\ IF done = 0 THEN UNCHANGED <<socket, streams>> ELSE CloseEffect
    /\ UNCHANGED <<names, network, attempt>>

recv_some(n) ==
    /\ pc = "recv" /\ unread /\ done + n <= PacketLen
    /\ unread' \in BOOLEAN
    /\ rpos' = (rpos + n) % PacketLen
    /\ Finish(done + n)
    /\ UNCHANGED <<names, m_fd, fds, link, network, attempt, frag, told>>

\* the caller gets 0 and loses the bytes already taken
recv_timeout ==
    /\ pc = "recv" /\ link = "up" /\ ~ unread
    /\ pc' = "idle" /\ done' = 0 /\ told' = TRUE
    /\ UNCHANGED <<names, socket, network, attempt, frag, rpos>>

\* any other error, or the end of the server's stream
transfer_fails ==
    /\ pc \in {"send", "recv"} /\ (pc = "recv" => link # "up" /\ ~ unread)
    /\ pc' = "idle" /\ done' = 0
    /\ CloseEffect
    /\ UNCHANGED <<names, network, attempt>>

\* one system call that transfers n bytes; the caller compares the result
writev(n) ==
    /\ pc = "idle" /\ Connected /\ n <= PacketLen
    /\ frag' = (frag + n) % PacketLen
    /\ told' = (told \/ n < PacketLen)
    /\ UNCHANGED <<names, socket, network, attempt, pc, done, rpos>>

readv(n) ==
    /\ pc = "idle" /\ Connected /\ unread /\ n <= PacketLen
    /\ unread' \in BOOLEAN
    /\ rpos' = (rpos + n) % PacketLen
    /\ told' = (told \/ n < PacketLen)
    /\ UNCHANGED <<names, m_fd, fds, link, network, attempt, pc, done, frag>>

\* EINTR closes here, unlike in send and recv; a timeout changes nothing
vector_fails ==
    /\ pc = "idle" /\ Connected
    /\ CloseEffect
    /\ UNCHANGED <<names, network, attempt, pc, done>>

-----------------------------------------------------------------------------
(* The environment.                                                        *)

server_sends ==
    /\ link = "up" /\ ~ unread /\ unread' = TRUE
    /\ UNCHANGED <<m_fd, fds, link, names, network, attempt, pc, done, streams>>

server_closes ==
    /\ link = "up" /\ link' = "closed"
    /\ UNCHANGED <<m_fd, fds, unread, names, network, attempt, pc, done, streams>>

\* a reset discards what the socket held
link_breaks ==
    /\ link \in {"up", "closed"} /\ link' = "broken" /\ unread' = FALSE
    /\ UNCHANGED <<m_fd, fds, names, network, attempt, pc, done, streams>>

network_changes ==
    /\ \/ \E a \in Addr : up' = (IF a \in up THEN up \ {a} ELSE up \cup {a}) /\ UNCHANGED dns
       \/ \E h \in Host : dns' = (IF h \in dns THEN dns \ {h} ELSE dns \cup {h}) /\ UNCHANGED up
    /\ UNCHANGED <<names, socket, pc, attempt, done, streams>>

-----------------------------------------------------------------------------
Transfer ==
    \/ \E n \in 1 .. PacketLen : send_some(n)
    \/ send_timeout
    \/ \E n \in 1 .. PacketLen : recv_some(n)
    \/ recv_timeout
    \/ transfer_fails

Connecting ==
    \/ next_address
    \/ socket_created
    \/ socket_fails
    \/ connect_succeeds
    \/ connect_fails

Next ==
    \/ connect
    \/ \E h \in Host : connect_to(h)
    \/ reconnect
    \/ Connecting
    \/ close
    \/ \E op \in {"send", "recv"} : Begin(op)
    \/ Transfer
    \/ \E n \in 1 .. PacketLen : writev(n)
    \/ \E n \in 1 .. PacketLen : readv(n)
    \/ vector_fails
    \/ server_sends
    \/ server_closes
    \/ link_breaks
    \/ network_changes

Spec == Init /\ [][Next]_vars

(***************************************************************************)
(* The socket timeouts end every blocking call, and the caller runs its    *)
(* check again and again between its other calls, as the class comment     *)
(* asks (tcp_client.h:20).  The check is reconnect: is_real_alive changes  *)
(* nothing.                                                                *)
(***************************************************************************)
FairSpec ==
    /\ Spec
    /\ WF_vars(Transfer)
    /\ WF_vars(Connecting)
    /\ SF_vars(reconnect)

-----------------------------------------------------------------------------
TypeOK ==
    /\ m_fd \subseteq Fd /\ fds \subseteq Fd
    /\ m_str_host \in Host \cup {NoHost} /\ m_ip \in Addr \cup {NoAddr}
    /\ link \in {"none", "up", "closed", "broken"}
    /\ unread \in BOOLEAN
    /\ up \subseteq Addr /\ dns \subseteq Host
    /\ pc \in {"idle", "send", "recv", "next", "socket", "connect"}
    /\ rest \in Seq(Addr) /\ errors \in 0 .. MaxErrors
    /\ done \in 0 .. (PacketLen - 1)
    /\ frag \in 0 .. (PacketLen - 1) /\ rpos \in 0 .. (PacketLen - 1)
    /\ told \in BOOLEAN

(***************************************************************************)
(* The types hold, the client owns exactly the descriptor it knows of, at  *)
(* every step of a connect too, and between calls that is a socket which   *)
(* has been connected: no failing socket option, connect or transfer       *)
(* leaves one behind, over all addresses of a name (tcp_client.cpp:19-64,  *)
(* 97-120, tcp_client.h:79-114).                                           *)
(***************************************************************************)
NoFdLeak ==
    /\ TypeOK
    /\ fds = m_fd
    /\ pc = "idle" => (Connected <=> link # "none")

(***************************************************************************)
(* Between calls, as long as no result told the caller otherwise, both     *)
(* streams of an open connection are at a packet boundary: send closes the *)
(* socket rather than leave a fragment at the server (tcp_client.cpp:      *)
(* 149-167, 258-272).                                                      *)
(***************************************************************************)
StreamsInStep == pc = "idle" /\ Connected /\ ~ told => frag = 0 /\ rpos = 0

(***************************************************************************)
(* If reconnect is called again and again, a socket stays for ever with a  *)
(* connection that the server has closed only if it holds bytes that       *)
(* nobody reads: the peek then finds one and takes the connection for      *)
(* alive (tcp_client.cpp:283-309, tcp_client.h:79-89).  The class comment  *)
(* promises more: that a periodic call of reconnect or of is_real_alive    *)
(* makes sure "that the socket is closed in time" (tcp_client.h:20-22).    *)
(* is_real_alive closes nothing, so a caller that only calls it keeps the  *)
(* socket in CLOSE_WAIT for good; this property is about reconnect alone.  *)
(***************************************************************************)
ReconnectEndsCloseWait == <>[](link = "closed") => <>[]unread

(***************************************************************************)
(* A client whose connection is dead or was never made gets connected, by  *)
(* a new connection, once one address of the name it was given stays up    *)
(* and the name resolves: whatever happens to the other addresses between  *)
(* one attempt and the next, connect_host tries the address that is up     *)
(* (tcp_client.cpp:97-120, tcp_client.h:79-89).  A socket that is dead, or *)
(* still connected to the server of an earlier name, does not count as a   *)
(* recovery.                                                               *)
(***************************************************************************)
Recovers ==
    \A h \in Host : \A i \in DOMAIN addrs_of[h] :
        LET Reachable == m_str_host = h /\ h \in dns /\ addrs_of[h][i] \in up
        IN  (Reachable /\ ~ is_real_alive) ~> (link = "up" \/ ~ Reachable)

=============================================================================
