---------------------------- MODULE TcpClientMgr ----------------------------
(***************************************************************************)
(* TcpClientMgr (tcp_client_mgr.h, tcp_client_mgr.cpp): a list of clients, *)
(* among which select_connection chooses round robin, in one thread.       *)
(*                                                                         *)
(* A client is the one of TcpClient.tla; all that the manager sees of it   *)
(* is is_alive, that is, whether it has a socket.  m_conn_index is an      *)
(* unsigned int that is never reduced: it wraps around at IndexWord.       *)
(***************************************************************************)
EXTENDS Integers

CONSTANTS IndexWord,  \* the values of an unsigned int: 2^32 in the build
          MaxConns    \* the most entries in a host list

ASSUME IndexWordAssumption == IndexWord \in Nat \ {0}
ASSUME MaxConnsAssumption  == MaxConns \in 0 .. IndexWord

VARIABLES
    m_conn_count, m_conn_index,
    m_connections,  \* of each client: whether it has a socket
    m_send_type,
    sel,            \* the id that the last selection returned, or -1
    wrapped,        \* history: m_conn_index wrapped around inside its loop
    waited          \* history, of each client: how often others were selected
                    \* since it got a socket or was selected itself

mgrVars == <<m_conn_count, m_conn_index, m_connections, m_send_type, sel, wrapped, waited>>
last == <<sel, wrapped>>

Ids(count) == 0 .. (count - 1)

\* the clients have the sockets conns now; one without a socket does not wait
Sockets(conns) ==
    /\ m_connections' = conns
    /\ waited' = [i \in DOMAIN conns |->
                     IF i \in DOMAIN waited /\ conns[i] THEN waited[i] ELSE 0]

MgrInit ==
    /\ m_conn_count = 0 /\ m_conn_index = 0 /\ m_connections = << >>
    /\ m_send_type = 0
    /\ sel = -1 /\ wrapped = FALSE /\ waited = << >>

-----------------------------------------------------------------------------
\* a manager with clients is left alone (return 0), an empty list is refused
init_refused == UNCHANGED mgrVars

\* n entries of the list are well formed, the others are skipped; each gets a
\* client, connected or not
init(n, send_type) ==
    /\ m_conn_count = 0
    /\ m_send_type' = IF send_type \in {0, 1} THEN send_type ELSE 1
    /\ m_conn_count' = n
    /\ \E conns \in [Ids(n) -> BOOLEAN] : Sockets(conns)
    /\ UNCHANGED <<m_conn_index, last>>

uninit ==
    /\ Sockets(<< >>) /\ m_conn_count' = 0 /\ m_conn_index' = 0
    /\ sel' = -1 /\ wrapped' = FALSE
    /\ UNCHANGED m_send_type

\* every client that is not really alive is closed and connected again, with
\* or without success; is_alive may have been wrong about any of them
check_connection ==
    /\ \E conns \in [Ids(m_conn_count) -> BOOLEAN] : Sockets(conns)
    /\ UNCHANGED <<m_conn_count, m_conn_index, m_send_type, last>>

\* an id out of range is ignored
close_connection(id) ==
    /\ Sockets([i \in Ids(m_conn_count) |-> i # id /\ m_connections[i]])
    /\ UNCHANGED <<m_conn_count, m_conn_index, m_send_type, last>>

-----------------------------------------------------------------------------
\* the client that the loop looks at in its round i
Candidate(i) == ((m_conn_index + i) % IndexWord) % m_conn_count

\* mutant: one client too few is looked at
Hits_OneShort == {i \in Ids(m_conn_count - 1) : m_connections[Candidate(i)]}

\* the rounds in which the loop would find a client with a socket
Hits == {i \in Ids(m_conn_count) : m_connections[Candidate(i)]}

\* the rounds the loop runs: it stops at the first hit
RoundsRun ==
    IF Hits = {} THEN m_conn_count ELSE 1 + CHOOSE i \in Hits : \A j \in Hits : i <= j

\* mutant: the loop counts with a copy of the index
NextIndex_Local == m_conn_index

\* every round has moved the index
NextIndex == (m_conn_index + RoundsRun) % IndexWord

\* select_connection, and get_available_connection, which is the same loop
select_connection ==
    /\ m_conn_count > 0
    /\ sel' = IF Hits = {} THEN -1 ELSE Candidate(RoundsRun - 1)
    /\ m_conn_index' = NextIndex
    /\ wrapped' = (m_conn_index + RoundsRun > IndexWord)
    /\ waited' = [i \in Ids(m_conn_count) |->
                     IF sel' = -1 THEN waited[i]
                     ELSE IF i = sel' \/ ~ m_connections[i] THEN 0 ELSE waited[i] + 1]
    /\ UNCHANGED <<m_conn_count, m_connections, m_send_type>>

\* send, recv, writev and readv, on the id given or on the one just selected:
\* an error closes the client's socket; an id out of range gives -2
transfer(id) ==
    /\ id \in Ids(m_conn_count)
    /\ \E alive \in BOOLEAN :
          Sockets([m_connections EXCEPT ![id] = @ /\ alive])
    /\ UNCHANGED <<m_conn_count, m_conn_index, m_send_type, last>>

-----------------------------------------------------------------------------
MgrNext ==
    \/ init_refused
    \/ \E n \in 0 .. MaxConns, send_type \in {0, 1, 2} : init(n, send_type)
    \/ uninit
    \/ check_connection
    \/ \E id \in 0 .. MaxConns : close_connection(id)
    \/ select_connection
    \/ \E id \in 0 .. MaxConns : transfer(id)

MgrSpec == MgrInit /\ [][MgrNext]_mgrVars

-----------------------------------------------------------------------------
MgrTypeOK ==
    /\ m_conn_count \in 0 .. MaxConns /\ m_conn_index \in 0 .. (IndexWord - 1)
    /\ m_connections \in [Ids(m_conn_count) -> BOOLEAN]
    /\ m_send_type \in {0, 1}
    /\ sel \in -1 .. (m_conn_count - 1) /\ wrapped \in BOOLEAN
    /\ waited \in [Ids(m_conn_count) -> Nat]

AllLost == \A i \in Ids(m_conn_count) : ~ m_connections[i]

(***************************************************************************)
(* Selection fails only when no client has a socket, except where the      *)
(* index wraps around inside the loop and its range is not a multiple of   *)
(* the number of clients, so that one of them is looked at twice and       *)
(* another not at all (tcp_client_mgr.cpp:110-118).                        *)
(***************************************************************************)
FailureExplained ==
    [][select_connection /\ sel' = -1 =>
          AllLost \/ (wrapped' /\ IndexWord % m_conn_count # 0)]_mgrVars

(***************************************************************************)
(* The types hold, and selection balances the load: a client with a socket *)
(* is passed over by at most two rounds of selections of the others, the   *)
(* second one only for the wrap of the index, whichever connections come   *)
(* and go meanwhile (tcp_client_mgr.cpp:107-115).                          *)
(***************************************************************************)
BoundedWait ==
    /\ MgrTypeOK
    /\ \A i \in Ids(m_conn_count) :
          waited[i] <= (IF IndexWord % m_conn_count = 0 THEN 1 ELSE 2) * (m_conn_count - 1)

=============================================================================
