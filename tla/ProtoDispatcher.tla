-------------------------- MODULE ProtoDispatcher --------------------------
(***************************************************************************)
(* ProtoDispatcher (proto_dispatcher.h, proto_dispatcher.cpp): the table   *)
(* from protocol ids to handlers, in one thread.                           *)
(*                                                                         *)
(* A handler is foreign code.  Its init may fail; every successful init    *)
(* raises its level and every uninit lowers it, because one handler may    *)
(* serve several ids.  Its process and timer_event may call the dispatcher *)
(* again, and nothing stops them: they register, unregister the protocol   *)
(* they are called for, start another walk or clear the table.  That kills *)
(* the iterators of the walks in progress, and what a loop does with a     *)
(* dead iterator is undefined: here it goes on anywhere, or ends.  init    *)
(* and uninit are taken not to call the dispatcher.                        *)
(***************************************************************************)
EXTENDS Integers, Sequences, FiniteSets, Functions

CONSTANTS ProtoId, Handler,
          Null,      \* the NULL handler
          End,       \* the iterator behind the last element
          Dead,      \* an iterator whose element is gone or was moved
          MaxDepth   \* bound on the nesting of timer_event

ASSUME NullAssumption  == Null \notin Handler
ASSUME EndAssumption   == End \notin ProtoId /\ Dead \notin ProtoId /\ Dead # End
ASSUME DepthAssumption == MaxDepth \in Nat

VARIABLES
    m_handler_mgr,  \* a function from the registered ids to their handlers
    level,          \* of each handler: successful inits less uninits
    walks,          \* the iterators of the timer_events in progress, outermost first
    clearing,       \* whether clear_protos is in progress
    it,             \* its iterator
    ret             \* the result of the last call

vars == <<m_handler_mgr, level, walks, clearing, it, ret>>
clear == <<clearing, it>>

Registered == DOMAIN m_handler_mgr

Init ==
    /\ m_handler_mgr = << >>
    /\ level = [h \in Handler |-> 0]
    /\ walks = << >>
    /\ clearing = FALSE /\ it = End
    /\ ret = 0

\* the iterators at the elements S are dead
Killed(S) == [i \in DOMAIN walks |-> IF walks[i] \in S THEN Dead ELSE walks[i]]

-----------------------------------------------------------------------------
(* register_proto, by its three outcomes.                                  *)

\* the new element may make the table grow, which moves every element
register_accepted(id, h) ==
    /\ id \notin Registered
    /\ m_handler_mgr' = [i \in Registered \cup {id} |->
                            IF i = id THEN h ELSE m_handler_mgr[i]]
    /\ level' = [level EXCEPT ![h] = @ + 1]
    /\ \E moved \in {{}, Registered} : walks' = Killed(moved)
    /\ ret' = 0
    /\ UNCHANGED clear

\* mutant: the init of the refused handler is not undone
register_exists_NoUninit(id, h) ==
    /\ id \in Registered
    /\ level' = [level EXCEPT ![h] = @ + 1]
    /\ ret' = 1
    /\ UNCHANGED <<m_handler_mgr, walks, clear>>

\* init has succeeded before the id is looked up, and is undone
register_exists(id, h) ==
    /\ id \in Registered
    /\ ret' = 1
    /\ UNCHANGED <<m_handler_mgr, level, walks, clear>>

\* the handler is NULL, or its init failed
register_fails(h) ==
    /\ ret' = -1
    /\ UNCHANGED <<m_handler_mgr, level, walks, clear>>

register_proto(id, h) ==
    \/ h # Null /\ register_accepted(id, h)
    \/ h # Null /\ register_exists(id, h)
    \/ register_fails(h)

-----------------------------------------------------------------------------
Remove(id) == Restrict(m_handler_mgr, Registered \ {id})

unregister_proto(id) ==
    IF id \in Registered
    THEN /\ level' = [level EXCEPT ![m_handler_mgr[id]] = @ - 1]
         /\ m_handler_mgr' = Remove(id)
         /\ walks' = Killed({id})
         /\ ret' = 0
         /\ UNCHANGED clear
    ELSE /\ ret' = -1
         /\ UNCHANGED <<m_handler_mgr, level, walks, clear>>

\* the handler's process, then perhaps a print of the table; the code does
\* not look at its iterator again, so what process calls back comes before
dispatch(id) ==
    /\ ret' = IF id \in Registered THEN 0 ELSE -1
    /\ UNCHANGED <<m_handler_mgr, level, walks, clear>>

\* timer_event for one protocol: the same with the handler's timer_event
timer_event_one(id) == UNCHANGED vars

-----------------------------------------------------------------------------
(* The walk of timer_event.  The table is unordered and which elements the *)
(* walk has passed makes no difference here: the iterator moves to any     *)
(* other element, or to the end.                                           *)

timer_event_begin ==
    /\ Len(walks) < MaxDepth
    /\ \E i \in Registered \cup {End} :
          /\ i = End => Registered = {}
          /\ walks' = Append(walks, i)
    /\ UNCHANGED <<m_handler_mgr, level, clear, ret>>

\* the callback of the innermost walk has returned
timer_event_next ==
    /\ walks # << >> /\ walks[Len(walks)] # End
    /\ \E i \in (Registered \ {walks[Len(walks)]}) \cup {End} :
          walks' = [walks EXCEPT ![Len(walks)] = i]
    /\ UNCHANGED <<m_handler_mgr, level, clear, ret>>

timer_event_end ==
    /\ walks # << >> /\ walks[Len(walks)] = End
    /\ walks' = SubSeq(walks, 1, Len(walks) - 1)
    /\ UNCHANGED <<m_handler_mgr, level, clear, ret>>

-----------------------------------------------------------------------------
(* clear_protos, called by the owner or by a callback of a walk.           *)

clear_protos_begin ==
    /\ clearing' = TRUE
    /\ it' \in IF Registered = {} THEN {End} ELSE Registered
    /\ UNCHANGED <<m_handler_mgr, level, walks, ret>>

\* the iterator moves on before unregister_proto erases the element
clear_protos_next ==
    /\ it # End
    /\ it' \in IF Registered = {it} THEN {End} ELSE Registered \ {it}
    /\ level' = [level EXCEPT ![m_handler_mgr[it]] = @ - 1]
    /\ m_handler_mgr' = Remove(it)
    /\ walks' = Killed({it})
    /\ ret' = 0
    /\ UNCHANGED clearing

\* whatever is left of the table is dropped
clear_protos_end ==
    /\ it = End
    /\ m_handler_mgr' = << >>
    /\ walks' = Killed(Registered)
    /\ clearing' = FALSE
    /\ UNCHANGED <<level, it, ret>>

-----------------------------------------------------------------------------
\* what the owner calls, and what callbacks call in the middle of a walk
Call ==
    \/ \E id \in ProtoId, h \in Handler \cup {Null} : register_proto(id, h)
    \/ \E id \in ProtoId : unregister_proto(id)
    \/ \E id \in ProtoId : dispatch(id)
    \/ \E id \in ProtoId : timer_event_one(id)
    \/ timer_event_begin
    \/ timer_event_next
    \/ timer_event_end
    \/ clear_protos_begin

Next ==
    \/ ~ clearing /\ Call
    \/ clearing /\ clear_protos_next
    \/ clearing /\ clear_protos_end

Spec == Init /\ [][Next]_vars

-----------------------------------------------------------------------------
TypeOK ==
    /\ Registered \subseteq ProtoId /\ Range(m_handler_mgr) \subseteq Handler
    /\ level \in [Handler -> Nat]
    /\ walks \in Seq(ProtoId \cup {End, Dead})
    /\ clearing \in BOOLEAN /\ it \in ProtoId \cup {End}
    /\ ret \in {-1, 0, 1}

IdsOf(h) == {id \in Registered : m_handler_mgr[id] = h}

(***************************************************************************)
(* The types hold, and every successful init of a handler is matched by    *)
(* one uninit: a handler is initialised as many times as it is registered, *)
(* over every sequence of accepted, refused and failed registrations,      *)
(* removals and clearings, those of callbacks in the middle of walks       *)
(* included (proto_dispatcher.cpp:9-23, 37-39, 83-93).                     *)
(***************************************************************************)
InitBalance ==
    /\ TypeOK
    /\ \A h \in Handler : level[h] = Cardinality(IdsOf(h))

=============================================================================
