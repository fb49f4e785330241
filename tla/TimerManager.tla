---------------------------- MODULE TimerManager ----------------------------
(***************************************************************************)
(* LibSys::TimerManager (timer.h, timer.cpp): a list of timers that        *)
(* process_timer walks, in one thread.                                     *)
(*                                                                         *)
(* A timer's callback is foreign code and may call back: it may add        *)
(* timers, and remove others than its own.  It must neither remove its own *)
(* timer nor clear the list, for process_timer_event stores into the timer *)
(* when the callback has returned; to be removed, it returns 1.  The       *)
(* clock may be set forward and back at any time.                          *)
(***************************************************************************)
EXTENDS Integers, Sequences, SequencesExt

CONSTANTS Node,       \* list nodes; their number bounds the timers of a pass
          End,        \* the iterator behind the last node
          Callback,   \* pairs of a callback and its argument
          Interval,   \* the valid intervals
          Clock,      \* the values of time(0)
          MAX_TIME_ENVET_COUNT

ASSUME EndAssumption == End \notin Node
ASSUME IntervalAssumption == Interval \subseteq Nat \ {0}
\* a new timer, whose last event is at 0, is due at once
ASSUME ClockAssumption == Clock \subseteq Nat /\ \A t \in Clock, i \in Interval : t >= i
ASSUME CountAssumption == MAX_TIME_ENVET_COUNT \in Nat

VARIABLES
    m_timer_list,  \* the timers: node, key (interval and callback), last event
    clock,
    pc,            \* "idle", "walk" inside process_timer, "callback" in one
    now, it,       \* the variables of process_timer
    spent          \* nodes of this pass that were freed: none is used again

vars == <<m_timer_list, clock, pc, now, it, spent>>
pass == <<pc, now, it>>

Key   == Interval \X Callback
Timer == [node : Node, key : Key, last : Clock \cup {0}]
Nodes == {m_timer_list[i].node : i \in DOMAIN m_timer_list}

Init ==
    /\ m_timer_list = << >> /\ clock \in Clock
    /\ pc = "idle" /\ now = 0 /\ it = End /\ spent = {}

-----------------------------------------------------------------------------
\* by the caller, or by the callback in progress
add_timer(key) ==
    /\ pc # "walk"
    /\ Len(m_timer_list) < MAX_TIME_ENVET_COUNT
    /\ \E n \in Node \ (Nodes \cup spent) :
          m_timer_list' = Append(m_timer_list, [node |-> n, key |-> key, last |-> 0])
    /\ UNCHANGED <<clock, pass, spent>>

\* the list is full, or the interval or the callback is missing
add_timer_refused == pc # "walk" /\ UNCHANGED vars

\* the positions in S, from first to last
Ascending(S) ==
    {e \in UNION {[1 .. n -> S] : n \in 0 .. Len(m_timer_list)} :
        Range(e) = S /\ \A i, j \in DOMAIN e : i < j => e[i] < e[j]}

\* every timer with this key goes, the others stay in their order
remove_timer(key) ==
    LET stays == {i \in DOMAIN m_timer_list : m_timer_list[i].key # key}
    IN  /\ pc # "walk"
        /\ \A i \in DOMAIN m_timer_list \ stays : m_timer_list[i].node # it
        /\ \E e \in Ascending(stays) :
              m_timer_list' = [i \in DOMAIN e |-> m_timer_list[e[i]]]
        /\ spent' = IF pc = "idle" THEN {}
                    ELSE spent \cup {m_timer_list[i].node : i \in DOMAIN m_timer_list \ stays}
        /\ UNCHANGED <<clock, pass>>

clear ==
    /\ pc = "idle"
    /\ m_timer_list' = << >>
    /\ UNCHANGED <<clock, pass, spent>>

-----------------------------------------------------------------------------
(* process_timer                                                           *)

Position == CHOOSE i \in DOMAIN m_timer_list : m_timer_list[i].node = it
NodeAt(i) == IF i \in DOMAIN m_timer_list THEN m_timer_list[i].node ELSE End

process_timer_begin ==
    /\ pc = "idle"
    /\ pc' = "walk" /\ now' = clock /\ it' = NodeAt(1)
    /\ UNCHANGED <<m_timer_list, clock, spent>>

Due(t) == now - t.last >= t.key[1]

timer_not_due ==
    /\ pc = "walk" /\ it # End /\ ~ Due(m_timer_list[Position])
    /\ it' = NodeAt(Position + 1)
    /\ UNCHANGED <<m_timer_list, clock, pc, now, spent>>

timer_due ==
    /\ pc = "walk" /\ it # End /\ Due(m_timer_list[Position])
    /\ pc' = "callback"
    /\ UNCHANGED <<m_timer_list, clock, now, it, spent>>

callback_keeps ==
    /\ pc = "callback"
    /\ m_timer_list' = [m_timer_list EXCEPT ![Position].last = now]
    /\ it' = NodeAt(Position + 1)
    /\ pc' = "walk"
    /\ UNCHANGED <<clock, now, spent>>

\* mutant: the iterator is not set to what erase returns
callback_removes_Stale ==
    /\ pc = "callback"
    /\ m_timer_list' = RemoveAt(m_timer_list, Position)
    /\ spent' = spent \cup {it}
    /\ pc' = "walk"
    /\ UNCHANGED <<clock, now, it>>

\* mutant: the iterator is moved on after erase, too
callback_removes_Skips ==
    /\ pc = "callback"
    /\ m_timer_list' = RemoveAt(m_timer_list, Position)
    /\ it' = NodeAt(Position + 2)
    /\ spent' = spent \cup {it}
    /\ pc' = "walk"
    /\ UNCHANGED <<clock, now>>

\* the callback returns 1
callback_removes ==
    /\ pc = "callback"
    /\ m_timer_list' = RemoveAt(m_timer_list, Position)
    /\ it' = NodeAt(Position + 1)
    /\ spent' = spent \cup {it}
    /\ pc' = "walk"
    /\ UNCHANGED <<clock, now>>

process_timer_end ==
    /\ pc = "walk" /\ it = End
    /\ pc' = "idle" /\ now' = 0 /\ spent' = {}
    /\ UNCHANGED <<m_timer_list, clock, it>>

set_clock ==
    /\ clock' \in Clock
    /\ UNCHANGED <<m_timer_list, pass, spent>>

-----------------------------------------------------------------------------
Next ==
    \/ \E key \in Key : add_timer(key)
    \/ add_timer_refused
    \/ \E key \in Key : remove_timer(key)
    \/ clear
    \/ process_timer_begin
    \/ timer_not_due
    \/ timer_due
    \/ callback_keeps
    \/ callback_removes
    \/ process_timer_end
    \/ set_clock

Spec == Init /\ [][Next]_vars

-----------------------------------------------------------------------------
TypeOK ==
    /\ m_timer_list \in Seq(Timer) /\ Len(m_timer_list) <= MAX_TIME_ENVET_COUNT
    /\ clock \in Clock /\ pc \in {"idle", "walk", "callback"}
    /\ now \in Clock \cup {0} /\ it \in Node \cup {End} /\ spent \subseteq Node

(***************************************************************************)
(* The types hold, the limit of the list among them, and the walk never    *)
(* reads, stores into or steps from a timer that has been freed, although  *)
(* it erases timers itself and callbacks add and remove others             *)
(* (timer.cpp:43-51, timer.h:70-71).                                       *)
(***************************************************************************)
IteratorValid == TypeOK /\ (it # End => it \in Nodes)

(***************************************************************************)
(* A pass serves everybody: behind the iterator no timer is due, whatever  *)
(* was erased, removed or added under it; so none is due when the pass     *)
(* ends, and a new timer does not wait for the next one (timer.cpp:43-51,  *)
(* timer.h:66-76).                                                         *)
(***************************************************************************)
NothingDueIsLeft ==
    pc # "idle" =>
        \A i \in DOMAIN m_timer_list :
            (it = End \/ i < Position) => ~ Due(m_timer_list[i])

=============================================================================
