------------------------- MODULE TimerManagerProofs -------------------------
(***************************************************************************)
(* A pass over the timers holds no dead iterator and leaves no timer that  *)
(* is due, for every set of callbacks and intervals, every clock and every *)
(* length of the list.                                                     *)
(***************************************************************************)
EXTENDS TimerManager, TLAPS

(***************************************************************************)
(* What makes the two properties inductive: no node is in the list twice,  *)
(* the iterator of a pass stands at some position of the list or behind    *)
(* it, and no timer before that position is due.                           *)
(***************************************************************************)
Distinct ==
    \A i, j \in DOMAIN m_timer_list : m_timer_list[i].node = m_timer_list[j].node => i = j

Reached(j) ==
    /\ j \in 1 .. (Len(m_timer_list) + 1)
    /\ it = NodeAt(j)
    /\ \A i \in 1 .. (j - 1) : ~ Due(m_timer_list[i])

WalkInv ==
    /\ pc = "idle" => it = End
    /\ pc = "callback" => it # End
    /\ pc # "idle" => \E j \in Nat : Reached(j)

TimerInv == TypeOK /\ Distinct /\ WalkInv

-----------------------------------------------------------------------------
(* The list.                                                               *)

LEMMA TimerFacts ==
    ASSUME NEW t \in Timer
    PROVE  /\ t.node \in Node /\ t.node # End
           /\ t.key[1] \in Nat \ {0} /\ t.last \in Clock \cup {0}
  BY EndAssumption, IntervalAssumption DEF Timer, Key

LEMMA ListFacts ==
    ASSUME TypeOK
    PROVE  /\ Len(m_timer_list) \in Nat /\ DOMAIN m_timer_list = 1 .. Len(m_timer_list)
           /\ \A i \in 1 .. Len(m_timer_list) : m_timer_list[i] \in Timer
           /\ now \in Nat
<1>1. m_timer_list \in Seq(Timer) /\ now \in Clock \cup {0}
  BY DEF TypeOK
<1>2. now \in Nat
  BY <1>1, ClockAssumption
<1> QED
  BY <1>1, <1>2

(* The node of the iterator is at one position only.                       *)
LEMMA Found ==
    ASSUME TypeOK, Distinct, NEW j \in Nat, Reached(j), it # End
    PROVE  /\ j \in 1 .. Len(m_timer_list) /\ m_timer_list[j].node = it
           /\ Position = j
<1>1. Len(m_timer_list) \in Nat /\ DOMAIN m_timer_list = 1 .. Len(m_timer_list)
  BY ListFacts
<1>2. j \in DOMAIN m_timer_list /\ m_timer_list[j].node = it
  BY <1>1 DEF Reached, NodeAt
<1>3. Position \in DOMAIN m_timer_list /\ m_timer_list[Position].node = it
  BY <1>2 DEF Position
<1> QED
  BY <1>1, <1>2, <1>3 DEF Distinct

(* What erase does to the list.                                            *)
LEMMA Erased ==
    ASSUME NEW s \in Seq(Timer), NEW j \in 1 .. Len(s)
    PROVE  /\ RemoveAt(s, j) \in Seq(Timer)
           /\ Len(RemoveAt(s, j)) = Len(s) - 1
           /\ \A i \in 1 .. (Len(s) - 1) : RemoveAt(s, j)[i] = IF i < j THEN s[i] ELSE s[i + 1]
<1> DEFINE a == SubSeq(s, 1, j - 1)
           b == SubSeq(s, j + 1, Len(s))
<1>1. a \in Seq(Timer) /\ Len(a) = j - 1 /\ \A i \in 1 .. (j - 1) : a[i] = s[i]
  OBVIOUS
<1>2. b \in Seq(Timer) /\ Len(b) = Len(s) - j /\ \A i \in 1 .. (Len(s) - j) : b[i] = s[i + j]
  OBVIOUS
<1> HIDE DEF a, b
<1>3. /\ a \o b \in Seq(Timer) /\ Len(a \o b) = Len(s) - 1
      /\ \A i \in 1 .. (Len(s) - 1) : (a \o b)[i] = IF i < j THEN s[i] ELSE s[i + 1]
  <2>1. a \o b \in Seq(Timer) /\ Len(a \o b) = Len(s) - 1
    BY <1>1, <1>2
  <2>2. ASSUME NEW i \in 1 .. (Len(s) - 1), i < j PROVE (a \o b)[i] = s[i]
    BY <1>1, <1>2, <2>2
  <2>3. ASSUME NEW i \in 1 .. (Len(s) - 1), ~ (i < j) PROVE (a \o b)[i] = s[i + 1]
    <3>1. (a \o b)[i] = b[i - (j - 1)]
      BY <1>1, <1>2, <2>3
    <3>2. i - (j - 1) \in 1 .. (Len(s) - j) /\ (i - (j - 1)) + j = i + 1
      BY <2>3
    <3> QED
      BY <1>2, <3>1, <3>2
  <2> QED
    BY <2>1, <2>2, <2>3
<1> QED
  BY <1>3, Zenon DEF RemoveAt, a, b

-----------------------------------------------------------------------------
(* Every step keeps the invariant.                                         *)

LEMMA TimerInitially == Init => TimerInv
  BY CountAssumption DEF Init, TimerInv, TypeOK, Distinct, WalkInv

LEMMA AddStep ==
    ASSUME TimerInv, NEW key \in Key, add_timer(key)
    PROVE  TimerInv'
<1>1. /\ Len(m_timer_list) \in Nat /\ DOMAIN m_timer_list = 1 .. Len(m_timer_list)
      /\ \A i \in 1 .. Len(m_timer_list) : m_timer_list[i] \in Timer
  BY ListFacts DEF TimerInv
<1>2. PICK n \in Node \ (Nodes \cup spent) :
          m_timer_list' = Append(m_timer_list, [node |-> n, key |-> key, last |-> 0])
  BY DEF add_timer
<1>3. PICK t \in Timer : t = [node |-> n, key |-> key, last |-> 0]
  BY DEF Timer
<1>4. /\ m_timer_list' \in Seq(Timer) /\ Len(m_timer_list') = Len(m_timer_list) + 1
      /\ DOMAIN m_timer_list' = 1 .. (Len(m_timer_list) + 1)
      /\ \A i \in 1 .. Len(m_timer_list) : m_timer_list'[i] = m_timer_list[i]
      /\ m_timer_list'[Len(m_timer_list) + 1] = t
  BY <1>2, <1>3 DEF TimerInv, TypeOK
<1>5. TypeOK'
  BY <1>1, <1>4, CountAssumption DEF TimerInv, TypeOK, add_timer, pass
<1>6. Distinct'
  <2>1. \A i \in 1 .. Len(m_timer_list) : m_timer_list'[i].node # n
    BY <1>1, <1>2, <1>4 DEF Nodes
  <2>2. t.node = n
    BY <1>3
  <2>3. ASSUME NEW i \in 1 .. (Len(m_timer_list) + 1), NEW j \in 1 .. (Len(m_timer_list) + 1),
               m_timer_list'[i].node = m_timer_list'[j].node
        PROVE  i = j
    <3>1. CASE i \in 1 .. Len(m_timer_list) /\ j \in 1 .. Len(m_timer_list)
      <4>1. m_timer_list[i].node = m_timer_list[j].node
        BY <1>4, <2>3, <3>1
      <4> QED
        BY <1>1, <3>1, <4>1 DEF TimerInv, Distinct
    <3>2. CASE i = Len(m_timer_list) + 1 \/ j = Len(m_timer_list) + 1
      BY <1>1, <1>4, <2>1, <2>2, <2>3, <3>2
    <3> QED
      BY <1>1, <3>1, <3>2
  <2> QED
    BY <1>4, <2>3 DEF Distinct
<1>7. WalkInv'
  <2>1. pc' = pc /\ it' = it /\ now' = now /\ pc # "walk" /\ pc \in {"idle", "walk", "callback"}
    BY DEF add_timer, pass, TimerInv, TypeOK
  <2>2. ASSUME pc = "callback" PROVE \E j \in Nat : Reached(j)'
    <3>1. PICK j \in Nat : Reached(j)
      BY <2>2 DEF TimerInv, WalkInv
    <3>2. j \in 1 .. Len(m_timer_list) /\ m_timer_list[j].node = it
      BY <2>2, <3>1, Found DEF TimerInv, WalkInv
    <3>3. j \in DOMAIN m_timer_list' /\ m_timer_list'[j].node = it' /\ j \in 1 .. (Len(m_timer_list') + 1)
      BY <1>1, <1>4, <2>1, <3>2
    <3>4. ASSUME NEW i \in 1 .. (j - 1) PROVE ~ Due(m_timer_list[i])'
      <4>1. m_timer_list'[i] = m_timer_list[i] /\ ~ Due(m_timer_list[i])
        BY <1>1, <1>4, <3>1, <3>2 DEF Reached
      <4> QED
        BY <2>1, <4>1 DEF Due
    <3> QED
      BY <3>3, <3>4 DEF Reached, NodeAt
  <2> QED
    BY <2>1, <2>2 DEF TimerInv, WalkInv
<1> QED
  BY <1>5, <1>6, <1>7 DEF TimerInv

LEMMA RemoveStep ==
    ASSUME TimerInv, NEW key \in Key, remove_timer(key)
    PROVE  TimerInv'
<1>1. /\ Len(m_timer_list) \in Nat /\ DOMAIN m_timer_list = 1 .. Len(m_timer_list)
      /\ \A i \in 1 .. Len(m_timer_list) : m_timer_list[i] \in Timer
  BY ListFacts DEF TimerInv
<1>2. PICK stays : stays = {i \in DOMAIN m_timer_list : m_timer_list[i].key # key}
  OBVIOUS
<1>3. PICK e \in Ascending(stays) : m_timer_list' = [i \in DOMAIN e |-> m_timer_list[e[i]]]
  BY <1>2 DEF remove_timer
<1>4. PICK n \in 0 .. Len(m_timer_list) : e \in [1 .. n -> stays]
  BY <1>3 DEF Ascending
<1>5. /\ n \in Nat /\ n <= Len(m_timer_list)
      /\ \A k \in stays : \E i \in 1 .. n : e[i] = k
      /\ \A i, j \in 1 .. n : i < j => e[i] < e[j]
      /\ \A i \in 1 .. n : e[i] \in 1 .. Len(m_timer_list)
  <2>1. Range(e) = stays /\ \A i, j \in DOMAIN e : i < j => e[i] < e[j]
    BY <1>3 DEF Ascending
  <2>2. DOMAIN e = 1 .. n
    BY <1>4
  <2>3. \A k \in stays : \E i \in 1 .. n : e[i] = k
    BY <2>1, <2>2 DEF Range
  <2> QED
    BY <1>1, <1>2, <1>4, <2>1, <2>2, <2>3
<1>6. /\ m_timer_list' \in Seq(Timer) /\ Len(m_timer_list') = n
      /\ DOMAIN m_timer_list' = 1 .. n
      /\ \A i \in 1 .. n : m_timer_list'[i] = m_timer_list[e[i]]
  <2>1. m_timer_list' = [i \in 1 .. n |-> m_timer_list[e[i]]]
    BY <1>3, <1>4
  <2>2. m_timer_list' \in [1 .. n -> Timer]
    BY <1>1, <1>5, <2>1
  <2> QED
    BY <1>5, <2>1, <2>2
<1>7. TypeOK'
  <2>1. spent' \subseteq Node
    <3>1. \A i \in DOMAIN m_timer_list : m_timer_list[i].node \in Node
      BY <1>1, TimerFacts
    <3>2. spent \subseteq Node
      BY DEF TimerInv, TypeOK
    <3>3. spent' = {} \/ spent' = spent \cup {m_timer_list[i].node : i \in DOMAIN m_timer_list \ stays}
      BY <1>2 DEF remove_timer
    <3> QED
      BY <3>1, <3>2, <3>3
  <2>2. Len(m_timer_list') <= MAX_TIME_ENVET_COUNT
    BY <1>1, <1>5, <1>6, CountAssumption DEF TimerInv, TypeOK
  <2> QED
    BY <1>6, <2>1, <2>2 DEF TimerInv, TypeOK, remove_timer, pass
<1>8. Distinct'
  <2>1. ASSUME NEW i \in 1 .. n, NEW j \in 1 .. n,
               m_timer_list'[i].node = m_timer_list'[j].node
        PROVE  i = j
    <3>1. m_timer_list[e[i]].node = m_timer_list[e[j]].node
      BY <1>6, <2>1
    <3>2. e[i] = e[j]
      BY <1>1, <1>5, <3>1 DEF TimerInv, Distinct
    <3> QED
      BY <1>5, <3>2
  <2> QED
    BY <1>6, <2>1 DEF Distinct
<1>9. WalkInv'
  <2>1. pc' = pc /\ it' = it /\ now' = now /\ pc # "walk" /\ pc \in {"idle", "walk", "callback"}
    BY DEF remove_timer, pass, TimerInv, TypeOK
  <2>2. ASSUME pc = "callback" PROVE \E k \in Nat : Reached(k)'
    <3>1. PICK j \in Nat : Reached(j)
      BY <2>2 DEF TimerInv, WalkInv
    <3>2. j \in 1 .. Len(m_timer_list) /\ m_timer_list[j].node = it
      BY <2>2, <3>1, Found DEF TimerInv, WalkInv
    <3>3. j \in stays
      BY <1>1, <1>2, <3>2 DEF remove_timer
    <3>4. PICK k \in 1 .. n : e[k] = j
      BY <1>5, <3>3
    <3>5. k \in DOMAIN m_timer_list' /\ m_timer_list'[k].node = it' /\ k \in 1 .. (Len(m_timer_list') + 1)
      BY <1>5, <1>6, <2>1, <3>2, <3>4
    <3>6. ASSUME NEW i \in 1 .. (k - 1) PROVE ~ Due(m_timer_list[i])'
      <4>1. i \in 1 .. n /\ i < k
        BY <1>5, <3>4
      <4>2. e[i] \in 1 .. (j - 1)
        BY <1>1, <1>5, <3>2, <3>4, <4>1
      <4>3. PICK x : x = m_timer_list[e[i]] /\ x = m_timer_list'[i]
        BY <1>6, <4>1
      <4>4. ~ Due(x)
        BY <3>1, <4>2, <4>3 DEF Reached
      <4> QED
        BY <2>1, <4>3, <4>4 DEF Due
    <3> QED
      BY <3>4, <3>5, <3>6 DEF Reached, NodeAt
  <2> QED
    BY <2>1, <2>2 DEF TimerInv, WalkInv
<1> QED
  BY <1>7, <1>8, <1>9 DEF TimerInv

LEMMA BeginStep ==
    ASSUME TimerInv, process_timer_begin
    PROVE  TimerInv'
<1>1. /\ Len(m_timer_list) \in Nat /\ DOMAIN m_timer_list = 1 .. Len(m_timer_list)
      /\ \A i \in 1 .. Len(m_timer_list) : m_timer_list[i] \in Timer
  BY ListFacts DEF TimerInv
<1>2. it' = NodeAt(1) /\ it' \in Node \cup {End}
  BY <1>1, TimerFacts DEF process_timer_begin, NodeAt
<1>3. Reached(1)'
  BY <1>1, <1>2 DEF Reached, NodeAt, process_timer_begin
<1>4. TypeOK' /\ Distinct'
  BY <1>2 DEF TimerInv, TypeOK, Distinct, process_timer_begin
<1> QED
  BY <1>3, <1>4 DEF TimerInv, WalkInv, process_timer_begin

(* The iterator moves on from a timer that is not due.                     *)
LEMMA NotDueStep ==
    ASSUME TimerInv, timer_not_due
    PROVE  TimerInv'
<1>1. /\ Len(m_timer_list) \in Nat /\ DOMAIN m_timer_list = 1 .. Len(m_timer_list)
      /\ \A i \in 1 .. Len(m_timer_list) : m_timer_list[i] \in Timer
  BY ListFacts DEF TimerInv
<1>2. PICK j \in Nat : Reached(j)
  BY DEF TimerInv, WalkInv, timer_not_due
<1>3. j \in 1 .. Len(m_timer_list) /\ m_timer_list[j].node = it /\ Position = j
  BY <1>2, Found DEF TimerInv, timer_not_due
<1>4. it' = NodeAt(j + 1) /\ ~ Due(m_timer_list[j])
  BY <1>3 DEF timer_not_due
<1>5. it' \in Node \cup {End}
  BY <1>1, <1>4, TimerFacts DEF NodeAt
<1>6. Reached(j + 1)'
  <2>1. \A i \in 1 .. j : ~ Due(m_timer_list[i])
    BY <1>2, <1>3, <1>4 DEF Reached
  <2>2. m_timer_list' = m_timer_list /\ now' = now
    BY DEF timer_not_due
  <2> QED
    BY <1>1, <1>3, <1>4, <2>1, <2>2 DEF Reached, NodeAt, Due
<1>7. TypeOK' /\ Distinct'
  BY <1>5 DEF TimerInv, TypeOK, Distinct, timer_not_due
<1>8. WalkInv'
  <2>1. j + 1 \in Nat
    BY <1>2
  <2> QED
    BY <1>6, <2>1 DEF WalkInv, timer_not_due
<1> QED
  BY <1>7, <1>8 DEF TimerInv

LEMMA DueStep ==
    ASSUME TimerInv, timer_due
    PROVE  TimerInv'
<1>1. \A j : Reached(j) => Reached(j)'
  BY DEF timer_due, Reached, NodeAt, Due
<1>2. TypeOK' /\ Distinct'
  BY DEF TimerInv, TypeOK, Distinct, timer_due
<1> QED
  BY <1>1, <1>2 DEF TimerInv, WalkInv, timer_due

(* The callback returns; its timer has had its event now.                  *)
LEMMA KeepsStep ==
    ASSUME TimerInv, callback_keeps
    PROVE  TimerInv'
<1>1. /\ Len(m_timer_list) \in Nat /\ DOMAIN m_timer_list = 1 .. Len(m_timer_list)
      /\ \A i \in 1 .. Len(m_timer_list) : m_timer_list[i] \in Timer
      /\ now \in Nat
  BY ListFacts DEF TimerInv
<1>2. PICK j \in Nat : Reached(j)
  BY DEF TimerInv, WalkInv, callback_keeps
<1>3. j \in 1 .. Len(m_timer_list) /\ m_timer_list[j].node = it /\ Position = j
  BY <1>2, Found DEF TimerInv, WalkInv, callback_keeps
<1>4. PICK t : t = [m_timer_list[j] EXCEPT !.last = now]
  OBVIOUS
<1>5. t \in Timer /\ t.node = m_timer_list[j].node /\ t.key = m_timer_list[j].key /\ t.last = now
  <2>1. m_timer_list[j] \in Timer /\ now \in Clock \cup {0}
    BY <1>1, <1>3 DEF TimerInv, TypeOK
  <2> QED
    BY <1>4, <2>1 DEF Timer
<1>6. m_timer_list' = [m_timer_list EXCEPT ![j] = t]
  BY <1>3, <1>4 DEF callback_keeps
<1>7. /\ m_timer_list' \in Seq(Timer) /\ Len(m_timer_list') = Len(m_timer_list)
      /\ DOMAIN m_timer_list' = DOMAIN m_timer_list
      /\ m_timer_list'[j] = t
      /\ \A i \in 1 .. Len(m_timer_list) : i # j => m_timer_list'[i] = m_timer_list[i]
  BY <1>1, <1>3, <1>5, <1>6 DEF TimerInv, TypeOK
<1>8. \A i \in 1 .. Len(m_timer_list) : m_timer_list'[i].node = m_timer_list[i].node
  BY <1>5, <1>7
<1>9. it' = NodeAt(j + 1) /\ now' = now /\ pc' = "walk"
  BY <1>3 DEF callback_keeps
<1>10. it' \in Node \cup {End}
  BY <1>1, <1>9, TimerFacts DEF NodeAt
<1>11. TypeOK'
  BY <1>7, <1>9, <1>10 DEF TimerInv, TypeOK, callback_keeps
<1>12. Distinct'
  BY <1>1, <1>7, <1>8 DEF TimerInv, Distinct
<1>13. Reached(j + 1)'
  <2>1. j + 1 \in 1 .. (Len(m_timer_list') + 1) /\ it' = NodeAt(j + 1)'
    BY <1>1, <1>3, <1>7, <1>8, <1>9 DEF NodeAt
  <2>2. ASSUME NEW i \in 1 .. j PROVE ~ Due(m_timer_list[i])'
    <3>1. CASE i = j
      <4>1. t.key[1] \in Nat \ {0}
        BY <1>5, TimerFacts
      <4>2. ~ (now - now >= t.key[1])
        BY <1>1, <4>1
      <4> QED
        BY <1>5, <1>7, <1>9, <3>1, <4>2 DEF Due
    <3>2. CASE i # j
      <4>1. i \in 1 .. (j - 1) /\ m_timer_list'[i] = m_timer_list[i]
        BY <1>3, <1>7, <3>2
      <4>2. ~ Due(m_timer_list[i])
        BY <1>2, <4>1 DEF Reached
      <4> QED
        BY <1>9, <4>1, <4>2 DEF Due
    <3> QED
      BY <3>1, <3>2
  <2>3. (j + 1) - 1 = j
    BY <1>3
  <2> QED
    BY <2>1, <2>2, <2>3 DEF Reached
<1>14. WalkInv'
  <2>1. j + 1 \in Nat
    BY <1>2
  <2> QED
    BY <1>9, <1>13, <2>1 DEF WalkInv
<1> QED
  BY <1>11, <1>12, <1>14 DEF TimerInv

(* The callback returns 1; its timer is erased, and the iterator is at the *)
(* timer that takes its place.                                             *)
LEMMA RemovesStep ==
    ASSUME TimerInv, callback_removes
    PROVE  TimerInv'
<1>1. /\ Len(m_timer_list) \in Nat /\ DOMAIN m_timer_list = 1 .. Len(m_timer_list)
      /\ \A i \in 1 .. Len(m_timer_list) : m_timer_list[i] \in Timer
  BY ListFacts DEF TimerInv
<1>2. PICK j \in Nat : Reached(j)
  BY DEF TimerInv, WalkInv, callback_removes
<1>3. j \in 1 .. Len(m_timer_list) /\ m_timer_list[j].node = it /\ Position = j
  BY <1>2, Found DEF TimerInv, WalkInv, callback_removes
<1>4. /\ m_timer_list' = RemoveAt(m_timer_list, j) /\ it' = NodeAt(j + 1)
      /\ spent' = spent \cup {it} /\ pc' = "walk" /\ now' = now /\ clock' = clock
  BY <1>3 DEF callback_removes
<1>5. /\ m_timer_list' \in Seq(Timer) /\ Len(m_timer_list') = Len(m_timer_list) - 1
      /\ \A i \in 1 .. (Len(m_timer_list) - 1) :
            m_timer_list'[i] = IF i < j THEN m_timer_list[i] ELSE m_timer_list[i + 1]
  <2>1. m_timer_list \in Seq(Timer)
    BY DEF TimerInv, TypeOK
  <2> QED
    BY <1>3, <1>4, <2>1, Erased
<1>6. DOMAIN m_timer_list' = 1 .. (Len(m_timer_list) - 1)
  BY <1>5
<1>7. it' \in Node \cup {End}
  BY <1>1, <1>4, TimerFacts DEF NodeAt
<1>8. TypeOK'
  <2>1. it \in Node
    BY <1>1, <1>3, TimerFacts
  <2>2. Len(m_timer_list') <= MAX_TIME_ENVET_COUNT
    BY <1>1, <1>5, CountAssumption DEF TimerInv, TypeOK
  <2> QED
    BY <1>4, <1>5, <1>7, <2>1, <2>2 DEF TimerInv, TypeOK
<1>9. Distinct'
  <2>1. ASSUME NEW i \in 1 .. (Len(m_timer_list) - 1), NEW k \in 1 .. (Len(m_timer_list) - 1),
               m_timer_list'[i].node = m_timer_list'[k].node
        PROVE  i = k
    <3>1. PICK a \in 1 .. Len(m_timer_list) :
             m_timer_list'[i] = m_timer_list[a] /\ a = (IF i < j THEN i ELSE i + 1)
      BY <1>1, <1>5
    <3>2. PICK b \in 1 .. Len(m_timer_list) :
             m_timer_list'[k] = m_timer_list[b] /\ b = (IF k < j THEN k ELSE k + 1)
      BY <1>1, <1>5
    <3>3. a = b
      BY <1>1, <2>1, <3>1, <3>2 DEF TimerInv, Distinct
    <3> QED
      BY <1>3, <3>1, <3>2, <3>3
  <2> QED
    BY <1>6, <2>1 DEF Distinct
<1>10. Reached(j)'
  <2>1. j \in 1 .. (Len(m_timer_list') + 1)
    BY <1>1, <1>3, <1>5
  <2>2. it' = NodeAt(j)'
    <3>1. CASE j < Len(m_timer_list)
      <4>1. j \in 1 .. (Len(m_timer_list) - 1) /\ j + 1 \in DOMAIN m_timer_list
        BY <1>1, <1>3, <3>1
      <4>2. m_timer_list'[j] = m_timer_list[j + 1]
        BY <1>3, <1>5, <4>1
      <4> QED
        BY <1>4, <1>6, <4>1, <4>2 DEF NodeAt
    <3>2. CASE j = Len(m_timer_list)
      <4>1. j \notin DOMAIN m_timer_list' /\ j + 1 \notin DOMAIN m_timer_list
        BY <1>1, <1>6, <3>2
      <4> QED
        BY <1>4, <4>1 DEF NodeAt
    <3>3. j < Len(m_timer_list) \/ j = Len(m_timer_list)
      <4>1. Len(m_timer_list) \in Nat /\ j \in 1 .. Len(m_timer_list)
        BY <1>1, <1>3, Zenon
      <4> QED
        BY <4>1
    <3> QED
      BY <3>1, <3>2, <3>3, Zenon
  <2>3. ASSUME NEW i \in 1 .. (j - 1) PROVE ~ Due(m_timer_list[i])'
    <3>1. m_timer_list'[i] = m_timer_list[i]
      BY <1>1, <1>3, <1>5
    <3>2. ~ Due(m_timer_list[i])
      BY <1>2 DEF Reached
    <3> QED
      BY <1>4, <3>1, <3>2 DEF Due
  <2> QED
    BY <2>1, <2>2, <2>3 DEF Reached
<1>11. WalkInv'
  BY <1>2, <1>4, <1>10 DEF WalkInv
<1> QED
  BY <1>8, <1>9, <1>11 DEF TimerInv

-----------------------------------------------------------------------------
(***************************************************************************)
(* The invariant holds in every state.                                     *)
(***************************************************************************)
THEOREM TimerInvariance == Spec => []TimerInv
<1>1. ASSUME TimerInv, [Next]_vars PROVE TimerInv'
  <2>1. CASE \E key \in Key : add_timer(key)
    BY <1>1, <2>1, AddStep
  <2>2. CASE add_timer_refused \/ UNCHANGED vars \/ set_clock
    <3>1. UNCHANGED <<m_timer_list, pc, now, it, spent>> /\ (clock' = clock \/ clock' \in Clock)
      BY <2>2 DEF add_timer_refused, set_clock, pass, vars
    <3>2. \A j : Reached(j) => Reached(j)'
      BY <3>1 DEF Reached, NodeAt, Due
    <3> QED
      BY <1>1, <3>1, <3>2 DEF TimerInv, TypeOK, Distinct, WalkInv
  <2>3. CASE \E key \in Key : remove_timer(key)
    BY <1>1, <2>3, RemoveStep
  <2>4. CASE clear
    BY <1>1, <2>4, CountAssumption DEF TimerInv, TypeOK, Distinct, WalkInv, clear, pass
  <2>5. CASE process_timer_begin
    BY <1>1, <2>5, BeginStep
  <2>6. CASE timer_not_due
    BY <1>1, <2>6, NotDueStep
  <2>7. CASE timer_due
    BY <1>1, <2>7, DueStep
  <2>8. CASE callback_keeps
    BY <1>1, <2>8, KeepsStep
  <2>9. CASE callback_removes
    BY <1>1, <2>9, RemovesStep
  <2>10. CASE process_timer_end
    BY <1>1, <2>10 DEF TimerInv, TypeOK, Distinct, WalkInv, process_timer_end
  <2> QED
    BY <1>1, <2>1, <2>2, <2>3, <2>4, <2>5, <2>6, <2>7, <2>8, <2>9, <2>10, Zenon DEF Next
<1> QED
  BY <1>1, TimerInitially, PTL DEF Spec

(***************************************************************************)
(* The walk of process_timer never uses a timer that has been freed.       *)
(***************************************************************************)
THEOREM TimersAreAlive == Spec => []IteratorValid
<1>1. ASSUME TimerInv PROVE IteratorValid
  <2>1. ASSUME it # End PROVE it \in Nodes
    <3>1. pc # "idle"
      BY <1>1, <2>1 DEF TimerInv, WalkInv
    <3>2. PICK j \in Nat : Reached(j)
      BY <1>1, <3>1 DEF TimerInv, WalkInv
    <3>3. j \in DOMAIN m_timer_list /\ m_timer_list[j].node = it
      BY <1>1, <2>1, <3>2, Found, ListFacts DEF TimerInv
    <3> QED
      BY <3>3 DEF Nodes
  <2> QED
    BY <1>1, <2>1 DEF TimerInv, IteratorValid
<1> QED
  BY <1>1, TimerInvariance, PTL

(***************************************************************************)
(* A pass leaves no timer behind it that is due.                           *)
(***************************************************************************)
THEOREM PassesServeAll == Spec => []NothingDueIsLeft
<1>1. ASSUME TimerInv PROVE NothingDueIsLeft
  <2> SUFFICES ASSUME pc # "idle", NEW i \in DOMAIN m_timer_list, it = End \/ i < Position
               PROVE  ~ Due(m_timer_list[i])
    BY DEF NothingDueIsLeft
  <2>1. PICK j \in Nat : Reached(j)
    BY <1>1 DEF TimerInv, WalkInv
  <2>2. /\ Len(m_timer_list) \in Nat /\ DOMAIN m_timer_list = 1 .. Len(m_timer_list)
        /\ \A k \in 1 .. Len(m_timer_list) : m_timer_list[k] \in Timer
    BY <1>1, ListFacts DEF TimerInv
  <2>3. CASE it = End
    <3>1. j \notin DOMAIN m_timer_list
      BY <2>1, <2>2, <2>3, TimerFacts DEF Reached, NodeAt
    <3>2. j = Len(m_timer_list) + 1
      BY <2>1, <2>2, <3>1 DEF Reached
    <3> QED
      BY <2>1, <2>2, <3>2 DEF Reached
  <2>4. CASE it # End
    <3>1. Position = j
      BY <1>1, <2>1, <2>4, Found DEF TimerInv
    <3>2. i \in 1 .. (j - 1)
      BY <2>2, <2>4, <3>1
    <3> QED
      BY <2>1, <3>2 DEF Reached
  <2> QED
    BY <2>3, <2>4
<1> QED
  BY <1>1, TimerInvariance, PTL

=============================================================================
