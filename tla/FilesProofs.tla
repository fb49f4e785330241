---------------------------- MODULE FilesProofs ----------------------------
(***************************************************************************)
(* The parts that read and write files: the logger and the configuration.  *)
(*                                                                         *)
(* The first part is about the logger (Spec), for every number of threads, *)
(* calls, descriptors, files and failing opens: messages arrive, survive   *)
(* rotations, old files stay few and descriptors are not forgotten.  The   *)
(* second part is about the configuration (ConfigSpec), for every set of   *)
(* files that include each other: what a load leaves in the table is what  *)
(* textual inclusion gives, and every file is closed.  Its reference is a  *)
(* recursive function; that it exists, and has the values its definition   *)
(* says, is proved first.                                                  *)
(***************************************************************************)
EXTENDS Logger, Config, WordArithmetic, FiniteSetTheorems

-----------------------------------------------------------------------------
(* The system calls.                                                       *)

LEMMA Numbers == /\ 0 \in Fds /\ 1 \in Fds /\ 2 \in Fds /\ -1 \notin Fds /\ Fds \subseteq Nat
                 /\ Tty \notin Files /\ Closed \notin Files /\ NoFile \notin Files /\ Tty # Closed
                 /\ IsFiniteSet(Fds)
<1>1. MaxFd \in Nat /\ MaxFd >= 2 /\ MaxFile \in Nat
  BY BoundsAssumption
<1>2. IsFiniteSet(0 .. MaxFd)
  BY <1>1, FS_Interval
<1> QED
  BY <1>1, <1>2 DEF Fds, Files, Tty, Closed, NoFile

LEMMA LiveNames == /\ \A kind \in {"log", "wf"} : Live(kind) \in Name
                   /\ Live("log") # Live("wf")
                   /\ \A time \in 1 .. MaxTime : <<"log", time>> \in Name /\ <<"wf", time>> \in Name
                   /\ <<"moved", 0>> \in Name
  BY BoundsAssumption DEF Live, Name

LEMMA NameParts ==
    ASSUME NEW n \in Name
    PROVE  n = <<n[1], n[2]>> /\ n[1] \in {"log", "wf", "moved"} /\ n[2] \in 0 .. MaxTime
  BY BoundsAssumption DEF Name

LEMMA CloseFacts ==
    ASSUME NEW s, Kernel(s), NEW d
    PROVE  /\ Kernel(Close(s, d))
           /\ Close(s, d).names = s.names /\ Close(s, d).kind = s.kind /\ Close(s, d).msgs = s.msgs
           /\ \A e \in Fds : Close(s, d).fds[e] = IF e = d THEN Closed ELSE s.fds[e]
  BY DEF Kernel, Close

LEMMA Dup2Facts ==
    ASSUME NEW s, Kernel(s), NEW from, NEW T
    PROVE  /\ Kernel(Dup2(s, from, T))
           /\ Dup2(s, from, T).names = s.names /\ Dup2(s, from, T).kind = s.kind
           /\ Dup2(s, from, T).msgs = s.msgs
           /\ \A e \in Fds : Dup2(s, from, T).fds[e] =
                                IF from \in Fds /\ e \in T THEN s.fds[from] ELSE s.fds[e]
  BY DEF Kernel, Dup2

LEMMA LowestFd ==
    ASSUME NEW s, FreeFds(s) # {}
    PROVE  Min(FreeFds(s)) \in Fds /\ s.fds[Min(FreeFds(s))] = Closed
<1>1. FreeFds(s) \subseteq Nat
  BY Numbers DEF FreeFds
<1>2. PICK x \in FreeFds(s) : \A y \in FreeFds(s) : x <= y
  BY <1>1, LeastElement
<1>3. Min(FreeFds(s)) \in FreeFds(s)
  BY <1>2 DEF Min
<1> QED
  BY <1>3 DEF FreeFds

\* open finds the file or makes one, and gives it the name and a descriptor
Opened(s, kind, d, f, o) ==
    /\ d \in Fds /\ s.fds[d] = Closed
    /\ f \in Files
    /\ IF Live(kind) \in DOMAIN s.names THEN f = s.names[Live(kind)] ELSE s.kind[f] = "none"
    /\ o.fds = [s.fds EXCEPT ![d] = f]
    /\ o.kind = [s.kind EXCEPT ![f] = kind]
    /\ o.msgs = s.msgs
    /\ DOMAIN o.names = DOMAIN s.names \cup {Live(kind)}
    /\ \A n \in DOMAIN o.names : o.names[n] = IF n = Live(kind) THEN f ELSE s.names[n]

LEMMA OpenFacts ==
    ASSUME NEW s, Kernel(s), NEW kind \in {"log", "wf"}, CanOpen(s, kind)
    PROVE  /\ Kernel(Open(s, kind))
           /\ \E f \in Files : Opened(s, kind, Min(FreeFds(s)), f, Open(s, kind))
<1> DEFINE f == IF Live(kind) \in DOMAIN s.names THEN s.names[Live(kind)]
                ELSE CHOOSE g \in FreeFiles(s) : TRUE
           d == Min(FreeFds(s))
           o == [fds   |-> [s.fds EXCEPT ![d] = f],
                 names |-> [n \in DOMAIN s.names \cup {Live(kind)} |->
                               IF n = Live(kind) THEN f ELSE s.names[n]],
                 kind  |-> [s.kind EXCEPT ![f] = kind],
                 msgs  |-> s.msgs]
<1>1. Open(s, kind) = o
  BY DEF Open
<1>2. d \in Fds /\ s.fds[d] = Closed
  BY LowestFd DEF CanOpen
<1>3. f \in Files /\ (Live(kind) \notin DOMAIN s.names => s.kind[f] = "none")
  BY DEF CanOpen, FreeFiles, Kernel
<1>4. Live(kind) \in Name
  BY LiveNames
<1>5. Kernel(o)
  <2> HIDE DEF f, d
  <2>1. o = [fds |-> o.fds, names |-> o.names, kind |-> o.kind, msgs |-> o.msgs]
    OBVIOUS
  <2>2. o.fds \in [Fds -> Files \cup {Tty, Closed}]
    BY <1>3 DEF Kernel
  <2>3. DOMAIN o.names \subseteq Name /\ o.names \in [DOMAIN o.names -> Files]
    BY <1>3, <1>4 DEF Kernel
  <2>4. o.kind \in [Files -> {"none", "log", "wf"}] /\ o.msgs \in [Files -> SUBSET (0 .. MaxCalls)]
    BY <1>3 DEF Kernel
  <2> HIDE DEF o
  <2> QED
    BY <2>1, <2>2, <2>3, <2>4 DEF Kernel
<1>6. Opened(s, kind, d, f, o)
  BY <1>2, <1>3 DEF Opened
<1> QED
  BY <1>1, <1>3, <1>5, <1>6

LEMMA UnlinkFacts ==
    ASSUME NEW s, Kernel(s), NEW n
    PROVE  /\ Kernel(Unlink(s, n))
           /\ Unlink(s, n).fds = s.fds /\ Unlink(s, n).kind = s.kind /\ Unlink(s, n).msgs = s.msgs
           /\ DOMAIN Unlink(s, n).names = DOMAIN s.names \ {n}
           /\ \A m \in DOMAIN s.names \ {n} : Unlink(s, n).names[m] = s.names[m]
  BY DEF Kernel, Unlink, Restrict

LEMMA RenameFacts ==
    ASSUME NEW s, Kernel(s), NEW from, NEW to \in Name, from # to
    PROVE  /\ Kernel(Rename(s, from, to))
           /\ Rename(s, from, to).fds = s.fds /\ Rename(s, from, to).kind = s.kind
           /\ Rename(s, from, to).msgs = s.msgs
           /\ from \notin DOMAIN s.names => Rename(s, from, to).names = s.names
           /\ from \in DOMAIN s.names =>
                /\ DOMAIN Rename(s, from, to).names = (DOMAIN s.names \ {from}) \cup {to}
                /\ \A n \in DOMAIN Rename(s, from, to).names :
                      Rename(s, from, to).names[n] = IF n = to THEN s.names[from] ELSE s.names[n]
  BY DEF Kernel, Rename
-----------------------------------------------------------------------------
(* The types.                                                              *)

\* the variables but os and th
Settled ==
    /\ now \in 1 .. MaxTime /\ fails \in 0 .. MaxFails /\ calls \in 0 .. MaxCalls
    /\ _fd \in Fds \cup {-1} /\ _wf_fd \in Fds \cup {-1}
    /\ _name \in BOOLEAN /\ _check \in BOOLEAN /\ _flag \in BOOLEAN /\ _wf_flag \in BOOLEAN
    /\ _maxFileSize \in 0 .. TopSize /\ _maxFileIndex \in 0 .. TopIndex
    /\ _fileList \in Seq(1 .. MaxTime) /\ _wf_file_list \in Seq(1 .. MaxTime)
    /\ _fileSizeMutex \in Thread \cup {Nobody}
    /\ history \in History

LEMMA TypeParts == TypeOK => Kernel(os) /\ Settled /\ th \in [Thread -> Call]
  BY DEF TypeOK, Settled

LEMMA TypeWhole ==
    ASSUME NEW s, os' = s, Kernel(s), Settled', (th \in [Thread -> Call])'
    PROVE  TypeOK'
  BY DEF TypeOK, Settled, Kernel

LEMMA GotoType ==
    ASSUME th \in [Thread -> Call], NEW t \in Thread, NEW at \in Steps, Goto(t, at)
    PROVE  th' \in [Thread -> Call]
<1>1. Idle \in Call
  BY BoundsAssumption DEF Idle, Call, Steps
<1> QED
  BY <1>1 DEF Goto, Call

LEMMA StepType ==
    ASSUME th \in [Thread -> Call], NEW t \in Thread, NEW at \in Steps, NEW x \in Fds \cup {-1},
           NEW op \in {"none", "check", "rotate"},
           \/ th' = [th EXCEPT ![t].cur = x, ![t].pc = at]
           \/ th' = [th EXCEPT ![t].new = x, ![t].pc = at]
           \/ th' = [th EXCEPT ![t].pc = at]
           \/ th' = [th EXCEPT ![t].pc = at, ![t].op = op]
    PROVE  th' \in [Thread -> Call]
<1>0. th[t] \in Call
  OBVIOUS
<1>1. CASE th' = [th EXCEPT ![t].cur = x, ![t].pc = at]
  <2>1. th' = [th EXCEPT ![t] = [@ EXCEPT !.cur = x, !.pc = at]]
    BY <1>1
  <2>2. [th[t] EXCEPT !.cur = x, !.pc = at] \in Call
    BY <1>0 DEF Call
  <2> QED
    BY <2>1, <2>2
<1>2. CASE th' = [th EXCEPT ![t].new = x, ![t].pc = at]
  <2>1. th' = [th EXCEPT ![t] = [@ EXCEPT !.new = x, !.pc = at]]
    BY <1>2
  <2>2. [th[t] EXCEPT !.new = x, !.pc = at] \in Call
    BY <1>0 DEF Call
  <2> QED
    BY <2>1, <2>2
<1>3. CASE th' = [th EXCEPT ![t].pc = at]
  <2>1. th' = [th EXCEPT ![t] = [@ EXCEPT !.pc = at]]
    BY <1>3
  <2>2. [th[t] EXCEPT !.pc = at] \in Call
    BY <1>0 DEF Call
  <2> QED
    BY <2>1, <2>2
<1>4. CASE th' = [th EXCEPT ![t].pc = at, ![t].op = op]
  <2>1. th' = [th EXCEPT ![t] = [@ EXCEPT !.pc = at, !.op = op]]
    BY <1>4
  <2>2. [th[t] EXCEPT !.pc = at, !.op = op] \in Call
    BY <1>0 DEF Call
  <2> QED
    BY <2>1, <2>2
<1> QED
  BY <1>1, <1>2, <1>3, <1>4

LEMMA AfterOpenFacts ==
    ASSUME NEW s, Kernel(s), NEW kind \in {"log", "wf"}, NEW ok \in BOOLEAN, ok => CanOpen(s, kind)
    PROVE  Kernel(AfterOpen(s, kind, ok)) /\ NewFd(s, ok) \in Fds \cup {-1}
  BY OpenFacts, LowestFd DEF AfterOpen, NewFd, CanOpen

LEMMA RedirectedKernel ==
    ASSUME NEW s, Kernel(s), NEW d
    PROVE  Kernel(Redirected(s, d))
<1>1. Kernel(Dup2(s, d, {_fd, 1, 2}))
  BY Dup2Facts
<1> QED
  BY <1>1, CloseFacts DEF Redirected

LEMMA DroppedKernel ==
    ASSUME NEW s, Kernel(s), NEW kind, NEW list
    PROVE  Kernel(Dropped(s, kind, list))
  BY UnlinkFacts DEF Dropped

(* The states of os that set_file_name goes through.                       *)
Named1(ok)       == AfterOpen(os, "log", ok)
Named2(flag, ok) == IF ~ flag THEN Redirected(Named1(ok), NewFd(os, ok))
                    ELSE IF _name THEN Close(Named1(ok), _fd) ELSE Named1(ok)
Named3(flag, ok) == IF _wf_flag /\ _name THEN Close(Named2(flag, ok), _wf_fd) ELSE Named2(flag, ok)

LEMMA SetFileName ==
    ASSUME NEW flag, NEW wf, NEW ok, NEW wf_ok, set_file_name(flag, wf, ok, wf_ok)
    PROVE  /\ NoCall /\ th' = th /\ _name' = TRUE /\ _flag' = flag /\ _wf_flag' = wf
           /\ ok => CanOpen(os, "log")
           /\ wf /\ wf_ok => CanOpen(Named3(flag, ok), "wf")
           /\ _fd' = IF flag THEN NewFd(os, ok) ELSE _fd
           /\ _wf_fd' = IF wf THEN NewFd(Named3(flag, ok), wf_ok) ELSE _wf_fd
           /\ os' = IF wf THEN AfterOpen(Named3(flag, ok), "wf", wf_ok) ELSE Named3(flag, ok)
  BY DEF set_file_name, Named1, Named2, Named3

LEMMA SetFileNameHistory ==
    ASSUME NEW flag \in BOOLEAN, NEW wf, NEW ok \in BOOLEAN, NEW wf_ok, set_file_name(flag, wf, ok, wf_ok),
           history \in History
    PROVE  /\ history' \in History
           /\ history'.flagged = (history.flagged \/ flag)
           /\ history'.dead = (history.dead \/ (flag /\ ~ ok))
           /\ history'.rotations = history.rotations /\ history'.rushed = history.rushed
           /\ history'.written = history.written /\ history'.astray = history.astray
<1>1. history' = [history EXCEPT !.flagged = history.flagged \/ flag,
                                 !.dead = history.dead \/ (flag /\ ~ ok)]
  BY DEF set_file_name
<1>2. PICK a, b \in BOOLEAN : a = (history.flagged \/ flag) /\ b = (history.dead \/ (flag /\ ~ ok))
  BY DEF History
<1>3. history' = [history EXCEPT !.flagged = a, !.dead = b]
  BY <1>1, <1>2
<1> QED
  BY <1>2, <1>3 DEF History

LEMMA SetFileNameKernel ==
    ASSUME TypeOK, NEW flag \in BOOLEAN, NEW wf \in BOOLEAN, NEW ok \in BOOLEAN, NEW wf_ok \in BOOLEAN,
           set_file_name(flag, wf, ok, wf_ok)
    PROVE  /\ Kernel(Named1(ok)) /\ Kernel(Named2(flag, ok)) /\ Kernel(Named3(flag, ok)) /\ Kernel(os')
           /\ NewFd(os, ok) \in Fds \cup {-1}
           /\ wf => NewFd(Named3(flag, ok), wf_ok) \in Fds \cup {-1}
<1>0. Kernel(os)
  BY TypeParts
<1>1. Kernel(Named1(ok)) /\ NewFd(os, ok) \in Fds \cup {-1}
  BY <1>0, AfterOpenFacts, SetFileName DEF Named1
<1>2. Kernel(Named2(flag, ok))
  BY <1>1, RedirectedKernel, CloseFacts DEF Named2
<1>3. Kernel(Named3(flag, ok))
  BY <1>2, CloseFacts DEF Named3
<1>4. wf => /\ Kernel(AfterOpen(Named3(flag, ok), "wf", wf_ok))
            /\ NewFd(Named3(flag, ok), wf_ok) \in Fds \cup {-1}
  BY <1>3, AfterOpenFacts, SetFileName
<1>5. Kernel(os')
  <2>1. os' = IF wf THEN AfterOpen(Named3(flag, ok), "wf", wf_ok) ELSE Named3(flag, ok)
    BY SetFileName
  <2> QED
    BY <1>3, <1>4, <2>1
<1> QED
  BY <1>1, <1>2, <1>3, <1>4, <1>5

\* the steps of a rotation up to the open
Rotate(t) ==
    \/ \E time \in now .. MaxTime : rotate_access(t, time)
    \/ rotate_list(t) \/ rotate_rename(t) \/ rotate_wf(t)

\* os when rotate_wf renames
WfDropped == IF _wf_flag THEN Dropped(os, "wf", _wf_file_list) ELSE os

LEMMA OldNames ==
    ASSUME NEW time \in 1 .. MaxTime, NEW kind \in {"log", "wf"}
    PROVE  <<kind, time>> \in Name /\ <<kind, time>> # Live(kind) /\ <<kind, 0>> # <<kind, time>>
  BY BoundsAssumption DEF Name, Live

LEMMA RotatedKernel ==
    ASSUME TypeOK
    PROVE  /\ Kernel(Dropped(os, "log", _fileList)) /\ Kernel(WfDropped)
           /\ Kernel(Rename(os, Live("log"), <<"log", now>>))
           /\ Kernel(Rename(WfDropped, Live("wf"), <<"wf", now>>))
<1>0. Kernel(os) /\ now \in 1 .. MaxTime
  BY TypeParts DEF Settled
<1>1. Kernel(Dropped(os, "log", _fileList)) /\ Kernel(WfDropped)
  BY <1>0, DroppedKernel DEF WfDropped
<1>2. Kernel(Rename(os, Live("log"), <<"log", now>>))
  BY <1>0, RenameFacts, OldNames
<1>3. Kernel(Rename(WfDropped, Live("wf"), <<"wf", now>>))
  BY <1>0, <1>1, RenameFacts, OldNames
<1> QED
  BY <1>1, <1>2, <1>3

LEMMA ListedType ==
    ASSUME NEW T, NEW list \in Seq(T), NEW time \in T, _maxFileIndex \in Nat \ {0}
    PROVE  Listed(list, time) \in Seq(T)
<1>1. (IF Len(list) >= _maxFileIndex THEN Tail(list) ELSE list) \in Seq(T)
  <2>1. CASE Len(list) >= _maxFileIndex
    <3>1. list # << >>
      BY <2>1
    <3> QED
      BY <2>1, <3>1
  <2> QED
    BY <2>1
<1> QED
  BY <1>1 DEF Listed

LEMMA SetupType ==
    ASSUME TypeOK, Setup
    PROVE  TypeOK'
<1>1. os' = os /\ th' = th
  BY DEF Setup, set_max_file_size, set_max_file_index, set_check
<1>2. Settled'
  <2>1. CASE \E size \in Sizes : set_max_file_size(size)
    BY <2>1, TypeParts, ArgumentsAssumption, LimitsAssumption DEF set_max_file_size, Settled, lists
  <2>2. CASE \E index \in Indices : set_max_file_index(index)
    BY <2>2, TypeParts, ArgumentsAssumption, LimitsAssumption DEF set_max_file_index, Settled, lists
  <2>3. CASE \E v \in BOOLEAN : set_check(v)
    BY <2>3, TypeParts DEF set_check, Settled, lists
  <2> QED
    BY <2>1, <2>2, <2>3 DEF Setup
<1> QED
  BY <1>1, <1>2, TypeParts, TypeWhole

LEMMA SetFileNameType ==
    ASSUME TypeOK, NEW flag \in BOOLEAN, NEW wf \in BOOLEAN, NEW ok \in BOOLEAN, NEW wf_ok \in BOOLEAN,
           set_file_name(flag, wf, ok, wf_ok)
    PROVE  TypeOK'
<1>1. Kernel(os') /\ th' = th
  BY SetFileNameKernel, SetFileName
<1>2. /\ _fd' \in Fds \cup {-1} /\ _wf_fd' \in Fds \cup {-1}
      /\ _name' = TRUE /\ _flag' = flag /\ _wf_flag' = wf
  <2>1. _fd \in Fds \cup {-1} /\ _wf_fd \in Fds \cup {-1}
    BY TypeParts DEF Settled
  <2>2. _fd' \in Fds \cup {-1}
    <3>1. _fd' = IF flag THEN NewFd(os, ok) ELSE _fd
      BY SetFileName
    <3>2. NewFd(os, ok) \in Fds \cup {-1}
      BY SetFileNameKernel
    <3> QED
      BY <2>1, <3>1, <3>2
  <2>3. _wf_fd' \in Fds \cup {-1}
    <3>1. _wf_fd' = IF wf THEN NewFd(Named3(flag, ok), wf_ok) ELSE _wf_fd
      BY SetFileName
    <3>2. wf => NewFd(Named3(flag, ok), wf_ok) \in Fds \cup {-1}
      BY SetFileNameKernel
    <3> QED
      BY <2>1, <3>1, <3>2
  <2> QED
    BY <2>2, <2>3, SetFileName
<1>3. history' \in History
  <2>1. history \in History
    BY TypeParts DEF Settled
  <2> QED
    BY <2>1, SetFileNameHistory
<1>4. /\ UNCHANGED <<now, _check, _maxFileSize, _maxFileIndex, lists, _fileSizeMutex>>
      /\ calls < MaxCalls /\ calls' = calls + 1 /\ OpenFails(ok /\ (wf => wf_ok))
  BY DEF set_file_name
<1>5. calls' \in 0 .. MaxCalls /\ fails' \in 0 .. MaxFails
  BY <1>4, TypeParts, BoundsAssumption DEF Settled, OpenFails
<1>6. Settled'
  BY <1>2, <1>3, <1>4, <1>5, TypeParts DEF Settled, lists
<1> QED
  BY <1>1, <1>6, TypeParts, TypeWhole

LEMMA CallType ==
    ASSUME TypeOK, NEW t \in Thread, (\E grave \in Grave : log_message(t, grave)) \/ rotate_log(t)
    PROVE  TypeOK'
<1>0. calls < MaxCalls /\ calls' = calls + 1 /\ calls \in 0 .. MaxCalls
  BY TypeParts DEF log_message, rotate_log, Settled
<1>1. calls' \in 0 .. MaxCalls /\ calls + 1 \in 0 .. MaxCalls
  BY <1>0, BoundsAssumption
<1>2. /\ os' = os
      /\ UNCHANGED <<now, fails, _fd, _wf_fd, settings, lists, _fileSizeMutex, history>>
  BY DEF log_message, rotate_log
<1>3. Settled'
  BY <1>1, <1>2, TypeParts DEF Settled, settings, lists
<1>4. th' \in [Thread -> Call]
  <2>1. CASE rotate_log(t)
    BY <2>1, TypeParts, StepType DEF rotate_log, Steps, InRotation
  <2>2. ASSUME NEW grave \in Grave, log_message(t, grave)
        PROVE  th' \in [Thread -> Call]
    <3>1. PICK at \in {"stat", "write"} : th' = [th EXCEPT ![t] = [Idle EXCEPT !.msg = calls + 1,
                                              !.grave = grave, !.pc = at, !.op = "check"]]
      BY <2>2 DEF log_message
    <3>2. [Idle EXCEPT !.msg = calls + 1, !.grave = grave, !.pc = at, !.op = "check"] \in Call
      BY <1>1, ArgumentsAssumption DEF Idle, Call, Steps
    <3> QED
      BY <3>1, <3>2, TypeParts
  <2> QED
    BY <2>1, <2>2
<1> QED
  BY <1>2, <1>3, <1>4, TypeParts, TypeWhole

LEMMA WriteType ==
    ASSUME TypeOK, NEW t \in Thread, NEW kind \in {"log", "wf"}, Write(t, kind)
    PROVE  Kernel(os') /\ history' \in History
<1>0. Kernel(os) /\ history \in History /\ th[t] \in Call /\ _flag \in BOOLEAN
  BY TypeParts DEF Settled
<1>1. th[t].msg \in 0 .. MaxCalls /\ th[t].cur \in Fds \cup {-1}
  BY <1>0 DEF Call
<1> DEFINE f == FileAt(os, th[t].cur)
<1>3. /\ os' = (IF f \in Files THEN [os EXCEPT !.msgs[f] = @ \cup {th[t].msg}] ELSE os)
      /\ \/ history' = history
         \/ history' = [history EXCEPT !.astray = @ \cup {<<kind, _flag>>}]
         \/ history' = [history EXCEPT !.written = @ \cup {th[t].msg}]
  BY DEF Write
<1> HIDE DEF f
<1>4. Kernel(os')
  BY <1>0, <1>1, <1>3 DEF Kernel
<1>5. history' \in History
  BY <1>0, <1>1, <1>3 DEF History
<1> QED
  BY <1>4, <1>5

\* the steps that leave os, _fd and _wf_fd alone
Quiet(t) == check_file(t) \/ take_fd(t) \/ take_wf_fd(t) \/ check_size(t) \/ unlock_size(t)

LEMMA QuietType ==
    ASSUME TypeOK, NEW t \in Thread, Quiet(t)
    PROVE  TypeOK'
<1>0. Kernel(os) /\ Settled /\ th \in [Thread -> Call] /\ Idle \in Call
  BY TypeParts, BoundsAssumption DEF Idle, Call, Steps
<1>1. os' = os
  BY DEF Quiet, check_file, take_fd, take_wf_fd, check_size, unlock_size
<1>2. UNCHANGED <<now, fails, _fd, _wf_fd, settings, lists, calls, history>>
  BY DEF Quiet, check_file, take_fd, take_wf_fd, check_size, unlock_size
<1>3. _fileSizeMutex' \in Thread \cup {Nobody}
  BY <1>0 DEF Quiet, check_file, take_fd, take_wf_fd, check_size, unlock_size, Settled
<1>4. Settled'
  BY <1>0, <1>2, <1>3 DEF Settled, settings, lists
<1>5. th' \in [Thread -> Call]
  <2>1. CASE check_file(t)
    BY <1>0, <2>1, GotoType DEF check_file, Steps, InRotation
  <2>2. CASE take_fd(t) \/ take_wf_fd(t)
    BY <1>0, <2>2, StepType DEF take_fd, take_wf_fd, Settled, Steps
  <2>3. CASE check_size(t)
    <3>1. CASE Goto(t, "idle")
      BY <1>0, <3>1, GotoType DEF Steps
    <3>2. CASE th' = [th EXCEPT ![t].pc = "access", ![t].op = "rotate"]
      BY <1>0, <3>2, StepType DEF Steps, InRotation
    <3> QED
      BY <2>3, <3>1, <3>2 DEF check_size
  <2>4. CASE unlock_size(t)
    BY <1>0, <2>4 DEF unlock_size
  <2> QED
    BY <2>1, <2>2, <2>3, <2>4 DEF Quiet
<1> QED
  BY <1>0, <1>1, <1>4, <1>5, TypeWhole

LEMMA OpensType ==
    ASSUME TypeOK, NEW t \in Thread, NEW ok \in BOOLEAN, open_log(t, ok) \/ open_wf(t, ok)
    PROVE  TypeOK'
<1>0. Kernel(os) /\ Settled /\ th \in [Thread -> Call]
  BY TypeParts
<1>1. PICK kind \in {"log", "wf"} : os' = AfterOpen(os, kind, ok) /\ (ok => CanOpen(os, kind))
  BY DEF open_log, open_wf
<1>2. Kernel(os') /\ NewFd(os, ok) \in Fds \cup {-1}
  BY <1>0, <1>1, AfterOpenFacts
<1>3. PICK at \in {"close", "dup", "wf_close"} :
          th' = [th EXCEPT ![t].new = NewFd(os, ok), ![t].pc = at]
  BY DEF open_log, open_wf
<1>4. th' \in [Thread -> Call]
  BY <1>0, <1>2, <1>3, StepType DEF Steps, InRotation
<1>5. OpenFails(ok) /\ UNCHANGED <<now, _fd, _wf_fd, settings, lists, _fileSizeMutex, calls, history>>
  BY DEF open_log, open_wf
<1>6. Settled'
  BY <1>0, <1>5, BoundsAssumption DEF Settled, OpenFails, settings, lists
<1> QED
  BY <1>2, <1>4, <1>6, TypeWhole

LEMMA SwapType ==
    ASSUME TypeOK, NEW t \in Thread,
           dup_log(t) \/ close_log(t) \/ store_fd(t) \/ close_wf(t) \/ store_wf_fd(t)
    PROVE  TypeOK'
<1>0. Kernel(os) /\ Settled /\ th \in [Thread -> Call] /\ th[t].new \in Fds \cup {-1}
  BY TypeParts DEF Call
<1>1. Kernel(os')
  <2>1. Kernel(Close(Dup2(os, th[t].new, {_fd, 1, 2}), th[t].new)) /\ Kernel(Close(os, _fd))
        /\ Kernel(Close(os, _wf_fd))
    BY <1>0, CloseFacts, Dup2Facts
  <2>2. \/ os' = os \/ os' = Close(os, _fd) \/ os' = Close(os, _wf_fd)
        \/ os' = Close(Dup2(os, th[t].new, {_fd, 1, 2}), th[t].new)
    BY DEF dup_log, close_log, store_fd, close_wf, store_wf_fd
  <2> QED
    BY <1>0, <2>1, <2>2
<1>2. /\ _fd' \in {_fd, th[t].new} /\ _wf_fd' \in {_wf_fd, th[t].new}
      /\ UNCHANGED <<now, fails, settings, lists, _fileSizeMutex, calls>>
      /\ history' = history \/ history' = [history EXCEPT !.dead = @ \/ th[t].new = -1]
  BY DEF dup_log, close_log, store_fd, close_wf, store_wf_fd
<1>5. history' \in History
  BY <1>0, <1>2 DEF Settled, History
<1>3. Settled'
  BY <1>0, <1>2, <1>5 DEF Settled, settings, lists
<1>4. th' \in [Thread -> Call]
  <2>1. CASE dup_log(t) \/ store_fd(t) \/ store_wf_fd(t)
    <3>1. PICK at \in {"write", "wf_open", "unlock"} : Goto(t, at)
      BY <2>1 DEF dup_log, store_fd, store_wf_fd, AfterSwap
    <3> QED
      BY <1>0, <3>1, GotoType DEF Steps, InRotation
  <2>2. CASE close_log(t) \/ close_wf(t)
    <3>1. PICK at \in {"store", "wf_store"} : th' = [th EXCEPT ![t].pc = at]
      BY <2>2 DEF close_log, close_wf
    <3> QED
      BY <1>0, <3>1, StepType DEF Steps, InRotation
  <2> QED
    BY <2>1, <2>2
<1> QED
  BY <1>1, <1>3, <1>4, TypeWhole

LEMMA WritesType ==
    ASSUME TypeOK, NEW t \in Thread, writev(t) \/ wf_writev(t)
    PROVE  TypeOK'
<1>0. Kernel(os) /\ Settled /\ th \in [Thread -> Call]
  BY TypeParts
<1>1. Write(t, "log") \/ Write(t, "wf")
  BY DEF writev, wf_writev
<1>2. Kernel(os') /\ history' \in History
  BY <1>1, WriteType
<1>3. PICK at \in {"wf_write", "size", "idle"} : Goto(t, at)
  BY DEF writev, wf_writev, AfterWrite
<1>4. th' \in [Thread -> Call]
  BY <1>0, <1>3, GotoType DEF Steps
<1>5. UNCHANGED <<now, fails, _fd, _wf_fd, settings, lists, _fileSizeMutex, calls>>
  BY DEF writev, wf_writev
<1>6. Settled'
  BY <1>0, <1>2, <1>5 DEF Settled, settings, lists
<1> QED
  BY <1>2, <1>4, <1>6, TypeWhole

LEMMA RotateType ==
    ASSUME TypeOK, NEW t \in Thread, Rotate(t)
    PROVE  TypeOK'
<1>0. /\ Kernel(os) /\ Settled /\ th \in [Thread -> Call] /\ now \in 1 .. MaxTime
      /\ _fileList \in Seq(1 .. MaxTime) /\ _wf_file_list \in Seq(1 .. MaxTime)
      /\ _maxFileIndex \in Nat
  BY TypeParts, LimitsAssumption DEF Settled
<1>1. UNCHANGED <<fails, _fd, _wf_fd, settings, _fileSizeMutex, calls>>
  BY DEF Rotate, rotate_access, rotate_list, rotate_rename, rotate_wf
<1>2. th' \in [Thread -> Call]
  <2>1. PICK at \in {"list", "rename", "wf_rename", "open"} : Goto(t, at)
    BY DEF Rotate, rotate_access, rotate_list, rotate_rename, rotate_wf
  <2> QED
    BY <1>0, <2>1, GotoType DEF Steps, InRotation
<1>3. Kernel(os')
  <2>1. \/ os' = os \/ os' = Dropped(os, "log", _fileList)
        \/ os' = Rename(os, Live("log"), <<"log", now>>)
        \/ os' = Rename(WfDropped, Live("wf"), <<"wf", now>>)
    BY DEF Rotate, rotate_access, rotate_list, rotate_rename, rotate_wf, WfDropped
  <2> QED
    BY <1>0, <2>1, RotatedKernel
<1>4. now' \in 1 .. MaxTime /\ history' \in History
  <2>1. history \in History
    BY <1>0 DEF Settled
  <2>2. ASSUME NEW time \in now .. MaxTime, rotate_access(t, time)
        PROVE  now' \in 1 .. MaxTime /\ history' \in History
    <3>1. \/ now' = now /\ history' = history
          \/ /\ now' = time
             /\ \E b \in BOOLEAN :
                   history' = [history EXCEPT !.rotations = history.rotations + 1, !.rushed = b]
      BY <2>1, <2>2 DEF rotate_access, History
    <3>2. history.rotations + 1 \in Nat
      BY <2>1 DEF History
    <3>3. time \in 1 .. MaxTime
      BY <1>0, BoundsAssumption
    <3> QED
      BY <1>0, <2>1, <3>1, <3>2, <3>3 DEF History
  <2>3. CASE now' = now /\ history' = history
    BY <1>0, <2>1, <2>3
  <2> QED
    BY <2>2, <2>3 DEF Rotate, rotate_list, rotate_rename, rotate_wf
<1>5. _fileList' \in Seq(1 .. MaxTime) /\ _wf_file_list' \in Seq(1 .. MaxTime)
  <2>1. _maxFileIndex > 0 => _maxFileIndex \in Nat \ {0}
    BY <1>0
  <2>2. _maxFileIndex > 0 => Listed(_fileList, now) \in Seq(1 .. MaxTime)
    BY <1>0, <2>1, ListedType
  <2>3. _maxFileIndex > 0 => Listed(_wf_file_list, now) \in Seq(1 .. MaxTime)
    BY <1>0, <2>1, ListedType
  <2>4. /\ _fileList' = _fileList \/ (_maxFileIndex > 0 /\ _fileList' = Listed(_fileList, now))
        /\ \/ _wf_file_list' = _wf_file_list
           \/ (_maxFileIndex > 0 /\ _wf_file_list' = Listed(_wf_file_list, now))
    BY DEF Rotate, rotate_access, rotate_list, rotate_rename, rotate_wf, lists
  <2> QED
    BY <1>0, <2>2, <2>3, <2>4
<1>6. Settled'
  BY <1>0, <1>1, <1>4, <1>5 DEF Settled, settings
<1> QED
  BY <1>2, <1>3, <1>6, TypeWhole

LEMMA MovedKernel ==
    ASSUME TypeOK
    PROVE  Kernel(Rename(os, Live("log"), <<"moved", 0>>))
<1>1. Live("log") # <<"moved", 0>> /\ <<"moved", 0>> \in Name
  BY LiveNames DEF Live
<1> QED
  BY <1>1, TypeParts, RenameFacts

LEMMA TypeStep ==
    ASSUME TypeOK, [Next]_vars
    PROVE  TypeOK'
<1>1. CASE Setup
  BY <1>1, SetupType
<1>2. CASE \E flag, wf, ok, wf_ok \in BOOLEAN : set_file_name(flag, wf, ok, wf_ok)
  BY <1>2, SetFileNameType
<1>3. CASE \E t \in Thread, grave \in Grave : log_message(t, grave)
  BY <1>3, CallType
<1>4. CASE \E t \in Thread : rotate_log(t)
  BY <1>4, CallType
<1>5. ASSUME NEW t \in Thread, Step(t) PROVE TypeOK'
  BY <1>5, QuietType, OpensType, SwapType, WritesType, RotateType DEF Step, Quiet, Rotate
<1>6. CASE move_away
  <2>1. os' = Rename(os, Live("log"), <<"moved", 0>>)
        /\ UNCHANGED <<now, fails, _fd, _wf_fd, settings, lists, _fileSizeMutex, th, calls, history>>
    BY <1>6 DEF move_away
  <2>2. Settled'
    BY <2>1, TypeParts DEF Settled, settings, lists
  <2> QED
    BY <2>1, <2>2, MovedKernel, TypeParts, TypeWhole
<1>7. CASE UNCHANGED vars
  <2>1. Settled' /\ th' = th /\ os' = os
    BY <1>7, TypeParts DEF Settled, vars, settings, lists
  <2> QED
    BY <2>1, TypeParts, TypeWhole
<1> QED
  BY <1>1, <1>2, <1>3, <1>4, <1>5, <1>6, <1>7 DEF Next
-----------------------------------------------------------------------------
(* What a step does to the thread that takes it.                           *)

Moves(t, at, op, cur, new) ==
    /\ \A u \in Thread : u # t => th'[u] = th[u]
    /\ th'[t].pc = at /\ th'[t].op = op /\ th'[t].cur = cur /\ th'[t].new = new

LEMMA GotoMoves ==
    ASSUME th \in [Thread -> Call], NEW t \in Thread, NEW at, Goto(t, at)
    PROVE  Moves(t, at, IF at = "idle" THEN "none" ELSE th[t].op, -1, -1)
<1>1. th[t] \in Call
  OBVIOUS
<1>2. CASE at = "idle"
  <2>1. th' = [th EXCEPT ![t] = Idle]
    BY <1>2 DEF Goto
  <2> QED
    BY <1>2, <2>1 DEF Moves, Idle
<1>3. CASE at # "idle"
  <2>1. th' = [th EXCEPT ![t] = [th[t] EXCEPT !.pc = at, !.cur = -1, !.new = -1]]
    BY <1>3 DEF Goto
  <2>2. th'[t] = [th[t] EXCEPT !.pc = at, !.cur = -1, !.new = -1] /\ \A u \in Thread : u # t => th'[u] = th[u]
    BY <2>1
  <2> QED
    BY <1>1, <1>3, <2>2 DEF Moves, Call
<1> QED
  BY <1>2, <1>3

LEMMA StepMoves ==
    ASSUME th \in [Thread -> Call], NEW t \in Thread, NEW at, NEW x, NEW op
    PROVE  /\ th' = [th EXCEPT ![t].cur = x, ![t].pc = at] => Moves(t, at, th[t].op, x, th[t].new)
           /\ th' = [th EXCEPT ![t].new = x, ![t].pc = at] => Moves(t, at, th[t].op, th[t].cur, x)
           /\ th' = [th EXCEPT ![t].pc = at] => Moves(t, at, th[t].op, th[t].cur, th[t].new)
           /\ th' = [th EXCEPT ![t].pc = at, ![t].op = op] => Moves(t, at, op, th[t].cur, th[t].new)
<1>0. th[t] \in Call
  OBVIOUS
<1>1. th' = [th EXCEPT ![t].cur = x, ![t].pc = at] => Moves(t, at, th[t].op, x, th[t].new)
  BY <1>0 DEF Moves, Call
<1>2. th' = [th EXCEPT ![t].new = x, ![t].pc = at] => Moves(t, at, th[t].op, th[t].cur, x)
  BY <1>0 DEF Moves, Call
<1>3. th' = [th EXCEPT ![t].pc = at] => Moves(t, at, th[t].op, th[t].cur, th[t].new)
  BY <1>0 DEF Moves, Call
<1>4. th' = [th EXCEPT ![t].pc = at, ![t].op = op] => Moves(t, at, op, th[t].cur, th[t].new)
  BY <1>0 DEF Moves, Call
<1> QED
  BY <1>1, <1>2, <1>3, <1>4

LEMMA CallMoves ==
    ASSUME TypeOK, NEW t \in Thread
    PROVE  /\ \A grave \in Grave : log_message(t, grave) =>
                 \E at \in {"stat", "write"} :
                    (at = "stat" => _check /\ _name) /\ Moves(t, at, "check", -1, -1)
           /\ rotate_log(t) => Moves(t, "access", "rotate", th[t].cur, th[t].new)
<1>0. th \in [Thread -> Call]
  BY TypeParts
<1>1. ASSUME NEW grave \in Grave, log_message(t, grave)
      PROVE  \E at \in {"stat", "write"} :
                (at = "stat" => _check /\ _name) /\ Moves(t, at, "check", -1, -1)
  <2>1. PICK at \in {"stat", "write"} :
            /\ at = "stat" => _check /\ _name
            /\ th' = [th EXCEPT ![t] = [Idle EXCEPT !.msg = calls + 1,
                                              !.grave = grave, !.pc = at, !.op = "check"]]
    BY <1>1 DEF log_message
  <2>2. th'[t] = [Idle EXCEPT !.msg = calls + 1, !.grave = grave, !.pc = at, !.op = "check"]
        /\ \A u \in Thread : u # t => th'[u] = th[u]
    BY <1>0, <2>1
  <2>3. Moves(t, at, "check", -1, -1)
    BY <2>2 DEF Moves, Idle
  <2> QED
    BY <2>1, <2>3
<1>2. rotate_log(t) => Moves(t, "access", "rotate", th[t].cur, th[t].new)
  BY <1>0, StepMoves DEF rotate_log
<1> QED
  BY <1>1, <1>2

\* the steps that touch no descriptor
LEMMA QuietMoves ==
    ASSUME TypeOK, NEW t \in Thread
    PROVE  /\ check_file(t) => \E at \in {"open", "write"} : Moves(t, at, th[t].op, -1, -1)
           /\ take_fd(t) => Moves(t, "writev", th[t].op, _fd, th[t].new)
           /\ take_wf_fd(t) => Moves(t, "wf_writev", th[t].op, _wf_fd, th[t].new)
           /\ check_size(t) => \/ Moves(t, "idle", "none", -1, -1) /\ _fileSizeMutex' = _fileSizeMutex
                               \/ /\ Moves(t, "access", "rotate", th[t].cur, th[t].new)
                                  /\ _fileSizeMutex' = t /\ Full
           /\ unlock_size(t) => Moves(t, "idle", "none", -1, -1)
<1>0. th \in [Thread -> Call]
  BY TypeParts
<1>1. check_file(t) => \E at \in {"open", "write"} : Moves(t, at, th[t].op, -1, -1)
  BY <1>0, GotoMoves DEF check_file
<1>2. take_fd(t) => Moves(t, "writev", th[t].op, _fd, th[t].new)
  BY <1>0, StepMoves DEF take_fd
<1>3. take_wf_fd(t) => Moves(t, "wf_writev", th[t].op, _wf_fd, th[t].new)
  BY <1>0, StepMoves DEF take_wf_fd
<1>4. check_size(t) => \/ Moves(t, "idle", "none", -1, -1) /\ _fileSizeMutex' = _fileSizeMutex
                       \/ /\ Moves(t, "access", "rotate", th[t].cur, th[t].new)
                          /\ _fileSizeMutex' = t /\ Full
  BY <1>0, StepMoves, GotoMoves DEF check_size
<1>5. unlock_size(t) => Moves(t, "idle", "none", -1, -1)
  <2>1. unlock_size(t) => Goto(t, "idle")
    BY DEF unlock_size, Goto
  <2> QED
    BY <1>0, <2>1, GotoMoves
<1> QED
  BY <1>1, <1>2, <1>3, <1>4, <1>5

LEMMA WriteMoves ==
    ASSUME TypeOK, NEW t \in Thread, writev(t) \/ wf_writev(t)
    PROVE  \E at \in {"wf_write", "size", "idle"} :
              /\ at = "size" => _maxFileSize > 0
              /\ Moves(t, at, IF at = "idle" THEN "none" ELSE th[t].op, -1, -1)
<1>0. th \in [Thread -> Call]
  BY TypeParts
<1>1. PICK at \in {"wf_write", "size", "idle"} : Goto(t, at) /\ (at = "size" => _maxFileSize > 0)
  BY DEF writev, wf_writev, AfterWrite
<1> QED
  BY <1>0, <1>1, GotoMoves

LEMMA SwapMoves ==
    ASSUME TypeOK, NEW t \in Thread
    PROVE  /\ \A ok \in BOOLEAN : open_log(t, ok) =>
                 Moves(t, IF _flag THEN "close" ELSE "dup", th[t].op, th[t].cur, NewFd(os, ok))
           /\ dup_log(t) => Moves(t, AfterSwap(t), th[t].op, -1, -1)
           /\ close_log(t) => Moves(t, "store", th[t].op, th[t].cur, th[t].new)
           /\ store_fd(t) => Moves(t, AfterSwap(t), th[t].op, -1, -1)
           /\ \A time : rotate_access(t, time) =>
                 \E at \in {"list", "open"} : Moves(t, at, th[t].op, -1, -1)
           /\ rotate_list(t) => Moves(t, "rename", th[t].op, -1, -1)
           /\ rotate_rename(t) => Moves(t, "wf_rename", th[t].op, -1, -1)
           /\ rotate_wf(t) => Moves(t, "open", th[t].op, -1, -1)
           /\ \A ok \in BOOLEAN : open_wf(t, ok) =>
                 Moves(t, "wf_close", th[t].op, th[t].cur, NewFd(os, ok))
           /\ close_wf(t) => Moves(t, "wf_store", th[t].op, th[t].cur, th[t].new)
           /\ store_wf_fd(t) => Moves(t, "unlock", th[t].op, -1, -1)
<1>0. th \in [Thread -> Call]
  BY TypeParts
<1>1. \A ok \in BOOLEAN : open_log(t, ok) =>
          Moves(t, IF _flag THEN "close" ELSE "dup", th[t].op, th[t].cur, NewFd(os, ok))
  BY <1>0, StepMoves DEF open_log
<1>2. (dup_log(t) \/ store_fd(t)) => Moves(t, AfterSwap(t), th[t].op, -1, -1)
  <2>1. (dup_log(t) \/ store_fd(t)) => Goto(t, AfterSwap(t))
    BY DEF dup_log, store_fd
  <2>2. AfterSwap(t) # "idle"
    BY DEF AfterSwap
  <2> QED
    BY <1>0, <2>1, <2>2, GotoMoves
<1>3. close_log(t) => Moves(t, "store", th[t].op, th[t].cur, th[t].new)
  BY <1>0, StepMoves DEF close_log
<1>4. /\ \A time : rotate_access(t, time) =>
            \E at \in {"list", "open"} : Moves(t, at, th[t].op, -1, -1)
      /\ rotate_list(t) => Moves(t, "rename", th[t].op, -1, -1)
      /\ rotate_rename(t) => Moves(t, "wf_rename", th[t].op, -1, -1)
      /\ rotate_wf(t) => Moves(t, "open", th[t].op, -1, -1)
  BY <1>0, GotoMoves DEF rotate_access, rotate_list, rotate_rename, rotate_wf
<1>5. \A ok \in BOOLEAN : open_wf(t, ok) =>
          Moves(t, "wf_close", th[t].op, th[t].cur, NewFd(os, ok))
  BY <1>0, StepMoves DEF open_wf
<1>6. close_wf(t) => Moves(t, "wf_store", th[t].op, th[t].cur, th[t].new)
  BY <1>0, StepMoves DEF close_wf
<1>7. store_wf_fd(t) => Moves(t, "unlock", th[t].op, -1, -1)
  BY <1>0, GotoMoves DEF store_wf_fd
<1> QED
  BY <1>1, <1>2, <1>3, <1>4, <1>5, <1>6, <1>7

-----------------------------------------------------------------------------
(* Where the threads are.                                                  *)

Swapping == {"dup", "close", "store", "wf_close", "wf_store"}

\* what the place of a thread says of the settings and of what it has in hand
Placed(t) ==
    /\ th[t].pc \in {"close", "store"} => _flag
    /\ th[t].pc = "dup" => ~ _flag
    /\ th[t].pc \in {"wf_open", "wf_close", "wf_store"} => _wf_flag
    /\ th[t].pc \in InRotation \ {"open", "dup", "close", "store"} => th[t].op = "rotate"
    /\ th[t].pc \in {"stat", "open", "dup", "close", "store"} =>
          th[t].op = "rotate" \/ (th[t].op = "check" /\ _check)
    /\ th[t].pc \in InRotation \cup {"stat"} => _name
    /\ th[t].op = "rotate" => th[t].pc \in InRotation
    /\ th[t].op = "rotate" /\ _maxFileSize > 0 => _fileSizeMutex = t
    /\ _name /\ th[t].pc = "size" => _maxFileSize > 0
    /\ th[t].new # -1 => th[t].pc \in Swapping
    /\ ~ _flag /\ th[t].pc = "writev" => th[t].cur = _fd

\* before the log is named nothing is open but the terminal
Unnamed ==
    /\ _fd = 2 /\ os.fds[2] = Tty /\ ~ _flag /\ ~ _wf_flag /\ os.names = << >>
    /\ _fileList = << >> /\ ~ history.flagged /\ history.rotations = 0

Control ==
    /\ \A t \in Thread : Placed(t)
    /\ \A t, u \in Thread : th[t].op = "rotate" /\ th[u].op = "rotate" => t = u
    /\ _flag => history.flagged
    /\ _fd = -1 => history.dead
    /\ ~ _name => Unnamed

LEMMA SetupControl ==
    ASSUME TypeOK, Control, Setup
    PROVE  Control'
<1>1. ~ _name /\ Unnamed
  BY DEF Setup, set_max_file_size, set_max_file_index, set_check, Control
<1>2. UNCHANGED <<os, _fd, _wf_fd, _name, _flag, _wf_flag, lists, _fileSizeMutex, th, history>>
  BY DEF Setup, set_max_file_size, set_max_file_index, set_check
<1>3. ASSUME NEW t \in Thread PROVE Placed(t)'
  BY <1>1, <1>2 DEF Control, Placed, InRotation
<1>4. Unnamed'
  BY <1>1, <1>2 DEF Unnamed, lists
<1> QED
  BY <1>2, <1>3, <1>4 DEF Control

LEMMA SetFileNameControl ==
    ASSUME TypeOK, Control, NEW flag \in BOOLEAN, NEW wf \in BOOLEAN, NEW ok \in BOOLEAN,
           NEW wf_ok \in BOOLEAN, set_file_name(flag, wf, ok, wf_ok)
    PROVE  Control' /\ \A t \in Thread : th[t].new = -1 /\ th[t].pc = "idle"
<1>1. NoCall /\ th' = th /\ _name' /\ _flag' = flag
  BY SetFileName
<1>2. history'.flagged = (history.flagged \/ flag) /\ history'.dead = (history.dead \/ (flag /\ ~ ok))
  <2>1. history \in History
    BY TypeParts DEF Settled
  <2> QED
    BY <2>1, SetFileNameHistory
<1>3. \A t \in Thread : th[t].pc = "idle" /\ th[t].op # "rotate" /\ th[t].new = -1
  BY <1>1 DEF NoCall, Control, Placed, InRotation, Swapping
<1>4. ASSUME NEW t \in Thread PROVE Placed(t)'
  BY <1>1, <1>3 DEF Placed, InRotation, Swapping
<1>5. _fd' = -1 => history'.dead
  <2>1. _fd' = IF flag THEN NewFd(os, ok) ELSE _fd
    BY SetFileName
  <2>2. ok => NewFd(os, ok) # -1
    BY SetFileName, TypeParts, LowestFd, Numbers DEF NewFd, CanOpen
  <2> QED
    BY <1>2, <2>1, <2>2 DEF Control
<1> QED
  BY <1>1, <1>2, <1>3, <1>4, <1>5 DEF Control

\* steps that leave the settings alone
Steady == UNCHANGED <<_name, _check, _maxFileSize, _maxFileIndex, _flag, _wf_flag>>

\* what is left to show for a step of t that does not name the log
LEMMA StepControl ==
    ASSUME Control, Steady, NEW t \in Thread, NEW at, NEW op, NEW cur, NEW new,
           Moves(t, at, op, cur, new), Placed(t)',
           _fd' = _fd \/ _flag,
           history'.flagged = history.flagged, history.dead => history'.dead,
           _fd' = _fd \/ (_fd' = -1 => history'.dead),
           ~ _name => Unnamed',
           \/ op = "rotate" => th[t].op = "rotate"
           \/ \A u \in Thread : th[u].op # "rotate",
           \/ _fileSizeMutex' = _fileSizeMutex
           \/ \A u \in Thread \ {t} : th[u].op # "rotate"
    PROVE  Control'
<1>1. ASSUME NEW u \in Thread, u # t PROVE Placed(u)'
  <2>1. th'[u] = th[u] /\ Placed(u)
    BY <1>1 DEF Moves, Control
  <2> QED
    BY <1>1, <2>1 DEF Placed, Steady
<1>2. ASSUME NEW u \in Thread, NEW v \in Thread, th'[u].op = "rotate" /\ th'[v].op = "rotate"
      PROVE  u = v
  BY <1>2 DEF Moves, Control
<1> QED
  BY <1>1, <1>2 DEF Control, Steady

LEMMA SteadyStep ==
    ASSUME NEW t \in Thread, Step(t) \/ rotate_log(t) \/ \E grave \in Grave : log_message(t, grave)
    PROVE  Steady
  BY DEF Step, rotate_log, log_message, check_file, open_log, dup_log, close_log, store_fd, take_fd,
         writev, take_wf_fd, wf_writev, check_size, unlock_size, rotate_access, rotate_list,
         rotate_rename, rotate_wf, open_wf, close_wf, store_wf_fd, settings, Steady

LEMMA CallControl ==
    ASSUME TypeOK, Control, NEW t \in Thread,
           rotate_log(t) \/ \E grave \in Grave : log_message(t, grave)
    PROVE  Control'
<1>1. /\ UNCHANGED <<os, _fd, lists, _fileSizeMutex, history>> /\ Steady /\ th[t].pc = "idle"
  BY SteadyStep DEF rotate_log, log_message
<1>2. ~ _name => Unnamed'
  BY <1>1 DEF Control, Unnamed, Steady, lists
<1>3. th[t].new = -1 /\ th[t].op # "rotate"
  BY <1>1 DEF Control, Placed, Swapping, InRotation
<1>4. CASE rotate_log(t)
  <2>1. Moves(t, "access", "rotate", th[t].cur, th[t].new)
    BY <1>4, CallMoves
  <2>2. _name /\ _maxFileSize = 0 /\ \A u \in Thread : th[u].op # "rotate"
    BY <1>4 DEF rotate_log
  <2>3. Placed(t)'
    BY <1>1, <1>3, <2>1, <2>2 DEF Placed, Moves, Steady, InRotation
  <2> QED
    BY <1>1, <1>2, <2>1, <2>2, <2>3, StepControl
<1>5. ASSUME NEW grave \in Grave, log_message(t, grave) PROVE Control'
  <2>1. PICK at \in {"stat", "write"} :
           (at = "stat" => _check /\ _name) /\ Moves(t, at, "check", -1, -1)
    BY <1>5, CallMoves
  <2>2. Placed(t)'
    BY <1>1, <2>1 DEF Placed, Moves, Steady, InRotation
  <2> QED
    BY <1>1, <1>2, <2>1, <2>2, StepControl
<1> QED
  BY <1>4, <1>5

LEMMA QuietControl ==
    ASSUME TypeOK, Control, NEW t \in Thread, Quiet(t)
    PROVE  Control'
<1>1. UNCHANGED <<os, _fd, lists, history>> /\ Steady
  BY SteadyStep DEF Quiet, Step, check_file, take_fd, take_wf_fd, check_size, unlock_size
<1>2. ~ _name => Unnamed'
  BY <1>1 DEF Control, Unnamed, Steady, lists
<1>3. Placed(t)
  BY DEF Control
<1>4. CASE check_file(t)
  <2>1. PICK at \in {"open", "write"} : Moves(t, at, th[t].op, -1, -1)
    BY <1>4, QuietMoves
  <2>2. th[t].pc = "stat" /\ _fileSizeMutex' = _fileSizeMutex
    BY <1>4 DEF check_file
  <2>3. Placed(t)'
    BY <1>1, <1>3, <2>1, <2>2 DEF Placed, Moves, Steady, InRotation
  <2> QED
    BY <1>1, <1>2, <2>1, <2>2, <2>3, StepControl
<1>5. CASE take_fd(t)
  <2>1. Moves(t, "writev", th[t].op, _fd, th[t].new) /\ th[t].pc = "write" /\ _fileSizeMutex' = _fileSizeMutex
    BY <1>5, QuietMoves DEF take_fd
  <2>2. Placed(t)'
    BY <1>1, <1>3, <2>1 DEF Placed, Moves, Steady, InRotation, Swapping
  <2> QED
    BY <1>1, <1>2, <2>1, <2>2, StepControl
<1>6. CASE take_wf_fd(t)
  <2>1. /\ Moves(t, "wf_writev", th[t].op, _wf_fd, th[t].new) /\ th[t].pc = "wf_write"
        /\ _fileSizeMutex' = _fileSizeMutex
    BY <1>6, QuietMoves DEF take_wf_fd
  <2>2. Placed(t)'
    BY <1>1, <1>3, <2>1 DEF Placed, Moves, Steady, InRotation, Swapping
  <2> QED
    BY <1>1, <1>2, <2>1, <2>2, StepControl
<1>7. CASE check_size(t)
  <2>0. th[t].pc = "size" /\ _fileSizeMutex = Nobody
    BY <1>7 DEF check_size
  <2>1. CASE Moves(t, "idle", "none", -1, -1) /\ _fileSizeMutex' = _fileSizeMutex
    <3>1. Placed(t)'
      BY <1>1, <2>1 DEF Placed, Moves, Steady, InRotation
    <3> QED
      BY <1>1, <1>2, <2>1, <3>1, StepControl
  <2>2. CASE Moves(t, "access", "rotate", th[t].cur, th[t].new) /\ _fileSizeMutex' = t /\ Full
    <3>1. _name
      BY <2>2, Numbers DEF Full, FileAt, Control, Unnamed
    <3>2. _maxFileSize > 0
      BY <1>3, <2>0, <3>1 DEF Placed
    <3>3. \A u \in Thread : th[u].op # "rotate"
      BY <2>0, <3>2, NobodyAssumption DEF Control, Placed
    <3>4. Placed(t)'
      BY <1>1, <1>3, <2>0, <2>2, <3>1 DEF Placed, Moves, Steady, InRotation, Swapping
    <3> QED
      BY <1>1, <1>2, <2>2, <3>3, <3>4, StepControl
  <2> QED
    BY <1>7, <2>1, <2>2, QuietMoves
<1>8. CASE unlock_size(t)
  <2>1. Moves(t, "idle", "none", -1, -1) /\ th[t].pc = "unlock"
    BY <1>8, QuietMoves DEF unlock_size
  <2>2. \A u \in Thread \ {t} : th[u].op # "rotate"
    <3>1. th[t].op = "rotate"
      BY <1>3, <2>1 DEF Placed, InRotation
    <3> QED
      BY <3>1 DEF Control
  <2>3. Placed(t)'
    BY <1>1, <2>1 DEF Placed, Moves, Steady, InRotation
  <2> QED
    BY <1>1, <1>2, <2>1, <2>2, <2>3, StepControl
<1> QED
  BY <1>4, <1>5, <1>6, <1>7, <1>8 DEF Quiet

\* a write touches no name and no descriptor
LEMMA WriteLeaves ==
    ASSUME TypeOK, NEW t \in Thread, NEW kind, Write(t, kind)
    PROVE  /\ os'.fds = os.fds /\ os'.names = os.names /\ os'.kind = os.kind
           /\ history'.flagged = history.flagged /\ history'.dead = history.dead
           /\ history'.rotations = history.rotations /\ history'.rushed = history.rushed
           /\ \A f \in Files : os.msgs[f] \subseteq os'.msgs[f]
<1>0. Kernel(os) /\ history \in History
  BY TypeParts DEF Settled
<1> DEFINE f == FileAt(os, th[t].cur)
<1>1. /\ os' = (IF f \in Files THEN [os EXCEPT !.msgs[f] = @ \cup {th[t].msg}] ELSE os)
      /\ \/ history' = history
         \/ history' = [history EXCEPT !.astray = @ \cup {<<kind, _flag>>}]
         \/ history' = [history EXCEPT !.written = @ \cup {th[t].msg}]
  BY DEF Write
<1> HIDE DEF f
<1>2. /\ os'.fds = os.fds /\ os'.names = os.names /\ os'.kind = os.kind
      /\ \A g \in Files : os.msgs[g] \subseteq os'.msgs[g]
  BY <1>0, <1>1 DEF Kernel
<1>3. /\ history'.flagged = history.flagged /\ history'.dead = history.dead
      /\ history'.rotations = history.rotations /\ history'.rushed = history.rushed
  BY <1>0, <1>1 DEF History
<1> QED
  BY <1>2, <1>3

LEMMA WritesControl ==
    ASSUME TypeOK, Control, NEW t \in Thread, writev(t) \/ wf_writev(t)
    PROVE  Control'
<1>1. UNCHANGED <<_fd, lists, _fileSizeMutex>> /\ Steady
  BY SteadyStep DEF Step, writev, wf_writev
<1>2. /\ os'.fds = os.fds /\ os'.names = os.names /\ history'.flagged = history.flagged
      /\ history'.dead = history.dead /\ history'.rotations = history.rotations
  BY WriteLeaves DEF writev, wf_writev
<1>3. ~ _name => Unnamed'
  BY <1>1, <1>2 DEF Control, Unnamed, Steady, lists
<1>4. PICK at \in {"wf_write", "size", "idle"} :
              /\ at = "size" => _maxFileSize > 0
              /\ Moves(t, at, IF at = "idle" THEN "none" ELSE th[t].op, -1, -1)
  BY WriteMoves
<1>5. th[t].op # "rotate"
  BY DEF writev, wf_writev, Control, Placed, InRotation
<1>6. Placed(t)'
  BY <1>1, <1>4, <1>5 DEF Placed, Moves, Steady, InRotation
<1> QED
  BY <1>1, <1>2, <1>3, <1>4, <1>5, <1>6, StepControl

LEMMA SwapControl ==
    ASSUME TypeOK, Control, NEW t \in Thread,
           \/ \E ok \in BOOLEAN : open_log(t, ok) \/ open_wf(t, ok)
           \/ Rotate(t)
           \/ dup_log(t) \/ close_log(t) \/ store_fd(t) \/ close_wf(t) \/ store_wf_fd(t)
    PROVE  Control'
<1>0. Placed(t) /\ history \in History
  BY TypeParts DEF Control, Settled
<1>1. Steady /\ _fileSizeMutex' = _fileSizeMutex
  BY DEF open_log, open_wf, dup_log, close_log, store_fd, close_wf, store_wf_fd, Rotate,
         rotate_access, rotate_list, rotate_rename, rotate_wf, settings, Steady
<1>2. _name
  BY <1>0 DEF open_log, open_wf, dup_log, close_log, store_fd, close_wf, store_wf_fd, Rotate,
              rotate_access, rotate_list, rotate_rename, rotate_wf, Placed, InRotation
<1>3. history'.flagged = history.flagged /\ (history.dead => history'.dead)
  <2>1. \/ history' = history
        \/ history' = [history EXCEPT !.dead = @ \/ th[t].new = -1]
        \/ \E n, b : history' = [history EXCEPT !.rotations = n, !.rushed = b]
    BY DEF open_log, open_wf, dup_log, close_log, store_fd, close_wf, store_wf_fd, Rotate,
           rotate_access, rotate_list, rotate_rename, rotate_wf
  <2> QED
    BY <1>0, <2>1 DEF History
<1>4. _fd' = _fd \/ (_flag /\ (_fd' = -1 => history'.dead))
  <2>1. CASE store_fd(t)
    BY <1>0, <2>1 DEF store_fd, Placed, History
  <2> QED
    BY <2>1 DEF open_log, open_wf, dup_log, close_log, close_wf, store_wf_fd, Rotate,
            rotate_access, rotate_list, rotate_rename, rotate_wf
<1>5. ASSUME NEW at, NEW cur, NEW new, Moves(t, at, th[t].op, cur, new), Placed(t)' PROVE Control'
  BY <1>1, <1>2, <1>3, <1>4, <1>5, StepControl
<1>6. ASSUME NEW ok \in BOOLEAN, open_log(t, ok) PROVE Control'
  <2>1. /\ Moves(t, IF _flag THEN "close" ELSE "dup", th[t].op, th[t].cur, NewFd(os, ok))
        /\ th[t].pc = "open"
    BY <1>6, SwapMoves DEF open_log
  <2>2. Placed(t)'
    BY <1>0, <1>1, <1>2, <2>1 DEF Placed, Moves, Steady, InRotation, Swapping
  <2> QED
    BY <1>5, <2>1, <2>2
<1>7. ASSUME NEW ok \in BOOLEAN, open_wf(t, ok) PROVE Control'
  <2>1. Moves(t, "wf_close", th[t].op, th[t].cur, NewFd(os, ok)) /\ th[t].pc = "wf_open"
    BY <1>7, SwapMoves DEF open_wf
  <2>2. Placed(t)'
    BY <1>0, <1>1, <1>2, <2>1 DEF Placed, Moves, Steady, InRotation, Swapping
  <2> QED
    BY <1>5, <2>1, <2>2
<1>8. CASE Rotate(t)
  <2>1. PICK at \in {"list", "rename", "wf_rename", "open"} :
           Moves(t, at, th[t].op, -1, -1) /\ th[t].pc \in {"access", "list", "rename", "wf_rename"}
    BY <1>8, SwapMoves DEF Rotate, rotate_access, rotate_list, rotate_rename, rotate_wf
  <2>2. Placed(t)'
    BY <1>0, <1>1, <1>2, <2>1 DEF Placed, Moves, Steady, InRotation, Swapping
  <2> QED
    BY <1>5, <2>1, <2>2
<1>9. CASE dup_log(t) \/ store_fd(t)
  <2>1. Moves(t, AfterSwap(t), th[t].op, -1, -1) /\ th[t].pc \in {"dup", "store"}
    BY <1>9, SwapMoves DEF dup_log, store_fd
  <2>2. th[t].op \in {"check", "rotate"}
    BY <1>0, <2>1 DEF Placed
  <2>3. Placed(t)'
    <3>1. CASE AfterSwap(t) = "write" /\ th[t].op = "check"
      BY <1>0, <1>1, <1>2, <2>1, <3>1 DEF Placed, Moves, Steady, InRotation, Swapping
    <3>2. CASE AfterSwap(t) = (IF _wf_flag THEN "wf_open" ELSE "unlock") /\ th[t].op = "rotate"
      BY <1>0, <1>1, <1>2, <2>1, <3>2 DEF Placed, Moves, Steady, InRotation, Swapping
    <3> QED
      BY <2>2, <3>1, <3>2 DEF AfterSwap
  <2> QED
    BY <1>5, <2>1, <2>3
<1>10. CASE close_log(t) \/ close_wf(t)
  <2>1. PICK at \in {"store", "wf_store"} :
           /\ Moves(t, at, th[t].op, th[t].cur, th[t].new)
           /\ th[t].pc = IF at = "store" THEN "close" ELSE "wf_close"
    BY <1>10, SwapMoves DEF close_log, close_wf
  <2>2. Placed(t)'
    BY <1>0, <1>1, <1>2, <2>1 DEF Placed, Moves, Steady, InRotation, Swapping
  <2> QED
    BY <1>5, <2>1, <2>2
<1>11. CASE store_wf_fd(t)
  <2>1. Moves(t, "unlock", th[t].op, -1, -1) /\ th[t].pc = "wf_store"
    BY <1>11, SwapMoves DEF store_wf_fd
  <2>2. Placed(t)'
    BY <1>0, <1>1, <1>2, <2>1 DEF Placed, Moves, Steady, InRotation, Swapping
  <2> QED
    BY <1>5, <2>1, <2>2
<1> QED
  BY <1>6, <1>7, <1>8, <1>9, <1>10, <1>11

LEMMA ControlStep ==
    ASSUME TypeOK, Control, [Next]_vars
    PROVE  Control'
<1>1. CASE Setup
  BY <1>1, SetupControl
<1>2. CASE \E flag, wf, ok, wf_ok \in BOOLEAN : set_file_name(flag, wf, ok, wf_ok)
  BY <1>2, SetFileNameControl
<1>3. CASE \E t \in Thread, grave \in Grave : log_message(t, grave)
  BY <1>3, CallControl
<1>4. CASE \E t \in Thread : rotate_log(t)
  BY <1>4, CallControl
<1>5. ASSUME NEW t \in Thread, Step(t) PROVE Control'
  BY <1>5, QuietControl, WritesControl, SwapControl DEF Step, Quiet, Rotate
<1>6. CASE move_away
  <2>1. /\ Live("log") \in DOMAIN os.names
        /\ UNCHANGED <<_fd, settings, lists, _fileSizeMutex, th, history>>
    BY <1>6 DEF move_away, FileNamed
  <2>2. _name
    BY <2>1 DEF Control, Unnamed
  <2> QED
    BY <2>1, <2>2 DEF Control, Placed, settings
<1>7. CASE UNCHANGED vars
  BY <1>7 DEF Control, Placed, Unnamed, vars, settings, lists
<1> QED
  BY <1>1, <1>2, <1>3, <1>4, <1>5, <1>6, <1>7 DEF Next
-----------------------------------------------------------------------------
(* The files.                                                              *)

KindOf(n) == IF n[1] = "moved" THEN "log" ELSE n[1]

\* a name says what its file is, and what is open is some file
Kinds(s) ==
    /\ \A n \in DOMAIN s.names : s.kind[s.names[n]] = KindOf(n)
    /\ \A d \in Fds : s.fds[d] \in Files => s.kind[s.fds[d]] # "none"

LogsNamed(s) == \A f \in Files : s.kind[f] = "log" => f \in Range(s.names)

\* the times in the names of old logs are in D
Dated(s, D) == \A n \in DOMAIN s.names : n[1] = "log" /\ n[2] > 0 => n[2] \in D

Sound(s, L, D) ==
    /\ Kinds(s)
    /\ L => LogsNamed(s)
    /\ Dated(s, D)

\* nothing written is lost from a file
Grows(s, o) ==
    \A f \in Files : /\ s.kind[f] # "none" => o.kind[f] = s.kind[f]
                     /\ s.msgs[f] \subseteq o.msgs[f]

LEMMA GrowsOn ==
    ASSUME NEW s, NEW o, NEW p, Grows(s, o), Grows(o, p)
    PROVE  Grows(s, p)
  BY DEF Grows

LEMMA CloseSound ==
    ASSUME NEW s, Kernel(s), NEW d, NEW L, NEW D, Sound(s, L, D)
    PROVE  Sound(Close(s, d), L, D) /\ Grows(s, Close(s, d))
<1> DEFINE o == Close(s, d)
<1>1. /\ o.names = s.names /\ o.kind = s.kind /\ o.msgs = s.msgs
      /\ \A e \in Fds : o.fds[e] = IF e = d THEN Closed ELSE s.fds[e]
  BY CloseFacts
<1> HIDE DEF o
<1>2. Kinds(o)
  BY <1>1, Numbers DEF Kinds, Sound
<1>3. Sound(o, L, D) /\ Grows(s, o)
  BY <1>1, <1>2 DEF Sound, LogsNamed, Dated, Grows
<1> QED
  BY <1>3 DEF o

LEMMA Dup2Sound ==
    ASSUME NEW s, Kernel(s), NEW from, NEW T, NEW L, NEW D, Sound(s, L, D)
    PROVE  Sound(Dup2(s, from, T), L, D) /\ Grows(s, Dup2(s, from, T))
<1> DEFINE o == Dup2(s, from, T)
<1>1. /\ o.names = s.names /\ o.kind = s.kind /\ o.msgs = s.msgs
      /\ \A e \in Fds : o.fds[e] = IF from \in Fds /\ e \in T THEN s.fds[from] ELSE s.fds[e]
  BY Dup2Facts
<1> HIDE DEF o
<1>2. Kinds(o)
  BY <1>1, Numbers DEF Kinds, Sound
<1>3. Sound(o, L, D) /\ Grows(s, o)
  BY <1>1, <1>2 DEF Sound, LogsNamed, Dated, Grows
<1> QED
  BY <1>3 DEF o

LEMMA OpenSound ==
    ASSUME NEW s, Kernel(s), NEW kind \in {"log", "wf"}, CanOpen(s, kind),
           NEW L, NEW D, Sound(s, L, D)
    PROVE  Sound(Open(s, kind), L, D) /\ Grows(s, Open(s, kind))
<1> DEFINE o == Open(s, kind)
           d == Min(FreeFds(s))
<1>1. PICK f \in Files : Opened(s, kind, d, f, o)
  BY OpenFacts
<1>2. /\ d \in Fds /\ s.fds \in [Fds -> Files \cup {Tty, Closed}]
      /\ s.kind \in [Files -> {"none", "log", "wf"}] /\ DOMAIN s.names \subseteq Name
      /\ \A n \in DOMAIN s.names : s.names[n] \in Files
  BY <1>1 DEF Opened, Kernel
<1> HIDE DEF o, d
<1>3. Live(kind) \in Name /\ KindOf(Live(kind)) = kind /\ Live(kind)[2] = 0
  BY LiveNames DEF Live, KindOf
<1>4. \A n \in Name : KindOf(n) \in {"log", "wf"}
  BY NameParts DEF KindOf
<1>5. s.kind[f] \in {"none", kind}
  BY <1>1, <1>3 DEF Opened, Sound, Kinds
<1>6. \A g \in Files : o.kind[g] = IF g = f THEN kind ELSE s.kind[g]
  BY <1>1, <1>2 DEF Opened
<1>7. \A e \in Fds : o.fds[e] = IF e = d THEN f ELSE s.fds[e]
  BY <1>1, <1>2 DEF Opened
<1>8. /\ DOMAIN o.names = DOMAIN s.names \cup {Live(kind)} /\ o.msgs = s.msgs
      /\ \A n \in DOMAIN o.names : o.names[n] = IF n = Live(kind) THEN f ELSE s.names[n]
      /\ Live(kind) \in DOMAIN s.names => f = s.names[Live(kind)]
  BY <1>1 DEF Opened
<1>9. Grows(s, o)
  BY <1>5, <1>6, <1>8 DEF Grows
<1>10. Kinds(o)
  <2>1. ASSUME NEW n \in DOMAIN o.names PROVE o.kind[o.names[n]] = KindOf(n)
    <3>1. CASE n = Live(kind)
      BY <1>3, <1>6, <1>8, <3>1
    <3>2. CASE n # Live(kind)
      <4>1. n \in DOMAIN s.names /\ o.names[n] = s.names[n] /\ s.names[n] \in Files
        BY <1>2, <1>8, <3>2
      <4>2. s.kind[s.names[n]] = KindOf(n) /\ KindOf(n) # "none"
        BY <1>2, <1>4, <4>1 DEF Sound, Kinds
      <4> QED
        BY <1>9, <4>1, <4>2 DEF Grows
    <3> QED
      BY <3>1, <3>2
  <2>2. ASSUME NEW e \in Fds, o.fds[e] \in Files PROVE o.kind[o.fds[e]] # "none"
    BY <1>6, <1>7, <2>2 DEF Sound, Kinds
  <2> QED
    BY <2>1, <2>2 DEF Kinds
<1>11. ASSUME LogsNamed(s) PROVE LogsNamed(o)
  <2>1. f \in Range(o.names)
    BY <1>8 DEF Range
  <2>2. Range(s.names) \subseteq Range(o.names)
    BY <1>8 DEF Range
  <2> QED
    BY <1>6, <1>11, <2>1, <2>2 DEF LogsNamed
<1>12. Dated(s, D) => Dated(o, D)
  BY <1>3, <1>8 DEF Dated
<1>13. Sound(o, L, D)
  BY <1>10, <1>11, <1>12 DEF Sound
<1> QED
  BY <1>9, <1>13 DEF o

LEMMA GrowsSelf ==
    ASSUME NEW s
    PROVE  Grows(s, s)
  BY DEF Grows

LEMMA AfterOpenSound ==
    ASSUME NEW s, Kernel(s), NEW kind \in {"log", "wf"}, NEW ok \in BOOLEAN, ok => CanOpen(s, kind),
           NEW L, NEW D, Sound(s, L, D)
    PROVE  Sound(AfterOpen(s, kind, ok), L, D) /\ Grows(s, AfterOpen(s, kind, ok))
  BY OpenSound, GrowsSelf DEF AfterOpen

LEMMA RedirectedSound ==
    ASSUME NEW s, Kernel(s), NEW d, NEW L, NEW D, Sound(s, L, D)
    PROVE  Sound(Redirected(s, d), L, D) /\ Grows(s, Redirected(s, d))
<1> DEFINE o == Dup2(s, d, {_fd, 1, 2})
<1>1. Kernel(o) /\ Sound(o, L, D) /\ Grows(s, o)
  BY Dup2Facts, Dup2Sound
<1>2. Redirected(s, d) = o \/ Redirected(s, d) = Close(o, d)
  BY DEF Redirected
<1> HIDE DEF o
<1>3. Sound(Close(o, d), L, D) /\ Grows(o, Close(o, d))
  BY <1>1, CloseSound
<1> QED
  BY <1>1, <1>2, <1>3, GrowsOn

\* a file changes its name to one of the same kind; what had that name is no log
LEMMA RenameSound ==
    ASSUME NEW s, Kernel(s), NEW from \in Name, NEW to \in Name, from # to, KindOf(from) = KindOf(to),
           NEW L, NEW D, Sound(s, L, D),
           L => to \notin DOMAIN s.names \/ KindOf(to) # "log",
           to[1] = "log" /\ to[2] > 0 => to[2] \in D
    PROVE  Grows(s, Rename(s, from, to)) /\ Sound(Rename(s, from, to), L, D)
<1> DEFINE o == Rename(s, from, to)
<1>1. /\ o.fds = s.fds /\ o.kind = s.kind /\ o.msgs = s.msgs
      /\ from \notin DOMAIN s.names => o.names = s.names
      /\ from \in DOMAIN s.names =>
            /\ DOMAIN o.names = (DOMAIN s.names \ {from}) \cup {to}
            /\ \A n \in DOMAIN o.names : o.names[n] = IF n = to THEN s.names[from] ELSE s.names[n]
  BY RenameFacts
<1> HIDE DEF o
<1>2. Grows(s, o)
  BY <1>1 DEF Grows
<1>3. CASE from \notin DOMAIN s.names
  BY <1>1, <1>2, <1>3 DEF o, Sound, Kinds, LogsNamed, Dated
<1>4. CASE from \in DOMAIN s.names
  <2>1. Kinds(o)
    BY <1>1, <1>4 DEF Sound, Kinds
  <2>2. ASSUME L PROVE LogsNamed(o)
    <3>1. SUFFICES ASSUME NEW f \in Files, s.kind[f] = "log" PROVE f \in Range(o.names)
      BY <1>1 DEF LogsNamed
    <3>2. f \in Range(s.names)
      BY <2>2, <3>1 DEF Sound, LogsNamed
    <3>3. PICK n \in DOMAIN s.names : f = s.names[n]
      BY <3>2 DEF Range
    <3>4. CASE n = from
      BY <1>1, <1>4, <3>3, <3>4 DEF Range
    <3>5. CASE n # from
      <4>1. n # to
        BY <2>2, <3>1, <3>3 DEF Sound, Kinds
      <4> QED
        BY <1>1, <1>4, <3>3, <3>5, <4>1 DEF Range
    <3> QED
      BY <3>4, <3>5
  <2>3. Dated(o, D)
    BY <1>1, <1>4 DEF Sound, Dated
  <2> QED
    BY <1>2, <2>1, <2>2, <2>3 DEF o, Sound
<1> QED
  BY <1>3, <1>4

\* the name of a file that is no log may go
LEMMA UnlinkSound ==
    ASSUME NEW s, Kernel(s), NEW n, NEW L, NEW D, Sound(s, L, D), L => KindOf(n) # "log"
    PROVE  Grows(s, Unlink(s, n)) /\ Sound(Unlink(s, n), L, D)
<1> DEFINE o == Unlink(s, n)
<1>1. /\ o.fds = s.fds /\ o.kind = s.kind /\ o.msgs = s.msgs
      /\ DOMAIN o.names = DOMAIN s.names \ {n}
      /\ \A k \in DOMAIN s.names \ {n} : o.names[k] = s.names[k]
  BY UnlinkFacts
<1> HIDE DEF o
<1>2. Grows(s, o)
  BY <1>1 DEF Grows
<1>3. Kinds(o)
  BY <1>1 DEF Sound, Kinds
<1>4. Dated(o, D)
  BY <1>1 DEF Sound, Dated
<1>5. \A f \in Range(s.names) : f \in Range(o.names) \/ (n \in DOMAIN s.names /\ f = s.names[n])
  BY <1>1 DEF Range
<1>6. ASSUME L PROVE LogsNamed(o)
  BY <1>1, <1>5, <1>6 DEF Sound, LogsNamed, Kinds
<1> QED
  BY <1>2, <1>3, <1>4, <1>6 DEF o, Sound

\* the list without its oldest entry when it is full
Trimmed(list) == IF Len(list) >= _maxFileIndex THEN Tail(list) ELSE list

\* the oldest log goes from the list and from the disk; what is left is on the list
LEMMA DropLogSound ==
    ASSUME NEW s, Kernel(s), NEW L, NEW D, NEW list \in Seq(1 .. MaxTime), _maxFileIndex \in Nat \ {0},
           Sound(s, L, D), L => Len(list) < _maxFileIndex, Len(list) <= _maxFileIndex,
           \A d \in D : \E i \in DOMAIN list : list[i] = d
    PROVE  /\ Grows(s, Dropped(s, "log", list))
           /\ Sound(Dropped(s, "log", list), L, {d \in D : \E i \in DOMAIN Trimmed(list) : Trimmed(list)[i] = d})
           /\ Len(Trimmed(list)) < _maxFileIndex /\ Len(Trimmed(list)) <= Len(list)
           /\ Trimmed(list) \in Seq(1 .. MaxTime)
<1> DEFINE n == <<"log", Head(list)>>
           u == Unlink(s, n)
<1>1. CASE ~ (Len(list) >= _maxFileIndex)
  <2>1. Dropped(s, "log", list) = s /\ Trimmed(list) = list /\ Len(list) < _maxFileIndex
    BY <1>1 DEF Dropped, Trimmed
  <2>2. D = {d \in D : \E i \in DOMAIN list : list[i] = d}
    OBVIOUS
  <2>3. PICK t : t = Trimmed(list)
    OBVIOUS
  <2>4. PICK o : o = Dropped(s, "log", list)
    OBVIOUS
  <2>5. o = s /\ t = list /\ Grows(s, o) /\ D = {d \in D : \E i \in DOMAIN t : t[i] = d}
    BY <2>1, <2>2, <2>3, <2>4, GrowsSelf
  <2>6. Sound(o, L, {d \in D : \E i \in DOMAIN t : t[i] = d})
    BY <2>5
  <2>7. Len(t) < _maxFileIndex /\ Len(t) <= Len(list) /\ t \in Seq(1 .. MaxTime)
    BY <2>1, <2>5
  <2> QED
    BY <2>3, <2>4, <2>5, <2>6, <2>7
<1>2. CASE Len(list) >= _maxFileIndex
  <2>1. Dropped(s, "log", list) = u /\ Trimmed(list) = Tail(list) /\ ~ L
    BY <1>2 DEF Dropped, Trimmed
  <2>2. Grows(s, u) /\ Sound(u, L, D)
    <3> HIDE DEF n
    <3> QED
      BY <2>1, UnlinkSound
  <2>4. list # << >> /\ Len(list) = _maxFileIndex
    BY <1>2
  <2>5. Tail(list) \in Seq(1 .. MaxTime) /\ Len(Tail(list)) = Len(list) - 1
        /\ \A i \in 1 .. Len(list) - 1 : Tail(list)[i] = list[i + 1]
    BY <2>4
  <2>6. Dated(u, {d \in D : \E i \in DOMAIN Tail(list) : Tail(list)[i] = d})
    <3>1. DOMAIN u.names = DOMAIN s.names \ {n}
      BY UnlinkFacts
    <3>0. Dated(u, D)
      BY <2>2 DEF Sound
    <3> HIDE DEF u
    <3>2. SUFFICES ASSUME NEW k \in DOMAIN s.names, k # n, k[1] = "log" /\ k[2] > 0, k[2] \in D
                   PROVE  \E i \in DOMAIN Tail(list) : Tail(list)[i] = k[2]
      BY <3>0, <3>1 DEF Dated
    <3>3. PICK i \in DOMAIN list : list[i] = k[2]
      BY <3>2
    <3>4. k = <<k[1], k[2]>>
      BY NameParts DEF Kernel
    <3>5. i # 1
      <4>1. i = 1 => k[2] = Head(list)
        BY <2>4, <3>3
      <4> QED
        BY <3>2, <3>4, <4>1
    <3>6. i - 1 \in 1 .. Len(list) - 1 /\ i - 1 \in DOMAIN Tail(list) /\ (i - 1) + 1 = i
      BY <2>5, <3>5
    <3>7. Tail(list)[i - 1] = k[2]
      BY <2>5, <3>3, <3>6
    <3> QED
      BY <3>6, <3>7
  <2>7. Len(Tail(list)) < _maxFileIndex /\ Len(Tail(list)) <= Len(list)
    BY <2>4, <2>5
  <2>8. Sound(u, L, {d \in D : \E i \in DOMAIN Tail(list) : Tail(list)[i] = d})
    <3> HIDE DEF u
    <3> QED
      BY <2>2, <2>6 DEF Sound
  <2> HIDE DEF u, n
  <2> QED
    BY <2>1, <2>2, <2>5, <2>7, <2>8
<1> QED
  BY <1>1, <1>2

\* what was written to a log is in a log
Saved == \A k \in history.written : \E f \in Files : os.kind[f] = "log" /\ k \in os.msgs[f]

\* somebody is about to give the log the time now
Pending == \E t \in Thread : th[t].pc \in {"list", "rename"}

OnList(d) == \E i \in DOMAIN _fileList : _fileList[i] = d

\* the times that names of old logs may have; the one about to be given is still free
\* unless a second has seen two rotations
Stamps == {d \in 1 .. now : /\ history.rotations > 0
                            /\ _maxFileIndex > 0 => OnList(d)
                            /\ Pending /\ ~ history.rushed => d # now}

\* the list has no more entries than there were rotations, and the time about to be
\* given is on it
Listing ==
    /\ _maxFileIndex > 0 => Len(_fileList) <= _maxFileIndex
    /\ Len(_fileList) <= history.rotations
    /\ \A t \in Thread :
          /\ th[t].pc = "list" => Len(_fileList) < history.rotations
          /\ th[t].pc = "rename" => history.rotations > 0 /\ (_maxFileIndex > 0 => OnList(now))

FilesSound == Sound(os, Lossless, Stamps) /\ Saved /\ Listing

LEMMA FilesHold ==
    ASSUME Saved, NEW s, NEW L, NEW D, os' = s, Sound(s, L, D), Lossless' => L, D \subseteq Stamps',
           Grows(os, s), history'.written = history.written, Listing'
    PROVE  FilesSound'
<1>1. Saved'
  BY DEF Saved, Grows
<1>2. Sound(s, Lossless', Stamps')
  BY DEF Sound, Dated
<1>3. Sound(os, Lossless, Stamps)'
  BY <1>2 DEF Sound, Kinds, LogsNamed, Dated
<1> QED
  BY <1>1, <1>3 DEF FilesSound

\* what is left to show for steps that leave the lists and the clock alone
LEMMA FilesKeep ==
    ASSUME FilesSound, NEW s, os' = s, Sound(s, Lossless, Stamps), Grows(os, s),
           history'.written = history.written, history'.rotations = history.rotations,
           history'.rushed = history.rushed, _maxFileIndex' = _maxFileIndex, _fileList' = _fileList,
           now' = now, \A t \in Thread : th'[t].pc \in {"list", "rename"} => th'[t].pc = th[t].pc
    PROVE  FilesSound'
<1>1. Lossless' => Lossless
  BY DEF Lossless
<1>2. Pending' => Pending
  BY DEF Pending
<1>3. \A d : OnList(d)' <=> OnList(d)
  BY DEF OnList
<1>4. Stamps \subseteq Stamps'
  BY <1>2, <1>3 DEF Stamps
<1>5. Listing'
  BY <1>3 DEF FilesSound, Listing
<1> QED
  BY <1>1, <1>4, <1>5, FilesHold DEF FilesSound

LEMMA SetupFiles ==
    ASSUME TypeOK, Control, FilesSound, Setup
    PROVE  FilesSound'
<1>1. Unnamed /\ ~ _name /\ UNCHANGED <<os, lists, history, th, now>>
  BY DEF Setup, set_max_file_size, set_max_file_index, set_check, Control
<1>2. _maxFileIndex' \in Nat
  BY SetupType, TypeParts, LimitsAssumption DEF TypeOK
<1>3. _fileList' = << >> /\ history.rotations = 0 /\ os.names = << >>
  BY <1>1 DEF Unnamed, lists
<1>4. \A t \in Thread : th[t].pc \notin {"list", "rename"}
  BY <1>1 DEF Control, Placed, InRotation
<1>5. Sound(os, Lossless, {})
  BY <1>3 DEF FilesSound, Sound, Dated
<1>6. Lossless' => Lossless
  BY <1>1, <1>3, TypeParts, LimitsAssumption DEF Lossless, Settled
<1>7. Listing'
  BY <1>1, <1>2, <1>3, <1>4 DEF Listing
<1> QED
  BY <1>1, <1>5, <1>6, <1>7, FilesHold, GrowsSelf DEF FilesSound

LEMMA SetFileNameFiles ==
    ASSUME TypeOK, FilesSound, NEW flag \in BOOLEAN, NEW wf \in BOOLEAN, NEW ok \in BOOLEAN,
           NEW wf_ok \in BOOLEAN, set_file_name(flag, wf, ok, wf_ok)
    PROVE  FilesSound'
<1> DEFINE Fine(s) == /\ Sound(s, Lossless, Stamps)
                      /\ Grows(os, s)
<1>0. Fine(os) /\ Kernel(os)
  BY GrowsSelf, TypeParts DEF FilesSound
<1>1. /\ Kernel(Named1(ok)) /\ Kernel(Named2(flag, ok)) /\ Kernel(Named3(flag, ok))
      /\ ok => CanOpen(os, "log")
      /\ wf /\ wf_ok => CanOpen(Named3(flag, ok), "wf")
  <2>1. Kernel(Named1(ok)) /\ Kernel(Named2(flag, ok)) /\ Kernel(Named3(flag, ok))
    BY SetFileNameKernel
  <2>2. (ok => CanOpen(os, "log")) /\ (wf /\ wf_ok => CanOpen(Named3(flag, ok), "wf"))
    BY SetFileName
  <2> QED
    BY <2>1, <2>2
<1>2. Fine(Named1(ok))
  BY <1>0, <1>1, AfterOpenSound DEF Named1
<1>3. Fine(Named2(flag, ok))
  <2>1. Fine(Redirected(Named1(ok), NewFd(os, ok)))
    BY <1>1, <1>2, RedirectedSound, GrowsOn
  <2>2. Fine(Close(Named1(ok), _fd))
    BY <1>1, <1>2, CloseSound, GrowsOn
  <2> HIDE DEF Fine
  <2> QED
    BY <1>2, <2>1, <2>2 DEF Named2
<1>4. Fine(Named3(flag, ok))
  <2>1. Fine(Close(Named2(flag, ok), _wf_fd))
    BY <1>1, <1>3, CloseSound, GrowsOn
  <2> HIDE DEF Fine
  <2> QED
    BY <1>3, <2>1 DEF Named3
<1>5. wf => Fine(AfterOpen(Named3(flag, ok), "wf", wf_ok))
  BY <1>1, <1>4, AfterOpenSound, GrowsOn
<1>6. Fine(os')
  <2>1. os' = IF wf THEN AfterOpen(Named3(flag, ok), "wf", wf_ok) ELSE Named3(flag, ok)
    BY SetFileName
  <2> HIDE DEF Fine
  <2> QED
    BY <1>4, <1>5, <2>1
<1>7. /\ history'.rotations = history.rotations /\ history'.rushed = history.rushed
      /\ history'.written = history.written
  <2>1. history \in History
    BY TypeParts DEF Settled
  <2> QED
    BY <2>1, SetFileNameHistory
<1>8. _fileList' = _fileList /\ _maxFileIndex' = _maxFileIndex /\ now' = now /\ th' = th
  BY DEF set_file_name, lists
<1> QED
  BY <1>6, <1>7, <1>8, FilesKeep

LEMMA SwapFiles ==
    ASSUME TypeOK, FilesSound, NEW t \in Thread,
           \/ \E ok \in BOOLEAN : open_log(t, ok) \/ open_wf(t, ok)
           \/ dup_log(t) \/ close_log(t) \/ store_fd(t) \/ close_wf(t) \/ store_wf_fd(t)
    PROVE  FilesSound'
<1> DEFINE Fine(s) == /\ Sound(s, Lossless, Stamps)
                      /\ Grows(os, s)
<1>0. Fine(os) /\ Kernel(os)
  BY GrowsSelf, TypeParts DEF FilesSound
<1>1. Steady /\ UNCHANGED <<lists, now>>
  BY DEF open_log, open_wf, dup_log, close_log, store_fd, close_wf, store_wf_fd, settings, Steady
<1>5. /\ history'.rotations = history.rotations /\ history'.rushed = history.rushed
      /\ history'.written = history.written
  <2>1. history \in History
    BY TypeParts DEF Settled
  <2>2. history' = history \/ history' = [history EXCEPT !.dead = @ \/ th[t].new = -1]
    BY DEF open_log, open_wf, dup_log, close_log, store_fd, close_wf, store_wf_fd
  <2> QED
    BY <2>1, <2>2 DEF History
<1>6. \A u \in Thread : th'[u].pc \in {"list", "rename"} => th'[u].pc = th[u].pc
  <2>1. PICK at, op, cur, new : Moves(t, at, op, cur, new) /\ at \notin {"list", "rename"}
    BY SwapMoves DEF AfterSwap
  <2> QED
    BY <2>1 DEF Moves
<1>2. ASSUME NEW ok \in BOOLEAN, open_log(t, ok) \/ open_wf(t, ok) PROVE Fine(os')
  <2>1. PICK kind \in {"log", "wf"} : os' = AfterOpen(os, kind, ok) /\ (ok => CanOpen(os, kind))
    BY <1>2 DEF open_log, open_wf
  <2> QED
    BY <1>0, <2>1, AfterOpenSound
<1>3. ASSUME dup_log(t) \/ close_log(t) \/ store_fd(t) \/ close_wf(t) \/ store_wf_fd(t)
      PROVE  Fine(os')
  <2>1. \/ os' = os \/ os' = Close(os, _fd) \/ os' = Close(os, _wf_fd)
        \/ os' = Close(Dup2(os, th[t].new, {_fd, 1, 2}), th[t].new)
    BY <1>3 DEF dup_log, close_log, store_fd, close_wf, store_wf_fd
  <2>2. Fine(Close(os, _fd)) /\ Fine(Close(os, _wf_fd))
    BY <1>0, CloseSound
  <2>3. Fine(Dup2(os, th[t].new, {_fd, 1, 2})) /\ Kernel(Dup2(os, th[t].new, {_fd, 1, 2}))
    BY <1>0, Dup2Sound, Dup2Facts
  <2>4. Fine(Close(Dup2(os, th[t].new, {_fd, 1, 2}), th[t].new))
    BY <2>3, CloseSound, GrowsOn
  <2> HIDE DEF Fine
  <2> QED
    BY <1>0, <2>1, <2>2, <2>4
<1>4. Fine(os')
  BY <1>2, <1>3
<1> QED
  BY <1>1, <1>4, <1>5, <1>6, FilesKeep DEF Steady, lists

LEMMA WriteFiles ==
    ASSUME TypeOK, FilesSound, NEW t \in Thread, NEW kind \in {"log", "wf"}, Write(t, kind),
           UNCHANGED <<settings, lists, now>>,
           \A u \in Thread : th'[u].pc \in {"list", "rename"} => th'[u].pc = th[u].pc
    PROVE  FilesSound'
<1>0. Kernel(os) /\ history \in History
  BY TypeParts DEF Settled
<1>1. /\ os'.fds = os.fds /\ os'.names = os.names /\ os'.kind = os.kind
      /\ history'.rotations = history.rotations /\ history'.rushed = history.rushed
      /\ \A f \in Files : os.msgs[f] \subseteq os'.msgs[f]
  BY WriteLeaves
<1> DEFINE f == FileAt(os, th[t].cur)
<1>2. \/ history' = history
      \/ history' = [history EXCEPT !.astray = @ \cup {<<kind, _flag>>}]
      \/ /\ history' = [history EXCEPT !.written = @ \cup {th[t].msg}]
         /\ os' = [os EXCEPT !.msgs[f] = @ \cup {th[t].msg}]
         /\ f \in Files /\ os.kind[f] = "log"
  BY DEF Write
<1> HIDE DEF f
<1>3. \/ history'.written = history.written
      \/ /\ history'.written = history.written \cup {th[t].msg}
         /\ f \in Files /\ os'.kind[f] = "log" /\ th[t].msg \in os'.msgs[f]
  BY <1>0, <1>1, <1>2 DEF History, Kernel
<1>4. Saved'
  BY <1>1, <1>3 DEF FilesSound, Saved
<1>5. _maxFileIndex' = _maxFileIndex /\ _fileList' = _fileList /\ now' = now
  BY DEF settings, lists
<1>6. Lossless' => Lossless
  BY <1>1, <1>5 DEF Lossless
<1>7. \A d : OnList(d)' <=> OnList(d)
  BY <1>5 DEF OnList
<1>8. Stamps \subseteq Stamps'
  <2>1. Pending' => Pending
    BY DEF Pending
  <2> QED
    BY <1>1, <1>5, <1>7, <2>1 DEF Stamps
<1>9. Listing'
  BY <1>1, <1>5, <1>7 DEF FilesSound, Listing
<1>10. Sound(os, Lossless, Stamps)'
  BY <1>1, <1>6, <1>8 DEF FilesSound, Sound, Kinds, LogsNamed, Dated
<1> QED
  BY <1>4, <1>9, <1>10 DEF FilesSound

\* the thread that rotates is the only one
LEMMA RotatesAlone ==
    ASSUME Control, NEW t \in Thread, th[t].pc \in {"access", "list", "rename", "wf_rename"}
    PROVE  \A u \in Thread : u # t => th[u].pc \notin {"access", "list", "rename", "wf_rename"}
  BY DEF Control, Placed, InRotation

LEMMA AccessFiles ==
    ASSUME TypeOK, Control, FilesSound, NEW t \in Thread, NEW time \in now .. MaxTime,
           rotate_access(t, time)
    PROVE  FilesSound'
<1>0. /\ now \in 1 .. MaxTime /\ time \in 1 .. MaxTime /\ time >= now /\ history \in History
      /\ history.rotations \in Nat
  BY TypeParts, BoundsAssumption DEF Settled, History
<1>1. os' = os /\ _maxFileIndex' = _maxFileIndex /\ _fileList' = _fileList /\ th[t].pc = "access"
  BY DEF rotate_access, settings, lists
<1>2. PICK at \in {"list", "open"} : Moves(t, at, th[t].op, -1, -1)
  BY SwapMoves
<1>3. \A u \in Thread : u # t => th'[u].pc \notin {"list", "rename"}
  BY <1>1, <1>2, RotatesAlone DEF Moves
<1>4. CASE now' = now /\ history' = history /\ Goto(t, "open")
  <2>1. Moves(t, "open", th[t].op, -1, -1)
    BY <1>4, TypeParts, GotoMoves
  <2> QED
    BY <1>1, <1>3, <1>4, <2>1, FilesKeep, GrowsSelf DEF FilesSound, Moves
<1>5. CASE /\ now' = time
           /\ history' = [history EXCEPT !.rotations = @ + 1,
                              !.rushed = @ \/ (history.rotations > 0 /\ time = now)]
  <2>1. /\ history'.rotations = history.rotations + 1 /\ history'.written = history.written
        /\ history'.rushed = (history.rushed \/ (history.rotations > 0 /\ time = now))
    BY <1>0, <1>5 DEF History
  <2>2. Lossless' => Lossless
    <3>1. _maxFileIndex \in Nat
      BY TypeParts, LimitsAssumption DEF Settled
    <3>2. history.rushed \in BOOLEAN
      BY <1>0 DEF History
    <3>3. SUFFICES ASSUME Lossless' PROVE Lossless
      OBVIOUS
    <3>4. ~ history.rushed
      BY <2>1, <3>2, <3>3, Zenon DEF Lossless
    <3>5. _maxFileIndex > 0 => history.rotations <= _maxFileIndex
      BY <1>0, <1>1, <2>1, <3>1, <3>3 DEF Lossless
    <3> QED
      BY <3>4, <3>5 DEF Lossless
  <2>3. \A d : OnList(d)' <=> OnList(d)
    BY <1>1 DEF OnList
  <2>4. Stamps \subseteq Stamps'
    <3>1. SUFFICES ASSUME NEW d \in Stamps PROVE d \in Stamps'
      OBVIOUS
    <3>2. d \in 1 .. now /\ history.rotations > 0 /\ (_maxFileIndex > 0 => OnList(d))
      BY <3>1 DEF Stamps
    <3>3. ~ history'.rushed => d # time
      <4>1. SUFFICES ASSUME ~ history'.rushed, d = time PROVE FALSE
        OBVIOUS
      <4>2. ~ (history.rotations > 0 /\ time = now)
        BY <2>1, <4>1
      <4>3. time # now
        BY <3>2, <4>2
      <4> QED
        BY <1>0, <3>2, <4>1, <4>3
    <3>4. d \in 1 .. time /\ history'.rotations > 0
      BY <1>0, <2>1, <3>2
    <3> QED
      BY <1>1, <1>5, <2>3, <3>2, <3>3, <3>4 DEF Stamps
  <2>5. Listing'
    <3>1. Len(_fileList) <= history.rotations /\ (_maxFileIndex > 0 => Len(_fileList) <= _maxFileIndex)
          /\ Len(_fileList) \in Nat
      BY TypeParts DEF FilesSound, Listing, Settled
    <3>2. th'[t].pc # "rename"
      BY <1>2 DEF Moves
    <3>3. Len(_fileList) < history'.rotations
      BY <1>0, <2>1, <3>1
    <3> QED
      BY <1>0, <1>1, <1>3, <2>1, <3>1, <3>2, <3>3 DEF Listing
  <2> QED
    BY <1>1, <2>1, <2>2, <2>4, <2>5, FilesHold, GrowsSelf DEF FilesSound
<1> QED
  BY <1>4, <1>5 DEF rotate_access

LEMMA ListFiles ==
    ASSUME TypeOK, Control, FilesSound, NEW t \in Thread, rotate_list(t)
    PROVE  FilesSound'
<1> DEFINE o == Dropped(os, "log", _fileList)
           D == {d \in Stamps : \E i \in DOMAIN Trimmed(_fileList) : Trimmed(_fileList)[i] = d}
<1>0. /\ now \in 1 .. MaxTime /\ history.rotations \in Nat /\ Kernel(os)
      /\ _fileList \in Seq(1 .. MaxTime) /\ _maxFileIndex \in Nat /\ Len(_fileList) \in Nat
  BY TypeParts, LimitsAssumption DEF Settled, History
<1>1. /\ os' = o /\ now' = now /\ history' = history /\ _maxFileIndex' = _maxFileIndex
      /\ th[t].pc = "list"
      /\ _fileList' = IF _maxFileIndex > 0 THEN Listed(_fileList, now) ELSE _fileList
  BY DEF rotate_list, settings
<1>2. Moves(t, "rename", th[t].op, -1, -1)
  BY SwapMoves
<1>3. \A u \in Thread : u # t => th'[u].pc \notin {"list", "rename"}
  BY <1>1, <1>2, RotatesAlone DEF Moves
<1>4. Len(_fileList) < history.rotations /\ (_maxFileIndex > 0 => Len(_fileList) <= _maxFileIndex)
  BY <1>1 DEF FilesSound, Listing
<1>5. Lossless' => Lossless
  BY <1>1 DEF Lossless
<1>6. Pending
  BY <1>1 DEF Pending
<1> HIDE DEF o
<1>7. CASE _maxFileIndex = 0
  <2>1. o = os /\ _fileList' = _fileList
    BY <1>1, <1>7 DEF o, Dropped
  <2>2. Stamps \subseteq Stamps'
    BY <1>1, <1>6, <1>7 DEF Stamps
  <2>3. Listing'
    BY <1>0, <1>1, <1>2, <1>3, <1>4, <1>7, <2>1 DEF Listing, Moves
  <2> QED
    BY <1>1, <1>5, <2>1, <2>2, <2>3, FilesHold, GrowsSelf DEF FilesSound
<1>8. CASE _maxFileIndex > 0
  <2>1. _maxFileIndex \in Nat \ {0} /\ (Lossless => Len(_fileList) < _maxFileIndex)
    BY <1>0, <1>4, <1>8 DEF Lossless
  <2>2. \A d \in Stamps : \E i \in DOMAIN _fileList : _fileList[i] = d
    BY <1>8 DEF Stamps, OnList
  <2>3. /\ Grows(os, o) /\ Sound(o, Lossless, D)
        /\ Len(Trimmed(_fileList)) < _maxFileIndex /\ Len(Trimmed(_fileList)) <= Len(_fileList)
        /\ Trimmed(_fileList) \in Seq(1 .. MaxTime)
    <3>1. Sound(os, Lossless, Stamps)
      BY DEF FilesSound
    <3>2. PICK list : list = _fileList
      OBVIOUS
    <3>3. PICK S : S = Stamps
      OBVIOUS
    <3>4. PICK L : L = Lossless
      OBVIOUS
    <3>5. /\ list \in Seq(1 .. MaxTime) /\ Sound(os, L, S) /\ (L => Len(list) < _maxFileIndex)
          /\ Len(list) <= _maxFileIndex /\ \A d \in S : \E i \in DOMAIN list : list[i] = d
      BY <1>0, <1>4, <1>8, <2>1, <2>2, <3>1, <3>2, <3>3, <3>4
    <3>6. /\ Grows(os, Dropped(os, "log", list))
          /\ Sound(Dropped(os, "log", list), L, {d \in S : \E i \in DOMAIN Trimmed(list) : Trimmed(list)[i] = d})
          /\ Len(Trimmed(list)) < _maxFileIndex /\ Len(Trimmed(list)) <= Len(list)
          /\ Trimmed(list) \in Seq(1 .. MaxTime)
      BY <1>0, <2>1, <3>5, DropLogSound
    <3> QED
      BY <3>2, <3>3, <3>4, <3>6 DEF o
  <2> DEFINE short == Trimmed(_fileList)
  <2>4. _fileList' = Append(short, now)
    BY <1>1, <1>8 DEF Listed, Trimmed
  <2>5. /\ Len(short) \in Nat /\ Len(_fileList') = Len(short) + 1
        /\ Len(short) + 1 \in DOMAIN _fileList' /\ _fileList'[Len(short) + 1] = now
        /\ \A i \in DOMAIN short : i \in DOMAIN _fileList' /\ _fileList'[i] = short[i]
    BY <1>0, <2>3, <2>4
  <2>6. OnList(now)' /\ \A d \in D : OnList(d)'
    BY <1>1, <2>5 DEF OnList
  <2>7. D \subseteq Stamps'
    <3>1. \A d \in D : d \in Stamps
      OBVIOUS
    <3> HIDE DEF D
    <3> QED
      BY <1>1, <1>6, <2>6, <3>1 DEF Stamps
  <2> HIDE DEF short, D
  <2>8. Listing'
    <3>1. Len(_fileList') <= _maxFileIndex /\ Len(_fileList') <= history.rotations /\ history.rotations > 0
      BY <1>0, <1>4, <2>3, <2>5 DEF short
    <3> QED
      BY <1>1, <1>2, <1>3, <2>6, <3>1 DEF Listing, Moves
  <2> QED
    BY <1>1, <1>5, <2>3, <2>7, <2>8, FilesHold DEF FilesSound
<1> QED
  BY <1>0, <1>7, <1>8

LEMMA RenameFiles ==
    ASSUME TypeOK, Control, FilesSound, NEW t \in Thread, rotate_rename(t)
    PROVE  FilesSound'
<1> DEFINE to == <<"log", now>>
           o == Rename(os, Live("log"), to)
           D == Stamps \cup {now}
<1>0. now \in 1 .. MaxTime /\ Kernel(os)
  BY TypeParts DEF Settled
<1>1. /\ os' = o /\ now' = now /\ history' = history /\ _maxFileIndex' = _maxFileIndex
      /\ th[t].pc = "rename" /\ _fileList' = _fileList
  BY DEF rotate_rename, settings, lists
<1>2. Moves(t, "wf_rename", th[t].op, -1, -1)
  BY SwapMoves
<1>3. \A u \in Thread : th'[u].pc \notin {"list", "rename"}
  BY <1>1, <1>2, RotatesAlone DEF Moves
<1>4. history.rotations > 0 /\ (_maxFileIndex > 0 => OnList(now))
  BY <1>1 DEF FilesSound, Listing
<1>5. /\ Live("log") \in Name /\ to \in Name /\ Live("log") # to /\ KindOf(Live("log")) = KindOf(to)
      /\ to[1] = "log" /\ to[2] = now
  BY <1>0, LiveNames, OldNames DEF KindOf, Live
<1>6. Lossless => to \notin DOMAIN os.names
  <2>1. SUFFICES ASSUME Lossless, to \in DOMAIN os.names PROVE FALSE
    OBVIOUS
  <2>2. now \in Stamps
    BY <1>0, <1>5, <2>1 DEF FilesSound, Sound, Dated
  <2>3. Pending /\ ~ history.rushed
    BY <1>1, <2>1 DEF Pending, Lossless
  <2> QED
    BY <2>2, <2>3 DEF Stamps
<1>7. Sound(os, Lossless, D) /\ to[2] \in D
  BY <1>5 DEF FilesSound, Sound, Dated
<1> HIDE DEF to, D
<1>8. Grows(os, o) /\ Sound(o, Lossless, D)
  BY <1>0, <1>5, <1>6, <1>7, RenameSound
<1>9. Lossless' => Lossless
  BY <1>1 DEF Lossless
<1> HIDE DEF o
<1>10. D \subseteq Stamps'
  <2>1. ~ Pending' /\ \A d : OnList(d)' <=> OnList(d)
    BY <1>1, <1>3 DEF Pending, OnList
  <2> QED
    BY <1>0, <1>1, <1>4, <2>1 DEF D, Stamps
<1>11. Listing'
  BY <1>1, <1>3 DEF FilesSound, Listing
<1> QED
  BY <1>1, <1>8, <1>9, <1>10, <1>11, FilesHold DEF FilesSound

LEMMA WfRenameFiles ==
    ASSUME TypeOK, Control, FilesSound, NEW t \in Thread, rotate_wf(t)
    PROVE  FilesSound'
<1> DEFINE to == <<"wf", now>>
           o == Rename(WfDropped, Live("wf"), to)
<1>0. now \in 1 .. MaxTime /\ Kernel(os) /\ Kernel(WfDropped)
  BY TypeParts, RotatedKernel DEF Settled
<1>1. /\ os' = o /\ now' = now /\ history' = history /\ _maxFileIndex' = _maxFileIndex
      /\ _fileList' = _fileList
  BY DEF rotate_wf, settings, WfDropped
<1>2. Moves(t, "open", th[t].op, -1, -1)
  BY SwapMoves
<1>3. Grows(os, WfDropped) /\ Sound(WfDropped, Lossless, Stamps)
  <2>1. KindOf(<<"wf", Head(_wf_file_list)>>) # "log"
    BY DEF KindOf
  <2> QED
    BY <1>0, <2>1, UnlinkSound, GrowsSelf DEF FilesSound, WfDropped, Dropped
<1>4. /\ Live("wf") \in Name /\ to \in Name /\ Live("wf") # to /\ KindOf(Live("wf")) = KindOf(to)
      /\ to[1] # "log" /\ KindOf(to) # "log"
  BY <1>0, LiveNames, OldNames DEF KindOf, Live
<1> HIDE DEF to
<1>5. Grows(WfDropped, o) /\ Sound(o, Lossless, Stamps)
  BY <1>0, <1>3, <1>4, RenameSound
<1> HIDE DEF o
<1>6. Grows(os, o)
  BY <1>3, <1>5, GrowsOn
<1> QED
  BY <1>1, <1>2, <1>5, <1>6, FilesKeep DEF Moves

LEMMA MoveFiles ==
    ASSUME TypeOK, FilesSound, move_away
    PROVE  FilesSound'
<1> DEFINE to == <<"moved", 0>>
           o == Rename(os, Live("log"), to)
<1>1. /\ os' = o /\ UNCHANGED <<settings, lists, history, now, th>> /\ to \notin DOMAIN os.names
  BY TypeParts, Numbers DEF move_away, FileNamed, Kernel
<1>2. /\ Live("log") \in Name /\ to \in Name /\ Live("log") # to /\ KindOf(Live("log")) = KindOf(to)
      /\ to[1] # "log"
  BY LiveNames DEF Live, KindOf
<1> HIDE DEF to
<1>3. Grows(os, o) /\ Sound(o, Lossless, Stamps)
  BY <1>1, <1>2, TypeParts, RenameSound DEF FilesSound
<1> HIDE DEF o
<1> QED
  BY <1>1, <1>3, FilesKeep DEF settings, lists

LEMMA FilesStep ==
    ASSUME TypeOK, Control, FilesSound, [Next]_vars
    PROVE  FilesSound'
<1>1. CASE Setup
  BY <1>1, SetupFiles
<1>2. CASE \E flag, wf, ok, wf_ok \in BOOLEAN : set_file_name(flag, wf, ok, wf_ok)
  BY <1>2, SetFileNameFiles
<1>3. ASSUME UNCHANGED <<os, settings, lists, history, now>>,
             \A u \in Thread : th'[u].pc \in {"list", "rename"} => th'[u].pc = th[u].pc
      PROVE  FilesSound'
  BY <1>3, FilesKeep, GrowsSelf DEF FilesSound, settings, lists
<1>4. ASSUME NEW t \in Thread, rotate_log(t) \/ \E grave \in Grave : log_message(t, grave)
      PROVE  FilesSound'
  <2>1. UNCHANGED <<os, settings, lists, history, now>>
    BY <1>4 DEF rotate_log, log_message
  <2>2. PICK at \in {"stat", "write", "access"} : \E op, cur, new : Moves(t, at, op, cur, new)
    BY <1>4, CallMoves
  <2> QED
    BY <1>3, <2>1, <2>2 DEF Moves
<1>5. ASSUME NEW t \in Thread, Step(t) PROVE FilesSound'
  <2>1. CASE Quiet(t)
    <3>1. UNCHANGED <<os, settings, lists, history, now>>
      BY <2>1 DEF Quiet, check_file, take_fd, take_wf_fd, check_size, unlock_size
    <3>2. PICK at \in {"open", "write", "writev", "wf_writev", "idle", "access"} :
             \E op, cur, new : Moves(t, at, op, cur, new)
      BY <2>1, QuietMoves DEF Quiet
    <3> QED
      BY <1>3, <3>1, <3>2 DEF Moves
  <2>2. CASE writev(t) \/ wf_writev(t)
    <3>1. PICK at \in {"wf_write", "size", "idle"} : \E op : Moves(t, at, op, -1, -1)
      BY <2>2, WriteMoves
    <3>2. UNCHANGED <<settings, lists, now>> /\ (Write(t, "log") \/ Write(t, "wf"))
      BY <2>2 DEF writev, wf_writev
    <3> QED
      BY <3>1, <3>2, WriteFiles DEF Moves
  <2> QED
    BY <1>5, <2>1, <2>2, SwapFiles, AccessFiles, ListFiles, RenameFiles, WfRenameFiles DEF Step, Quiet
<1>6. CASE move_away
  BY <1>6, MoveFiles
<1>7. CASE UNCHANGED vars
  BY <1>3, <1>7 DEF vars
<1> QED
  BY <1>1, <1>2, <1>4, <1>5, <1>6, <1>7 DEF Next
-----------------------------------------------------------------------------
(* The descriptors.                                                        *)

AtStore   == \E t \in Thread : th[t].pc = "store"
AtWfStore == \E t \in Thread : th[t].pc = "wf_store"

LogFd(s, d) == d \in Fds /\ (s.fds[d] = Tty \/ (s.fds[d] \in Files /\ s.kind[s.fds[d]] = "log"))

\* between close and the store of the new one _fd means nothing
Owned(d) ==
    \/ d = _fd /\ ~ AtStore
    \/ d = _wf_fd /\ _wf_flag /\ ~ AtWfStore
    \/ \E t \in Thread : th[t].new = d

\* a thread's new descriptor is nobody else's
Held(t) ==
    th[t].new # -1 =>
        /\ os.fds[th[t].new] # Closed
        /\ th[t].pc \in {"dup", "close", "store"} => LogFd(os, th[t].new)
        /\ th[t].new # _fd
        /\ _wf_flag /\ ~ AtWfStore => th[t].new # _wf_fd
        /\ \A u \in Thread : th[u].new = th[t].new => u = t

Descriptors ==
    /\ \A d \in Fds : d > 2 /\ os.fds[d] # Closed => Owned(d)
    /\ _fd # -1 /\ ~ AtStore => LogFd(os, _fd)
    /\ _wf_flag /\ _wf_fd # -1 /\ ~ AtWfStore => os.fds[_wf_fd] # Closed /\ _wf_fd # _fd
    /\ \A t \in Thread : Held(t)

LEMMA LogFdOpen ==
    ASSUME NEW s, NEW d, LogFd(s, d)
    PROVE  d \in Fds /\ s.fds[d] # Closed
  BY Numbers DEF LogFd

LEMMA AfterOpenFds ==
    ASSUME NEW s, Kernel(s), NEW kind \in {"log", "wf"}, NEW ok \in BOOLEAN, ok => CanOpen(s, kind),
           Kinds(s)
    PROVE  /\ ~ ok => NewFd(s, ok) = -1
           /\ ok => /\ NewFd(s, ok) \in Fds /\ s.fds[NewFd(s, ok)] = Closed
                    /\ AfterOpen(s, kind, ok).fds[NewFd(s, ok)] \in Files
                    /\ AfterOpen(s, kind, ok).fds[NewFd(s, ok)] # Closed
                    /\ kind = "log" => LogFd(AfterOpen(s, kind, ok), NewFd(s, ok))
           /\ \A e \in Fds : e # NewFd(s, ok) => AfterOpen(s, kind, ok).fds[e] = s.fds[e]
           /\ \A e : LogFd(s, e) => LogFd(AfterOpen(s, kind, ok), e)
<1>1. CASE ~ ok
  BY <1>1 DEF NewFd, AfterOpen
<1>2. CASE ok
  <2> DEFINE o == Open(s, kind)
             d == Min(FreeFds(s))
  <2>1. PICK f \in Files : Opened(s, kind, d, f, o)
    BY <1>2, OpenFacts
  <2>2. AfterOpen(s, kind, ok) = o /\ NewFd(s, ok) = d
    BY <1>2 DEF AfterOpen, NewFd
  <2>3. Sound(s, FALSE, {n[2] : n \in DOMAIN s.names})
    BY DEF Sound, Dated
  <2>4. Grows(s, o)
    BY <1>2, <2>3, OpenSound
  <2> HIDE DEF o, d
  <2>5. d \in Fds /\ s.fds[d] = Closed /\ s.fds \in [Fds -> Files \cup {Tty, Closed}]
        /\ s.kind \in [Files -> {"none", "log", "wf"}] /\ o.fds = [s.fds EXCEPT ![d] = f]
        /\ o.kind = [s.kind EXCEPT ![f] = kind]
    BY <2>1 DEF Opened, Kernel
  <2>6. /\ o.fds[d] = f /\ o.kind[f] = kind /\ f # Closed
        /\ \A e \in Fds : e # d => o.fds[e] = s.fds[e]
    BY <2>5, Numbers
  <2>7. ASSUME NEW e, LogFd(s, e) PROVE LogFd(o, e)
    <3>1. e \in Fds /\ e # d
      BY <2>5, <2>7, LogFdOpen
    <3>2. o.fds[e] = s.fds[e]
      BY <2>6, <3>1
    <3> QED
      BY <2>4, <2>7, <3>1, <3>2 DEF LogFd, Grows
  <2>8. kind = "log" => LogFd(o, d)
    BY <2>5, <2>6 DEF LogFd
  <2> QED
    BY <1>2, <2>2, <2>5, <2>6, <2>7, <2>8
<1> QED
  BY <1>1, <1>2

LEMMA RacedStays ==
    ASSUME TypeOK, Control, [Next]_vars
    PROVE  Raced => Raced'
<1>1. CASE Setup
  BY <1>1 DEF Setup, set_max_file_size, set_max_file_index, set_check, Control, Unnamed, Raced
<1>2. ASSUME NEW flag \in BOOLEAN, NEW wf \in BOOLEAN, NEW ok \in BOOLEAN, NEW wf_ok \in BOOLEAN,
             set_file_name(flag, wf, ok, wf_ok)
      PROVE  Raced => Raced'
  <2>1. history \in History
    BY TypeParts DEF Settled
  <2>2. history' = [history EXCEPT !.flagged = @ \/ flag, !.dead = @ \/ (flag /\ ~ ok)] /\ _check' = _check
    BY <1>2 DEF set_file_name
  <2> QED
    BY <2>1, <2>2 DEF History, Raced
<1>3. CASE _check' = _check /\ history' = history
  BY <1>3 DEF Raced
<1>4. ASSUME NEW t \in Thread, Step(t) \/ rotate_log(t) \/ \E grave \in Grave : log_message(t, grave)
      PROVE  Raced => Raced'
  <2>1. _check' = _check
    BY <1>4, SteadyStep DEF Steady
  <2>2. history'.flagged = history.flagged
    <3>1. history \in History
      BY TypeParts DEF Settled
    <3>2. CASE writev(t) \/ wf_writev(t)
      BY <3>2, WriteLeaves DEF writev, wf_writev
    <3>3. CASE store_fd(t) \/ \E time \in now .. MaxTime : rotate_access(t, time)
      <4>1. \/ history' = history \/ \E b : history' = [history EXCEPT !.dead = b]
            \/ \E n, b : history' = [history EXCEPT !.rotations = n, !.rushed = b]
        BY <3>3 DEF rotate_access, store_fd
      <4> QED
        BY <3>1, <4>1 DEF History
    <3>4. CASE history' = history
      BY <3>4
    <3> QED
      BY <1>4, <3>2, <3>3, <3>4 DEF Step, rotate_log, log_message, check_file, open_log, dup_log,
         close_log, take_fd, take_wf_fd, check_size, unlock_size, rotate_list, rotate_rename, rotate_wf,
         open_wf, close_wf, store_wf_fd
  <2> QED
    BY <2>1, <2>2 DEF Raced
<1>5. CASE move_away
  BY <1>3, <1>5 DEF move_away, settings
<1>6. CASE UNCHANGED vars
  BY <1>3, <1>6 DEF vars, settings
<1> QED
  BY <1>1, <1>2, <1>4, <1>5, <1>6 DEF Next

\* a thread with a descriptor in hand, and one at work on _fd in the mode without dup2
LEMMA Alone ==
    ASSUME Control, ~ Raced, NEW t \in Thread, _flag,
           th[t].pc \in {"open", "close", "store", "wf_open", "wf_close", "wf_store"}
    PROVE  \A u \in Thread : u # t => th[u].new = -1 /\ th[u].pc \notin {"open", "close", "store", "wf_open", "wf_close", "wf_store"}
<1>1. ~ _check
  BY DEF Control, Raced
<1>2. \A u \in Thread : /\ th[u].pc \in {"open", "close", "store", "wf_open", "wf_close", "wf_store"} => th[u].op = "rotate"
                        /\ th[u].new # -1 => th[u].op = "rotate"
  BY <1>1 DEF Control, Placed, Swapping, InRotation
<1>3. th[t].op = "rotate"
  BY <1>2
<1> QED
  BY <1>2, <1>3 DEF Control

LEMMA KeepDescriptors ==
    ASSUME Descriptors, os'.fds = os.fds, os'.kind = os.kind,
           UNCHANGED <<_fd, _wf_fd, _wf_flag>>,
           \A u \in Thread : /\ th'[u].new = th[u].new
                             /\ th'[u].pc = "store" <=> th[u].pc = "store"
                             /\ th'[u].pc = "wf_store" <=> th[u].pc = "wf_store"
                             /\ th[u].new # -1 => th'[u].pc = th[u].pc
    PROVE  Descriptors'
<1>1. (AtStore' <=> AtStore) /\ (AtWfStore' <=> AtWfStore)
  BY DEF AtStore, AtWfStore
<1>2. \A d : Owned(d)' <=> Owned(d)
  BY <1>1 DEF Owned
<1>3. \A u \in Thread : Held(u)'
  BY <1>1 DEF Descriptors, Held, LogFd
<1>4. _fd' # -1 /\ ~ AtStore' => LogFd(os, _fd)'
  BY <1>1 DEF Descriptors, LogFd
<1> QED
  BY <1>1, <1>2, <1>3, <1>4 DEF Descriptors

\* the same for a step of t that neither begins nor ends a swap
LEMMA QuietDescriptors ==
    ASSUME Control, Descriptors, os'.fds = os.fds, os'.kind = os.kind,
           UNCHANGED <<_fd, _wf_fd, _wf_flag>>, NEW t \in Thread, NEW at, NEW op, NEW cur, NEW new,
           Moves(t, at, op, cur, new), th[t].pc \notin Swapping, at \notin Swapping,
           new = -1 \/ new = th[t].new
    PROVE  Descriptors'
<1>1. th[t].new = -1
  BY DEF Control, Placed
<1> QED
  BY <1>1, KeepDescriptors DEF Moves, Swapping

LEMMA OpenDescriptors ==
    ASSUME TypeOK, Control, ~ Raced, Kinds(os), Descriptors, NEW t \in Thread, NEW ok \in BOOLEAN,
           NEW kind \in {"log", "wf"}, NEW at \in {"dup", "close", "wf_close"}, NEW op, NEW cur,
           th[t].pc = IF kind = "log" THEN "open" ELSE "wf_open", at = "wf_close" <=> kind = "wf",
           os' = AfterOpen(os, kind, ok), ok => CanOpen(os, kind), UNCHANGED <<_fd, _wf_fd, _flag, _wf_flag>>,
           Moves(t, at, op, cur, NewFd(os, ok))
    PROVE  Descriptors'
<1>0. th[t].new = -1 /\ Kernel(os)
  BY TypeParts DEF Control, Placed, Swapping
<1>1. (AtStore' <=> AtStore) /\ (AtWfStore' <=> AtWfStore)
  BY DEF AtStore, AtWfStore, Moves
<1>2. PICK d, o : d = NewFd(os, ok) /\ o = AfterOpen(os, kind, ok)
  OBVIOUS
<1>3. /\ ~ ok => d = -1
      /\ ok => /\ d \in Fds /\ os.fds[d] = Closed /\ o.fds[d] # Closed
               /\ kind = "log" => LogFd(o, d)
      /\ \A e \in Fds : e # d => o.fds[e] = os.fds[e]
      /\ \A e : LogFd(os, e) => LogFd(o, e)
  <2>1. /\ ~ ok => NewFd(os, ok) = -1
        /\ ok => /\ NewFd(os, ok) \in Fds /\ os.fds[NewFd(os, ok)] = Closed
                 /\ AfterOpen(os, kind, ok).fds[NewFd(os, ok)] # Closed
                 /\ kind = "log" => LogFd(AfterOpen(os, kind, ok), NewFd(os, ok))
        /\ \A e \in Fds : e # NewFd(os, ok) => AfterOpen(os, kind, ok).fds[e] = os.fds[e]
        /\ \A e : LogFd(os, e) => LogFd(AfterOpen(os, kind, ok), e)
    BY <1>0, AfterOpenFds
  <2> QED
    BY <1>2, <2>1
<1>4. /\ \A u \in Thread : u # t => th'[u] = th[u]
      /\ th'[t].pc = at /\ th'[t].new = d
  BY <1>2 DEF Moves
<1>5. ASSUME ~ AtStore \/ _fd = -1 PROVE d = -1 \/ d # _fd
  BY <1>3, <1>5, LogFdOpen, Numbers DEF Descriptors
<1>6. AtStore => \E u \in Thread : u # t /\ th[u].pc = "store" /\ _flag
  BY DEF AtStore, Control, Placed
<1>7. ~ AtStore
  BY <1>6, Alone
<1>8. _wf_flag /\ ~ AtWfStore => d = -1 \/ d # _wf_fd
  BY <1>3, Numbers DEF Descriptors
<1>9. \A u \in Thread : u # t /\ th[u].new # -1 => th[u].new # d /\ th[u].new \in Fds
  <2>1. \A u \in Thread : th[u].new \in Fds \cup {-1}
    BY TypeParts DEF Call
  <2> QED
    BY <1>3, <2>1 DEF Descriptors, Held
<1>10. \A e \in Fds : e > 2 /\ o.fds[e] # Closed => e = d \/ Owned(e)
  BY <1>3 DEF Descriptors
<1>11. \A e \in Fds : (e = d \/ Owned(e)) => Owned(e)'
  <2>1. ASSUME NEW e \in Fds, Owned(e) PROVE Owned(e)'
    <3>1. CASE \E u \in Thread : th[u].new = e
      <4>1. PICK u \in Thread : th[u].new = e
        BY <3>1
      <4>2. u # t
        BY <1>0, <4>1, Numbers
      <4> QED
        BY <1>4, <4>1, <4>2 DEF Owned
    <3> QED
      BY <1>1, <2>1, <3>1 DEF Owned
  <2>2. ASSUME NEW e \in Fds, e = d PROVE Owned(e)'
    BY <1>4, <2>2 DEF Owned
  <2> QED
    BY <2>1, <2>2
<1>12. \A e \in Fds : e > 2 /\ os'.fds[e] # Closed => Owned(e)'
  BY <1>2, <1>10, <1>11
<1>13. _fd' # -1 /\ ~ AtStore' => LogFd(o, _fd')
  BY <1>1, <1>3 DEF Descriptors
<1>14. _wf_flag' /\ _wf_fd' # -1 /\ ~ AtWfStore' => o.fds[_wf_fd'] # Closed /\ _wf_fd' # _fd'
  <2>1. _wf_fd \in Fds \cup {-1}
    BY TypeParts DEF Settled
  <2> QED
    BY <1>1, <1>3, <1>8, <2>1 DEF Descriptors
<1>15. ASSUME NEW u \in Thread PROVE Held(u)'
  <2>1. CASE u = t
    <3>1. d # -1 => o.fds[d] # Closed /\ d # _fd /\ (at \in {"dup", "close", "store"} => LogFd(o, d))
      BY <1>3, <1>5, <1>7
    <3>2. d # -1 => \A v \in Thread : th'[v].new = d => v = t
      BY <1>4, <1>9
    <3> QED
      BY <1>1, <1>2, <1>4, <1>8, <2>1, <3>1, <3>2 DEF Held, LogFd
  <2>2. CASE u # t /\ th[u].new # -1
    <3>1. Held(u) /\ th'[u] = th[u] /\ th[u].new # d /\ th[u].new \in Fds
      BY <1>4, <1>9, <2>2 DEF Descriptors
    <3>2. o.fds[th[u].new] # Closed /\ (th[u].pc \in {"dup", "close", "store"} => LogFd(o, th[u].new))
      BY <1>3, <2>2, <3>1 DEF Held
    <3>3. \A v \in Thread : th'[v].new = th[u].new => v = u
      BY <1>4, <2>2, <3>1 DEF Held
    <3> QED
      BY <1>1, <1>2, <2>2, <3>1, <3>2, <3>3 DEF Held, LogFd
  <2>3. CASE u # t /\ th[u].new = -1
    BY <1>4, <2>3 DEF Held
  <2> QED
    BY <2>1, <2>2, <2>3
<1> QED
  BY <1>2, <1>12, <1>13, <1>14, <1>15 DEF Descriptors, LogFd

\* no thread is at the step between close and store of _fd while stdout is redirected
LEMMA NobodyStores ==
    ASSUME Control, ~ _flag
    PROVE  ~ AtStore
  BY DEF Control, Placed, AtStore

LEMMA DupDescriptors ==
    ASSUME TypeOK, Control, Descriptors, NEW t \in Thread, dup_log(t)
    PROVE  Descriptors'
<1> DEFINE x == th[t].new
           s == Dup2(os, x, {_fd, 1, 2})
<1>0. th[t].pc = "dup" /\ ~ _flag /\ ~ AtStore /\ Kernel(os)
  BY TypeParts, NobodyStores DEF dup_log, Control, Placed
<1>1. AfterSwap(t) \notin Swapping /\ Moves(t, AfterSwap(t), th[t].op, -1, -1)
  BY SwapMoves DEF AfterSwap, Swapping
<1>2. /\ \A u \in Thread : u # t => th'[u] = th[u]
      /\ th'[t].pc \notin Swapping /\ th'[t].new = -1
  BY <1>1 DEF Moves
<1>3. ~ AtStore' /\ (AtWfStore' <=> AtWfStore)
  BY <1>0, <1>2 DEF AtStore, AtWfStore, Swapping
<1>4. UNCHANGED <<_fd, _wf_fd, _wf_flag>> /\ os' = Close(s, x)
  BY DEF dup_log, settings
<1>5. /\ os'.kind = os.kind
      /\ \A e \in Fds : os'.fds[e] = IF e = x THEN Closed
                                     ELSE IF x \in Fds /\ e \in {_fd, 1, 2} THEN os.fds[x] ELSE os.fds[e]
  <2>1. /\ Kernel(s) /\ s.kind = os.kind
        /\ \A e \in Fds : s.fds[e] = IF x \in Fds /\ e \in {_fd, 1, 2} THEN os.fds[x] ELSE os.fds[e]
    BY <1>0, Dup2Facts
  <2> HIDE DEF s
  <2>2. Close(s, x).kind = s.kind /\ \A e \in Fds : Close(s, x).fds[e] = IF e = x THEN Closed ELSE s.fds[e]
    BY <2>1, CloseFacts
  <2> QED
    BY <1>4, <2>1, <2>2
<1>6. x \in Fds \cup {-1} /\ _wf_fd \in Fds \cup {-1} /\ _fd \in Fds \cup {-1} /\ Held(t)
      /\ (\A u \in Thread : th[u].new \in Fds \cup {-1})
  BY TypeParts DEF Settled, Call, Descriptors
<1>7. x # -1 => LogFd(os, x) /\ os.fds[x] # Closed /\ x # _fd /\ (_wf_flag /\ ~ AtWfStore => x # _wf_fd)
                /\ \A u \in Thread : th[u].new = x => u = t
  BY <1>0, <1>6 DEF Held
<1> HIDE DEF x, s
<1>8. \A e : LogFd(os, e) /\ e # x => LogFd(os', e)
  <2>1. SUFFICES ASSUME NEW e, LogFd(os, e), e # x PROVE LogFd(os', e)
    OBVIOUS
  <2>2. e \in Fds
    BY <2>1 DEF LogFd
  <2>3. CASE x \in Fds /\ e \in {_fd, 1, 2}
    <3>1. os'.fds[e] = os.fds[x] /\ LogFd(os, x)
      BY <1>5, <1>7, <2>1, <2>2, <2>3, Numbers
    <3> QED
      BY <1>5, <2>2, <3>1 DEF LogFd
  <2>4. CASE ~ (x \in Fds /\ e \in {_fd, 1, 2})
    <3>1. os'.fds[e] = os.fds[e]
      BY <1>5, <2>1, <2>2, <2>4
    <3> QED
      BY <1>5, <2>1, <2>2, <3>1 DEF LogFd
  <2> QED
    BY <2>3, <2>4
<1>9. \A e \in Fds : e # x /\ os.fds[e] # Closed => os'.fds[e] # Closed
  BY <1>5, <1>6, <1>7, Numbers
<1>10. \A d \in Fds : d > 2 /\ os'.fds[d] # Closed => Owned(d)'
  <2>1. SUFFICES ASSUME NEW d \in Fds, d > 2, os'.fds[d] # Closed PROVE Owned(d)'
    OBVIOUS
  <2>2. d # x /\ (d = _fd \/ os.fds[d] # Closed)
    BY <1>5, <2>1, Numbers
  <2>3. CASE d = _fd
    BY <1>3, <1>4, <2>3 DEF Owned
  <2>4. CASE d # _fd
    <3>1. Owned(d)
      BY <2>1, <2>2, <2>4 DEF Descriptors
    <3>2. CASE \E u \in Thread : th[u].new = d
      <4>1. PICK u \in Thread : th[u].new = d
        BY <3>2
      <4>2. u # t
        BY <2>2, <4>1 DEF x
      <4> QED
        BY <1>2, <4>1, <4>2 DEF Owned
    <3> QED
      BY <1>3, <1>4, <2>4, <3>1, <3>2 DEF Owned
  <2> QED
    BY <2>3, <2>4
<1>11. _fd' # -1 /\ ~ AtStore' => LogFd(os', _fd')
  <2>1. _fd # -1 => LogFd(os, _fd)
    BY <1>0 DEF Descriptors
  <2>2. _fd # -1 => x # _fd
    BY <1>7
  <2> QED
    BY <1>4, <1>8, <2>1, <2>2
<1>12. _wf_flag' /\ _wf_fd' # -1 /\ ~ AtWfStore' => os'.fds[_wf_fd'] # Closed /\ _wf_fd' # _fd'
  <2>1. SUFFICES ASSUME _wf_flag, _wf_fd # -1, ~ AtWfStore PROVE os'.fds[_wf_fd] # Closed /\ _wf_fd # _fd
    BY <1>3, <1>4
  <2>2. os.fds[_wf_fd] # Closed /\ _wf_fd # _fd /\ _wf_fd \in Fds
    BY <1>6, <2>1 DEF Descriptors
  <2>3. _wf_fd # x
    BY <1>7, <2>1
  <2> QED
    BY <1>9, <2>2, <2>3
<1>13. ASSUME NEW u \in Thread PROVE Held(u)'
  <2>1. CASE u = t \/ th[u].new = -1
    BY <1>2, <2>1 DEF Held
  <2>2. CASE u # t /\ th[u].new # -1
    <3>1. Held(u) /\ th'[u] = th[u] /\ th[u].new \in Fds /\ th[u].new # x
      BY <1>2, <1>6, <1>7, <2>2 DEF Descriptors, x
    <3>2. os'.fds[th[u].new] # Closed /\ (th[u].pc \in {"dup", "close", "store"} => LogFd(os', th[u].new))
      BY <1>8, <1>9, <2>2, <3>1 DEF Held
    <3>3. \A v \in Thread : th'[v].new = th[u].new => v = u
      BY <1>2, <2>2, <3>1 DEF Held
    <3> QED
      BY <1>3, <1>4, <2>2, <3>1, <3>2, <3>3 DEF Held, LogFd
  <2> QED
    BY <2>1, <2>2
<1> QED
  BY <1>10, <1>11, <1>12, <1>13 DEF Descriptors, LogFd

LEMMA CloseDescriptors ==
    ASSUME TypeOK, Control, ~ Raced, Descriptors, NEW t \in Thread, close_log(t)
    PROVE  Descriptors'
<1>0. th[t].pc = "close" /\ _flag /\ Kernel(os)
  BY TypeParts DEF close_log, Control, Placed
<1>1. \A u \in Thread : u # t => th[u].new = -1 /\ th[u].pc \notin {"store", "wf_store"}
  BY <1>0, Alone
<1>2. ~ AtStore /\ ~ AtWfStore
  BY <1>0, <1>1 DEF AtStore, AtWfStore
<1>3. /\ \A u \in Thread : u # t => th'[u] = th[u]
      /\ th'[t].pc = "store" /\ th'[t].new = th[t].new
  BY SwapMoves DEF Moves
<1>4. AtStore' /\ ~ AtWfStore'
  BY <1>1, <1>3 DEF AtStore, AtWfStore
<1>5. UNCHANGED <<_fd, _wf_fd, _wf_flag>> /\ os' = IF _fd # 2 THEN Close(os, _fd) ELSE os
  BY DEF close_log, settings
<1>6. /\ os'.kind = os.kind
      /\ \A e \in Fds : os'.fds[e] = IF e = _fd /\ _fd # 2 THEN Closed ELSE os.fds[e]
  BY <1>0, <1>5, CloseFacts
<1>7. _wf_fd \in Fds \cup {-1} /\ th[t].new \in Fds \cup {-1}
  BY TypeParts DEF Settled, Call
<1>8. \A d \in Fds : d > 2 /\ os'.fds[d] # Closed => Owned(d)'
  <2>1. SUFFICES ASSUME NEW d \in Fds, d > 2, os'.fds[d] # Closed PROVE Owned(d)'
    OBVIOUS
  <2>2. d # _fd /\ os.fds[d] # Closed
    BY <1>6, <2>1
  <2>3. Owned(d)
    BY <2>1, <2>2 DEF Descriptors
  <2>4. CASE d = _wf_fd /\ _wf_flag
    BY <1>4, <1>5, <2>4 DEF Owned
  <2>5. CASE \E u \in Thread : th[u].new = d
    BY <1>3, <2>5 DEF Owned
  <2> QED
    BY <2>2, <2>3, <2>4, <2>5 DEF Owned
<1>9. _wf_flag' /\ _wf_fd' # -1 /\ ~ AtWfStore' => os'.fds[_wf_fd'] # Closed /\ _wf_fd' # _fd'
  BY <1>2, <1>5, <1>6, <1>7 DEF Descriptors
<1>10. ASSUME NEW u \in Thread PROVE Held(u)'
  <2>1. CASE u # t
    BY <1>1, <1>3, <2>1 DEF Held
  <2>2. CASE u = t /\ th[t].new # -1
    <3>1. Held(t)
      BY DEF Descriptors
    <3>2. os'.fds[th[t].new] = os.fds[th[t].new]
      BY <1>6, <1>7, <2>2, <3>1 DEF Held
    <3>3. \A v \in Thread : th'[v].new = th[t].new => v = t
      BY <1>1, <1>3, <2>2
    <3>4. os'.fds[th[t].new] # Closed /\ th[t].new # _fd /\ (_wf_flag => th[t].new # _wf_fd)
      BY <1>2, <2>2, <3>1, <3>2 DEF Held
    <3>5. LogFd(os, th[t].new)
      BY <1>0, <2>2, <3>1 DEF Held
    <3> QED
      BY <1>3, <1>5, <1>6, <2>2, <3>2, <3>3, <3>4, <3>5 DEF Held, LogFd
  <2>3. CASE u = t /\ th[t].new = -1
    BY <1>3, <2>3 DEF Held
  <2> QED
    BY <2>1, <2>2, <2>3
<1> QED
  BY <1>4, <1>8, <1>9, <1>10 DEF Descriptors

LEMMA StoreDescriptors ==
    ASSUME TypeOK, Control, ~ Raced, Descriptors, NEW t \in Thread, store_fd(t)
    PROVE  Descriptors'
<1>0. th[t].pc = "store" /\ _flag
  BY DEF store_fd, Control, Placed
<1>1. \A u \in Thread : u # t => th[u].new = -1 /\ th[u].pc \notin {"store", "wf_store"}
  BY <1>0, Alone
<1>2. AtStore /\ ~ AtWfStore
  BY <1>0, <1>1 DEF AtStore, AtWfStore
<1>3. AfterSwap(t) \notin Swapping /\ Moves(t, AfterSwap(t), th[t].op, -1, -1)
  BY SwapMoves DEF AfterSwap, Swapping
<1>4. (\A u \in Thread : u # t => th'[u] = th[u]) /\ th'[t].pc \notin Swapping /\ th'[t].new = -1
  BY <1>3 DEF Moves
<1>5. ~ AtStore' /\ ~ AtWfStore'
  BY <1>1, <1>4 DEF AtStore, AtWfStore, Swapping
<1>6. os' = os /\ _fd' = th[t].new /\ UNCHANGED <<_wf_fd, _wf_flag>>
  BY DEF store_fd, settings
<1>7. Held(t)
  BY DEF Descriptors
<1>8. \A d \in Fds : d > 2 /\ os'.fds[d] # Closed => Owned(d)'
  <2>1. SUFFICES ASSUME NEW d \in Fds, d > 2, os.fds[d] # Closed PROVE Owned(d)'
    BY <1>6
  <2>2. Owned(d)
    BY <2>1 DEF Descriptors
  <2>3. CASE d = _wf_fd /\ _wf_flag
    BY <1>5, <1>6, <2>3 DEF Owned
  <2>4. CASE \E u \in Thread : th[u].new = d
    <3>1. d = th[t].new
      BY <1>1, <2>4, Numbers
    <3> QED
      BY <1>5, <1>6, <3>1 DEF Owned
  <2> QED
    BY <1>2, <2>2, <2>3, <2>4 DEF Owned
<1>9. _fd' # -1 => LogFd(os, _fd')
  BY <1>0, <1>6, <1>7 DEF Held
<1>10. _wf_flag' /\ _wf_fd' # -1 /\ ~ AtWfStore' => os'.fds[_wf_fd'] # Closed /\ _wf_fd' # _fd'
  BY <1>2, <1>6, <1>7 DEF Descriptors, Held
<1>11. \A u \in Thread : th'[u].new = -1
  BY <1>1, <1>4
<1>12. \A u \in Thread : Held(u)'
  BY <1>11 DEF Held
<1> QED
  BY <1>6, <1>8, <1>9, <1>10, <1>12 DEF Descriptors, LogFd

LEMMA CloseWfDescriptors ==
    ASSUME TypeOK, Control, Descriptors, NEW t \in Thread, close_wf(t)
    PROVE  Descriptors'
<1>0. th[t].pc = "wf_close" /\ th[t].op = "rotate" /\ _wf_flag /\ Kernel(os)
  <2>1. th[t].pc = "wf_close"
    BY DEF close_wf
  <2>2. Placed(t)
    BY DEF Control
  <2>3. th[t].op = "rotate" /\ _wf_flag
    BY <2>1, <2>2 DEF Placed, InRotation
  <2> QED
    BY <2>1, <2>3, TypeParts
<1>1. ~ AtWfStore
  <2>1. SUFFICES ASSUME NEW u \in Thread, th[u].pc = "wf_store" PROVE FALSE
    BY DEF AtWfStore
  <2>2. Placed(u)
    BY DEF Control
  <2>3. th[u].op = "rotate"
    BY <2>1, <2>2 DEF Placed, InRotation
  <2> QED
    BY <1>0, <2>1, <2>3 DEF Control
<1>2. /\ \A u \in Thread : u # t => th'[u] = th[u]
      /\ th'[t].pc = "wf_store" /\ th'[t].new = th[t].new
  BY SwapMoves DEF Moves
<1>3. AtWfStore' /\ (AtStore' <=> AtStore)
  BY <1>0, <1>2 DEF AtStore, AtWfStore
<1>4. UNCHANGED <<_fd, _wf_fd, _wf_flag>> /\ os' = IF _wf_fd # 2 THEN Close(os, _wf_fd) ELSE os
  BY DEF close_wf, settings
<1>5. /\ os'.kind = os.kind
      /\ \A e \in Fds : os'.fds[e] = IF e = _wf_fd /\ _wf_fd # 2 THEN Closed ELSE os.fds[e]
  BY <1>0, <1>4, CloseFacts
<1>6. \A u \in Thread : th[u].new \in Fds \cup {-1}
  BY TypeParts DEF Call
<1>7. \A d \in Fds : d > 2 /\ os'.fds[d] # Closed => Owned(d)'
  <2>1. SUFFICES ASSUME NEW d \in Fds, d > 2, os'.fds[d] # Closed PROVE Owned(d)'
    OBVIOUS
  <2>2. d # _wf_fd /\ os.fds[d] # Closed
    BY <1>5, <2>1
  <2>3. Owned(d)
    BY <2>1, <2>2 DEF Descriptors
  <2>4. CASE \E u \in Thread : th[u].new = d
    BY <1>2, <2>4 DEF Owned
  <2> QED
    BY <1>3, <1>4, <2>2, <2>3, <2>4 DEF Owned
<1>8. _fd' # -1 /\ ~ AtStore' => LogFd(os', _fd')
  <2>1. SUFFICES ASSUME _fd # -1, ~ AtStore PROVE LogFd(os', _fd)
    BY <1>3, <1>4
  <2>2. LogFd(os, _fd)
    BY <2>1 DEF Descriptors
  <2>3. _fd # _wf_fd
    BY <1>0, <1>1, <2>1 DEF Descriptors
  <2> QED
    BY <1>5, <2>2, <2>3 DEF LogFd
<1>9. ASSUME NEW u \in Thread PROVE Held(u)'
  <2>1. CASE th[u].new = -1
    BY <1>2, <2>1 DEF Held
  <2>2. CASE th[u].new # -1
    <3>1. Held(u) /\ th[u].new \in Fds
      BY <1>6, <2>2 DEF Descriptors
    <3>2. os'.fds[th[u].new] = os.fds[th[u].new]
      BY <1>0, <1>1, <1>5, <2>2, <3>1 DEF Held
    <3>3. \A v \in Thread : th'[v].new = th[u].new => v = u
      BY <1>2, <2>2, <3>1 DEF Held
    <3>4. th'[u].new = th[u].new /\ (th'[u].pc \in {"dup", "close", "store"} => th'[u].pc = th[u].pc)
      BY <1>2
    <3> QED
      BY <1>3, <1>4, <1>5, <2>2, <3>1, <3>2, <3>3, <3>4 DEF Held, LogFd
  <2> QED
    BY <2>1, <2>2
<1> QED
  BY <1>3, <1>7, <1>8, <1>9 DEF Descriptors, LogFd

LEMMA StoreWfDescriptors ==
    ASSUME TypeOK, Control, Descriptors, NEW t \in Thread, store_wf_fd(t)
    PROVE  Descriptors'
<1>0. th[t].pc = "wf_store" /\ th[t].op = "rotate" /\ _wf_flag
  <2>1. th[t].pc = "wf_store"
    BY DEF store_wf_fd
  <2>2. Placed(t)
    BY DEF Control
  <2> QED
    BY <2>1, <2>2 DEF Placed, InRotation
<1>1. \A u \in Thread : u # t => th[u].pc # "wf_store"
  <2>1. SUFFICES ASSUME NEW u \in Thread, u # t, th[u].pc = "wf_store" PROVE FALSE
    OBVIOUS
  <2>2. Placed(u)
    BY DEF Control
  <2>3. th[u].op = "rotate"
    BY <2>1, <2>2 DEF Placed, InRotation
  <2> QED
    BY <1>0, <2>1, <2>3 DEF Control
<1>2. (\A u \in Thread : u # t => th'[u] = th[u]) /\ th'[t].pc = "unlock" /\ th'[t].new = -1
  BY SwapMoves DEF Moves
<1>3. AtWfStore /\ ~ AtWfStore' /\ (AtStore' <=> AtStore)
  BY <1>0, <1>1, <1>2 DEF AtStore, AtWfStore
<1>4. os' = os /\ _wf_fd' = th[t].new /\ UNCHANGED <<_fd, _wf_flag>>
  BY DEF store_wf_fd, settings
<1>5. Held(t)
  BY DEF Descriptors
<1>6. \A d \in Fds : d > 2 /\ os'.fds[d] # Closed => Owned(d)'
  <2>1. SUFFICES ASSUME NEW d \in Fds, d > 2, os.fds[d] # Closed PROVE Owned(d)'
    BY <1>4
  <2>2. Owned(d)
    BY <2>1 DEF Descriptors
  <2>3. CASE d = th[t].new
    BY <1>0, <1>3, <1>4, <2>3 DEF Owned
  <2>4. CASE \E u \in Thread : u # t /\ th[u].new = d
    BY <1>2, <2>4 DEF Owned
  <2> QED
    BY <1>3, <1>4, <2>2, <2>3, <2>4 DEF Owned
<1>7. _wf_fd' # -1 => os.fds[_wf_fd'] # Closed /\ _wf_fd' # _fd'
  BY <1>4, <1>5 DEF Held
<1>8. ASSUME NEW u \in Thread PROVE Held(u)'
  <2>1. CASE u = t \/ th[u].new = -1
    BY <1>2, <2>1 DEF Held
  <2>2. CASE u # t /\ th[u].new # -1
    <3>1. Held(u) /\ th'[u] = th[u]
      BY <1>2, <2>2 DEF Descriptors
    <3>2. th[u].new # th[t].new
      BY <2>2, <3>1 DEF Held
    <3>3. \A v \in Thread : th'[v].new = th[u].new => v = u
      BY <1>2, <2>2, <3>1 DEF Held
    <3> QED
      BY <1>3, <1>4, <2>2, <3>1, <3>2, <3>3 DEF Held, LogFd
  <2> QED
    BY <2>1, <2>2
<1>9. _fd' # -1 /\ ~ AtStore' => LogFd(os, _fd')
  BY <1>3, <1>4 DEF Descriptors
<1> QED
  BY <1>4, <1>6, <1>7, <1>8, <1>9 DEF Descriptors, LogFd

LEMMA RotateLeaves ==
    ASSUME TypeOK, NEW t \in Thread, Rotate(t)
    PROVE  os'.fds = os.fds /\ os'.kind = os.kind
<1>0. now \in 1 .. MaxTime /\ Kernel(os) /\ Kernel(WfDropped)
  BY TypeParts, RotatedKernel DEF Settled
<1>1. \A kind, list : Dropped(os, kind, list).fds = os.fds /\ Dropped(os, kind, list).kind = os.kind
  BY <1>0, UnlinkFacts DEF Dropped
<1>2. WfDropped.fds = os.fds /\ WfDropped.kind = os.kind
  BY <1>1 DEF WfDropped
<1>3. \A kind \in {"log", "wf"} : <<kind, now>> \in Name /\ Live(kind) # <<kind, now>>
  BY <1>0, OldNames
<1>4. /\ Rename(os, Live("log"), <<"log", now>>).fds = os.fds
      /\ Rename(os, Live("log"), <<"log", now>>).kind = os.kind
  BY <1>0, <1>3, RenameFacts
<1>5. /\ Rename(WfDropped, Live("wf"), <<"wf", now>>).fds = WfDropped.fds
      /\ Rename(WfDropped, Live("wf"), <<"wf", now>>).kind = WfDropped.kind
  BY <1>0, <1>3, RenameFacts
<1>6. \/ os' = os \/ os' = Dropped(os, "log", _fileList)
      \/ os' = Rename(os, Live("log"), <<"log", now>>)
      \/ os' = Rename(WfDropped, Live("wf"), <<"wf", now>>)
  BY DEF Rotate, rotate_access, rotate_list, rotate_rename, rotate_wf, WfDropped
<1> QED
  BY <1>1, <1>2, <1>4, <1>5, <1>6

LEMMA SetFileNameDescriptors ==
    ASSUME TypeOK, Control, FilesSound, Descriptors, NEW flag \in BOOLEAN, NEW wf \in BOOLEAN,
           NEW ok \in BOOLEAN, NEW wf_ok \in BOOLEAN, set_file_name(flag, wf, ok, wf_ok)
    PROVE  Descriptors'
<1>0. /\ \A t \in Thread : th[t].new = -1 /\ th[t].pc = "idle"
      /\ th' = th
  BY SetFileNameControl, SetFileName
<1>1. ~ AtStore /\ ~ AtWfStore /\ ~ AtStore' /\ ~ AtWfStore' /\ \A t \in Thread : Held(t)'
  BY <1>0 DEF AtStore, AtWfStore, Held
<1>2. /\ _fd \in Fds \cup {-1} /\ _wf_fd \in Fds \cup {-1} /\ Kernel(os) /\ Kinds(os)
      /\ Kernel(Named1(ok)) /\ Kernel(Named2(flag, ok)) /\ Kernel(Named3(flag, ok))
  <2>1. _fd \in Fds \cup {-1} /\ _wf_fd \in Fds \cup {-1} /\ Kernel(os) /\ Kinds(os)
    BY TypeParts DEF Settled, FilesSound, Sound
  <2>2. Kernel(Named1(ok)) /\ Kernel(Named2(flag, ok)) /\ Kernel(Named3(flag, ok))
    BY SetFileNameKernel
  <2> QED
    BY <2>1, <2>2
<1>3. /\ _fd # -1 => LogFd(os, _fd)
      /\ _wf_flag /\ _wf_fd # -1 => os.fds[_wf_fd] # Closed /\ _wf_fd # _fd
      /\ \A d \in Fds : d > 2 /\ os.fds[d] # Closed => d = _fd \/ (d = _wf_fd /\ _wf_flag)
  <2>1. \A d \in Fds : Owned(d) => d = _fd \/ (d = _wf_fd /\ _wf_flag)
    BY <1>0, Numbers DEF Owned
  <2> QED
    BY <1>1, <2>1 DEF Descriptors
<1>4. ~ _name => _fd = 2 /\ ~ _wf_flag
  BY DEF Control, Unnamed
<1>5. PICK d, s1 : d = NewFd(os, ok) /\ s1 = Named1(ok)
  OBVIOUS
<1>6. /\ d = -1 \/ (d \in Fds /\ os.fds[d] = Closed /\ LogFd(s1, d))
      /\ \A e \in Fds : e # d => s1.fds[e] = os.fds[e]
      /\ \A e : LogFd(os, e) => LogFd(s1, e)
      /\ Kernel(s1)
  <2>1. ok => CanOpen(os, "log")
    BY SetFileName
  <2>2. /\ NewFd(os, ok) = -1
              \/ (NewFd(os, ok) \in Fds /\ os.fds[NewFd(os, ok)] = Closed
                  /\ LogFd(AfterOpen(os, "log", ok), NewFd(os, ok)))
        /\ \A e \in Fds : e # NewFd(os, ok) => AfterOpen(os, "log", ok).fds[e] = os.fds[e]
        /\ \A e : LogFd(os, e) => LogFd(AfterOpen(os, "log", ok), e)
    BY <1>2, <2>1, AfterOpenFds
  <2> QED
    BY <1>2, <1>5, <2>2 DEF Named1
<1>7. d # -1 => d # _fd /\ (_wf_flag => d # _wf_fd)
  BY <1>3, <1>6, LogFdOpen, Numbers
<1>8. PICK s2 : s2 = Named2(flag, ok)
  OBVIOUS
<1>9. _fd' = IF flag THEN d ELSE _fd
  <2>1. _fd' = IF flag THEN NewFd(os, ok) ELSE _fd
    BY SetFileName
  <2> QED
    BY <1>5, <2>1
\* the log is in its place: what else is open is the old wf file
<1>10. /\ _fd' # -1 => LogFd(s2, _fd')
       /\ \A e \in Fds : e > 2 /\ s2.fds[e] # Closed => e = _fd' \/ (e = _wf_fd /\ _wf_flag)
  <2>1. CASE flag
    <3>1. s2 = IF _name THEN Close(s1, _fd) ELSE s1
      BY <1>5, <1>8, <2>1 DEF Named2
    <3>2. /\ s2.kind = s1.kind
          /\ \A e \in Fds : s2.fds[e] = IF _name /\ e = _fd THEN Closed ELSE s1.fds[e]
      BY <1>6, <3>1, CloseFacts
    <3>3. d # -1 => LogFd(s2, d)
      BY <1>6, <1>7, <3>2 DEF LogFd
    <3>4. ASSUME NEW e \in Fds, e > 2, s2.fds[e] # Closed, e # d
          PROVE  e = _wf_fd /\ _wf_flag
      <4>1. os.fds[e] # Closed /\ e # _fd
        BY <1>4, <1>6, <3>2, <3>4
      <4> QED
        BY <1>3, <3>4, <4>1
    <3> QED
      BY <1>9, <2>1, <3>3, <3>4
  <2>2. CASE ~ flag
    <3>1. s2 = Redirected(s1, d)
      BY <1>5, <1>8, <2>2 DEF Named2
    <3>2. PICK s : s = Dup2(s1, d, {_fd, 1, 2})
      OBVIOUS
    <3>3. /\ Kernel(s) /\ s.kind = s1.kind
          /\ \A e \in Fds : s.fds[e] = IF d \in Fds /\ e \in {_fd, 1, 2} THEN s1.fds[d] ELSE s1.fds[e]
      BY <1>6, <3>2, Dup2Facts
    <3>4. CASE d = -1
      <4>1. s2 = s
        BY <3>1, <3>2, <3>4, Numbers DEF Redirected
      <4>2. s2.kind = s1.kind /\ \A e \in Fds : s2.fds[e] = s1.fds[e] /\ s1.fds[e] = os.fds[e]
        BY <1>6, <3>3, <3>4, <4>1, Numbers
      <4>3. _fd # -1 => LogFd(s2, _fd)
        BY <1>3, <1>6, <4>2 DEF LogFd
      <4> QED
        BY <1>3, <1>9, <2>2, <4>2, <4>3
    <3>5. CASE d # -1
      <4>0. d \in Fds /\ d # _fd /\ LogFd(s1, d)
        BY <1>6, <1>7, <3>5
      <4>1. s2 = Close(s, d)
        BY <3>1, <3>2, <4>0 DEF Redirected
      <4>2. s2.kind = s1.kind /\ \A e \in Fds : s2.fds[e] = IF e = d THEN Closed ELSE s.fds[e]
        BY <3>3, <4>1, CloseFacts
      <4>3. _fd # -1 => LogFd(s2, _fd)
        <5>1. _fd # -1 => s2.fds[_fd] = s1.fds[d] /\ _fd \in Fds
          BY <1>2, <3>3, <4>0, <4>2
        <5> QED
          BY <4>0, <4>2, <5>1 DEF LogFd
      <4>4. ASSUME NEW e \in Fds, e > 2, s2.fds[e] # Closed, e # _fd PROVE e = _wf_fd /\ _wf_flag
        <5>1. e # d
          BY <4>2, <4>4
        <5>2. s.fds[e] = s1.fds[e]
          BY <3>3, <4>4
        <5>3. os.fds[e] # Closed
          BY <1>6, <4>2, <4>4, <5>1, <5>2
        <5> QED
          BY <1>3, <4>4, <5>3
      <4> QED
        BY <1>9, <2>2, <4>3, <4>4
    <3> QED
      BY <3>4, <3>5
  <2> QED
    BY <2>1, <2>2
<1>11. PICK s3 : s3 = Named3(flag, ok)
  OBVIOUS
\* and it is closed
<1>12. /\ _fd' # -1 => LogFd(s3, _fd')
       /\ \A e \in Fds : e > 2 /\ s3.fds[e] # Closed => e = _fd'
  <2>1. s3 = IF _wf_flag /\ _name THEN Close(s2, _wf_fd) ELSE s2
    BY <1>8, <1>11 DEF Named3
  <2>2. CASE ~ _wf_flag
    BY <1>10, <2>1, <2>2
  <2>3. CASE _wf_flag
    <3>1. s3 = Close(s2, _wf_fd) /\ Kernel(s2)
      BY <1>2, <1>4, <1>8, <2>1, <2>3
    <3>2. s3.kind = s2.kind /\ \A e \in Fds : s3.fds[e] = IF e = _wf_fd THEN Closed ELSE s2.fds[e]
      BY <3>1, CloseFacts
    <3>3. _fd' # -1 => _fd' # _wf_fd
      BY <1>3, <1>7, <1>9, <2>3
    <3>4. _fd' # -1 => LogFd(s3, _fd')
      BY <1>10, <3>2, <3>3 DEF LogFd
    <3> QED
      BY <1>10, <3>2, <3>4
  <2> QED
    BY <2>2, <2>3
<1>13. /\ _wf_flag' = wf
       /\ os' = IF wf THEN AfterOpen(s3, "wf", wf_ok) ELSE s3
       /\ wf => _wf_fd' = NewFd(s3, wf_ok)
       /\ wf /\ wf_ok => CanOpen(s3, "wf")
  <2>1. /\ _wf_flag' = wf
        /\ os' = IF wf THEN AfterOpen(Named3(flag, ok), "wf", wf_ok) ELSE Named3(flag, ok)
        /\ _wf_fd' = IF wf THEN NewFd(Named3(flag, ok), wf_ok) ELSE _wf_fd
        /\ wf /\ wf_ok => CanOpen(Named3(flag, ok), "wf")
    <3>1. /\ _wf_flag' = wf
          /\ os' = IF wf THEN AfterOpen(Named3(flag, ok), "wf", wf_ok) ELSE Named3(flag, ok)
      BY SetFileName
    <3>2. /\ _wf_fd' = IF wf THEN NewFd(Named3(flag, ok), wf_ok) ELSE _wf_fd
          /\ wf /\ wf_ok => CanOpen(Named3(flag, ok), "wf")
      BY SetFileName
    <3> QED
      BY <3>1, <3>2
  <2> QED
    BY <1>11, <2>1
<1>14. CASE ~ wf
  <2>1. os' = s3 /\ ~ _wf_flag'
    BY <1>13, <1>14
  <2>2. \A d_1 \in Fds : d_1 > 2 /\ os'.fds[d_1] # Closed => Owned(d_1)'
    BY <1>1, <1>12, <2>1 DEF Owned
  <2>3. _fd' # -1 => LogFd(os', _fd')
    BY <1>12, <2>1
  <2> QED
    BY <1>1, <2>1, <2>2, <2>3 DEF Descriptors, LogFd
<1>15. CASE wf
  <2>1. os' = AfterOpen(s3, "wf", wf_ok) /\ _wf_flag' /\ _wf_fd' = NewFd(s3, wf_ok)
        /\ (wf_ok => CanOpen(s3, "wf")) /\ Kernel(s3)
    BY <1>2, <1>11, <1>13, <1>15
  <2>2. Kinds(s3)
    <3> DEFINE Fine(s) == Sound(s, FALSE, 0 .. MaxTime)
    <3>1. Fine(s1)
      <4>1. Fine(os)
        <5>1. Dated(os, 0 .. MaxTime)
          BY <1>2 DEF Dated, Kernel, Name
        <5> QED
          BY <1>2, <5>1 DEF Sound
      <4>2. ok => CanOpen(os, "log")
        BY SetFileName
      <4>3. Fine(AfterOpen(os, "log", ok))
        BY <1>2, <4>1, <4>2, AfterOpenSound
      <4> QED
        BY <1>5, <4>3 DEF Named1
    <3>2. Fine(s2)
      <4>1. Fine(Redirected(s1, d)) /\ Fine(Close(s1, _fd))
        BY <1>6, <3>1, RedirectedSound, CloseSound
      <4>2. s2 = Redirected(s1, d) \/ s2 = Close(s1, _fd) \/ s2 = s1
        BY <1>5, <1>8 DEF Named2
      <4> QED
        BY <3>1, <4>1, <4>2
    <3>3. s3 = s2 \/ s3 = Close(s2, _wf_fd)
      BY <1>8, <1>11 DEF Named3
    <3>4. Kernel(s2)
      BY <1>2, <1>8
    <3>5. Fine(Close(s2, _wf_fd))
      BY <3>2, <3>4, CloseSound
    <3> QED
      BY <3>2, <3>3, <3>5 DEF Sound
  <2>3. /\ _wf_fd' = -1 \/ (_wf_fd' \in Fds /\ s3.fds[_wf_fd'] = Closed /\ os'.fds[_wf_fd'] # Closed)
        /\ \A e \in Fds : e # _wf_fd' => os'.fds[e] = s3.fds[e]
        /\ \A e : LogFd(s3, e) => LogFd(os', e)
    <3>1. /\ NewFd(s3, wf_ok) = -1
               \/ (NewFd(s3, wf_ok) \in Fds /\ s3.fds[NewFd(s3, wf_ok)] = Closed
                   /\ AfterOpen(s3, "wf", wf_ok).fds[NewFd(s3, wf_ok)] # Closed)
          /\ \A e \in Fds : e # NewFd(s3, wf_ok) => AfterOpen(s3, "wf", wf_ok).fds[e] = s3.fds[e]
          /\ \A e : LogFd(s3, e) => LogFd(AfterOpen(s3, "wf", wf_ok), e)
      BY <2>1, <2>2, AfterOpenFds
    <3> QED
      BY <2>1, <3>1
  <2>4. _wf_fd' # -1 => _wf_fd' # _fd'
    BY <1>12, <2>3, LogFdOpen, Numbers
  <2>5. _fd' # -1 => LogFd(os', _fd')
    BY <1>12, <2>3
  <2>6. \A e \in Fds : e > 2 /\ os'.fds[e] # Closed => Owned(e)'
    BY <1>1, <1>12, <2>1, <2>3 DEF Owned
  <2> QED
    BY <1>1, <2>3, <2>4, <2>5, <2>6 DEF Descriptors, LogFd
<1> QED
  BY <1>14, <1>15

LEMMA DescriptorsStep ==
    ASSUME TypeOK, Control, FilesSound, ~ Raced => Descriptors, [Next]_vars, ~ Raced'
    PROVE  Descriptors'
<1>0. ~ Raced /\ Descriptors /\ Kinds(os)
  BY RacedStays DEF FilesSound, Sound
<1>1. CASE Setup
  <2>1. UNCHANGED <<os, _fd, _wf_fd, _wf_flag, th>>
    BY <1>1 DEF Setup, set_max_file_size, set_max_file_index, set_check
  <2> QED
    BY <1>0, <2>1, KeepDescriptors
<1>2. CASE \E flag, wf, ok, wf_ok \in BOOLEAN : set_file_name(flag, wf, ok, wf_ok)
  BY <1>0, <1>2, SetFileNameDescriptors
<1>3. ASSUME NEW t \in Thread, rotate_log(t) \/ \E grave \in Grave : log_message(t, grave)
      PROVE  Descriptors'
  <2>1. /\ UNCHANGED <<os, _fd, _wf_fd, _wf_flag>> /\ th[t].pc = "idle"
    BY <1>3 DEF rotate_log, log_message, settings
  <2>2. \E at \in {"stat", "write", "access"} : \E op, cur, new :
           Moves(t, at, op, cur, new) /\ new \in {-1, th[t].new}
    BY <1>3, CallMoves
  <2> QED
    BY <1>0, <2>1, <2>2, QuietDescriptors DEF Swapping
<1>4. ASSUME NEW t \in Thread, Quiet(t) PROVE Descriptors'
  <2>1. /\ UNCHANGED <<os, _fd, _wf_fd, _wf_flag>> /\ th[t].pc \notin Swapping
    BY <1>4 DEF Quiet, check_file, take_fd, take_wf_fd, check_size, unlock_size, settings, Swapping
  <2>2. \E at \in {"open", "write", "writev", "wf_writev", "idle", "access"} : \E op, cur, new :
           Moves(t, at, op, cur, new) /\ new \in {-1, th[t].new}
    BY <1>4, QuietMoves DEF Quiet
  <2> QED
    BY <1>0, <2>1, <2>2, QuietDescriptors DEF Swapping
<1>5. ASSUME NEW t \in Thread, writev(t) \/ wf_writev(t) PROVE Descriptors'
  <2>1. /\ UNCHANGED <<_fd, _wf_fd, _wf_flag>> /\ th[t].pc \notin Swapping
    BY <1>5 DEF writev, wf_writev, settings, Swapping
  <2>2. os'.fds = os.fds /\ os'.kind = os.kind
    BY <1>5, WriteLeaves DEF writev, wf_writev
  <2>3. \E at \in {"wf_write", "size", "idle"} : \E op : Moves(t, at, op, -1, -1)
    BY <1>5, WriteMoves
  <2> QED
    BY <1>0, <2>1, <2>2, <2>3, QuietDescriptors DEF Swapping
<1>6. ASSUME NEW t \in Thread, Rotate(t) PROVE Descriptors'
  <2>1. /\ UNCHANGED <<_fd, _wf_fd, _wf_flag>> /\ th[t].pc \notin Swapping
    BY <1>6 DEF Rotate, rotate_access, rotate_list, rotate_rename, rotate_wf, settings, Swapping
  <2>2. os'.fds = os.fds /\ os'.kind = os.kind
    BY <1>6, RotateLeaves
  <2>3. PICK at \in {"list", "rename", "wf_rename", "open"} : Moves(t, at, th[t].op, -1, -1)
    BY <1>6, SwapMoves DEF Rotate
  <2> QED
    BY <1>0, <2>1, <2>2, <2>3, QuietDescriptors DEF Swapping
<1>7. ASSUME NEW t \in Thread, NEW ok \in BOOLEAN, open_log(t, ok) PROVE Descriptors'
  <2>1. /\ th[t].pc = "open" /\ os' = AfterOpen(os, "log", ok) /\ (ok => CanOpen(os, "log"))
        /\ UNCHANGED <<_fd, _wf_fd, _flag, _wf_flag>>
    BY <1>7 DEF open_log, settings
  <2>2. \E at \in {"dup", "close"} : Moves(t, at, th[t].op, th[t].cur, NewFd(os, ok))
    BY <1>7, SwapMoves
  <2> QED
    BY <1>0, <2>1, <2>2, OpenDescriptors
<1>8. ASSUME NEW t \in Thread, NEW ok \in BOOLEAN, open_wf(t, ok) PROVE Descriptors'
  <2>1. /\ th[t].pc = "wf_open" /\ os' = AfterOpen(os, "wf", ok) /\ (ok => CanOpen(os, "wf"))
        /\ UNCHANGED <<_fd, _wf_fd, _flag, _wf_flag>>
    BY <1>8 DEF open_wf, settings
  <2>2. Moves(t, "wf_close", th[t].op, th[t].cur, NewFd(os, ok))
    BY <1>8, SwapMoves
  <2> QED
    BY <1>0, <2>1, <2>2, OpenDescriptors
<1>9. ASSUME NEW t \in Thread, Step(t) PROVE Descriptors'
  BY <1>0, <1>4, <1>5, <1>6, <1>7, <1>8, <1>9, DupDescriptors, CloseDescriptors, StoreDescriptors,
     CloseWfDescriptors, StoreWfDescriptors DEF Step, Quiet, Rotate
<1>10. CASE move_away
  <2>1. UNCHANGED <<_fd, _wf_fd, _wf_flag, th>> /\ os' = Rename(os, Live("log"), <<"moved", 0>>)
    BY <1>10 DEF move_away, settings
  <2>2. os'.fds = os.fds /\ os'.kind = os.kind
    <3>1. Live("log") # <<"moved", 0>> /\ <<"moved", 0>> \in Name
      BY LiveNames DEF Live
    <3> QED
      BY <2>1, <3>1, TypeParts, RenameFacts
  <2> QED
    BY <1>0, <2>1, <2>2, KeepDescriptors
<1>11. CASE UNCHANGED vars
  <2>1. UNCHANGED <<os, _fd, _wf_fd, _wf_flag, th>>
    BY <1>11 DEF vars, settings
  <2> QED
    BY <1>0, <2>1, KeepDescriptors
<1> QED
  BY <1>1, <1>2, <1>3, <1>9, <1>10, <1>11 DEF Next

-----------------------------------------------------------------------------
(* The inductive invariant, and what it says.                              *)

LoggerInv ==
    /\ TypeOK
    /\ Control
    /\ FilesSound
    /\ ~ Raced => Descriptors
    /\ MessagesArrive

LEMMA LoggerStart == Init => LoggerInv
<1> SUFFICES ASSUME Init PROVE LoggerInv
  OBVIOUS
<1>1. Kernel(os)
  BY DEF Init, Kernel
<1>2. th \in [Thread -> Call]
  <2>1. Idle \in Call
    BY BoundsAssumption DEF Idle, Call, Steps
  <2> QED
    BY <2>1 DEF Init
<1>3. TypeOK
  <2>1. Settled
    <3>1. 2 \in Fds /\ 1 \in 1 .. MaxTime
      BY Numbers, BoundsAssumption
    <3>2. history \in History
      BY DEF Init, History
    <3>3. /\ now \in 1 .. MaxTime /\ fails \in 0 .. MaxFails /\ calls \in 0 .. MaxCalls
          /\ _maxFileSize \in 0 .. TopSize /\ _maxFileIndex \in 0 .. TopIndex
          /\ _fileList \in Seq(1 .. MaxTime) /\ _wf_file_list \in Seq(1 .. MaxTime)
      BY <3>1, BoundsAssumption, LimitsAssumption DEF Init
    <3>4. /\ _name \in BOOLEAN /\ _check \in BOOLEAN /\ _flag \in BOOLEAN /\ _wf_flag \in BOOLEAN
          /\ _fd \in Fds /\ _wf_fd \in Fds /\ _fileSizeMutex = Nobody
      BY <3>1 DEF Init
    <3> QED
      BY <3>2, <3>3, <3>4 DEF Settled
  <2> QED
    BY <1>1, <1>2, <2>1 DEF TypeOK, Settled
<1>4. \A t \in Thread : th[t].pc = "idle" /\ th[t].op = "none" /\ th[t].new = -1
  BY DEF Init, Idle
<1>5. os.fds[2] = Tty /\ os.names = << >> /\ (\A d \in Fds : os.fds[d] \notin Files)
      /\ (\A d \in Fds : d > 2 => os.fds[d] = Closed) /\ \A f \in Files : os.kind[f] = "none"
  BY Numbers DEF Init
<1>6. Control
  <2>1. \A t \in Thread : Placed(t)
    BY <1>4 DEF Placed, InRotation, Swapping
  <2> QED
    BY <1>4, <1>5, <2>1 DEF Init, Control, Unnamed
<1>7. FilesSound
  <2>1. Kinds(os)
    BY <1>5 DEF Kinds
  <2>2. LogsNamed(os) /\ Dated(os, Stamps)
    BY <1>5 DEF LogsNamed, Dated
  <2>3. Saved /\ Listing
    BY <1>4 DEF Init, Saved, Listing
  <2> QED
    BY <2>1, <2>2, <2>3 DEF FilesSound, Sound
<1>8. Descriptors
  <2>1. LogFd(os, _fd)
    BY <1>5, Numbers DEF Init, LogFd
  <2>2. \A t \in Thread : Held(t)
    BY <1>4 DEF Held
  <2>3. ~ _wf_flag
    BY DEF Init
  <2> QED
    BY <1>5, <2>1, <2>2, <2>3 DEF Descriptors
<1>9. MessagesArrive
  BY DEF Init, MessagesArrive
<1> QED
  BY <1>3, <1>6, <1>7, <1>8, <1>9 DEF LoggerInv

\* a message for the log that goes astray in the mode with dup2
LEMMA WriteArrives ==
    ASSUME TypeOK, Control, ~ Raced => Descriptors, MessagesArrive, NEW t \in Thread,
           NEW kind \in {"log", "wf"}, Write(t, kind), kind = "log" => th[t].pc = "writev",
           ~ Raced, ~ history.dead
    PROVE  <<"log", FALSE>> \notin history'.astray
<1>0. history \in History /\ _flag \in BOOLEAN /\ <<"log", FALSE>> \notin history.astray
  BY TypeParts DEF Settled, MessagesArrive
<1> DEFINE f == FileAt(os, th[t].cur)
<1>1. \/ history' = history
      \/ history' = [history EXCEPT !.written = @ \cup {th[t].msg}]
      \/ /\ history' = [history EXCEPT !.astray = @ \cup {<<kind, _flag>>}]
         /\ f # Tty /\ (f \in Files => os.kind[f] # kind)
  BY Numbers DEF Write
<1>2. ASSUME kind = "log", ~ _flag PROVE f = Tty \/ (f \in Files /\ os.kind[f] = kind)
  <2>1. th[t].cur = _fd /\ _fd # -1 /\ ~ AtStore
    BY <1>2, NobodyStores DEF Control, Placed
  <2>2. LogFd(os, _fd)
    BY <2>1 DEF Descriptors
  <2> QED
    BY <1>2, <2>1, <2>2 DEF LogFd, FileAt
<1> HIDE DEF f
<1>4. CASE history' = [history EXCEPT !.astray = @ \cup {<<kind, _flag>>}]
           /\ f # Tty /\ (f \in Files => os.kind[f] # kind)
  <2>1. <<kind, _flag>> # <<"log", FALSE>>
    BY <1>0, <1>2, <1>4
  <2>2. history'.astray = history.astray \cup {<<kind, _flag>>}
    BY <1>0, <1>4 DEF History
  <2> QED
    BY <1>0, <2>1, <2>2
<1> QED
  BY <1>0, <1>1, <1>4 DEF History

\* what a step does to the history, but for the writes
LEMMA HistoryStep ==
    ASSUME TypeOK, [Next]_vars
    PROVE  \/ \E t \in Thread : writev(t) \/ wf_writev(t)
           \/ history'.astray = history.astray /\ (history.dead => history'.dead)
<1>0. history \in History
  BY TypeParts DEF Settled
<1>1. \/ history' = history
      \/ \E t \in Thread : writev(t) \/ wf_writev(t) \/ store_fd(t)
      \/ \E t \in Thread, time \in now .. MaxTime : rotate_access(t, time)
      \/ \E flag, wf, ok, wf_ok \in BOOLEAN : set_file_name(flag, wf, ok, wf_ok)
  BY DEF Next, vars, Setup, set_max_file_size, set_max_file_index, set_check, move_away, Step,
     rotate_log, log_message, check_file, open_log, dup_log, close_log, take_fd, take_wf_fd,
     check_size, unlock_size, rotate_list, rotate_rename, rotate_wf, open_wf, close_wf, store_wf_fd
<1>2. ASSUME NEW t \in Thread, NEW time, rotate_access(t, time)
      PROVE  history'.astray = history.astray /\ (history.dead => history'.dead)
  <2>1. history' = history \/ \E n, b : history' = [history EXCEPT !.rotations = n, !.rushed = b]
    BY <1>2 DEF rotate_access
  <2> QED
    BY <1>0, <2>1 DEF History
<1>3. ASSUME NEW t \in Thread, store_fd(t)
      PROVE  history'.astray = history.astray /\ (history.dead => history'.dead)
  BY <1>0, <1>3 DEF store_fd, History
<1>4. ASSUME NEW flag \in BOOLEAN, NEW wf \in BOOLEAN, NEW ok \in BOOLEAN, NEW wf_ok \in BOOLEAN,
             set_file_name(flag, wf, ok, wf_ok)
      PROVE  history'.astray = history.astray /\ (history.dead => history'.dead)
  <2>1. history' = [history EXCEPT !.flagged = @ \/ flag, !.dead = @ \/ (flag /\ ~ ok)]
    BY <1>4 DEF set_file_name
  <2> QED
    BY <1>0, <2>1 DEF History
<1> QED
  BY <1>1, <1>2, <1>3, <1>4

LEMMA ArriveStep ==
    ASSUME LoggerInv, [Next]_vars
    PROVE  MessagesArrive'
<1>0. TypeOK /\ Control /\ (~ Raced => Descriptors) /\ MessagesArrive
  BY DEF LoggerInv
<1>1. CASE Raced
  BY <1>0, <1>1, RacedStays DEF MessagesArrive
<1>2. ASSUME NEW t \in Thread, writev(t) \/ wf_writev(t), ~ Raced PROVE MessagesArrive'
  <2>1. history'.dead = history.dead
    BY <1>0, <1>2, WriteLeaves DEF writev, wf_writev
  <2>2. ~ history.dead => <<"log", FALSE>> \notin history'.astray
    BY <1>0, <1>2, WriteArrives DEF writev, wf_writev
  <2> QED
    BY <2>1, <2>2 DEF MessagesArrive
<1>3. CASE ~ Raced /\ history'.astray = history.astray /\ (history.dead => history'.dead)
  BY <1>0, <1>3 DEF MessagesArrive
<1> QED
  BY <1>0, <1>1, <1>2, <1>3, HistoryStep

LEMMA LoggerStep ==
    ASSUME LoggerInv, [Next]_vars
    PROVE  LoggerInv'
<1>0. TypeOK /\ Control /\ FilesSound /\ (~ Raced => Descriptors)
  BY DEF LoggerInv
<1>1. TypeOK' /\ Control' /\ FilesSound'
  BY <1>0, TypeStep, ControlStep, FilesStep
<1>2. ~ Raced' => Descriptors'
  BY <1>0, DescriptorsStep
<1>3. MessagesArrive'
  BY ArriveStep
<1> QED
  BY <1>1, <1>2, <1>3 DEF LoggerInv

\* The invariant of the logger, of any number of threads, calls and failing opens: the
\* rotation is one thread's at a time, every open descriptor has one owner, every name
\* leads to a file of its kind, and every log file has a name as long as each rotation
\* has a second of its own and the list of old files is not full.
THEOREM LoggerInvariance == Spec => []LoggerInv
  BY LoggerStart, LoggerStep, PTL DEF Spec

\* While stdout is redirected to the log no message misses it, whatever the other threads
\* reopen or rotate meanwhile (log_base.cpp:157, 240-243, 276-279), unless the program
\* has used the other mode before and there checked for a moved file or failed to open it.
THEOREM MessagesReachTheLog == Spec => []MessagesArrive
<1>1. LoggerInv => MessagesArrive
  BY DEF LoggerInv
<1> QED
  BY <1>1, LoggerInvariance, PTL

LEMMA SurvivesNow == LoggerInv => WrittenSurvives
<1>1. SUFFICES ASSUME LoggerInv, Lossless, NEW k \in history.written
               PROVE  k \in UNION {os.msgs[f] : f \in Kept}
  BY DEF WrittenSurvives
<1>2. LogsNamed(os) /\ Saved
  BY <1>1 DEF LoggerInv, FilesSound, Sound
<1>3. PICK f \in Files : os.kind[f] = "log" /\ k \in os.msgs[f]
  BY <1>1, <1>2 DEF Saved
<1>4. f \in Kept
  BY <1>2, <1>3 DEF LogsNamed, Kept
<1> QED
  BY <1>3, <1>4

\* What has been written stays in a file with a name, in either mode and whoever rotates
\* or moves the log meanwhile, as long as no second sees two rotations and there are no
\* more of them than old files are kept (log_base.cpp:186-222, 237, 273).
THEOREM WrittenStays == Spec => []WrittenSurvives
  BY SurvivesNow, LoggerInvariance, PTL

LEMMA LimitNow == LoggerInv => ArchiveLimit
<1>1. SUFFICES ASSUME LoggerInv, _maxFileIndex > 0
               PROVE  Cardinality({n \in DOMAIN os.names : n[1] = "log" /\ n[2] > 0}) <= _maxFileIndex
  BY DEF ArchiveLimit
<1> DEFINE Old == {n \in DOMAIN os.names : n[1] = "log" /\ n[2] > 0}
           names == [i \in 1 .. Len(_fileList) |-> <<"log", _fileList[i]>>]
           Entries == {names[i] : i \in 1 .. Len(_fileList)}
<1>2. /\ Dated(os, Stamps) /\ Len(_fileList) <= _maxFileIndex /\ DOMAIN os.names \subseteq Name
      /\ _fileList \in Seq(1 .. MaxTime) /\ _maxFileIndex \in Nat
  BY <1>1, TypeParts, LimitsAssumption DEF LoggerInv, FilesSound, Sound, Listing, Settled, Kernel
<1>3. Len(_fileList) \in Nat /\ DOMAIN _fileList = 1 .. Len(_fileList)
  BY <1>2
<1>4. Old \subseteq Entries
  <2>1. SUFFICES ASSUME NEW n \in DOMAIN os.names, n[1] = "log", n[2] > 0 PROVE n \in Entries
    OBVIOUS
  <2>2. PICK i \in DOMAIN _fileList : _fileList[i] = n[2]
    BY <1>1, <1>2, <2>1 DEF Dated, Stamps, OnList
  <2>3. n = <<n[1], n[2]>>
    BY <1>2, NameParts
  <2>4. i \in 1 .. Len(_fileList) /\ names[i] = n
    BY <1>3, <2>1, <2>2, <2>3
  <2> QED
    BY <2>4
<1>5. IsFiniteSet(1 .. Len(_fileList)) /\ Cardinality(1 .. Len(_fileList)) = Len(_fileList)
  <2>1. /\ IsFiniteSet(1 .. Len(_fileList))
        /\ Cardinality(1 .. Len(_fileList)) = IF 1 > Len(_fileList) THEN 0 ELSE Len(_fileList) - 1 + 1
    BY <1>3, FS_Interval
  <2> QED
    BY <1>3, <2>1
<1>6. IsFiniteSet(Entries) /\ Cardinality(Entries) <= Cardinality(1 .. Len(_fileList))
  <2>1. names \in Surjection(1 .. Len(_fileList), Entries)
    BY DEF Surjection
  <2> HIDE DEF Entries, names
  <2> QED
    BY <1>5, <2>1, FS_Surjection
<1> HIDE DEF Old, Entries, names
<1>7. IsFiniteSet(Old) /\ Cardinality(Old) <= Cardinality(Entries)
  BY <1>4, <1>6, FS_Subset
<1>8. Cardinality(Old) \in Nat /\ Cardinality(Entries) \in Nat
  BY <1>6, <1>7, FS_CardinalityType
<1>9. Cardinality(Old) <= _maxFileIndex
  BY <1>2, <1>3, <1>5, <1>6, <1>7, <1>8
<1> QED
  BY <1>9 DEF Old

\* There are never more old log files than _maxFileIndex, at any step of a rotation and
\* whoever else logs meanwhile (log_base.cpp:210-222).
THEOREM ArchiveIsLimited == Spec => []ArchiveLimit
  BY LimitNow, LoggerInvariance, PTL

LEMMA NoLeakNow == LoggerInv => NoFdLeak
<1>1. SUFFICES ASSUME LoggerInv, NoCall, ~ Raced, NEW d \in Fds, d > 2, os.fds[d] # Closed
               PROVE  d \in {_fd, _wf_fd}
  BY DEF NoFdLeak, LoggerInv
<1>2. Owned(d) /\ \A t \in Thread : th[t].new = -1
  BY <1>1 DEF LoggerInv, Descriptors, NoCall, Control, Placed, Swapping
<1> QED
  BY <1>1, <1>2, Numbers DEF Owned

\* Between calls the logger has no descriptors but its two, over every mixture of modes,
\* rotations and failing opens (log_base.cpp:72-101, 237-261), unless threads have checked
\* for a moved file in the mode without dup2.
THEOREM LoggerDescriptors == Spec => []NoFdLeak
  BY NoLeakNow, LoggerInvariance, PTL

-----------------------------------------------------------------------------
(* The configuration (ConfigSpec), for any files that include each other.  *)

\* the lines of the file on top of the stack, one less, or without the file
LEMMA StackTop ==
    ASSUME NEW U, NEW s \in Seq(U), s # << >>
    PROVE  /\ Last(s) \in U /\ Len(s) \in Nat \ {0} /\ Last(s) = s[Len(s)]
           /\ Front(s) \in Seq(U) /\ Len(Front(s)) = Len(s) - 1
           /\ \A i \in 1 .. Len(s) - 1 : Front(s)[i] = s[i]
<1>1. Len(s) \in Nat \ {0}
  OBVIOUS
<1>2. Last(s) \in U /\ Last(s) = s[Len(s)]
  BY <1>1 DEF Last
<1>3. Front(s) = SubSeq(s, 1, Len(s) - 1)
  BY DEF Front
<1>4. PICK n \in Nat : n = Len(s) - 1 /\ n < Len(s)
  <2>1. PICK k \in Nat \ {0} : k = Len(s)
    BY <1>1
  <2>2. k - 1 \in Nat /\ k - 1 < k
    BY <2>1
  <2> QED
    BY <2>1, <2>2
<1>5. SubSeq(s, 1, n) \in Seq(U) /\ Len(SubSeq(s, 1, n)) = n
  BY <1>4
<1>6. \A i \in 1 .. n : SubSeq(s, 1, n)[i] = s[i]
  BY <1>4
<1> QED
  BY <1>1, <1>2, <1>3, <1>4, <1>5, <1>6

LEMMA StackNext ==
    ASSUME NEW U, NEW s \in Seq(U), s # << >>, NEW e \in U
    PROVE  LET o == Front(s) \o <<e>>
           IN  /\ o \in Seq(U) /\ Len(o) = Len(s) /\ o[Len(s)] = e
               /\ \A i \in 1 .. Len(s) - 1 : o[i] = s[i]
<1>1. PICK fr : fr = Front(s)
  OBVIOUS
<1>2. /\ Len(s) \in Nat \ {0} /\ fr \in Seq(U) /\ Len(fr) = Len(s) - 1
      /\ \A i \in 1 .. Len(s) - 1 : fr[i] = s[i]
  BY <1>1, StackTop
<1>3. PICK n \in Nat : n = Len(fr) /\ n + 1 = Len(s)
  BY <1>2
<1>4. fr \o <<e>> \in Seq(U) /\ Len(fr \o <<e>>) = n + 1 /\ (fr \o <<e>>)[n + 1] = e
  BY <1>2, <1>3
<1>5. \A i \in 1 .. n : (fr \o <<e>>)[i] = fr[i]
  BY <1>2, <1>3
<1> QED
  BY <1>1, <1>2, <1>3, <1>4, <1>5

LEMMA LineParts ==
    ASSUME NEW line \in Line, IsSetting(line)
    PROVE  IF line[1] = Include THEN line[2] \in File ELSE line[1] \in Key /\ line[2] \in Value
  BY DEF Line

\* The types and the balance, with what an idle parser has on its stack: between calls no
\* file is open (conf.cpp:86-90, 108-109).
ConfigBalance == DescriptorsBalance /\ (pc = "idle" => stack = << >>)

LEMMA BalanceStart == ConfigInit => ConfigBalance
<1>1. ASSUME ConfigInit PROVE ConfigTypeOK
  <2>1. \A t \in {m_config_hash, old} : DOMAIN t \subseteq Key /\ \A k \in DOMAIN t : t[k] \in Value
    BY <1>1 DEF ConfigInit
  <2>2. /\ disk \in [File -> Contents \cup {Unreadable}] /\ m_file_name \in File /\ overwrite \in BOOLEAN
        /\ pc = "idle" /\ arg \in File /\ ret \in BOOLEAN /\ edited \in BOOLEAN
    BY <1>1 DEF ConfigInit
  <2>3. stack \in Seq(Seq(Line)) /\ fds \in 0 .. MaxFds
    BY <1>1, MaxFdsAssumption DEF ConfigInit
  <2> QED
    BY <2>1, <2>2, <2>3 DEF ConfigTypeOK
<1> QED
  BY <1>1 DEF ConfigInit, ConfigBalance, DescriptorsBalance

LEMMA AtLineFacts ==
    ASSUME ConfigTypeOK, AtLine
    PROVE  /\ stack \in Seq(Seq(Line)) /\ stack # << >> /\ Last(stack) \in Seq(Line) /\ Last(stack) # << >>
           /\ ThisLine \in Line /\ Len(stack) \in Nat \ {0}
<1>1. stack \in Seq(Seq(Line)) /\ stack # << >> /\ Last(stack) # << >>
  BY DEF ConfigTypeOK, AtLine
<1>2. Last(stack) \in Seq(Line) /\ Len(stack) \in Nat \ {0}
  BY <1>1, StackTop
<1> QED
  BY <1>1, <1>2 DEF ThisLine

LEMMA BalanceStep ==
    ASSUME ConfigBalance, [ConfigNext]_configVars
    PROVE  ConfigBalance'
<1>0. ConfigTypeOK /\ fds = Len(stack) /\ (pc = "idle" => stack = << >>)
  BY DEF ConfigBalance, DescriptorsBalance
<1>1. ASSUME NEW file \in File, (\E flag \in BOOLEAN : load(file, flag)) \/ reload(file) PROVE ConfigBalance'
  <2>1. /\ pc' = "open" /\ m_file_name' = file /\ arg' = file /\ edited' = FALSE
        /\ UNCHANGED <<disk, stack, fds, ret>> /\ overwrite' \in BOOLEAN
    BY <1>1 DEF load, reload, CallParse
  <2>2. \A t \in {m_config_hash', old'} : DOMAIN t \subseteq Key /\ \A k \in DOMAIN t : t[k] \in Value
    <3>1. m_config_hash' \in {<< >>, m_config_hash} /\ old' \in {<< >>, m_config_hash}
      BY <1>1 DEF load, reload
    <3> QED
      BY <1>0, <3>1 DEF ConfigTypeOK
  <2>3. ConfigTypeOK'
    BY <1>0, <2>1, <2>2 DEF ConfigTypeOK
  <2> QED
    BY <1>0, <2>1, <2>3 DEF ConfigBalance, DescriptorsBalance
<1>2. CASE parse_fails
  <2>1. ConfigTypeOK'
    BY <1>0, <1>2 DEF ConfigTypeOK, parse_fails, table, call
  <2> QED
    BY <1>0, <1>2, <2>1 DEF ConfigBalance, DescriptorsBalance, parse_fails
<1>3. CASE parse_open
  <2>1. disk[arg] \in Seq(Line)
    BY <1>0, <1>3, ContentsAssumption DEF ConfigTypeOK, parse_open
  <2>2. stack \in Seq(Seq(Line)) /\ stack' = Append(stack, disk[arg])
    BY <1>0, <1>3 DEF ConfigTypeOK, parse_open
  <2>3. stack' \in Seq(Seq(Line)) /\ Len(stack') = Len(stack) + 1 /\ stack' # << >>
    BY <2>1, <2>2
  <2>4. fds' \in 0 .. MaxFds /\ fds' = fds + 1
    BY <1>0, <1>3, MaxFdsAssumption DEF ConfigTypeOK, parse_open
  <2>5. UNCHANGED <<disk, table, call, arg, ret, edited>> /\ pc' = "lines"
    BY <1>3 DEF parse_open
  <2>6. ConfigTypeOK'
    BY <1>0, <2>3, <2>4, <2>5 DEF ConfigTypeOK, table, call
  <2> QED
    BY <1>0, <2>3, <2>4, <2>5, <2>6 DEF ConfigBalance, DescriptorsBalance
<1>4. CASE parse_skip \/ parse_set \/ parse_include
  <2>1. AtLine /\ NextLine /\ UNCHANGED <<disk, old, call, fds, ret, edited>>
    BY <1>4 DEF parse_skip, parse_set, parse_include, table
  <2>2. stack' \in Seq(Seq(Line)) /\ Len(stack') = Len(stack) /\ stack' # << >>
    <3>1. stack \in Seq(Seq(Line)) /\ stack # << >> /\ Last(stack) # << >> /\ Len(stack) \in Nat \ {0}
      BY <1>0, <2>1, AtLineFacts
    <3>2. stack' = Front(stack) \o <<Tail(Last(stack))>>
      BY <2>1 DEF NextLine
    <3>3. Tail(Last(stack)) \in Seq(Line)
      BY <1>0, <2>1, AtLineFacts
    <3>4. stack' \in Seq(Seq(Line)) /\ Len(stack') = Len(stack)
      BY <3>1, <3>2, <3>3, StackNext
    <3> QED
      BY <3>1, <3>4
  <2>3. DOMAIN m_config_hash' \subseteq Key /\ \A k \in DOMAIN m_config_hash' : m_config_hash'[k] \in Value
    <3>1. DOMAIN m_config_hash \subseteq Key /\ \A k \in DOMAIN m_config_hash : m_config_hash[k] \in Value
      BY <1>0 DEF ConfigTypeOK
    <3>2. CASE m_config_hash' = m_config_hash
      BY <3>1, <3>2
    <3>3. CASE parse_set
      <4>1. ThisLine[1] \in Key /\ ThisLine[2] \in Value
        BY <1>0, <2>1, <3>3, AtLineFacts, LineParts DEF parse_set
      <4>2. m_config_hash' = Assign(ThisLine[1], ThisLine[2])
        BY <3>3 DEF parse_set
      <4> HIDE DEF ThisLine
      <4> QED
        BY <3>1, <4>1, <4>2 DEF Assign
    <3> QED
      BY <1>4, <3>2, <3>3 DEF parse_skip, parse_include, table
  <2>4. pc' \in {"open", "lines"} /\ arg' \in File
    <3>1. CASE parse_include
      <4>1. ThisLine[2] \in File
        BY <1>0, <2>1, <3>1, AtLineFacts, LineParts DEF parse_include
      <4> QED
        BY <3>1, <4>1 DEF parse_include
    <3>2. CASE parse_skip \/ parse_set
      BY <1>0, <3>2 DEF parse_skip, parse_set, AtLine, ConfigTypeOK
    <3> QED
      BY <1>4, <3>1, <3>2
  <2>5. ConfigTypeOK'
    BY <1>0, <2>1, <2>2, <2>3, <2>4 DEF ConfigTypeOK, call
  <2> QED
    BY <1>0, <2>1, <2>2, <2>4, <2>5 DEF ConfigBalance, DescriptorsBalance
<1>5. CASE parse_end \/ parse_return
  <2>1. UNCHANGED <<disk, table, call, arg, edited>> /\ ret' \in BOOLEAN /\ pc # "idle"
    BY <1>0, <1>5 DEF parse_end, parse_return, ConfigTypeOK
  <2>2. stack \in Seq(Seq(Line)) /\ fds \in 0 .. MaxFds /\ MaxFds \in Nat
    BY <1>0, MaxFdsAssumption DEF ConfigTypeOK
  <2>3. CASE CloseFile /\ stack # << >> /\ pc' = "return"
    <3>1. stack' \in Seq(Seq(Line)) /\ Len(stack') = Len(stack) - 1 /\ Len(stack) \in Nat \ {0}
      BY <2>2, <2>3, StackTop DEF CloseFile
    <3>2. fds' \in 0 .. MaxFds /\ fds' = Len(stack')
      BY <1>0, <2>2, <2>3, <3>1 DEF CloseFile
    <3>3. ConfigTypeOK'
      BY <1>0, <2>1, <2>3, <3>1, <3>2 DEF ConfigTypeOK, table, call
    <3> QED
      BY <2>3, <3>2, <3>3 DEF ConfigBalance, DescriptorsBalance
  <2>4. CASE UNCHANGED <<stack, fds>> /\ \/ pc' = "idle" /\ stack = << >>
                                         \/ pc' = "lines" /\ stack # << >>
    <3>1. ConfigTypeOK'
      BY <1>0, <2>1, <2>4 DEF ConfigTypeOK, table, call
    <3> QED
      BY <1>0, <2>4, <3>1 DEF ConfigBalance, DescriptorsBalance
  <2>5. parse_end => stack # << >>
    BY <1>0 DEF parse_end, ConfigTypeOK
  <2> QED
    BY <1>5, <2>3, <2>4, <2>5 DEF parse_end, parse_return
<1>6. ASSUME NEW file \in File, NEW content \in Contents \cup {Unreadable}, edit(file, content)
      PROVE  ConfigBalance'
  <2>1. ConfigTypeOK'
    BY <1>0, <1>6 DEF ConfigTypeOK, edit, table, call
  <2> QED
    BY <1>0, <1>6, <2>1 DEF ConfigBalance, DescriptorsBalance, edit
<1>7. CASE UNCHANGED configVars
  <2>1. ConfigTypeOK'
    BY <1>0, <1>7 DEF ConfigTypeOK, configVars, table, call
  <2> QED
    BY <1>0, <1>7, <2>1 DEF ConfigBalance, DescriptorsBalance, configVars
<1> QED
  BY <1>1, <1>2, <1>3, <1>4, <1>5, <1>6, <1>7 DEF ConfigNext, Parse

LEMMA ConfigBalances == ConfigSpec => []ConfigBalance
  BY BalanceStart, BalanceStep, PTL DEF ConfigSpec

\* Every file parse has open belongs to one of its calls in progress, however deep the
\* includes are nested and wherever one fails (conf.cpp:86-90, 108-109): a load that
\* fails leaves no descriptor behind.
THEOREM ParseClosesItsFiles == ConfigSpec => []DescriptorsBalance
<1>1. ConfigBalance => DescriptorsBalance
  BY DEF ConfigBalance
<1> QED
  BY <1>1, ConfigBalances, PTL
-----------------------------------------------------------------------------
(* What textual inclusion is: the equations of its definition, and its type. *)

Done   == [ok |-> TRUE, settings |-> << >>]
Failed == [ok |-> FALSE, settings |-> << >>]

Result == [ok : BOOLEAN, settings : Seq(Line)]

\* the result of some lines, and then of others
Then(r, c) == IF r.ok THEN [ok |-> c.ok, settings |-> r.settings \o c.settings] ELSE r

Disks == [File -> Contents \cup {Unreadable}]

\* the body of Inclusion
Text(files, Of) ==
    [at \in (0 .. MaxFds) \X Seq(Line) |->
            LET n == at[1]  lines == at[2]
            IN  IF lines = << >> THEN [ok |-> TRUE, settings |-> << >>]
                ELSE LET line == Head(lines)
                         rest == Of[<<n, Tail(lines)>>]
                     IN  IF ~ IsSetting(line) THEN rest
                         ELSE IF line[1] # Include
                         THEN [ok |-> rest.ok, settings |-> <<line>> \o rest.settings]
                         ELSE IF n = 0 \/ files[line[2]] = Unreadable
                         THEN [ok |-> FALSE, settings |-> << >>]
                         ELSE LET sub == Of[<<n - 1, files[line[2]]>>]
                              IN  IF ~ sub.ok THEN sub
                                  ELSE [ok |-> rest.ok, settings |-> sub.settings \o rest.settings]]

LEMMA ThenType ==
    ASSUME NEW r \in Result, NEW c \in Result
    PROVE  Then(r, c) \in Result
<1>1. r.settings \o c.settings \in Seq(Line)
  BY DEF Result
<1> QED
  BY <1>1 DEF Then, Result

LEMMA ThenDone ==
    ASSUME NEW c \in Result
    PROVE  Then(Done, c) = c /\ Then(c, Done) = c /\ Then(Failed, c) = Failed
<1>1. PICK o \in BOOLEAN, z \in Seq(Line) : c = [ok |-> o, settings |-> z]
  BY DEF Result
<1>2. << >> \o z = z /\ z \o << >> = z
  BY <1>1
<1>3. Then(Done, c) = c /\ Then(Failed, c) = Failed
  BY <1>1, <1>2 DEF Then, Done, Failed
<1>4. ASSUME o PROVE Then(c, Done) = c
  BY <1>1, <1>2, <1>4 DEF Then, Done
<1>5. ASSUME ~ o PROVE Then(c, Done) = c
  BY <1>1, <1>2, <1>5 DEF Then, Done
<1> QED
  BY <1>3, <1>4, <1>5

LEMMA ThenAssociative ==
    ASSUME NEW a \in Result, NEW b \in Result, NEW c \in Result
    PROVE  Then(Then(a, b), c) = Then(a, Then(b, c))
<1>1. PICK x \in Seq(Line), y \in Seq(Line), z \in Seq(Line) :
          a.settings = x /\ b.settings = y /\ c.settings = z
  BY DEF Result
<1>2. (x \o y) \o z = x \o (y \o z)
  BY <1>1
<1>3. CASE ~ a.ok
  BY <1>3 DEF Then
<1>4. CASE a.ok /\ ~ b.ok
  BY <1>4 DEF Then
<1>5. CASE a.ok /\ b.ok
  BY <1>1, <1>2, <1>5 DEF Then
<1> QED
  BY <1>3, <1>4, <1>5

Reads == [Seq(Line) -> Result]

\* one line, given what opening the files comes to and what the rest of the lines does
ReadOne(opened, rest, lines) ==
    IF lines = << >> THEN Done
    ELSE IF ~ IsSetting(Head(lines)) THEN rest
    ELSE IF Head(lines)[1] # Include THEN [ok |-> rest.ok, settings |-> <<Head(lines)>> \o rest.settings]
    ELSE Then(opened[Head(lines)[2]], rest)

LEMMA ReadOneType ==
    ASSUME NEW opened \in [File -> Result], NEW lines \in Seq(Line), NEW rest, lines # << >> => rest \in Result
    PROVE  ReadOne(opened, rest, lines) \in Result
<1>1. CASE lines = << >>
  BY <1>1 DEF ReadOne, Done, Result
<1>2. CASE lines # << >>
  <2>1. Head(lines) \in Line /\ rest \in Result
    BY <1>2
  <2>2. PICK line \in Line : line = Head(lines)
    BY <2>1
  <2>3. CASE ~ IsSetting(line)
    BY <1>2, <2>1, <2>2, <2>3 DEF ReadOne
  <2>4. CASE IsSetting(line) /\ line[1] # Include
    <3>1. <<line>> \o rest.settings \in Seq(Line) /\ rest.ok \in BOOLEAN
      BY <2>1 DEF Result
    <3> QED
      BY <1>2, <2>2, <2>4, <3>1 DEF ReadOne, Result
  <2>5. CASE IsSetting(line) /\ line[1] = Include
    <3>1. opened[line[2]] \in Result
      BY <2>5, LineParts
    <3>2. Then(opened[line[2]], rest) \in Result
      BY <2>1, <3>1, ThenType
    <3> QED
      BY <1>2, <2>2, <2>5, <3>2 DEF ReadOne
  <2> QED
    BY <2>3, <2>4, <2>5
<1> QED
  BY <1>1, <1>2

\* the lines of one file can be read one by one
LEMMA ReadsExist ==
    ASSUME NEW opened \in [File -> Result]
    PROVE  \E G \in Reads : \A lines \in Seq(Line) : G[lines] = ReadOne(opened, G[Tail(lines)], lines)
<1> DEFINE step == [g \in Reads |-> [lines \in Seq(Line) |-> ReadOne(opened, g[Tail(lines)], lines)]]
           none == [lines \in Seq(Line) |-> Done]
<1>1. none \in Reads
  BY DEF Reads, Done, Result
<1>2. step \in [Reads -> Reads]
  <2>1. ASSUME NEW g \in Reads, NEW lines \in Seq(Line)
        PROVE  ReadOne(opened, g[Tail(lines)], lines) \in Result
    <3>1. lines # << >> => Tail(lines) \in Seq(Line)
      OBVIOUS
    <3>2. lines # << >> => g[Tail(lines)] \in Result
      BY <2>1, <3>1 DEF Reads
    <3> QED
      BY <3>2, ReadOneType
  <2> QED
    BY <2>1 DEF Reads
<1>3. PICK f \in [Nat -> Reads] : f[0] = none /\ \A n \in Nat : f[n + 1] = step[f[n]]
  <2> HIDE DEF step, none
  <2>1. PICK A, a, s : A = Reads /\ a = none /\ s = step
    OBVIOUS
  <2>2. a \in A /\ s \in [A -> A]
    BY <1>1, <1>2, <2>1
  <2>3. \E f : Iterates(f, A, a, s)
    BY <2>2, Iteration
  <2> QED
    BY <2>1, <2>3 DEF Iterates
<1> DEFINE G == [lines \in Seq(Line) |-> f[Len(lines) + 1][lines]]
<1>4. G \in Reads
  <2>1. \A lines \in Seq(Line) : f[Len(lines) + 1] \in Reads
    BY <1>3
  <2> QED
    BY <2>1 DEF Reads
<1>5. ASSUME NEW lines \in Seq(Line) PROVE G[lines] = ReadOne(opened, G[Tail(lines)], lines)
  <2>1. PICK n \in Nat : n = Len(lines)
    OBVIOUS
  <2>2. f[n + 1] = step[f[n]] /\ f[n] \in Reads
    BY <1>3
  <2>3. G[lines] = ReadOne(opened, f[n][Tail(lines)], lines)
    BY <2>1, <2>2
  <2>4. CASE lines = << >>
    BY <2>3, <2>4 DEF ReadOne
  <2>5. CASE lines # << >>
    <3>1. Tail(lines) \in Seq(Line) /\ Len(Tail(lines)) + 1 = n
      BY <2>1, <2>5
    <3>2. G[Tail(lines)] = f[n][Tail(lines)]
      BY <3>1
    <3> QED
      BY <2>3, <3>2
  <2> QED
    BY <2>4, <2>5
<1> QED
  BY <1>4, <1>5

AllOpened(files, g) == [f \in File |-> IF files[f] = Unreadable THEN Failed ELSE g[files[f]]]

LEMMA LevelsExist ==
    ASSUME NEW files \in Disks
    PROVE  \E F \in [Nat -> Reads] :
              /\ \A lines \in Seq(Line) :
                    F[0][lines] = ReadOne([f \in File |-> Failed], F[0][Tail(lines)], lines)
              /\ \A n \in Nat, lines \in Seq(Line) :
                    F[n + 1][lines] = ReadOne(AllOpened(files, F[n]), F[n + 1][Tail(lines)], lines)
<1> DEFINE Good(o, G) == \A lines \in Seq(Line) : G[lines] = ReadOne(o, G[Tail(lines)], lines)
           All(o) == CHOOSE G \in Reads : Good(o, G)
           none == [f \in File |-> Failed]
           step == [g \in Reads |-> All(AllOpened(files, g))]
<1>1. ASSUME NEW o \in [File -> Result] PROVE All(o) \in Reads /\ Good(o, All(o))
  <2>1. \E G \in Reads : Good(o, G)
    BY ReadsExist
  <2> HIDE DEF Good
  <2> QED
    BY <2>1
<1>2. none \in [File -> Result]
  BY DEF Failed, Result
<1>3. ASSUME NEW g \in Reads PROVE AllOpened(files, g) \in [File -> Result]
  <2>1. \A f \in File : files[f] = Unreadable \/ g[files[f]] \in Result
    BY ContentsAssumption DEF Disks, Reads
  <2>2. Failed \in Result
    BY DEF Failed, Result
  <2> QED
    BY <2>1, <2>2 DEF AllOpened
<1> HIDE DEF All, none, Good
<1>4. step \in [Reads -> Reads]
  BY <1>1, <1>3
<1>5. PICK F \in [Nat -> Reads] : F[0] = All(none) /\ \A n \in Nat : F[n + 1] = step[F[n]]
  <2>1. All(none) \in Reads
    BY <1>1, <1>2
  <2> HIDE DEF step
  <2>2. PICK A, a, s : A = Reads /\ a = All(none) /\ s = step
    OBVIOUS
  <2>3. a \in A /\ s \in [A -> A]
    BY <1>4, <2>1, <2>2
  <2>4. \E f : Iterates(f, A, a, s)
    BY <2>3, Iteration
  <2> QED
    BY <2>2, <2>4 DEF Iterates
<1>6. Good(none, F[0])
  BY <1>1, <1>2, <1>5
<1>7. ASSUME NEW n \in Nat PROVE Good(AllOpened(files, F[n]), F[n + 1])
  <2>1. F[n] \in Reads /\ F[n + 1] = All(AllOpened(files, F[n]))
    BY <1>5
  <2> QED
    BY <1>1, <1>3, <2>1
<1> QED
  BY <1>6, <1>7 DEF Good, none

\* what opening a file with n descriptors left comes to, for a candidate Of
Opening(files, Of, n, f) ==
    IF n = 0 \/ files[f] = Unreadable THEN Failed ELSE Of[<<n - 1, files[f]>>]

\* Of satisfies the recursive definition, written with Then
Recursion(files, Of) ==
    \A n \in 0 .. MaxFds, lines \in Seq(Line) :
        Of[<<n, lines>>] = ReadOne([f \in File |-> Opening(files, Of, n, f)], Of[<<n, Tail(lines)>>], lines)

\* the body of the definition on lines is ReadOne
LEMMA TextIsReadOne ==
    ASSUME NEW files \in Disks, NEW Of, NEW n \in 0 .. MaxFds, NEW lines \in Seq(Line)
    PROVE  Text(files, Of)[<<n, lines>>] =
           ReadOne([f \in File |-> Opening(files, Of, n, f)], Of[<<n, Tail(lines)>>], lines)
<1>1. CASE lines = << >>
  BY <1>1 DEF Text, ReadOne, Done
<1>2. CASE lines # << >>
  <2>1. PICK line \in Line : line = Head(lines)
    BY <1>2
  <2>2. PICK rest : rest = Of[<<n, Tail(lines)>>]
    OBVIOUS
  <2>3. CASE ~ IsSetting(line)
    BY <1>2, <2>1, <2>2, <2>3 DEF Text, ReadOne
  <2>4. CASE IsSetting(line) /\ line[1] # Include
    BY <1>2, <2>1, <2>2, <2>4 DEF Text, ReadOne
  <2>5. CASE IsSetting(line) /\ line[1] = Include
    <3>1. PICK f \in File : f = line[2]
      BY <2>5, LineParts
    <3>2. ReadOne([g \in File |-> Opening(files, Of, n, g)], rest, lines) = Then(Opening(files, Of, n, f), rest)
      BY <1>2, <2>1, <2>5, <3>1 DEF ReadOne
    <3>3. CASE n = 0 \/ files[f] = Unreadable
      BY <1>2, <2>1, <2>2, <2>5, <3>1, <3>2, <3>3 DEF Text, Then, Opening, Failed
    <3>4. CASE n # 0 /\ files[f] # Unreadable
      <4>1. PICK sub : sub = Of[<<n - 1, files[f]>>]
        OBVIOUS
      <4>2. Opening(files, Of, n, f) = sub
        BY <3>4, <4>1 DEF Opening
      <4>3. Text(files, Of)[<<n, lines>>] =
            IF ~ sub.ok THEN sub ELSE [ok |-> rest.ok, settings |-> sub.settings \o rest.settings]
        BY <1>2, <2>1, <2>2, <2>5, <3>1, <3>4, <4>1 DEF Text
      <4> QED
        BY <2>2, <3>2, <4>2, <4>3 DEF Then
    <3> QED
      BY <3>3, <3>4
  <2> QED
    BY <2>3, <2>4, <2>5
<1> QED
  BY <1>1, <1>2

LEMMA InclusionExists ==
    ASSUME NEW files \in Disks
    PROVE  \E Of : Of = Text(files, Of)
<1>1. PICK F \in [Nat -> Reads] :
          /\ \A lines \in Seq(Line) :
                F[0][lines] = ReadOne([f \in File |-> Failed], F[0][Tail(lines)], lines)
          /\ \A n \in Nat, lines \in Seq(Line) :
                F[n + 1][lines] = ReadOne(AllOpened(files, F[n]), F[n + 1][Tail(lines)], lines)
  BY LevelsExist
<1> DEFINE W == [at \in (0 .. MaxFds) \X Seq(Line) |-> F[at[1]][at[2]]]
<1>2. ASSUME NEW n \in 0 .. MaxFds, NEW lines \in Seq(Line)
      PROVE  W[<<n, lines>>] = Text(files, W)[<<n, lines>>]
  <2>1. PICK opened : opened = [f \in File |-> Opening(files, W, n, f)]
    OBVIOUS
  <2>2. F[n][lines] = ReadOne(opened, F[n][Tail(lines)], lines)
    <3>1. CASE n = 0
      <4>1. opened = [f \in File |-> Failed]
        BY <2>1, <3>1 DEF Opening
      <4> QED
        BY <1>1, <3>1, <4>1
    <3>2. CASE n # 0
      <4>1. n - 1 \in Nat /\ (n - 1) + 1 = n /\ n - 1 \in 0 .. MaxFds
        BY <3>2, MaxFdsAssumption
      <4>2. opened = AllOpened(files, F[n - 1])
        <5>1. ASSUME NEW f \in File, files[f] # Unreadable PROVE W[<<n - 1, files[f]>>] = F[n - 1][files[f]]
          <6>1. files[f] \in Seq(Line)
            BY <5>1, ContentsAssumption DEF Disks
          <6> QED
            BY <4>1, <6>1
        <5> HIDE DEF W
        <5> QED
          BY <2>1, <3>2, <5>1 DEF Opening, AllOpened
      <4> QED
        BY <1>1, <4>1, <4>2
    <3> QED
      BY <3>1, <3>2
  <2>3. CASE lines = << >>
    <3>1. W[<<n, lines>>] = Done
      BY <2>2, <2>3 DEF ReadOne
    <3>2. Text(files, W)[<<n, lines>>] = Done
      <4> HIDE DEF W
      <4> QED
        BY <2>3, TextIsReadOne DEF ReadOne
    <3> QED
      BY <3>1, <3>2
  <2>4. CASE lines # << >>
    <3>1. Tail(lines) \in Seq(Line)
      BY <2>4
    <3>2. W[<<n, Tail(lines)>>] = F[n][Tail(lines)] /\ W[<<n, lines>>] = F[n][lines]
      BY <3>1
    <3> HIDE DEF W
    <3>3. Text(files, W)[<<n, lines>>] = ReadOne(opened, W[<<n, Tail(lines)>>], lines)
      BY <2>1, TextIsReadOne
    <3> QED
      BY <2>2, <3>2, <3>3
  <2> QED
    BY <2>3, <2>4
<1>3. W = Text(files, W)
  <2>1. PICK V : V = W
    OBVIOUS
  <2>2. PICK T : T = Text(files, W)
    OBVIOUS
  <2>3. V = [at \in (0 .. MaxFds) \X Seq(Line) |-> V[at]]
    BY <2>1
  <2>4. T = [at \in (0 .. MaxFds) \X Seq(Line) |-> T[at]]
    <3> HIDE DEF W
    <3> QED
      BY <2>2 DEF Text
  <2>5. \A n \in 0 .. MaxFds, lines \in Seq(Line) : V[<<n, lines>>] = T[<<n, lines>>]
    <3> HIDE DEF W
    <3> QED
      BY <1>2, <2>1, <2>2
  <2>6. V = T
    <3>1. ASSUME NEW at \in (0 .. MaxFds) \X Seq(Line) PROVE V[at] = T[at]
      <4>1. PICK n \in 0 .. MaxFds, lines \in Seq(Line) : at = <<n, lines>>
        BY <3>1
      <4> HIDE DEF W
      <4> QED
        BY <2>5, <4>1
    <3>2. PICK D : D = (0 .. MaxFds) \X Seq(Line)
      OBVIOUS
    <3> HIDE DEF W
    <3> QED
      BY <2>3, <2>4, <3>1, <3>2
  <2> QED
    BY <2>1, <2>2, <2>6
<1> HIDE DEF W
<1> QED
  BY <1>3

LEMMA InclusionRecursion ==
    ASSUME NEW files \in Disks
    PROVE  Recursion(files, Inclusion(files))
<1>1. \E Of : Of = Text(files, Of)
  BY InclusionExists
<1>2. Inclusion(files) = CHOOSE Of : Of = Text(files, Of)
  BY DEF Inclusion, Text
<1> DEFINE I == Inclusion(files)
<1> HIDE DEF I
<1>3. I = Text(files, I)
  BY <1>1, <1>2 DEF I
<1>4. \A n \in 0 .. MaxFds, lines \in Seq(Line) : Text(files, I)[<<n, lines>>] =
          ReadOne([f \in File |-> Opening(files, I, n, f)], I[<<n, Tail(lines)>>], lines)
  BY TextIsReadOne
<1>5. Recursion(files, I)
  BY <1>3, <1>4 DEF Recursion
<1> QED
  BY <1>5 DEF I

\* the first level, and on it the shortest lines, whose result is not one, do not exist
LEMMA RecursionType ==
    ASSUME NEW files \in Disks, NEW Of, Recursion(files, Of)
    PROVE  \A n \in 0 .. MaxFds, lines \in Seq(Line) : Of[<<n, lines>>] \in Result
<1> DEFINE Wrong(n) == \E lines \in Seq(Line) : Of[<<n, lines>>] \notin Result
           Bad == {n \in 0 .. MaxFds : Wrong(n)}
<1>1. SUFFICES ASSUME Bad # {} PROVE FALSE
  OBVIOUS
<1>2. PICK n \in Bad : \A k \in Bad : n <= k
  <2>1. Bad \subseteq Nat
    OBVIOUS
  <2> HIDE DEF Bad
  <2> QED
    BY <1>1, <2>1, LeastElement
<1>3. n \in 0 .. MaxFds /\ Wrong(n)
  BY <1>2
<1> DEFINE Lengths == {k \in Nat : \E lines \in Seq(Line) : Len(lines) = k /\ Of[<<n, lines>>] \notin Result}
<1>4. Lengths # {}
  <2>1. PICK lines \in Seq(Line) : Of[<<n, lines>>] \notin Result
    BY <1>3
  <2>2. Len(lines) \in Nat
    OBVIOUS
  <2> QED
    BY <2>1, <2>2
<1>5. PICK k \in Lengths : \A j \in Lengths : k <= j
  <2>1. Lengths \subseteq Nat
    OBVIOUS
  <2> HIDE DEF Lengths
  <2> QED
    BY <1>4, <2>1, LeastElement
<1>6. PICK lines \in Seq(Line) : Len(lines) = k /\ Of[<<n, lines>>] \notin Result
  BY <1>5
<1>7. lines # << >> => Of[<<n, Tail(lines)>>] \in Result
  <2>1. SUFFICES ASSUME lines # << >>, Of[<<n, Tail(lines)>>] \notin Result PROVE FALSE
    OBVIOUS
  <2>2. Tail(lines) \in Seq(Line) /\ Len(Tail(lines)) = k - 1 /\ k - 1 \in Nat
    BY <1>6, <2>1
  <2>3. k - 1 \in Lengths /\ k \in Nat
    BY <1>5, <2>1, <2>2
  <2> HIDE DEF Lengths
  <2> QED
    BY <1>5, <2>3
<1>8. [f \in File |-> Opening(files, Of, n, f)] \in [File -> Result]
  <2>1. ASSUME NEW f \in File PROVE Opening(files, Of, n, f) \in Result
    <3>1. CASE n = 0 \/ files[f] = Unreadable
      BY <3>1 DEF Opening, Failed, Result
    <3>2. CASE n # 0 /\ files[f] # Unreadable
      <4>1. files[f] \in Seq(Line)
        BY <3>2, ContentsAssumption DEF Disks
      <4>2. n - 1 \in 0 .. MaxFds /\ n \in Nat
        BY <1>3, <3>2, MaxFdsAssumption
      <4>3. n - 1 \notin Bad
        <5> HIDE DEF Bad
        <5> QED
          BY <1>2, <4>2
      <4>4. Of[<<n - 1, files[f]>>] \in Result
        BY <4>1, <4>2, <4>3
      <4> QED
        BY <3>2, <4>4 DEF Opening
    <3> QED
      BY <3>1, <3>2
  <2> QED
    BY <2>1
<1>9. Of[<<n, lines>>] = ReadOne([f \in File |-> Opening(files, Of, n, f)], Of[<<n, Tail(lines)>>], lines)
  BY <1>3 DEF Recursion
<1>10. PICK opened, rest : /\ opened \in [File -> Result]
                           /\ opened = [f \in File |-> Opening(files, Of, n, f)]
                           /\ rest = Of[<<n, Tail(lines)>>]
  BY <1>8
<1>11. ReadOne(opened, rest, lines) \in Result
  BY <1>7, <1>10, ReadOneType
<1> QED
  BY <1>6, <1>9, <1>10, <1>11

\* the lines read with n descriptors left, and a file opened with n left
Lines(n, lines) == Inclusion(disk)[<<n, lines>>]
OpenFile(n, f) == IF n = 0 \/ disk[f] = Unreadable THEN Failed ELSE Lines(n - 1, disk[f])

LEMMA InclusionFacts ==
    ASSUME disk \in Disks, NEW n \in 0 .. MaxFds
    PROVE  /\ \A lines \in Seq(Line) : Lines(n, lines) \in Result
           /\ \A f \in File : OpenFile(n, f) \in Result
           /\ Lines(n, << >>) = Done
           /\ \A lines \in Seq(Line) : lines # << >> =>
                 LET line == Head(lines)  rest == Lines(n, Tail(lines))
                 IN  Lines(n, lines) = IF ~ IsSetting(line) THEN rest
                                       ELSE IF line[1] # Include
                                       THEN Then([ok |-> TRUE, settings |-> <<line>>], rest)
                                       ELSE Then(OpenFile(n, line[2]), rest)
<1>1. PICK I : I = Inclusion(disk)
  OBVIOUS
<1>2. Recursion(disk, I)
  BY <1>1, InclusionRecursion
<1>3. \A m \in 0 .. MaxFds, lines \in Seq(Line) : I[<<m, lines>>] \in Result
  BY <1>2, RecursionType
<1>4. \A lines \in Seq(Line) : Lines(n, lines) \in Result /\ Lines(n, lines) = I[<<n, lines>>]
  BY <1>1, <1>3 DEF Lines
<1>5. ASSUME NEW f \in File PROVE OpenFile(n, f) \in Result /\ OpenFile(n, f) = Opening(disk, I, n, f)
  <2>1. CASE n = 0 \/ disk[f] = Unreadable
    BY <2>1 DEF OpenFile, Opening, Failed, Result
  <2>2. CASE n # 0 /\ disk[f] # Unreadable
    <3>1. disk[f] \in Seq(Line) /\ n - 1 \in 0 .. MaxFds
      BY <2>2, ContentsAssumption, MaxFdsAssumption DEF Disks
    <3> QED
      BY <1>1, <1>3, <2>2, <3>1 DEF OpenFile, Opening, Lines
  <2> QED
    BY <2>1, <2>2
<1>6. ASSUME NEW lines \in Seq(Line)
      PROVE  I[<<n, lines>>] = ReadOne([f \in File |-> Opening(disk, I, n, f)], I[<<n, Tail(lines)>>], lines)
  BY <1>2 DEF Recursion
<1>7. Lines(n, << >>) = Done
  <2>1. << >> \in Seq(Line)
    OBVIOUS
  <2>2. I[<<n, << >>>>] = Done
    BY <1>6, <2>1 DEF ReadOne
  <2> QED
    BY <1>4, <2>1, <2>2
<1>8. ASSUME NEW lines \in Seq(Line), lines # << >>
      PROVE  LET line == Head(lines)  rest == Lines(n, Tail(lines))
             IN  Lines(n, lines) = IF ~ IsSetting(line) THEN rest
                                   ELSE IF line[1] # Include
                                   THEN Then([ok |-> TRUE, settings |-> <<line>>], rest)
                                   ELSE Then(OpenFile(n, line[2]), rest)
  <2>1. PICK line \in Line : line = Head(lines)
    BY <1>8
  <2>2. Tail(lines) \in Seq(Line)
    BY <1>8
  <2>3. PICK rest : rest = Lines(n, Tail(lines))
    OBVIOUS
  <2>4. PICK opened : opened = [f \in File |-> Opening(disk, I, n, f)]
    OBVIOUS
  <2>5. Lines(n, lines) = ReadOne(opened, rest, lines)
    BY <1>4, <1>6, <2>2, <2>3, <2>4
  <2>6. CASE ~ IsSetting(line)
    BY <1>8, <2>1, <2>3, <2>5, <2>6 DEF ReadOne
  <2>7. CASE IsSetting(line) /\ line[1] # Include
    BY <1>8, <2>1, <2>3, <2>5, <2>7 DEF ReadOne, Then
  <2>8. CASE IsSetting(line) /\ line[1] = Include
    <3>1. line[2] \in File
      BY <2>8, LineParts
    <3>2. opened[line[2]] = OpenFile(n, line[2])
      BY <1>5, <2>4, <3>1
    <3>3. Lines(n, lines) = Then(opened[line[2]], rest)
      BY <1>8, <2>1, <2>5, <2>8 DEF ReadOne
    <3> QED
      BY <2>1, <2>3, <2>8, <3>2, <3>3
  <2> QED
    BY <2>6, <2>7, <2>8
<1> QED
  BY <1>4, <1>5, <1>7, <1>8

-----------------------------------------------------------------------------
(* A call in progress: what it has set so far, and what it has still to do. *)

\* the calls of parse that wait for an include, innermost last: what is left of each
\* file, and then of the ones around it
Unwound(s, C) ==
    /\ C \in [0 .. Len(s) -> Result] /\ C[0] = Done
    /\ \A k \in 1 .. Len(s) : C[k] = Then(Lines(MaxFds - k, s[k]), C[k - 1])

Left(C) ==
    CASE pc = "open" -> Then(OpenFile(MaxFds - Len(stack), arg), C[Len(stack)])
      [] pc = "lines" -> C[Len(stack)]
      [] pc = "return" -> IF ret THEN C[Len(stack)] ELSE Failed
      [] pc = "idle" -> [ok |-> ret, settings |-> << >>]

\* the positions where a key is set
Positions(seen, k) == {i \in DOMAIN seen : seen[i][1] = k}

\* the table has for k what the settings seen so far give it
KeyMatches(seen, k) ==
    \/ /\ Positions(seen, k) = {}
       /\ k \in DOMAIN m_config_hash <=> k \in DOMAIN old
       /\ k \in DOMAIN old => m_config_hash[k] = old[k]
    \/ /\ k \in DOMAIN m_config_hash
       /\ \E i \in Positions(seen, k) :
             /\ \A j \in Positions(seen, k) : IF overwrite THEN j <= i ELSE i <= j
             /\ m_config_hash[k] = seen[i][2]

Promise(seen, C) ==
    /\ Unwound(stack, C)
    /\ Included(m_file_name) = Then([ok |-> TRUE, settings |-> seen], Left(C))
    /\ \A k \in Key : KeyMatches(seen, k)

\* Unless a file was edited since the call began, the inclusion it has to read is the
\* settings in the table and then what is left; without overwrite a call starts with an
\* empty table.
ConfigInv ==
    /\ ConfigBalance
    /\ ~ overwrite => old = << >>
    /\ ~ edited => \E seen \in Seq(Line) : \E C : Promise(seen, C)

LEMMA SeenType ==
    ASSUME NEW seen \in Seq(Line)
    PROVE  [ok |-> TRUE, settings |-> seen] \in Result
  BY DEF Result

\* when the call returns, nothing is left and the table is what the inclusion gives
LEMMA MatchesNow == ConfigInv => MatchesInclusion
<1>1. SUFFICES ASSUME ConfigInv, pc = "idle", ~ edited
               PROVE  /\ ret = Included(m_file_name).ok
                      /\ \A k \in Key : get(k, Unreadable) = ValueSet(Included(m_file_name).settings, k)
  BY DEF MatchesInclusion
<1>2. PICK seen \in Seq(Line) : \E C : Promise(seen, C)
  BY <1>1 DEF ConfigInv
<1>3. PICK C : Promise(seen, C)
  BY <1>2
<1>4. Included(m_file_name) = Then([ok |-> TRUE, settings |-> seen], [ok |-> ret, settings |-> << >>])
  BY <1>1, <1>3 DEF Promise, Left
<1>5. seen \o << >> = seen
  OBVIOUS
<1>6. Included(m_file_name) = [ok |-> ret, settings |-> seen]
  BY <1>4, <1>5 DEF Then
<1>7. ASSUME NEW k \in Key PROVE get(k, Unreadable) = ValueSet(seen, k)
  <2>1. KeyMatches(seen, k)
    BY <1>3 DEF Promise
  <2>2. CASE Positions(seen, k) = {} /\ (k \in DOMAIN m_config_hash <=> k \in DOMAIN old)
             /\ (k \in DOMAIN old => m_config_hash[k] = old[k])
    BY <2>2 DEF Positions, get, IsSet, ValueSet
  <2>3. ASSUME k \in DOMAIN m_config_hash,
               NEW i \in Positions(seen, k),
               \A j \in Positions(seen, k) : IF overwrite THEN j <= i ELSE i <= j,
               m_config_hash[k] = seen[i][2]
        PROVE  get(k, Unreadable) = ValueSet(seen, k)
    <3> DEFINE At == {j \in DOMAIN seen : seen[j][1] = k}
               Best(x) == \A j \in At : IF overwrite THEN j <= x ELSE x <= j
    <3>1. At = Positions(seen, k) /\ At \subseteq Nat
      BY DEF Positions
    <3>2. i \in At /\ Best(i)
      BY <2>3, <3>1
    <3>3. \A x \in At : Best(x) => x = i
      BY <3>1, <3>2
    <3>4. ValueSet(seen, k) = seen[CHOOSE x \in At : Best(x)][2]
      BY <3>2 DEF ValueSet
    <3> HIDE DEF At, Best
    <3>5. (CHOOSE x \in At : Best(x)) = i
      BY <3>2, <3>3
    <3> QED
      BY <2>3, <3>4, <3>5 DEF get, IsSet
  <2> QED
    BY <2>1, <2>2, <2>3 DEF KeyMatches
<1> QED
  BY <1>6, <1>7

LEMMA AppendLast ==
    ASSUME NEW U, NEW s \in Seq(U), NEW e \in U
    PROVE  Append(s, e) \in Seq(U) /\ <<e>> \in Seq(U) /\ s \o <<e>> = Append(s, e)
  OBVIOUS

LEMMA UnwoundNext ==
    ASSUME UNCHANGED disk, NEW s, s = stack', NEW C, Unwound(s, C)
    PROVE  Unwound(stack, C)'
<1>1. \A n, lines : Lines(n, lines)' = Lines(n, lines)
  BY DEF Lines
<1> QED
  BY <1>1 DEF Unwound

\* what the invariant says of the stack
LEMMA Levels ==
    ASSUME ConfigBalance, NEW C, Unwound(stack, C)
    PROVE  /\ disk \in Disks /\ Len(stack) \in 0 .. MaxFds /\ MaxFds - Len(stack) \in 0 .. MaxFds
           /\ stack \in Seq(Seq(Line)) /\ C[Len(stack)] \in Result
           /\ stack # << >> => Len(stack) - 1 \in 0 .. MaxFds /\ C[Len(stack) - 1] \in Result
<1>1. disk \in Disks /\ stack \in Seq(Seq(Line)) /\ Len(stack) = fds /\ fds \in 0 .. MaxFds
  BY DEF ConfigBalance, DescriptorsBalance, ConfigTypeOK, Disks
<1>2. C \in [0 .. Len(stack) -> Result]
  BY DEF Unwound
<1>3. stack # << >> => Len(stack) # 0
  BY <1>1
<1>4. PICK n \in 0 .. MaxFds : n = Len(stack)
  BY <1>1
<1> QED
  BY <1>1, <1>2, <1>3, <1>4, MaxFdsAssumption

\* the file on top without its first line, or with no lines at all
LEMMA UnwoundLine ==
    ASSUME ConfigBalance, NEW C, Unwound(stack, C), AtLine, NextLine, UNCHANGED disk,
           NEW n, n = Len(stack), NEW c, c = C[n - 1], NEW rest, rest = Lines(MaxFds - n, Tail(Last(stack)))
    PROVE  /\ n \in 1 .. MaxFds /\ MaxFds - n \in 0 .. MaxFds /\ n = Len(stack') /\ disk \in Disks
           /\ Last(stack) \in Seq(Line) /\ Last(stack) # << >> /\ Tail(Last(stack)) \in Seq(Line)
           /\ c \in Result /\ rest \in Result
           /\ C[n] = Then(Lines(MaxFds - n, Last(stack)), c)
           /\ \E D : Unwound(stack, D)' /\ D[n] = Then(rest, c)
<1>1. ConfigTypeOK /\ disk \in Disks
  BY DEF ConfigBalance, DescriptorsBalance, ConfigTypeOK, Disks
<1>2. /\ stack \in Seq(Seq(Line)) /\ stack # << >> /\ Last(stack) \in Seq(Line) /\ Last(stack) # << >>
      /\ n \in Nat \ {0}
  BY <1>1, AtLineFacts
<1>3. PICK top \in Seq(Line) : top = Tail(Last(stack))
  <2>1. \A u \in Seq(Line) : u # << >> => Tail(u) \in Seq(Line)
    OBVIOUS
  <2> QED
    BY <1>2, <2>1
<1>4. n \in 1 .. MaxFds /\ MaxFds - n \in 0 .. MaxFds /\ c \in Result
  BY <1>2, Levels
<1>5. rest \in Result
  BY <1>1, <1>3, <1>4, InclusionFacts
<1>6. Then(rest, c) \in Result
  BY <1>4, <1>5, ThenType
<1>7. C \in [0 .. n -> Result] /\ C[0] = Done
      /\ \A k \in 1 .. n : C[k] = Then(Lines(MaxFds - k, stack[k]), C[k - 1])
  BY DEF Unwound
<1>8. C[n] = Then(Lines(MaxFds - n, Last(stack)), c)
  <2>1. Last(stack) = stack[n]
    BY <1>2, StackTop
  <2> QED
    BY <1>4, <1>7, <2>1
<1>9. PICK s : s = stack'
  OBVIOUS
<1>10. Len(s) = n /\ s[n] = top /\ \A i \in 1 .. n - 1 : s[i] = stack[i]
  <2>1. s = Front(stack) \o <<top>>
    BY <1>3, <1>9 DEF NextLine
  <2> QED
    BY <1>2, <2>1, StackNext
<1>11. PICK D : D = [C EXCEPT ![n] = Then(rest, c)]
  OBVIOUS
<1>12. PICK r : r = Then(rest, c)
  OBVIOUS
<1>13. D \in [0 .. n -> Result] /\ D[n] = r /\ \A k \in 0 .. n - 1 : D[k] = C[k]
  BY <1>4, <1>6, <1>7, <1>11, <1>12
<1>14. Unwound(s, D)
  <2>1. D[0] = Done
    BY <1>4, <1>7, <1>13
  <2>2. ASSUME NEW k \in 1 .. n PROVE D[k] = Then(Lines(MaxFds - k, s[k]), D[k - 1])
    <3>1. k - 1 \in 0 .. n - 1 /\ D[k - 1] = C[k - 1]
      BY <1>4, <1>13
    <3>2. CASE k = n
      BY <1>3, <1>10, <1>12, <1>13, <3>1, <3>2
    <3>3. CASE k # n
      <4>1. k \in 1 .. n - 1 /\ k \in 0 .. n - 1
        BY <1>4, <3>3
      <4> QED
        BY <1>7, <1>10, <1>13, <3>1, <4>1
    <3> QED
      BY <3>2, <3>3
  <2> QED
    BY <1>10, <1>13, <2>1, <2>2 DEF Unwound
<1>15. Unwound(stack, D)'
  BY <1>9, <1>14, UnwoundNext
<1>16. Len(stack') = n
  BY <1>9, <1>10
<1> QED
  BY <1>1, <1>2, <1>3, <1>4, <1>5, <1>8, <1>11, <1>12, <1>13, <1>15, <1>16

LEMMA UnwoundPop ==
    ASSUME ConfigBalance, NEW C, Unwound(stack, C), stack # << >>, CloseFile, UNCHANGED disk,
           NEW n, n = Len(stack)
    PROVE  /\ n \in 1 .. MaxFds /\ n - 1 = Len(stack')
           /\ Unwound(stack, [k \in 0 .. n - 1 |-> C[k]])'
           /\ [k \in 0 .. n - 1 |-> C[k]][n - 1] = C[n - 1]
<1>1. stack \in Seq(Seq(Line)) /\ Len(stack) \in 0 .. MaxFds
  BY Levels
<1>2. PICK s : s = stack'
  OBVIOUS
<1>3. s = Front(stack)
  BY <1>2 DEF CloseFile
<1>4. n \in Nat \ {0} /\ Len(s) = n - 1 /\ \A i \in 1 .. n - 1 : s[i] = stack[i]
  BY <1>1, <1>3, StackTop
<1>5. C \in [0 .. n -> Result] /\ C[0] = Done
      /\ \A k \in 1 .. n : C[k] = Then(Lines(MaxFds - k, stack[k]), C[k - 1])
  BY DEF Unwound
<1>6. PICK D : D = [k \in 0 .. n - 1 |-> C[k]]
  OBVIOUS
<1>7. D \in [0 .. n - 1 -> Result] /\ \A k \in 0 .. n - 1 : D[k] = C[k]
  BY <1>4, <1>5, <1>6
<1>8. Unwound(s, D)
  <2>1. D[0] = Done
    BY <1>4, <1>5, <1>7
  <2>2. ASSUME NEW k \in 1 .. n - 1 PROVE D[k] = Then(Lines(MaxFds - k, s[k]), D[k - 1])
    <3>1. k - 1 \in 0 .. n - 1 /\ k \in 0 .. n - 1 /\ k \in 1 .. n
      BY <1>4
    <3> QED
      BY <1>4, <1>5, <1>7, <3>1
  <2> QED
    BY <1>4, <1>7, <2>1, <2>2 DEF Unwound
<1>9. Unwound(stack, D)'
  BY <1>2, <1>8, UnwoundNext
<1>10. n - 1 \in 0 .. n - 1 /\ n \in 1 .. MaxFds
  BY <1>1, <1>4
<1> QED
  BY <1>2, <1>4, <1>6, <1>7, <1>9, <1>10

LEMMA UnwoundPush ==
    ASSUME ConfigBalance, NEW C, Unwound(stack, C), NEW lines \in Seq(Line),
           stack' = Append(stack, lines), UNCHANGED disk,
           NEW n, n = Len(stack), n < MaxFds,
           NEW r, r = Then(Lines(MaxFds - (n + 1), lines), C[n])
    PROVE  \E D : n + 1 = Len(stack') /\ Unwound(stack, D)' /\ D[n + 1] = r
<1>1. stack \in Seq(Seq(Line)) /\ n \in 0 .. MaxFds /\ disk \in Disks /\ C[n] \in Result
  BY Levels
<1>2. PICK s : s = stack'
  OBVIOUS
<1>3. Len(s) = n + 1 /\ s[n + 1] = lines /\ \A i \in 1 .. n : s[i] = stack[i]
  BY <1>1, <1>2
<1>4. C \in [0 .. n -> Result] /\ C[0] = Done
      /\ \A k \in 1 .. n : C[k] = Then(Lines(MaxFds - k, stack[k]), C[k - 1])
  BY DEF Unwound
<1>5. PICK D : D = [k \in 0 .. n + 1 |-> IF k = n + 1 THEN r ELSE C[k]]
  OBVIOUS
<1>6. r \in Result
  <2>1. MaxFds - (n + 1) \in 0 .. MaxFds
    BY <1>1, MaxFdsAssumption
  <2>2. Lines(MaxFds - (n + 1), lines) \in Result
    BY <1>1, <2>1, InclusionFacts
  <2> QED
    BY <1>1, <2>2, ThenType
<1>7. D \in [0 .. n + 1 -> Result] /\ D[n + 1] = r /\ \A k \in 0 .. n : D[k] = C[k]
  <2>1. D = [k \in 0 .. n + 1 |-> IF k = n + 1 THEN r ELSE C[k]]
    BY <1>5
  <2>2. \A k \in 0 .. n + 1 : k = n + 1 \/ k \in 0 .. n
    BY <1>1
  <2>3. n + 1 \in 0 .. n + 1 /\ \A k \in 0 .. n : k \in 0 .. n + 1 /\ k # n + 1
    BY <1>1
  <2>4. \A k \in 0 .. n : C[k] \in Result
    BY <1>4
  <2>5. D[n + 1] = r /\ \A k \in 0 .. n : D[k] = C[k]
    BY <2>1, <2>3
  <2>6. \A k \in 0 .. n + 1 : D[k] \in Result
    BY <1>6, <2>2, <2>4, <2>5
  <2> QED
    BY <2>1, <2>5, <2>6
<1>8. Unwound(s, D)
  <2>1. D[0] = Done
    BY <1>1, <1>4, <1>7
  <2>2. ASSUME NEW k \in 1 .. n + 1 PROVE D[k] = Then(Lines(MaxFds - k, s[k]), D[k - 1])
    <3>1. k - 1 \in 0 .. n
      BY <1>1
    <3>2. CASE k = n + 1
      <4>1. D[k - 1] = C[n]
        BY <1>1, <1>7, <3>1, <3>2
      <4> QED
        BY <1>3, <1>7, <3>2, <4>1
    <3>3. CASE k # n + 1
      <4>1. k \in 0 .. n /\ k \in 1 .. n
        BY <1>1, <3>3
      <4> QED
        BY <1>3, <1>4, <1>7, <3>1, <4>1
    <3> QED
      BY <3>2, <3>3
  <2> QED
    BY <1>3, <1>7, <2>1, <2>2 DEF Unwound
<1>9. Unwound(stack, D)'
  BY <1>2, <1>8, UnwoundNext
<1> QED
  BY <1>2, <1>3, <1>7, <1>9

\* how the next step finds the promise kept: an unchanged file system, and what is left
LEMMA PromiseNext ==
    ASSUME UNCHANGED <<disk, m_file_name>>, NEW D, NEW seen,
           Unwound(stack, D)', \A k \in Key : KeyMatches(seen, k)',
           NEW left, Left(D)' = left,
           Included(m_file_name) = Then([ok |-> TRUE, settings |-> seen], left)
    PROVE  Promise(seen, D)'
<1>1. Included(m_file_name)' = Included(m_file_name)
  BY DEF Included
<1>2. Then([ok |-> TRUE, settings |-> seen], Left(D))' = Then([ok |-> TRUE, settings |-> seen], left)
  BY DEF Then
<1> QED
  BY <1>1, <1>2 DEF Promise

LEMMA LeftNext ==
    ASSUME NEW D
    PROVE  /\ pc' = "open" /\ UNCHANGED disk =>
                Left(D)' = Then(OpenFile(MaxFds - Len(stack'), arg'), D[Len(stack')])
           /\ pc' = "lines" => Left(D)' = D[Len(stack')]
           /\ pc' = "return" /\ ret' => Left(D)' = D[Len(stack')]
           /\ pc' = "return" /\ ~ ret' => Left(D)' = Failed
           /\ pc' = "idle" => Left(D)' = [ok |-> ret', settings |-> << >>]
<1>1. ASSUME pc' = "open", UNCHANGED disk
      PROVE  Left(D)' = Then(OpenFile(MaxFds - Len(stack'), arg'), D[Len(stack')])
  BY <1>1 DEF Left, Then, OpenFile, Lines
<1>2. pc' = "lines" => Left(D)' = D[Len(stack')]
  BY DEF Left
<1>3. pc' = "return" /\ ret' => Left(D)' = D[Len(stack')]
  BY DEF Left
<1>4. pc' = "return" /\ ~ ret' => Left(D)' = Failed
  BY DEF Left, Failed
<1>5. pc' = "idle" => Left(D)' = [ok |-> ret', settings |-> << >>]
  BY DEF Left
<1> QED
  BY <1>1, <1>2, <1>3, <1>4, <1>5

\* a call begins with everything left
LEMMA CallKeeps ==
    ASSUME ConfigBalance, NEW file \in File, CallParse(file), m_config_hash' = old'
    PROVE  \E seen \in Seq(Line) : \E C : Promise(seen, C)'
<1>1. /\ pc' = "open" /\ m_file_name' = file /\ arg' = file /\ UNCHANGED <<disk, stack>> /\ stack = << >>
      /\ disk \in Disks
  BY DEF CallParse, ConfigBalance, DescriptorsBalance, ConfigTypeOK, Disks
<1> DEFINE C == [k \in 0 .. 0 |-> Done]
<1>2. C \in [0 .. 0 -> Result] /\ C[0] = Done
  BY DEF Done, Result
<1>3. Len(stack') = 0 /\ stack' = << >>
  BY <1>1
<1> HIDE DEF C
<1>4. Unwound(stack, C)'
  BY <1>2, <1>3 DEF Unwound
<1>5. MaxFds \in 0 .. MaxFds /\ MaxFds - 0 = MaxFds
  BY MaxFdsAssumption
<1>6. PICK o \in Result : o = OpenFile(MaxFds, file)
  BY <1>1, <1>5, InclusionFacts
<1>7. Left(C)' = o
  <2>1. Left(C)' = Then(OpenFile(MaxFds - Len(stack'), arg'), C[Len(stack')])
    BY <1>1, LeftNext
  <2>2. Left(C)' = Then(o, Done)
    BY <1>1, <1>2, <1>3, <1>5, <1>6, <2>1
  <2> QED
    BY <1>6, <2>2, ThenDone
<1>8. Included(m_file_name)' = o
  <2>1. PICK line : line = <<Include, file>>
    OBVIOUS
  <2>2. IsSetting(line) /\ line[1] = Include /\ line[2] = file
    BY <2>1, TokensAssumption DEF IsSetting
  <2>3. line \in Line
    <3>1. line \in Seq(Key \cup Value \cup File \cup {Include, Hash})
      BY <2>1
    <3> QED
      BY <2>2, <3>1 DEF Line
  <2>4. <<line>> \in Seq(Line) /\ <<line>> # << >> /\ Head(<<line>>) = line /\ Tail(<<line>>) = << >>
    BY <2>3
  <2>5. Lines(MaxFds, <<line>>) = Then(OpenFile(MaxFds, file), Lines(MaxFds, << >>))
    BY <1>1, <1>5, <2>2, <2>4, InclusionFacts
  <2>6. Lines(MaxFds, << >>) = Done
    BY <1>1, <1>5, InclusionFacts
  <2>7. Included(m_file_name)' = Lines(MaxFds, <<line>>)
    BY <1>1, <2>1 DEF Included, Lines
  <2> QED
    BY <1>6, <2>5, <2>6, <2>7, ThenDone
<1>9. Then([ok |-> TRUE, settings |-> << >>], o) = o
  BY <1>6, ThenDone DEF Done
<1>10. Then([ok |-> TRUE, settings |-> << >>], Left(C))' = o
  BY <1>7, <1>9 DEF Then
<1>11. ASSUME NEW k \in Key PROVE KeyMatches(<< >>, k)'
  <2>1. Positions(<< >>, k) = {}
    BY DEF Positions
  <2> QED
    BY <2>1 DEF KeyMatches
<1>12. Promise(<< >>, C)'
  BY <1>4, <1>8, <1>10, <1>11 DEF Promise
<1>13. << >> \in Seq(Line)
  OBVIOUS
<1> QED
  BY <1>12, <1>13

\* the steps that leave the table alone
LEMMA QuietKeeps ==
    ASSUME ConfigBalance, NEW seen \in Seq(Line), NEW C, Promise(seen, C),
           UNCHANGED <<disk, m_config_hash, old, m_file_name, overwrite>>,
           parse_fails \/ parse_open \/ parse_end \/ parse_return
    PROVE  \E D : Promise(seen, D)'
<1>0. /\ Unwound(stack, C) /\ Included(m_file_name) = Then([ok |-> TRUE, settings |-> seen], Left(C))
      /\ UNCHANGED <<disk, m_file_name>>
  BY DEF Promise
<1>1. \A k \in Key : KeyMatches(seen, k)'
  <2>1. \A k \in Key : KeyMatches(seen, k)
    BY DEF Promise
  <2> QED
    BY <2>1 DEF KeyMatches
<1>2. SUFFICES \E D : Unwound(stack, D)' /\ Left(D)' = Left(C)
  <2>1. PICK D : Unwound(stack, D)' /\ Left(D)' = Left(C)
    BY <1>2
  <2>2. PICK left : left = Left(C)
    OBVIOUS
  <2>3. Promise(seen, D)'
    BY <1>0, <1>1, <2>1, <2>2, PromiseNext
  <2> QED
    BY <2>3
<1>3. PICK n : n = Len(stack)
  OBVIOUS
<1>4. /\ disk \in Disks /\ n \in 0 .. MaxFds /\ MaxFds - n \in 0 .. MaxFds /\ stack \in Seq(Seq(Line))
      /\ C[n] \in Result
  BY <1>0, <1>3, Levels
<1>5. fds = n /\ arg \in File /\ ret \in BOOLEAN
  BY <1>3 DEF ConfigBalance, DescriptorsBalance, ConfigTypeOK
<1>6. UNCHANGED stack => Unwound(stack, C)'
  <2>1. ASSUME UNCHANGED stack PROVE Unwound(stack, C)'
    <3>1. PICK s : s = stack' /\ s = stack
      BY <2>1
    <3> QED
      BY <1>0, <3>1, UnwoundNext
  <2> QED
    BY <2>1
<1>7. CASE parse_fails
  <2>1. pc = "open" /\ UNCHANGED stack /\ pc' = "return" /\ ~ ret'
    BY <1>7 DEF parse_fails
  <2>2. OpenFile(MaxFds - n, arg) = Failed
    BY <1>4, <1>5, <1>7, MaxFdsAssumption DEF parse_fails, OpenFile
  <2>3. Left(C) = Then(Failed, C[n])
    BY <1>3, <2>1, <2>2 DEF Left
  <2>4. Left(C) = Failed
    BY <1>4, <2>3, ThenDone
  <2>5. Left(C)' = Failed
    BY <2>1, LeftNext
  <2> QED
    BY <1>6, <2>1, <2>4, <2>5
<1>8. CASE parse_open
  <2>1. pc = "open" /\ n < MaxFds /\ pc' = "lines" /\ disk[arg] # Unreadable
    BY <1>5, <1>8 DEF parse_open
  <2>2. PICK lines \in Seq(Line) : lines = disk[arg]
    BY <1>4, <1>5, <2>1, ContentsAssumption DEF Disks
  <2>3. stack' = Append(stack, lines)
    BY <1>8, <2>2 DEF parse_open
  <2>4. OpenFile(MaxFds - n, arg) = Lines(MaxFds - (n + 1), lines)
    <3>1. MaxFds - n # 0 /\ (MaxFds - n) - 1 = MaxFds - (n + 1)
      BY <1>4, <2>1, MaxFdsAssumption
    <3> QED
      BY <2>1, <2>2, <3>1 DEF OpenFile
  <2>5. PICK r : r = Then(Lines(MaxFds - (n + 1), lines), C[n])
    OBVIOUS
  <2>6. PICK D : n + 1 = Len(stack') /\ Unwound(stack, D)' /\ D[n + 1] = r
    <3>1. UNCHANGED disk /\ n < MaxFds /\ Unwound(stack, C)
      BY <1>0, <2>1
    <3> QED
      BY <1>3, <2>3, <2>5, <3>1, UnwoundPush
  <2>7. Left(C) = r
    BY <1>3, <2>1, <2>4, <2>5 DEF Left
  <2>8. Left(D)' = D[n + 1]
    BY <2>1, <2>6, LeftNext
  <2> QED
    BY <2>6, <2>7, <2>8
<1>9. CASE CloseFile /\ stack # << >> /\ pc' = "return"
           /\ \/ pc = "lines" /\ Last(stack) = << >> /\ ret'
              \/ pc = "return" /\ ~ ret /\ ~ ret'
  <2>1. PICK D : D = [k \in 0 .. n - 1 |-> C[k]]
    OBVIOUS
  <2>2. n \in 1 .. MaxFds /\ n - 1 = Len(stack') /\ Unwound(stack, D)' /\ D[n - 1] = C[n - 1]
    BY <1>0, <1>3, <1>9, <2>1, UnwoundPop
  <2>3. CASE pc = "return" /\ ~ ret /\ ~ ret'
    <3>1. Left(C) = Failed
      BY <2>3 DEF Left
    <3>2. Left(D)' = Failed
      BY <1>9, <2>3, LeftNext
    <3> QED
      BY <2>2, <3>1, <3>2
  <2>4. CASE pc = "lines" /\ Last(stack) = << >> /\ ret'
    <3>1. Left(C) = C[n]
      BY <1>3, <2>4 DEF Left
    <3>2. stack[n] = << >>
      BY <1>3, <1>4, <1>9, <2>4, StackTop
    <3>3. C[n] = Then(Lines(MaxFds - n, << >>), C[n - 1])
      BY <1>0, <1>3, <2>2, <3>2 DEF Unwound
    <3>4. Lines(MaxFds - n, << >>) = Done
      BY <1>4, InclusionFacts
    <3>5. C[n - 1] \in Result
      BY <1>0, <1>3, <1>9, Levels
    <3>6. C[n] = C[n - 1]
      BY <3>3, <3>4, <3>5, ThenDone
    <3>7. Left(D)' = D[n - 1]
      BY <1>9, <2>2, <2>4, LeftNext
    <3> QED
      BY <2>2, <3>1, <3>6, <3>7
  <2> QED
    BY <1>9, <2>3, <2>4
<1>10. CASE parse_return /\ stack = << >> /\ pc' = "idle" /\ UNCHANGED stack
  <2>1. pc = "return" /\ UNCHANGED ret
    BY <1>10 DEF parse_return
  <2>2. C[n] = Done
    BY <1>0, <1>3, <1>10 DEF Unwound
  <2>3. Left(C) = [ok |-> ret, settings |-> << >>]
    <3>1. CASE ret
      BY <1>3, <2>1, <2>2, <3>1, <1>5 DEF Left, Done
    <3>2. CASE ~ ret
      BY <2>1, <3>2, <1>5 DEF Left, Failed
    <3> QED
      BY <3>1, <3>2
  <2>4. Left(C)' = [ok |-> ret', settings |-> << >>]
    BY <1>10, LeftNext
  <2> QED
    BY <1>6, <1>10, <2>1, <2>3, <2>4
<1>11. CASE parse_return /\ stack # << >> /\ ret /\ pc' = "lines" /\ UNCHANGED stack
  <2>1. pc = "return"
    BY <1>11 DEF parse_return
  <2>2. Left(C) = C[n]
    BY <1>3, <1>11, <2>1 DEF Left
  <2>3. Left(C)' = C[n]
    BY <1>3, <1>11, LeftNext
  <2> QED
    BY <1>6, <1>11, <2>2, <2>3
<1>12. parse_end => stack # << >>
  BY DEF parse_end, ConfigBalance, DescriptorsBalance, ConfigTypeOK
<1> QED
  BY <1>7, <1>8, <1>9, <1>10, <1>11, <1>12 DEF parse_end, parse_return

LEMMA SeenThenLine ==
    ASSUME NEW seen \in Seq(Line), NEW line \in Line, NEW left \in Result
    PROVE  Then([ok |-> TRUE, settings |-> seen], Then([ok |-> TRUE, settings |-> <<line>>], left))
           = Then([ok |-> TRUE, settings |-> Append(seen, line)], left)
<1>1. PICK a \in Result, b \in Result :
          a = [ok |-> TRUE, settings |-> seen] /\ b = [ok |-> TRUE, settings |-> <<line>>]
  BY AppendLast, SeenType
<1>2. Then(a, b) = [ok |-> TRUE, settings |-> Append(seen, line)]
  <2>1. seen \o <<line>> = Append(seen, line)
    BY AppendLast
  <2> QED
    BY <1>1, <2>1 DEF Then
<1>3. Then(Then(a, b), left) = Then(a, Then(b, left))
  BY ThenAssociative
<1> QED
  BY <1>1, <1>2, <1>3

\* a setting changes what its key has, and nothing else
LEMMA SettingMatches ==
    ASSUME ConfigBalance, ~ overwrite => old = << >>, NEW seen \in Seq(Line),
           \A k \in Key : KeyMatches(seen, k),
           NEW line \in Line, line[1] \in Key,
           m_config_hash' = Assign(line[1], line[2]), UNCHANGED <<old, overwrite>>
    PROVE  \A k \in Key : KeyMatches(Append(seen, line), k)'
<1>1. SUFFICES ASSUME NEW k \in Key PROVE KeyMatches(Append(seen, line), k)'
  OBVIOUS
<1>2. KeyMatches(seen, k)
  OBVIOUS
<1>3. PICK z \in Seq(Line) : z = Append(seen, line)
  BY AppendLast
<1>4. PICK n \in Nat : n = Len(seen)
  OBVIOUS
<1>5. DOMAIN z = 1 .. n + 1 /\ DOMAIN seen = 1 .. n /\ z[n + 1] = line /\ \A i \in 1 .. n : z[i] = seen[i]
  BY <1>3, <1>4
<1>6. Positions(z, k) = IF line[1] = k THEN Positions(seen, k) \cup {n + 1} ELSE Positions(seen, k)
  <2>1. \A i : i \in 1 .. n + 1 <=> i \in 1 .. n \/ i = n + 1
    BY <1>4
  <2>2. \A i : i \in Positions(z, k) <=> (i \in Positions(seen, k) \/ (i = n + 1 /\ line[1] = k))
    BY <1>5, <2>1 DEF Positions
  <2> QED
    BY <2>2
<1>7. \A i \in Positions(seen, k) : i \in Nat /\ i <= n /\ z[i] = seen[i]
  BY <1>4, <1>5 DEF Positions
<1>8. CASE line[1] # k
  <2>1. Positions(z, k) = Positions(seen, k)
    BY <1>6, <1>8
  <2>2. /\ k \in DOMAIN m_config_hash' <=> k \in DOMAIN m_config_hash
        /\ k \in DOMAIN m_config_hash => m_config_hash'[k] = m_config_hash[k]
    BY <1>8 DEF Assign
  <2>3. KeyMatches(z, k)'
    BY <1>2, <1>7, <2>1, <2>2 DEF KeyMatches
  <2> QED
    BY <1>3, <2>3
<1>9. CASE line[1] = k
  <2>1. Positions(z, k) = Positions(seen, k) \cup {n + 1}
    BY <1>6, <1>9
  <2>2. CASE IsSet(k) /\ ~ overwrite
    <3>1. m_config_hash' = m_config_hash /\ k \in DOMAIN m_config_hash /\ k \notin DOMAIN old
      BY <1>9, <2>2 DEF Assign, IsSet
    <3>2. PICK i \in Positions(seen, k) : /\ \A j \in Positions(seen, k) : i <= j
                                          /\ m_config_hash[k] = seen[i][2]
      BY <1>2, <2>2, <3>1 DEF KeyMatches
    <3>3. i \in Positions(z, k) /\ m_config_hash'[k] = z[i][2] /\ \A j \in Positions(z, k) : i <= j
      BY <1>4, <1>7, <2>1, <3>1, <3>2
    <3>4. ~ overwrite'
      BY <2>2
    <3>5. KeyMatches(z, k)'
      BY <3>1, <3>3, <3>4 DEF KeyMatches
    <3> QED
      BY <1>3, <3>5
  <2>3. CASE ~ (IsSet(k) /\ ~ overwrite)
    <3>1. k \in DOMAIN m_config_hash' /\ m_config_hash'[k] = line[2]
      BY <1>9, <2>3 DEF Assign
    <3>2. ~ overwrite => Positions(seen, k) = {}
      BY <1>2, <2>3 DEF KeyMatches, IsSet
    <3>3. n + 1 \in Positions(z, k) /\ z[n + 1] = line
      BY <1>5, <2>1
    <3>4. \A j \in Positions(z, k) : IF overwrite THEN j <= n + 1 ELSE n + 1 <= j
      BY <1>4, <1>7, <2>1, <3>2
    <3>5. KeyMatches(z, k)'
      BY <3>1, <3>3, <3>4 DEF KeyMatches
    <3> QED
      BY <1>3, <3>5
  <2> QED
    BY <2>2, <2>3
<1> QED
  BY <1>8, <1>9

\* the steps that handle a line
LEMMA LineKeeps ==
    ASSUME ConfigBalance, ~ overwrite => old = << >>, NEW seen \in Seq(Line), NEW C, Promise(seen, C),
           parse_skip \/ parse_set \/ parse_include
    PROVE  \E more \in Seq(Line) : \E D : Promise(more, D)'
<1>0. /\ Unwound(stack, C) /\ Included(m_file_name) = Then([ok |-> TRUE, settings |-> seen], Left(C))
      /\ \A k \in Key : KeyMatches(seen, k)
  BY DEF Promise
<1>1. AtLine /\ NextLine /\ UNCHANGED <<disk, m_file_name, old, overwrite>>
  BY DEF parse_skip, parse_set, parse_include, table, call
<1>2. PICK n, c, rest : n = Len(stack) /\ c = C[n - 1] /\ rest = Lines(MaxFds - n, Tail(Last(stack)))
  OBVIOUS
<1>3. /\ n \in 1 .. MaxFds /\ MaxFds - n \in 0 .. MaxFds /\ n = Len(stack') /\ disk \in Disks
      /\ Last(stack) \in Seq(Line) /\ Last(stack) # << >> /\ Tail(Last(stack)) \in Seq(Line)
      /\ c \in Result /\ rest \in Result
      /\ C[n] = Then(Lines(MaxFds - n, Last(stack)), c)
      /\ \E D : Unwound(stack, D)' /\ D[n] = Then(rest, c)
  <2>1. UNCHANGED disk /\ AtLine /\ NextLine /\ Unwound(stack, C)
    BY <1>0, <1>1
  <2> QED
    BY <1>2, <2>1, UnwoundLine
<1>4. PICK D : Unwound(stack, D)' /\ D[n] = Then(rest, c)
  BY <1>3
<1>5. PICK line \in Line : line = ThisLine
  BY <1>3, <1>4 DEF ThisLine
<1>6. Lines(MaxFds - n, Last(stack)) =
      IF ~ IsSetting(line) THEN rest
      ELSE IF line[1] # Include THEN Then([ok |-> TRUE, settings |-> <<line>>], rest)
      ELSE Then(OpenFile(MaxFds - n, line[2]), rest)
  BY <1>2, <1>3, <1>4, <1>5, InclusionFacts DEF ThisLine
<1>7. Left(C) = C[n]
  BY <1>1, <1>2 DEF AtLine, Left
<1>8. CASE parse_skip
  <2>1. ~ IsSetting(line) /\ pc' = "lines" /\ UNCHANGED m_config_hash
    BY <1>5, <1>8 DEF parse_skip, AtLine, table
  <2>2. Left(C) = Then(rest, c)
    BY <1>3, <1>4, <1>6, <1>7, <2>1
  <2>3. Left(D)' = Then(rest, c)
    BY <1>3, <1>4, <2>1, LeftNext
  <2>4. \A k \in Key : KeyMatches(seen, k)'
    BY <1>0, <1>1, <2>1 DEF KeyMatches
  <2>5. Promise(seen, D)'
    BY <1>0, <1>1, <1>3, <1>4, <2>2, <2>3, <2>4, PromiseNext
  <2> QED
    BY <2>5
<1>9. CASE parse_set
  <2>1. IsSetting(line) /\ line[1] # Include /\ pc' = "lines" /\ m_config_hash' = Assign(line[1], line[2])
    BY <1>5, <1>9 DEF parse_set, AtLine
  <2>2. line[1] \in Key
    BY <2>1, LineParts
  <2>3. PICK a \in Result : a = [ok |-> TRUE, settings |-> <<line>>]
    BY AppendLast, SeenType
  <2>4. Left(C) = Then(a, Then(rest, c))
    <3>1. Left(C) = Then(Then(a, rest), c)
      BY <1>3, <1>4, <1>6, <1>7, <2>1, <2>3
    <3> QED
      BY <1>3, <1>4, <3>1, ThenAssociative
  <2>5. PICK left \in Result : left = Then(rest, c)
    BY <1>3, <1>4, ThenType
  <2>6. Included(m_file_name) = Then([ok |-> TRUE, settings |-> Append(seen, line)], left)
    BY <1>0, <2>3, <2>4, <2>5, SeenThenLine
  <2>7. Left(D)' = left
    BY <1>3, <1>4, <2>1, <2>5, LeftNext
  <2>8. \A k \in Key : KeyMatches(Append(seen, line), k)'
    BY <1>0, <1>1, <2>1, <2>2, SettingMatches
  <2>9. PICK more \in Seq(Line) : more = Append(seen, line)
    BY AppendLast
  <2>10. Promise(more, D)'
    BY <1>1, <1>3, <1>4, <2>6, <2>7, <2>8, <2>9, PromiseNext
  <2> QED
    BY <2>10
<1>10. CASE parse_include
  <2>1. IsSetting(line) /\ line[1] = Include /\ pc' = "open" /\ arg' = line[2] /\ UNCHANGED m_config_hash
    BY <1>5, <1>10 DEF parse_include, table
  <2>2. line[2] \in File
    BY <2>1, LineParts
  <2>3. PICK o \in Result : o = OpenFile(MaxFds - n, line[2])
    BY <1>3, <1>4, <2>2, InclusionFacts
  <2>4. Left(C) = Then(o, Then(rest, c))
    <3>1. Left(C) = Then(Then(o, rest), c)
      BY <1>3, <1>4, <1>6, <1>7, <2>1, <2>3
    <3> QED
      BY <1>3, <1>4, <3>1, ThenAssociative
  <2>5. Left(D)' = Then(o, Then(rest, c))
    <3>1. Left(D)' = Then(OpenFile(MaxFds - Len(stack'), arg'), D[Len(stack')])
      BY <1>1, <2>1, LeftNext
    <3> QED
      BY <1>3, <1>4, <2>1, <2>3, <3>1
  <2>6. \A k \in Key : KeyMatches(seen, k)'
    BY <1>0, <1>1, <2>1 DEF KeyMatches
  <2>7. Promise(seen, D)'
    BY <1>0, <1>1, <1>3, <1>4, <2>4, <2>5, <2>6, PromiseNext
  <2> QED
    BY <2>7
<1> QED
  BY <1>8, <1>9, <1>10

LEMMA ConfigInvStep ==
    ASSUME ConfigInv, [ConfigNext]_configVars
    PROVE  ConfigInv'
<1>1. ConfigBalance /\ ConfigBalance' /\ (~ overwrite => old = << >>)
  BY BalanceStep DEF ConfigInv
<1>2. (~ overwrite => old = << >>)'
  BY <1>1 DEF ConfigNext, Parse, configVars, load, reload, parse_fails, parse_open, parse_skip, parse_set,
              parse_include, parse_end, parse_return, edit, table, call
<1>3. SUFFICES ASSUME ~ edited' PROVE \E seen \in Seq(Line) : \E C : Promise(seen, C)'
  BY <1>1, <1>2 DEF ConfigInv
<1>4. ASSUME NEW file \in File, (\E flag \in BOOLEAN : load(file, flag)) \/ reload(file)
      PROVE  \E seen \in Seq(Line) : \E C : Promise(seen, C)'
  <2>1. CallParse(file) /\ m_config_hash' = old'
    BY <1>4 DEF load, reload
  <2> QED
    BY <1>1, <2>1, CallKeeps
<1>5. ASSUME Parse PROVE \E seen \in Seq(Line) : \E C : Promise(seen, C)'
  <2>1. ~ edited
    BY <1>3, <1>5 DEF Parse, parse_fails, parse_open, parse_skip, parse_set, parse_include, parse_end, parse_return
  <2>2. PICK seen \in Seq(Line) : \E C : Promise(seen, C)
    BY <2>1 DEF ConfigInv
  <2>3. PICK C : Promise(seen, C)
    BY <2>2
  <2>4. CASE parse_fails \/ parse_open \/ parse_end \/ parse_return
    <3>1. UNCHANGED <<disk, m_config_hash, old, m_file_name, overwrite>>
      BY <2>4 DEF parse_fails, parse_open, parse_end, parse_return, table, call
    <3> QED
      BY <1>1, <2>3, <2>4, <3>1, QuietKeeps
  <2>5. CASE parse_skip \/ parse_set \/ parse_include
    BY <1>1, <2>3, <2>5, LineKeeps
  <2> QED
    BY <1>5, <2>4, <2>5 DEF Parse
<1>6. CASE UNCHANGED configVars
  <2>1. ~ edited
    BY <1>3, <1>6 DEF configVars
  <2>2. PICK seen \in Seq(Line) : \E C : Promise(seen, C)
    BY <2>1 DEF ConfigInv
  <2>3. PICK C : Promise(seen, C)
    BY <2>2
  <2>4. UNCHANGED <<disk, m_config_hash, old, m_file_name, overwrite, pc, arg, stack, ret>>
    BY <1>6 DEF configVars, table, call
  <2>5. Promise(seen, C)'
    BY <2>3, <2>4 DEF Promise, Unwound, Included, Left, KeyMatches, Then, OpenFile, Lines
  <2> QED
    BY <2>5
<1>7. \A file \in File, content \in Contents \cup {Unreadable} : ~ edit(file, content)
  BY <1>3 DEF edit
<1> QED
  BY <1>4, <1>5, <1>6, <1>7 DEF ConfigNext

\* The inclusion a call has to read is at every moment the settings it has handled and then
\* what the open files still hold, and the table has for each key what those settings give it.
THEOREM ConfigInvariance == ConfigSpec => []ConfigInv
<1>1. ConfigInit => ConfigInv
  BY BalanceStart DEF ConfigInit, ConfigInv
<1> QED
  BY <1>1, ConfigInvStep, PTL DEF ConfigSpec

\* Whatever files include each other and however often, the table a load or reload leaves is
\* the one that textual inclusion gives, with the first or the last setting of a key winning
\* as the header promises (conf.h:30-36), also when an include fails half way (conf.cpp:86-90).
THEOREM LoadIsInclusion == ConfigSpec => []MatchesInclusion
  BY MatchesNow, ConfigInvariance, PTL

=============================================================================
