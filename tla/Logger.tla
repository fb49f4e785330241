------------------------------- MODULE Logger -------------------------------
(***************************************************************************)
(* LibSys::Logger (log_base.h, log_base.cpp): threads append messages to a *)
(* file, which is renamed and opened anew when it is full, with a second   *)
(* file (.wf) for the grave messages.                                      *)
(*                                                                         *)
(* The kernel's part is os: a table of descriptors, names of files, and    *)
(* the files themselves.  open takes the lowest free descriptor; a file    *)
(* that has lost its name keeps its number.  A message is one byte long    *)
(* and known by its number; the clock counts seconds, which is what the    *)
(* names of old files tell apart.  Between reading _fd and the system call *)
(* that uses it another thread may run.                                    *)
(*                                                                         *)
(* The setters run before the first message; set_file_name and rotate_log  *)
(* take no lock, so set_file_name runs while no other call is in progress  *)
(* and rotate_log only where messages do not rotate by themselves.         *)
(***************************************************************************)
EXTENDS Integers, Sequences, FiniteSets, FiniteSetsExt, Functions

CONSTANTS Thread,
          Grave,            \* whether a message is also for the wf file
          Sizes, Indices,   \* arguments of set_max_file_size, ..._index
          TopSize,          \* stands for 0x40000000, the largest size
          TopIndex,         \* stands for 0x400, the largest number of files
          DefaultIndex,     \* stands for 0x0F, taken for negative numbers
          MaxCalls, MaxTime, MaxFd, MaxFile, MaxFails,   \* bounds
          Nobody

ASSUME NobodyAssumption  == Nobody \notin Thread
ASSUME ArgumentsAssumption == Grave \subseteq BOOLEAN /\ Sizes \subseteq Int /\ Indices \subseteq Int
ASSUME LimitsAssumption  == TopSize \in Nat /\ TopIndex \in Nat /\ DefaultIndex \in 0 .. TopIndex
ASSUME BoundsAssumption  == /\ MaxCalls \in Nat /\ MaxFails \in Nat /\ MaxFile \in Nat
                            /\ MaxTime \in Nat \ {0} /\ MaxFd \in Nat /\ MaxFd >= 2

Fds    == 0 .. MaxFd
Files  == 1 .. MaxFile
Closed == 0
Tty    == -1
NoFile == -2
Name   == ({"log", "wf"} \X (0 .. MaxTime)) \cup {<<"moved", 0>>}
Live(kind) == <<kind, 0>>   \* the file itself; <<kind, t>> is an old one

VARIABLES
    os,         \* fds: descriptor -> file, Tty or Closed; names: name -> file;
                \* kind, msgs: of each file
    now,        \* the clock, read when the log is renamed
    fails,      \* opens that have failed
    _fd, _wf_fd, _name, _check, _maxFileSize, _maxFileIndex, _flag, _wf_flag,
    _fileList, _wf_file_list,
    _fileSizeMutex,
    th,         \* of each thread, the call it is in
    calls,      \* calls made so far; a message has the number of its call
    history     \* written: the messages that got into a log file; astray: where
                \* others were meant to go, and whether _flag was set; flagged:
                \* _flag was set once; dead: _fd was set to -1 once; rotations,
                \* rushed: how often the log was found and renamed, and whether
                \* this happened twice in a second

settings == <<_name, _check, _maxFileSize, _maxFileIndex, _flag, _wf_flag>>
lists    == <<_fileList, _wf_file_list>>
vars == <<os, now, fails, _fd, _wf_fd, settings, lists, _fileSizeMutex, th, calls, history>>

Idle == [pc |-> "idle", op |-> "none", msg |-> 0, grave |-> FALSE,
         cur |-> -1, new |-> -1]

Init ==
    /\ os = [fds   |-> [d \in Fds |-> IF d <= 2 THEN Tty ELSE Closed],
             names |-> << >>,
             kind  |-> [f \in Files |-> "none"],
             msgs  |-> [f \in Files |-> {}]]
    /\ now = 1 /\ fails = 0
    /\ _fd = 2 /\ _wf_fd = 2
    /\ _name = FALSE /\ _check = FALSE /\ _flag = FALSE /\ _wf_flag = FALSE
    /\ _maxFileSize = TopSize /\ _maxFileIndex = 0
    /\ _fileList = << >> /\ _wf_file_list = << >>
    /\ _fileSizeMutex = Nobody
    /\ th = [t \in Thread |-> Idle] /\ calls = 0
    /\ history = [written |-> {}, astray |-> {}, flagged |-> FALSE, dead |-> FALSE,
                  rotations |-> 0, rushed |-> FALSE]

-----------------------------------------------------------------------------
(* The system calls.                                                       *)

FileNamed(s, n) == IF n \in DOMAIN s.names THEN s.names[n] ELSE NoFile

FileAt(s, d) == IF d \in Fds THEN s.fds[d] ELSE Closed

FreeFds(s)   == {d \in Fds : s.fds[d] = Closed}
FreeFiles(s) == {f \in Files : s.kind[f] = "none"}

Close(s, d) == IF d \in Fds THEN [s EXCEPT !.fds[d] = Closed] ELSE s

\* dup2 onto each of targets; it fails when from or a target is no descriptor
Dup2(s, from, targets) ==
    [s EXCEPT !.fds = [d \in Fds |->
        IF from \in Fds /\ d \in targets THEN s.fds[from] ELSE s.fds[d]]]

\* open with O_CREAT
Open(s, kind) ==
    LET f == IF Live(kind) \in DOMAIN s.names THEN s.names[Live(kind)]
             ELSE CHOOSE g \in FreeFiles(s) : TRUE
    IN  [fds   |-> [s.fds EXCEPT ![Min(FreeFds(s))] = f],
         names |-> [n \in DOMAIN s.names \cup {Live(kind)} |->
                       IF n = Live(kind) THEN f ELSE s.names[n]],
         kind  |-> [s.kind EXCEPT ![f] = kind],
         msgs  |-> s.msgs]

\* the descriptor open returns
NewFd(s, ok) == IF ok THEN Min(FreeFds(s)) ELSE -1

\* mutant: the file is truncated
AfterOpen_Truncates(s, kind, ok) ==
    IF ok THEN [Open(s, kind) EXCEPT !.msgs[Open(s, kind).names[Live(kind)]] = {}] ELSE s

AfterOpen(s, kind, ok) == IF ok THEN Open(s, kind) ELSE s

\* a descriptor is left, and room for the file
CanOpen(s, kind) ==
    FreeFds(s) # {} /\ (Live(kind) \in DOMAIN s.names \/ FreeFiles(s) # {})

\* open may fail (a limit, a directory that is gone)
OpenFails(ok) ==
    /\ ok \/ fails < MaxFails
    /\ fails' = IF ok THEN fails ELSE fails + 1

Unlink(s, n) == [s EXCEPT !.names = Restrict(@, DOMAIN @ \ {n})]

\* nothing happens when there is no file of the old name
Rename(s, from, to) ==
    IF from \notin DOMAIN s.names THEN s
    ELSE [s EXCEPT !.names = [n \in (DOMAIN @ \ {from}) \cup {to} |->
                                 IF n = to THEN s.names[from] ELSE s.names[n]]]

-----------------------------------------------------------------------------
(* The setters.                                                            *)

set_max_file_size(size) ==
    /\ ~ _name
    /\ _maxFileSize' = IF size < 0 \/ size > TopSize THEN TopSize ELSE size
    /\ UNCHANGED <<os, now, fails, _fd, _wf_fd, _name, _check, _maxFileIndex, _flag,
                   _wf_flag, lists, _fileSizeMutex, th, calls, history>>

set_max_file_index(index) ==
    /\ ~ _name
    /\ _maxFileIndex' = IF index < 0 THEN DefaultIndex
                        ELSE IF index > TopIndex THEN TopIndex ELSE index
    /\ UNCHANGED <<os, now, fails, _fd, _wf_fd, _name, _check, _maxFileSize, _flag,
                   _wf_flag, lists, _fileSizeMutex, th, calls, history>>

set_check(v) ==
    /\ ~ _name
    /\ _check' = v
    /\ UNCHANGED <<os, now, fails, _fd, _wf_fd, _name, _maxFileSize, _maxFileIndex, _flag,
                   _wf_flag, lists, _fileSizeMutex, th, calls, history>>

NoCall == \A t \in Thread : th[t].pc = "idle"

\* the descriptors after "dup2 onto _fd, 1 and 2, then close"
Redirected(s, d) ==
    IF d \in Fds /\ d # _fd THEN Close(Dup2(s, d, {_fd, 1, 2}), d)
                            ELSE Dup2(s, d, {_fd, 1, 2})

set_file_name(flag, open_wf, ok, wf_ok) ==
    LET need_closing == _name
        d  == NewFd(os, ok)
        s1 == AfterOpen(os, "log", ok)
        s2 == IF ~ flag THEN Redirected(s1, d)
              ELSE IF need_closing THEN Close(s1, _fd) ELSE s1
        s3 == IF _wf_flag /\ need_closing THEN Close(s2, _wf_fd) ELSE s2
    IN  /\ NoCall
        /\ calls < MaxCalls /\ calls' = calls + 1
        /\ _name' = TRUE
        /\ ok => CanOpen(os, "log")
        /\ open_wf /\ wf_ok => CanOpen(s3, "wf")
        /\ OpenFails(ok /\ (open_wf => wf_ok))
        /\ _flag' = flag /\ _wf_flag' = open_wf
        /\ _fd' = IF flag THEN d ELSE _fd
        /\ _wf_fd' = IF open_wf THEN NewFd(s3, wf_ok) ELSE _wf_fd
        /\ os' = IF open_wf THEN AfterOpen(s3, "wf", wf_ok) ELSE s3
        /\ history' = [history EXCEPT !.flagged = @ \/ flag, !.dead = @ \/ (flag /\ ~ ok)]
        /\ UNCHANGED <<now, _check, _maxFileSize, _maxFileIndex, lists, _fileSizeMutex, th>>

-----------------------------------------------------------------------------
(* log_message up to the writes, with check_file.                          *)

\* the thread goes on at pc; what it had in hand is forgotten
Goto(t, pc) ==
    th' = [th EXCEPT ![t] = IF pc = "idle" THEN Idle
                            ELSE [@ EXCEPT !.pc = pc, !.cur = -1, !.new = -1]]

log_message(t, grave) ==
    /\ th[t].pc = "idle" /\ calls < MaxCalls
    /\ th' = [th EXCEPT ![t] = [Idle EXCEPT !.msg = calls + 1, !.grave = grave,
                 !.pc = IF _check /\ _name THEN "stat" ELSE "write",
                 !.op = "check"]]
    /\ calls' = calls + 1
    /\ UNCHANGED <<os, now, fails, _fd, _wf_fd, settings, lists, _fileSizeMutex, history>>

\* fstat of a dead _fd leaves an undefined file to compare with
check_file(t) ==
    /\ th[t].pc = "stat"
    /\ \/ FileNamed(os, Live("log")) # FileAt(os, _fd) /\ Goto(t, "open")
       \/ /\ FileNamed(os, Live("log")) # NoFile
          /\ FileAt(os, _fd) \in {Closed, FileNamed(os, Live("log"))}
          /\ Goto(t, "write")
    /\ UNCHANGED <<os, now, fails, _fd, _wf_fd, settings, lists, _fileSizeMutex, calls, history>>

\* mutant: _fd is closed and set anew in both modes
open_log_NoDup(t, ok) ==
    /\ th[t].pc = "open"
    /\ ok => CanOpen(os, "log")
    /\ OpenFails(ok)
    /\ os' = AfterOpen(os, "log", ok)
    /\ th' = [th EXCEPT ![t].new = NewFd(os, ok), ![t].pc = "close"]
    /\ UNCHANGED <<now, _fd, _wf_fd, settings, lists, _fileSizeMutex, calls, history>>

\* check_file and rotate_log open the file and put it in _fd's place
open_log(t, ok) ==
    /\ th[t].pc = "open"
    /\ ok => CanOpen(os, "log")
    /\ OpenFails(ok)
    /\ os' = AfterOpen(os, "log", ok)
    /\ th' = [th EXCEPT ![t].new = NewFd(os, ok), ![t].pc = IF _flag THEN "close" ELSE "dup"]
    /\ UNCHANGED <<now, _fd, _wf_fd, settings, lists, _fileSizeMutex, calls, history>>

AfterSwap(t) ==
    IF th[t].op = "check" THEN "write" ELSE IF _wf_flag THEN "wf_open" ELSE "unlock"

dup_log(t) ==
    /\ th[t].pc = "dup"
    /\ os' = Close(Dup2(os, th[t].new, {_fd, 1, 2}), th[t].new)
    /\ Goto(t, AfterSwap(t))
    /\ UNCHANGED <<now, fails, _fd, _wf_fd, settings, lists, _fileSizeMutex, calls, history>>

close_log(t) ==
    /\ th[t].pc = "close"
    /\ os' = IF _fd # 2 THEN Close(os, _fd) ELSE os
    /\ th' = [th EXCEPT ![t].pc = "store"]
    /\ UNCHANGED <<now, fails, _fd, _wf_fd, settings, lists, _fileSizeMutex, calls, history>>

store_fd(t) ==
    /\ th[t].pc = "store"
    /\ _fd' = th[t].new
    /\ history' = [history EXCEPT !.dead = @ \/ th[t].new = -1]
    /\ Goto(t, AfterSwap(t))
    /\ UNCHANGED <<os, now, fails, _wf_fd, settings, lists, _fileSizeMutex, calls>>

\* _fd is read ...
take_fd(t) ==
    /\ th[t].pc = "write"
    /\ th' = [th EXCEPT ![t].cur = _fd, ![t].pc = "writev"]
    /\ UNCHANGED <<os, now, fails, _fd, _wf_fd, settings, lists, _fileSizeMutex, calls, history>>

\* what writev to the descriptor th[t].cur does
Write(t, kind) ==
    LET f == FileAt(os, th[t].cur)
    IN  IF f \in Files
        THEN /\ os' = [os EXCEPT !.msgs[f] = @ \cup {th[t].msg}]
             /\ history' = IF os.kind[f] # kind
                           THEN [history EXCEPT !.astray = @ \cup {<<kind, _flag>>}]
                           ELSE IF kind = "log"
                           THEN [history EXCEPT !.written = @ \cup {th[t].msg}]
                           ELSE history
        ELSE /\ UNCHANGED os
             /\ history' = IF f = Tty THEN history
                           ELSE [history EXCEPT !.astray = @ \cup {<<kind, _flag>>}]

AfterWrite == IF _maxFileSize > 0 THEN "size" ELSE "idle"

\* ... and used
writev(t) ==
    /\ th[t].pc = "writev"
    /\ Write(t, "log")
    /\ Goto(t, IF _wf_flag /\ th[t].grave THEN "wf_write" ELSE AfterWrite)
    /\ UNCHANGED <<now, fails, _fd, _wf_fd, settings, lists, _fileSizeMutex, calls>>

take_wf_fd(t) ==
    /\ th[t].pc = "wf_write"
    /\ th' = [th EXCEPT ![t].cur = _wf_fd, ![t].pc = "wf_writev"]
    /\ UNCHANGED <<os, now, fails, _fd, _wf_fd, settings, lists, _fileSizeMutex, calls, history>>

wf_writev(t) ==
    /\ th[t].pc = "wf_writev"
    /\ Write(t, "wf")
    /\ Goto(t, AfterWrite)
    /\ UNCHANGED <<now, fails, _fd, _wf_fd, settings, lists, _fileSizeMutex, calls>>

-----------------------------------------------------------------------------
(* The rest of log_message: the size and the rotation.                     *)

\* lseek fails on the terminal and on a dead descriptor
Full == FileAt(os, _fd) \in Files /\ Cardinality(os.msgs[FileAt(os, _fd)]) >= _maxFileSize

\* the mutex is taken, and given back at once unless the log is full
check_size(t) ==
    /\ th[t].pc = "size" /\ _fileSizeMutex = Nobody
    /\ IF Full
       THEN /\ _fileSizeMutex' = t
            /\ th' = [th EXCEPT ![t].pc = "access", ![t].op = "rotate"]
       ELSE Goto(t, "idle") /\ UNCHANGED _fileSizeMutex
    /\ UNCHANGED <<os, now, fails, _fd, _wf_fd, settings, lists, calls, history>>

unlock_size(t) ==
    /\ th[t].pc = "unlock"
    /\ _fileSizeMutex' = IF _fileSizeMutex = t THEN Nobody ELSE _fileSizeMutex
    /\ th' = [th EXCEPT ![t] = Idle]
    /\ UNCHANGED <<os, now, fails, _fd, _wf_fd, settings, lists, calls, history>>

\* a call of rotate_log by the program
rotate_log(t) ==
    /\ th[t].pc = "idle" /\ _name /\ _maxFileSize = 0
    /\ \A u \in Thread : th[u].op # "rotate"
    /\ calls < MaxCalls /\ calls' = calls + 1
    /\ th' = [th EXCEPT ![t].pc = "access", ![t].op = "rotate"]
    /\ UNCHANGED <<os, now, fails, _fd, _wf_fd, settings, lists, _fileSizeMutex, history>>

\* mutant: the new entry is added before the list is found full
Listed_PushFirst(list, stamp) ==
    IF Len(list) + 1 >= _maxFileIndex THEN Tail(Append(list, stamp)) ELSE Append(list, stamp)

\* one entry more, and one less when the list is full
Listed(list, stamp) ==
    Append(IF Len(list) >= _maxFileIndex THEN Tail(list) ELSE list, stamp)

\* unlinks the oldest of a full list
Dropped(s, kind, list) ==
    IF _maxFileIndex > 0 /\ Len(list) >= _maxFileIndex
    THEN Unlink(s, <<kind, Head(list)>>) ELSE s

\* the file is there: the time makes its new name; without it there is only
\* the new one to open
rotate_access(t, time) ==
    /\ th[t].pc = "access"
    /\ IF FileNamed(os, Live("log")) # NoFile
       THEN /\ now' = time
            /\ history' = [history EXCEPT !.rotations = @ + 1,
                               !.rushed = @ \/ (history.rotations > 0 /\ time = now)]
            /\ Goto(t, "list")
       ELSE /\ Goto(t, "open")
            /\ UNCHANGED <<now, history>>
    /\ UNCHANGED <<os, fails, _fd, _wf_fd, settings, lists, _fileSizeMutex, calls>>

\* the list of old files, and the oldest of them, with _fileIndexMutex
rotate_list(t) ==
    /\ th[t].pc = "list"
    /\ os' = Dropped(os, "log", _fileList)
    /\ _fileList' = IF _maxFileIndex > 0 THEN Listed(_fileList, now) ELSE _fileList
    /\ Goto(t, "rename")
    /\ UNCHANGED <<now, fails, _fd, _wf_fd, settings, _wf_file_list, _fileSizeMutex, calls, history>>

\* somebody may have moved the file, or made a new one, since it was found
rotate_rename(t) ==
    /\ th[t].pc = "rename"
    /\ os' = Rename(os, Live("log"), <<"log", now>>)
    /\ Goto(t, "wf_rename")
    /\ UNCHANGED <<now, fails, _fd, _wf_fd, settings, lists, _fileSizeMutex, calls, history>>

\* list and name of the wf file, which only a rotation changes: in one step
rotate_wf(t) ==
    /\ th[t].pc = "wf_rename"
    /\ os' = Rename(IF _wf_flag THEN Dropped(os, "wf", _wf_file_list) ELSE os,
                    Live("wf"), <<"wf", now>>)
    /\ _wf_file_list' = IF _wf_flag /\ _maxFileIndex > 0
                        THEN Listed(_wf_file_list, now) ELSE _wf_file_list
    /\ Goto(t, "open")
    /\ UNCHANGED <<now, fails, _fd, _wf_fd, settings, _fileList, _fileSizeMutex, calls, history>>

open_wf(t, ok) ==
    /\ th[t].pc = "wf_open"
    /\ ok => CanOpen(os, "wf")
    /\ OpenFails(ok)
    /\ os' = AfterOpen(os, "wf", ok)
    /\ th' = [th EXCEPT ![t].new = NewFd(os, ok), ![t].pc = "wf_close"]
    /\ UNCHANGED <<now, _fd, _wf_fd, settings, lists, _fileSizeMutex, calls, history>>

\* mutant: the old descriptor is forgotten
close_wf_Forgets(t) ==
    /\ th[t].pc = "wf_close"
    /\ th' = [th EXCEPT ![t].pc = "wf_store"]
    /\ UNCHANGED <<os, now, fails, _fd, _wf_fd, settings, lists, _fileSizeMutex, calls, history>>

close_wf(t) ==
    /\ th[t].pc = "wf_close"
    /\ os' = IF _wf_fd # 2 THEN Close(os, _wf_fd) ELSE os
    /\ th' = [th EXCEPT ![t].pc = "wf_store"]
    /\ UNCHANGED <<now, fails, _fd, _wf_fd, settings, lists, _fileSizeMutex, calls, history>>

store_wf_fd(t) ==
    /\ th[t].pc = "wf_store"
    /\ _wf_fd' = th[t].new
    /\ Goto(t, "unlock")
    /\ UNCHANGED <<os, now, fails, _fd, settings, lists, _fileSizeMutex, calls, history>>

-----------------------------------------------------------------------------
\* somebody moves the log away, as logrotate does
move_away ==
    /\ _check
    /\ FileNamed(os, Live("log")) # NoFile /\ FileNamed(os, <<"moved", 0>>) = NoFile
    /\ os' = Rename(os, Live("log"), <<"moved", 0>>)
    /\ UNCHANGED <<now, fails, _fd, _wf_fd, settings, lists, _fileSizeMutex, th, calls, history>>

Step(t) ==
    \/ check_file(t)
    \/ \E ok \in BOOLEAN : open_log(t, ok)
    \/ dup_log(t)
    \/ close_log(t)
    \/ store_fd(t)
    \/ take_fd(t)
    \/ writev(t)
    \/ take_wf_fd(t)
    \/ wf_writev(t)
    \/ check_size(t)
    \/ unlock_size(t)
    \/ \E time \in now .. MaxTime : rotate_access(t, time)
    \/ rotate_list(t)
    \/ rotate_rename(t)
    \/ rotate_wf(t)
    \/ \E ok \in BOOLEAN : open_wf(t, ok)
    \/ close_wf(t)
    \/ store_wf_fd(t)

Setup ==
    \/ \E size \in Sizes : set_max_file_size(size)
    \/ \E index \in Indices : set_max_file_index(index)
    \/ \E v \in BOOLEAN : set_check(v)

Next ==
    \/ Setup
    \/ \E flag, wf, ok, wf_ok \in BOOLEAN : set_file_name(flag, wf, ok, wf_ok)
    \/ \E t \in Thread, grave \in Grave : log_message(t, grave)
    \/ \E t \in Thread : rotate_log(t)
    \/ \E t \in Thread : Step(t)
    \/ move_away

Spec == Init /\ [][Next]_vars

-----------------------------------------------------------------------------
InRotation == {"access", "list", "rename", "wf_rename", "open", "dup", "close", "store",
               "wf_open", "wf_close", "wf_store", "unlock"}

Steps == InRotation \cup {"idle", "stat", "write", "writev", "wf_write", "wf_writev", "size"}

Call == [pc : Steps, op : {"none", "check", "rotate"}, msg : 0 .. MaxCalls, grave : BOOLEAN,
         cur : Fds \cup {-1}, new : Fds \cup {-1}]

Kernel(s) ==
    /\ s = [fds |-> s.fds, names |-> s.names, kind |-> s.kind, msgs |-> s.msgs]
    /\ s.fds \in [Fds -> Files \cup {Tty, Closed}]
    /\ DOMAIN s.names \subseteq Name /\ s.names \in [DOMAIN s.names -> Files]
    /\ s.kind \in [Files -> {"none", "log", "wf"}]
    /\ s.msgs \in [Files -> SUBSET (0 .. MaxCalls)]

History == [written : SUBSET (0 .. MaxCalls), astray : SUBSET ({"log", "wf"} \X BOOLEAN),
            flagged : BOOLEAN, dead : BOOLEAN, rotations : Nat, rushed : BOOLEAN]

TypeOK ==
    /\ Kernel(os)
    /\ now \in 1 .. MaxTime /\ fails \in 0 .. MaxFails /\ calls \in 0 .. MaxCalls
    /\ _fd \in Fds \cup {-1} /\ _wf_fd \in Fds \cup {-1}
    /\ _name \in BOOLEAN /\ _check \in BOOLEAN /\ _flag \in BOOLEAN /\ _wf_flag \in BOOLEAN
    /\ _maxFileSize \in 0 .. TopSize /\ _maxFileIndex \in 0 .. TopIndex
    /\ _fileList \in Seq(1 .. MaxTime) /\ _wf_file_list \in Seq(1 .. MaxTime)
    /\ _fileSizeMutex \in Thread \cup {Nobody}
    /\ th \in [Thread -> Call]
    /\ history \in History

\* threads look for a moved file, or did so, in the mode without dup2: they close
\* each other's descriptors
Raced == _check /\ history.flagged

(***************************************************************************)
(* While stdout is redirected to the log (flag false, the default) every   *)
(* message gets into a log file, although other threads rotate and reopen  *)
(* the file under the writer: dup2 puts the new file in the place of the   *)
(* old one without a moment in between (log_base.cpp:157, 240-243,         *)
(* 276-279).  Two kinds of programs are excepted, both of which have used  *)
(* the other mode before: one that checked for a moved file there, and one *)
(* where an open failed there.  The latter has -1 in _fd, set_file_name    *)
(* with flag false does not repair it, since dup2 onto -1 fails, and every *)
(* message is lost (log_base.cpp:76, 87, 251, 287).                        *)
(***************************************************************************)
MessagesArrive == <<"log", FALSE>> \in history.astray => Raced \/ history.dead

Kept == {f \in Range(os.names) : os.kind[f] = "log"}

\* each rotation had a second of its own, and there were not too many for the
\* list of old files
Lossless ==
    ~ history.rushed /\ (_maxFileIndex > 0 => history.rotations <= _maxFileIndex)

(***************************************************************************)
(* No message that was written is lost by a rotation, by naming the file   *)
(* again or by opening it anew after it was moved away, in either mode and *)
(* by whichever thread: it is in a file that has a name, as long as no     *)
(* second has seen two rotations and there were no more of them than old   *)
(* files are kept (log_base.cpp:186-222, 237, 273).  A second rotation in  *)
(* the same second gets the same name and replaces the file of the first,  *)
(* and beyond the limit the oldest file goes with what slow writers still  *)
(* add to it: of these cases the property says nothing.                    *)
(***************************************************************************)
WrittenSurvives == Lossless => history.written \subseteq UNION {os.msgs[f] : f \in Kept}

(***************************************************************************)
(* "The largest number of log files until the program exits" (log_base.h   *)
(* 82): there are never more old files than _maxFileIndex, at any step of  *)
(* a rotation (log_base.cpp:210-222).                                      *)
(***************************************************************************)
ArchiveLimit ==
    _maxFileIndex > 0 =>
        Cardinality({n \in DOMAIN os.names : n[1] = "log" /\ n[2] > 0}) <= _maxFileIndex

(***************************************************************************)
(* The types hold, and between calls the logger has no descriptors but its *)
(* two, over every mixture of modes, rotations and failed opens            *)
(* (log_base.cpp:72-101, 237-261), unless threads have checked for a moved *)
(* file in the mode without dup2.                                          *)
(***************************************************************************)
NoFdLeak ==
    /\ TypeOK
    /\ NoCall /\ ~ Raced =>
          {d \in Fds : d > 2 /\ os.fds[d] # Closed} \subseteq {_fd, _wf_fd}

(***************************************************************************)
(* "All logs are written to one file.  Thread-safe" (log.h:5-6): a message *)
(* never goes to a descriptor that is closed or belongs to another file,   *)
(* although no open fails.                                                 *)
(***************************************************************************)
ThreadSafe == history.astray = {}

=============================================================================
