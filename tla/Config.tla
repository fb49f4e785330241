------------------------------- MODULE Config -------------------------------
(***************************************************************************)
(* LibSys::Config (conf.h, conf.cpp): a table of settings read from files  *)
(* that may include each other.                                            *)
(*                                                                         *)
(* A file is a sequence of lines, a line the sequence of tokens strtok     *)
(* cuts out of it.  parse calls itself for an include while its own file   *)
(* is still open, so the calls in progress are a stack of open files, each *)
(* with the lines it has still to handle: a file is read whole when it is  *)
(* opened.  Files may be edited at any moment.  A process has MaxFds       *)
(* descriptors; they are what ends files that include each other.          *)
(***************************************************************************)
EXTENDS Integers, Sequences, SequencesExt

CONSTANTS File, Key, Value,
          Include,    \* the key "include"
          Hash,       \* a first token that starts the line with '#'
          Contents,   \* what files may hold
          Unreadable, \* a file that is missing or that read fails on
          MaxFds      \* descriptors left to the process

\* a key and a value, further tokens being ignored
IsSetting(line) == Len(line) >= 2 /\ line[1] # Hash

\* to the code every token may be a key, a value and the name of a file
Line == {line \in Seq(Key \cup Value \cup File \cup {Include, Hash}) :
            IsSetting(line) => IF line[1] = Include THEN line[2] \in File
                               ELSE line[1] \in Key /\ line[2] \in Value}

ASSUME ContentsAssumption == Contents \subseteq Seq(Line) /\ Unreadable \notin Contents
ASSUME TokensAssumption == Include # Hash
ASSUME MaxFdsAssumption == MaxFds \in Nat \ {0}

VARIABLES
    disk,           \* the files
    m_config_hash,  \* a function from the keys that are set to their values
    m_file_name,
    overwrite,      \* of the call in progress, or of the last one
    pc,             \* "idle"; "open": parse was called; "lines": it handles
                    \* lines; "return": it has returned ret
    arg,            \* the file_name passed to parse
    stack,          \* the lines left in each file that is open
    fds,            \* descriptors in use
    ret,
    old,            \* history: the table when the call began
    edited          \* history: some file was edited since the call began

table == <<m_config_hash, old>>
call  == <<m_file_name, overwrite>>
configVars  == <<disk, table, call, pc, arg, stack, fds, ret, edited>>

ConfigInit ==
    /\ disk \in [File -> Contents \cup {Unreadable}]
    /\ m_config_hash = << >> /\ old = << >>
    /\ m_file_name \in File /\ overwrite = FALSE
    /\ pc = "idle" /\ arg = m_file_name /\ stack = << >> /\ fds = 0
    /\ ret = FALSE /\ edited = TRUE

IsSet(key) == key \in DOMAIN m_config_hash

get(key, default_value) == IF IsSet(key) THEN m_config_hash[key] ELSE default_value

-----------------------------------------------------------------------------
(* The callers' operations.                                                *)

CallParse(file) ==
    /\ pc = "idle"
    /\ pc' = "open" /\ m_file_name' = file /\ arg' = file /\ edited' = FALSE
    /\ UNCHANGED <<disk, stack, fds, ret>>

load(file, flag) ==
    /\ CallParse(file)
    /\ overwrite' = flag
    /\ m_config_hash' = << >> /\ old' = << >>

reload(file) ==
    /\ CallParse(file)
    /\ overwrite' = TRUE
    /\ old' = m_config_hash
    /\ UNCHANGED m_config_hash

-----------------------------------------------------------------------------
(* parse                                                                   *)

\* missing, unreadable, or no descriptor left
parse_fails ==
    /\ pc = "open"
    /\ disk[arg] = Unreadable \/ fds = MaxFds
    /\ pc' = "return" /\ ret' = FALSE
    /\ UNCHANGED <<disk, table, call, arg, stack, fds, edited>>

parse_open ==
    /\ pc = "open"
    /\ disk[arg] # Unreadable /\ fds < MaxFds
    /\ pc' = "lines" /\ fds' = fds + 1
    /\ stack' = Append(stack, disk[arg])
    /\ UNCHANGED <<disk, table, call, arg, ret, edited>>

AtLine == pc = "lines" /\ Last(stack) # << >>
ThisLine == Head(Last(stack))
NextLine == stack' = Front(stack) \o <<Tail(Last(stack))>>

parse_skip ==
    /\ AtLine /\ ~ IsSetting(ThisLine)
    /\ NextLine
    /\ UNCHANGED <<disk, table, call, pc, arg, fds, ret, edited>>

\* mutant: the value read last always wins
Assign_Overwrites(key, value) ==
    [k \in DOMAIN m_config_hash \cup {key} |-> IF k = key THEN value ELSE m_config_hash[k]]

\* a key that is set keeps its value unless overwrite is asked for
Assign(key, value) ==
    IF IsSet(key) /\ ~ overwrite
    THEN m_config_hash
    ELSE [k \in DOMAIN m_config_hash \cup {key} |->
             IF k = key THEN value ELSE m_config_hash[k]]

parse_set ==
    /\ AtLine /\ IsSetting(ThisLine) /\ ThisLine[1] # Include
    /\ m_config_hash' = Assign(ThisLine[1], ThisLine[2])
    /\ NextLine
    /\ UNCHANGED <<disk, old, call, pc, arg, fds, ret, edited>>

\* mutant: the line is not left behind
parse_include_Again ==
    /\ AtLine /\ IsSetting(ThisLine) /\ ThisLine[1] = Include
    /\ pc' = "open" /\ arg' = ThisLine[2]
    /\ UNCHANGED <<disk, table, call, stack, fds, ret, edited>>

parse_include ==
    /\ AtLine /\ IsSetting(ThisLine) /\ ThisLine[1] = Include
    /\ pc' = "open" /\ arg' = ThisLine[2]
    /\ NextLine
    /\ UNCHANGED <<disk, table, call, fds, ret, edited>>

CloseFile == stack' = Front(stack) /\ fds' = fds - 1

parse_end ==
    /\ pc = "lines" /\ Last(stack) = << >>
    /\ CloseFile
    /\ pc' = "return" /\ ret' = TRUE
    /\ UNCHANGED <<disk, table, call, arg, edited>>

\* mutant: the error path returns without closing the file
parse_return_Leaks ==
    /\ pc = "return"
    /\ IF stack = << >> THEN pc' = "idle" /\ UNCHANGED stack
       ELSE IF ret THEN pc' = "lines" /\ UNCHANGED stack
       ELSE stack' = Front(stack) /\ UNCHANGED pc
    /\ UNCHANGED <<disk, table, call, arg, fds, ret, edited>>

\* back in load or reload; in the loop of the file that included this one; or
\* in that file's error path, which closes it and returns in its turn
parse_return ==
    /\ pc = "return"
    /\ \/ stack = << >> /\ pc' = "idle" /\ UNCHANGED <<stack, fds>>
       \/ stack # << >> /\ ret /\ pc' = "lines" /\ UNCHANGED <<stack, fds>>
       \/ stack # << >> /\ ~ ret /\ CloseFile /\ UNCHANGED pc
    /\ UNCHANGED <<disk, table, call, arg, ret, edited>>

-----------------------------------------------------------------------------
\* somebody changes, creates or removes a file
edit(file, content) ==
    /\ disk' = [disk EXCEPT ![file] = content]
    /\ edited' = TRUE
    /\ UNCHANGED <<table, call, pc, arg, stack, fds, ret>>

Parse ==
    \/ parse_fails
    \/ parse_open
    \/ parse_skip
    \/ parse_set
    \/ parse_include
    \/ parse_end
    \/ parse_return

ConfigNext ==
    \/ \E file \in File, flag \in BOOLEAN : load(file, flag)
    \/ \E file \in File : reload(file)
    \/ Parse
    \/ \E file \in File, content \in Contents \cup {Unreadable} : edit(file, content)

ConfigSpec == ConfigInit /\ [][ConfigNext]_configVars

\* the thread that called load or reload keeps running
FairSpec == ConfigSpec /\ WF_configVars(Parse)

-----------------------------------------------------------------------------
ConfigTypeOK ==
    /\ disk \in [File -> Contents \cup {Unreadable}]
    /\ \A t \in {m_config_hash, old} :
          DOMAIN t \subseteq Key /\ \A k \in DOMAIN t : t[k] \in Value
    /\ m_file_name \in File /\ overwrite \in BOOLEAN
    /\ pc \in {"idle", "open", "lines", "return"} /\ arg \in File
    /\ stack \in Seq(Seq(Line)) /\ fds \in 0 .. MaxFds
    /\ ret \in BOOLEAN /\ edited \in BOOLEAN
    /\ pc = "lines" => stack # << >>

(***************************************************************************)
(* The types hold, and every file that is open belongs to a call of parse  *)
(* in progress: when a nested include fails, each level closes its own     *)
(* (conf.cpp:86-90, 108-109).                                              *)
(***************************************************************************)
DescriptorsBalance == ConfigTypeOK /\ fds = Len(stack)

(***************************************************************************)
(* Textual inclusion, the reference: the settings on some lines and on     *)
(* those of the files they include, in order, up to the first include that *)
(* fails for lack of a file or of one of the n descriptors.                *)
(***************************************************************************)
Inclusion(files) ==
    LET Of[at \in (0 .. MaxFds) \X Seq(Line)] ==
            LET n == at[1]  lines == at[2]
            IN  IF lines = << >> THEN [ok |-> TRUE, settings |-> << >>]
                ELSE LET line == Head(lines)
                         rest == Of[<<n, Tail(lines)>>]
                     IN  IF ~ IsSetting(line) THEN rest
                         ELSE IF line[1] # Include
                         THEN [ok |-> rest.ok, settings |-> <<line>> \o rest.settings]
                         ELSE IF n = 0 \/ files[line[2]] = Unreadable
                         THEN [ok |-> FALSE, settings |-> << >>]
                         ELSE LET sub == Of[<<n - 1, files[line[2]]>>]
                              IN  IF ~ sub.ok THEN sub
                                  ELSE [ok |-> rest.ok, settings |-> sub.settings \o rest.settings]
    IN  Of

\* what a call of parse for file amounts to
Included(file) == Inclusion(disk)[<<MaxFds, <<<<Include, file>>>>>>]

\* the value k gets, of the positions where it is set
ValueSet(settings, k) ==
    LET At == {i \in DOMAIN settings : settings[i][1] = k}
    IN  IF At = {} THEN IF k \in DOMAIN old THEN old[k] ELSE Unreadable
        ELSE settings[CHOOSE i \in At : \A j \in At : IF overwrite THEN j <= i ELSE i <= j][2]

(***************************************************************************)
(* When load or reload returns, its result tells whether all of the        *)
(* inclusion could be read, and each key has the value that the header     *)
(* promises, "the earliest loaded" without overwrite and the last one with *)
(* it (conf.h:30-36), also after a failure half way.  A key that was set   *)
(* before a reload keeps its value unless the files set it.                *)
(***************************************************************************)
MatchesInclusion ==
    pc = "idle" /\ ~ edited =>
        /\ ret = Included(m_file_name).ok
        /\ \A k \in Key : get(k, Unreadable) = ValueSet(Included(m_file_name).settings, k)

(***************************************************************************)
(* load and reload return, also when files include each other in a circle: *)
(* then the descriptors run out and every level fails (conf.cpp:20-24, 86).*)
(***************************************************************************)
CallsEnd == pc # "idle" ~> pc = "idle"

=============================================================================
