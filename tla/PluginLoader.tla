---------------------------- MODULE PluginLoader ----------------------------
(***************************************************************************)
(* PluginLoader (plugin_loader.h, plugin_loader.cpp, plugin_iface.h): it   *)
(* loads shared objects at run time; each registers its protocol handlers  *)
(* with the dispatcher of ProtoDispatcher.tla.                             *)
(*                                                                         *)
(* The shared objects and the dynamic linker are foreign.  dlopen, dlsym   *)
(* and the plugin's init may fail, dlclose may fail; the linker counts how *)
(* often an object is open, whatever path was used.  A plugin's            *)
(* register_proto registers its protocols one by one, and when one is      *)
(* refused it withdraws those it had registered and reports the failure;   *)
(* its unregister_proto withdraws them all.  Both belong to the plugin:    *)
(* the loader neither checks nor repairs what they leave behind.  load     *)
(* demands init and register_proto of a plugin, but not unregister_proto   *)
(* and uninit, which may be missing.                                       *)
(***************************************************************************)
EXTENDS Integers, Sequences, FiniteSets

CONSTANTS Path, So,
          so_of,     \* the object a path leads to: several paths may share one
          Protos,    \* the protocols each object serves
          HasUnregister,   \* the objects that have an unregister_proto
          HasUninit,       \* the objects that have an uninit
          ProtoId, Null, End, Dead,
          MaxList,   \* the longest list of paths passed
          MaxLeaks,  \* bound on failed dlcloses
          MaxInits   \* bound on inits of an object that are not undone

ASSUME SoOfAssumption == so_of \in [Path -> So]
ASSUME ProtosAssumption == Protos \in [So -> SUBSET ProtoId]
ASSUME PathAssumption == Path # {}
ASSUME IfaceAssumption == HasUnregister \subseteq So /\ HasUninit \subseteq So
ASSUME BoundsAssumption == MaxList \in Nat /\ MaxLeaks \in Nat /\ MaxInits \in Nat

Handler == So \X ProtoId   \* each object has one handler per protocol

VARIABLES m_handler_mgr, level, walks, clearing, it, ret   \* the dispatcher

D == INSTANCE ProtoDispatcher WITH MaxDepth <- 0

VARIABLES
    m_plugins,   \* the paths loaded
    refs,        \* of each object: how often it is open
    active,      \* of each object: its inits less its uninits
    leaked,      \* of each object: dlcloses that failed
    pc,          \* "idle", or inside load ("register", "withdraw")
                 \* or unload ("unregister")
    path,        \* the path of the call in progress
    todo,        \* protocols the plugin's callback has still to handle
    result,      \* the last result of load, or of unload
    op,          \* the list call in progress: "none", "load", "unload"
    rest,        \* its remaining paths
    count        \* its return value so far

dispatcher == <<m_handler_mgr, level, walks, clearing, it, ret>>
linker     == <<refs, leaked>>
list       == <<op, rest, count>>
vars == <<dispatcher, m_plugins, refs, active, leaked, pc, path, todo, result,
          op, rest, count>>

so == so_of[path]

Init ==
    /\ D!Init
    /\ m_plugins = {}
    /\ refs = [s \in So |-> 0] /\ active = [s \in So |-> 0]
    /\ leaked = [s \in So |-> 0]
    /\ pc = "idle" /\ path = CHOOSE p \in Path : TRUE
    /\ todo = {} /\ result = 0
    /\ op = "none" /\ rest = << >> /\ count = 0

\* a call on one path: by the caller itself, or the next of a list
Call(o, p) ==
    /\ pc = "idle"
    /\ \/ op = "none"
       \/ op = o /\ rest # << >> /\ p = Head(rest)

\* what the loop over a list does when the call on one path returns r; like
\* the code, it counts every call
Return(r) ==
    /\ pc' = "idle" /\ result' = r
    /\ IF op = "none"
       THEN UNCHANGED list
       ELSE /\ rest' = Tail(rest) /\ count' = count + 1
            /\ UNCHANGED op

-----------------------------------------------------------------------------
(* What happens to the object s at the end of its use.                     *)

CloseFails(s) ==
    /\ leaked[s] < MaxLeaks
    /\ leaked' = [leaked EXCEPT ![s] = @ + 1]

Close(s, closed) ==
    \/ /\ closed
       /\ refs' = [refs EXCEPT ![s] = @ - 1]
       /\ UNCHANGED leaked
    \/ /\ ~ closed
       /\ CloseFails(s)
       /\ UNCHANGED refs

\* its uninit is called, if it has one
Uninit(s) ==
    active' = IF s \in HasUninit THEN [active EXCEPT ![s] = @ - 1] ELSE active

-----------------------------------------------------------------------------
(* load                                                                    *)

load_exists(p) ==
    /\ Call("load", p) /\ p \in m_plugins
    /\ Return(-2)
    /\ UNCHANGED <<dispatcher, m_plugins, linker, active, path, todo>>

\* dlopen fails; or the object is opened, has no usable interface or does not
\* initialise, and is closed again
load_fails(p) ==
    /\ Call("load", p) /\ p \notin m_plugins
    /\ Return(-1)
    /\ UNCHANGED <<dispatcher, m_plugins, linker, active, path, todo>>

\* the same, but dlclose fails, which the code does not notice
load_fails_open(p) ==
    /\ Call("load", p) /\ p \notin m_plugins
    /\ CloseFails(so_of[p])
    /\ refs' = [refs EXCEPT ![so_of[p]] = @ + 1]
    /\ Return(-1)
    /\ UNCHANGED <<dispatcher, m_plugins, active, path, todo>>

\* the object is open and initialised, its register_proto is called
load_open(p) ==
    /\ Call("load", p) /\ p \notin m_plugins
    /\ active[so_of[p]] < MaxInits
    /\ refs' = [refs EXCEPT ![so_of[p]] = @ + 1]
    /\ active' = [active EXCEPT ![so_of[p]] = @ + 1]
    /\ pc' = "register" /\ path' = p /\ todo' = Protos[so_of[p]]
    /\ UNCHANGED <<dispatcher, m_plugins, leaked, result, list>>

\* one call of the dispatcher by the plugin's register_proto
plugin_register(id) ==
    /\ pc = "register" /\ id \in todo
    /\ D!register_proto(id, <<so, id>>)
    /\ IF ret' = 0
       THEN todo' = todo \ {id} /\ pc' = pc
       ELSE todo' = Protos[so] \ todo /\ pc' = "withdraw"
    /\ UNCHANGED <<m_plugins, linker, active, path, result, list>>

load_done ==
    /\ pc = "register" /\ todo = {}
    /\ m_plugins' = m_plugins \cup {path}
    /\ Return(0)
    /\ UNCHANGED <<dispatcher, linker, active, path, todo>>

\* one call of the dispatcher by the plugin, to undo what it registered
plugin_withdraw(id) ==
    /\ pc = "withdraw" /\ id \in todo
    /\ D!unregister_proto(id)
    /\ todo' = todo \ {id}
    /\ UNCHANGED <<m_plugins, linker, active, pc, path, result, list>>

\* mutant: the object is not closed
load_undo_NoClose(closed) ==
    /\ pc = "withdraw" /\ todo = {}
    /\ Uninit(so)
    /\ Return(-1)
    /\ UNCHANGED <<dispatcher, m_plugins, linker, path, todo>>

\* register_proto has failed: the plugin's uninit, then dlclose, whose result
\* the code ignores here
load_undo(closed) ==
    /\ pc = "withdraw" /\ todo = {}
    /\ Uninit(so)
    /\ Close(so, closed)
    /\ Return(-1)
    /\ UNCHANGED <<dispatcher, m_plugins, path, todo>>

-----------------------------------------------------------------------------
(* unload                                                                  *)

\* a path that is not loaded: nothing to do, and no error
unload_unknown(p) ==
    /\ Call("unload", p) /\ p \notin m_plugins
    /\ Return(0)
    /\ UNCHANGED <<dispatcher, m_plugins, linker, active, path, todo>>

\* mutant: the object is closed first
unload_begin_CloseFirst(p) ==
    /\ Call("unload", p) /\ p \in m_plugins
    /\ pc' = "unregister" /\ path' = p /\ todo' = Protos[so_of[p]]
    /\ refs' = [refs EXCEPT ![so_of[p]] = @ - 1]
    /\ UNCHANGED <<dispatcher, m_plugins, leaked, active, result, list>>

\* the plugin's unregister_proto is called, if it has one
unload_begin(p) ==
    /\ Call("unload", p) /\ p \in m_plugins
    /\ pc' = "unregister" /\ path' = p
    /\ todo' = IF so_of[p] \in HasUnregister THEN Protos[so_of[p]] ELSE {}
    /\ UNCHANGED <<dispatcher, m_plugins, linker, active, result, list>>

plugin_unregister(id) ==
    /\ pc = "unregister" /\ id \in todo
    /\ D!unregister_proto(id)
    /\ todo' = todo \ {id}
    /\ UNCHANGED <<m_plugins, linker, active, pc, path, result, list>>

\* mutant: a failed dlclose keeps the path
unload_end_KeepsPath(closed) ==
    /\ pc = "unregister" /\ todo = {}
    /\ Uninit(so)
    /\ Close(so, closed)
    /\ m_plugins' = IF closed THEN m_plugins \ {path} ELSE m_plugins
    /\ Return(IF closed THEN 0 ELSE -1)
    /\ UNCHANGED <<dispatcher, path, todo>>

\* the plugin's uninit, then dlclose; the path goes even if dlclose fails
unload_end(closed) ==
    /\ pc = "unregister" /\ todo = {}
    /\ Uninit(so)
    /\ Close(so, closed)
    /\ m_plugins' = m_plugins \ {path}
    /\ Return(IF closed THEN 0 ELSE -1)
    /\ UNCHANGED <<dispatcher, path, todo>>

-----------------------------------------------------------------------------
(* The calls on lists of paths; clear_plugins is an unload of all paths,   *)
(* in the order of the map.                                                *)

ListBegin(o, paths) ==
    /\ pc = "idle" /\ op = "none"
    /\ op' = o /\ rest' = paths /\ count' = 0
    /\ UNCHANGED <<dispatcher, m_plugins, linker, active, pc, path, todo, result>>

clear_plugins ==
    \E paths \in [1 .. Cardinality(m_plugins) -> m_plugins] :
        /\ \A i, j \in DOMAIN paths : paths[i] = paths[j] => i = j
        /\ ListBegin("unload", paths)

ListEnd ==
    /\ pc = "idle" /\ op # "none" /\ rest = << >>
    /\ op' = "none" /\ result' = count
    /\ UNCHANGED <<dispatcher, m_plugins, linker, active, pc, path, todo, rest, count>>

Lists == UNION {[1 .. n -> Path] : n \in 0 .. MaxList}

Next ==
    \/ \E p \in Path : load_exists(p)
    \/ \E p \in Path : load_fails(p)
    \/ \E p \in Path : load_fails_open(p)
    \/ \E p \in Path : load_open(p)
    \/ \E id \in ProtoId : plugin_register(id)
    \/ load_done
    \/ \E id \in ProtoId : plugin_withdraw(id)
    \/ \E closed \in BOOLEAN : load_undo(closed)
    \/ \E p \in Path : unload_unknown(p)
    \/ \E p \in Path : unload_begin(p)
    \/ \E id \in ProtoId : plugin_unregister(id)
    \/ \E closed \in BOOLEAN : unload_end(closed)
    \/ \E paths \in Lists : ListBegin("load", paths) \/ ListBegin("unload", paths)
    \/ clear_plugins
    \/ ListEnd

Spec == Init /\ [][Next]_vars

-----------------------------------------------------------------------------
TypeOK ==
    /\ D!TypeOK
    /\ m_plugins \subseteq Path
    /\ refs \in [So -> Nat] /\ active \in [So -> Nat] /\ leaked \in [So -> 0 .. MaxLeaks]
    /\ pc \in {"idle", "register", "withdraw", "unregister"}
    /\ path \in Path /\ todo \subseteq ProtoId
    /\ result \in Int
    /\ op \in {"none", "load", "unload"} /\ rest \in Seq(Path)
    /\ count \in Nat

PathsOf(s) == {p \in m_plugins : so_of[p] = s}

(***************************************************************************)
(* The dispatcher never holds a handler whose code has been unmapped, at   *)
(* any point of a load or an unload (plugin_loader.cpp:43-50, 88-95), if   *)
(* its object has an unregister_proto.  One without it is loaded all the   *)
(* same (line 35), and its handlers stay in the table when unload closes   *)
(* the object: they do dangle, and the claim leaves them out.              *)
(***************************************************************************)
NoDanglingHandler ==
    \A id \in D!Registered :
        m_handler_mgr[id][1] \in HasUnregister => refs[m_handler_mgr[id][1]] > 0

(***************************************************************************)
(* Between calls every protocol of a loaded plugin is served by its own    *)
(* handler, whatever plugins without unregister_proto have left behind,    *)
(* and a plugin that has unregister_proto serves nothing unless it is      *)
(* loaded: a load that fails at its second protocol, or meets another      *)
(* plugin's protocol, changes nothing for the plugins that are loaded      *)
(* (plugin_loader.cpp:43-59, 88-103).                                      *)
(***************************************************************************)
PluginsMatchProtocols ==
    pc = "idle" =>
        /\ \A p \in m_plugins : \A id \in Protos[so_of[p]] :
              id \in D!Registered /\ m_handler_mgr[id] = <<so_of[p], id>>
        /\ \A id \in D!Registered :
              m_handler_mgr[id][1] \in HasUnregister =>
                  \E p \in m_plugins : m_handler_mgr[id] = <<so_of[p], id>>

(***************************************************************************)
(* The types hold, and between calls an object is open once for each path  *)
(* it was loaded by and each dlclose that failed, those on load's error    *)
(* paths included; a plugin with an uninit is initialised once for each    *)
(* path, and one without at least as often (plugin_loader.cpp:26-57,       *)
(* 91-98).                                                                 *)
(***************************************************************************)
ObjectsBalance ==
    /\ TypeOK
    /\ pc = "idle" => \A s \in So :
          /\ refs[s] = Cardinality(PathsOf(s)) + leaked[s]
          /\ active[s] >= Cardinality(PathsOf(s))
          /\ s \in HasUninit => active[s] = Cardinality(PathsOf(s))

=============================================================================
