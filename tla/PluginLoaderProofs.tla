------------------------- MODULE PluginLoaderProofs -------------------------
(***************************************************************************)
(* Plugins are loaded and unloaded without a trace, for every set of       *)
(* paths, objects and protocols.                                           *)
(***************************************************************************)
EXTENDS PluginLoader, FiniteSetTheorems, TLAPS

Served(S) == UNION {Protos[so_of[p]] : p \in S}

\* the table f serves all protocols of the paths S, and of object s the
\* protocols M, which are no others'; what else it has was left by objects
\* without unregister_proto
Serves(f, S, s, M) ==
    /\ f \in [DOMAIN f -> Handler]
    /\ Served(S) \cup M \subseteq DOMAIN f
    /\ Served(S) \cap M = {}
    /\ \A id \in DOMAIN f \ (Served(S) \cup M) : f[id][1] \notin HasUnregister /\ f[id][2] = id
    /\ \A p \in S : \A id \in Protos[so_of[p]] : f[id] = <<so_of[p], id>>
    /\ \A id \in M : f[id] = <<s, id>>

\* the handlers of the table f, and no others, are initialised
LevelsMatch(f, l) ==
    /\ l \in [Handler -> Nat]
    /\ \A h \in Handler : l[h] = IF h[2] \in DOMAIN f /\ f[h[2]] = h THEN 1 ELSE 0

\* the paths whose protocols no call is working on
Others == IF pc = "unregister" THEN m_plugins \ {path} ELSE m_plugins

\* the protocols of the call in progress that are registered
Mine ==
    IF pc = "register" THEN Protos[so] \ todo
    ELSE IF pc = "idle" THEN {} ELSE todo

\* the paths by which an object is open
Opened == IF pc \in {"register", "withdraw"} THEN m_plugins \cup {path} ELSE m_plugins

UsersOf(S, s) == {p \in S : so_of[p] = s}

Apart(S) == \A p, q \in S : p # q => Protos[so_of[p]] \cap Protos[so_of[q]] = {}

Counts(S, a, r, k) ==
    /\ IsFiniteSet(S)
    /\ \A s \in So : /\ r[s] = Cardinality(UsersOf(S, s)) + k[s]
                     /\ a[s] >= Cardinality(UsersOf(S, s))
                     /\ s \in HasUninit => a[s] = Cardinality(UsersOf(S, s))

(***************************************************************************)
(* The inductive invariant.  The callbacks of a plugin move its protocols  *)
(* one by one; at each point of them the table is what the other plugins   *)
(* have registered and what this one has at the moment.  Two loaded paths  *)
(* never share a protocol, so that unloading one takes nothing from the    *)
(* other.                                                                  *)
(***************************************************************************)
CallInv ==
    pc # "idle" =>
        /\ todo \subseteq Protos[so]
        /\ path \in m_plugins <=> pc = "unregister"
        /\ op # "none" => rest # << >>

TableInv ==
    /\ Serves(m_handler_mgr, Others, so, Mine)
    /\ LevelsMatch(m_handler_mgr, level)
    /\ Apart(m_plugins)

LoaderInv == TypeOK /\ CallInv /\ TableInv /\ Counts(Opened, active, refs, leaked)

-----------------------------------------------------------------------------
(* Protocols enter and leave the table.                                    *)

(* The plugin registers one more protocol.                                 *)
LEMMA ServesOneMore ==
    ASSUME NEW f, NEW S, NEW s \in So, NEW M, Serves(f, S, s, M),
           NEW id \in ProtoId, id \notin DOMAIN f,
           NEW g, g = [i \in DOMAIN f \cup {id} |-> IF i = id THEN <<s, id>> ELSE f[i]]
    PROVE  Serves(g, S, s, M \cup {id})
<1>1. DOMAIN g = DOMAIN f \cup {id} /\ \A i \in DOMAIN f : g[i] = f[i] /\ i # id
  OBVIOUS
<1>2. <<s, id>> \in Handler /\ g[id] = <<s, id>>
  BY DEF Handler
<1>3. g \in [DOMAIN g -> Handler]
  BY <1>1, <1>2 DEF Serves
<1>4. /\ Served(S) \cup (M \cup {id}) \subseteq DOMAIN g /\ Served(S) \cap (M \cup {id}) = {}
      /\ \A i \in DOMAIN g \ (Served(S) \cup (M \cup {id})) :
            g[i][1] \notin HasUnregister /\ g[i][2] = i
  BY <1>1 DEF Serves
<1>5. ASSUME NEW p \in S, NEW i \in Protos[so_of[p]] PROVE g[i] = <<so_of[p], i>>
  <2>1. i \in Served(S)
    BY DEF Served
  <2> QED
    BY <1>1, <2>1 DEF Serves
<1>6. \A i \in M \cup {id} : g[i] = <<s, i>>
  BY <1>1, <1>2 DEF Serves
<1> QED
  BY <1>3, <1>4, <1>5, <1>6 DEF Serves

(* The plugin withdraws one of its protocols.                              *)
LEMMA ServesOneLess ==
    ASSUME NEW f, NEW S, NEW s, NEW M, Serves(f, S, s, M), NEW id \in M,
           NEW g, g = [i \in DOMAIN f \ {id} |-> f[i]]
    PROVE  Serves(g, S, s, M \ {id})
<1>1. DOMAIN g = DOMAIN f \ {id} /\ \A i \in DOMAIN g : g[i] = f[i]
  OBVIOUS
<1>2. g \in [DOMAIN g -> Handler]
  BY <1>1 DEF Serves
<1>3. /\ Served(S) \cup (M \ {id}) \subseteq DOMAIN g /\ Served(S) \cap (M \ {id}) = {}
      /\ \A i \in DOMAIN g \ (Served(S) \cup (M \ {id})) :
            g[i][1] \notin HasUnregister /\ g[i][2] = i
  BY <1>1 DEF Serves
<1>4. ASSUME NEW p \in S, NEW i \in Protos[so_of[p]] PROVE g[i] = <<so_of[p], i>>
  <2>1. i \in Served(S)
    BY DEF Served
  <2> QED
    BY <1>1, <1>3, <2>1 DEF Serves
<1>5. \A i \in M \ {id} : g[i] = <<s, i>>
  BY <1>1, <1>3 DEF Serves
<1> QED
  BY <1>2, <1>3, <1>4, <1>5 DEF Serves

(* A plugin that has registered all its protocols is one of the others.    *)
LEMMA ServesLoaded ==
    ASSUME NEW f, NEW S, NEW p, NEW s, s = so_of[p], Serves(f, S, s, Protos[s]), Apart(S),
           NEW t
    PROVE  Serves(f, S \cup {p}, t, {}) /\ Apart(S \cup {p})
<1>1. Served(S \cup {p}) = Served(S) \cup Protos[s]
  BY DEF Served
<1>2. ASSUME NEW q \in S PROVE Protos[so_of[q]] \cap Protos[s] = {}
  <2>1. Protos[so_of[q]] \subseteq Served(S)
    BY DEF Served
  <2> QED
    BY <2>1 DEF Serves
<1>3. Apart(S \cup {p})
  BY <1>2 DEF Apart
<1>4. Serves(f, S \cup {p}, t, {})
  BY <1>1 DEF Serves
<1> QED
  BY <1>3, <1>4

(* A plugin about to be unloaded shares no protocol with the others.       *)
LEMMA ServesUnloading ==
    ASSUME NEW f, NEW S, NEW t, Serves(f, S, t, {}), Apart(S), NEW p \in S,
           NEW s, s = so_of[p]
    PROVE  Serves(f, S \ {p}, s, Protos[s]) /\ Apart(S \ {p})
<1>1. Served(S) = Served(S \ {p}) \cup Protos[s]
  BY DEF Served
<1>2. Served(S \ {p}) \cap Protos[s] = {}
  BY DEF Served, Apart
<1>3. Serves(f, S \ {p}, s, Protos[s])
  BY <1>1, <1>2 DEF Serves
<1> QED
  BY <1>3 DEF Apart

(* A plugin without unregister_proto leaves its protocols in the table.    *)
LEMMA ServesAbandoned ==
    ASSUME NEW f, NEW S, NEW s, NEW M, Serves(f, S, s, M), s \notin HasUnregister
    PROVE  Serves(f, S, s, {})
<1>1. ASSUME NEW id \in M PROVE f[id][1] \notin HasUnregister /\ f[id][2] = id
  BY DEF Serves
<1> QED
  BY <1>1 DEF Serves

(* Which object a table without protocols in motion names does not matter. *)
LEMMA ServesIdle ==
    ASSUME NEW f, NEW S, NEW s, Serves(f, S, s, {}), NEW t
    PROVE  Serves(f, S, t, {})
  BY DEF Serves

LEMMA LevelRises ==
    ASSUME NEW f, NEW l, LevelsMatch(f, l), NEW s \in So, NEW id \in ProtoId, id \notin DOMAIN f,
           NEW g, g = [i \in DOMAIN f \cup {id} |-> IF i = id THEN <<s, id>> ELSE f[i]],
           NEW m, m = [l EXCEPT ![<<s, id>>] = @ + 1]
    PROVE  LevelsMatch(g, m)
<1>1. <<s, id>> \in Handler /\ <<s, id>>[2] = id
  BY DEF Handler
<1>2. m \in [Handler -> Nat]
  BY <1>1 DEF LevelsMatch
<1>3. ASSUME NEW h \in Handler
      PROVE  m[h] = IF h[2] \in DOMAIN g /\ g[h[2]] = h THEN 1 ELSE 0
  <2>1. CASE h = <<s, id>>
    BY <1>1, <2>1 DEF LevelsMatch
  <2>2. CASE h # <<s, id>>
    <3>1. m[h] = l[h]
      BY <1>1, <2>2 DEF LevelsMatch
    <3>2. CASE h[2] = id
      BY <2>2, <3>1, <3>2 DEF LevelsMatch
    <3>3. CASE h[2] # id
      BY <3>1, <3>3 DEF LevelsMatch
    <3> QED
      BY <3>2, <3>3
  <2> QED
    BY <2>1, <2>2
<1> QED
  BY <1>2, <1>3 DEF LevelsMatch

LEMMA LevelFalls ==
    ASSUME NEW f, NEW l, LevelsMatch(f, l), NEW id \in DOMAIN f, f[id] \in Handler, f[id][2] = id,
           NEW g, g = [i \in DOMAIN f \ {id} |-> f[i]],
           NEW m, m = [l EXCEPT ![f[id]] = @ - 1]
    PROVE  LevelsMatch(g, m)
<1>1. l[f[id]] = 1
  BY DEF LevelsMatch
<1>2. m \in [Handler -> Nat]
  BY <1>1 DEF LevelsMatch
<1>3. ASSUME NEW h \in Handler
      PROVE  m[h] = IF h[2] \in DOMAIN g /\ g[h[2]] = h THEN 1 ELSE 0
  <2>1. CASE h = f[id]
    BY <1>1, <2>1 DEF LevelsMatch
  <2>2. CASE h # f[id]
    <3>1. m[h] = l[h]
      BY <2>2 DEF LevelsMatch
    <3>2. CASE h[2] = id
      BY <2>2, <3>1, <3>2 DEF LevelsMatch
    <3>3. CASE h[2] # id
      BY <3>1, <3>3 DEF LevelsMatch
    <3> QED
      BY <3>2, <3>3
  <2> QED
    BY <2>1, <2>2
<1> QED
  BY <1>2, <1>3 DEF LevelsMatch

-----------------------------------------------------------------------------
(* Objects are opened and closed.                                          *)

LEMMA UsersAreFinite ==
    ASSUME NEW S, IsFiniteSet(S), NEW s
    PROVE  IsFiniteSet(UsersOf(S, s)) /\ Cardinality(UsersOf(S, s)) \in Nat
<1>1. UsersOf(S, s) \in SUBSET S
  BY DEF UsersOf
<1> QED
  BY <1>1, FS_Subset, FS_CardinalityType

LEMMA OneMoreUser ==
    ASSUME NEW S, IsFiniteSet(S), NEW p, p \notin S
    PROVE  /\ IsFiniteSet(S \cup {p})
           /\ Cardinality(UsersOf(S \cup {p}, so_of[p])) = Cardinality(UsersOf(S, so_of[p])) + 1
           /\ \A s : s # so_of[p] => UsersOf(S \cup {p}, s) = UsersOf(S, s)
<1>1. IsFiniteSet(S \cup {p})
  BY FS_AddElement
<1>2. UsersOf(S \cup {p}, so_of[p]) = UsersOf(S, so_of[p]) \cup {p} /\ p \notin UsersOf(S, so_of[p])
  BY DEF UsersOf
<1>3. Cardinality(UsersOf(S \cup {p}, so_of[p])) = Cardinality(UsersOf(S, so_of[p])) + 1
  BY <1>2, UsersAreFinite, FS_AddElement
<1>4. \A s : s # so_of[p] => UsersOf(S \cup {p}, s) = UsersOf(S, s)
  BY DEF UsersOf
<1> QED
  BY <1>1, <1>3, <1>4

LEMMA OneUserLess ==
    ASSUME NEW S, IsFiniteSet(S), NEW p \in S
    PROVE  /\ IsFiniteSet(S \ {p})
           /\ Cardinality(UsersOf(S \ {p}, so_of[p])) = Cardinality(UsersOf(S, so_of[p])) - 1
           /\ \A s : s # so_of[p] => UsersOf(S \ {p}, s) = UsersOf(S, s)
<1>1. IsFiniteSet(S \ {p})
  BY FS_RemoveElement
<1>2. UsersOf(S \ {p}, so_of[p]) = UsersOf(S, so_of[p]) \ {p} /\ p \in UsersOf(S, so_of[p])
  BY DEF UsersOf
<1>3. Cardinality(UsersOf(S \ {p}, so_of[p])) = Cardinality(UsersOf(S, so_of[p])) - 1
  BY <1>2, UsersAreFinite, FS_RemoveElement
<1>4. \A s : s # so_of[p] => UsersOf(S \ {p}, s) = UsersOf(S, s)
  BY DEF UsersOf
<1> QED
  BY <1>1, <1>3, <1>4

-----------------------------------------------------------------------------
(* The pieces of a step.                                                   *)

Iterator == ProtoId \cup {End, Dead}

(* Walks stay walks when some of their iterators die.                      *)
LEMMA KilledType ==
    ASSUME NEW S, walks \in Seq(Iterator)
    PROVE  D!Killed(S) \in Seq(Iterator)
<1>1. D!Killed(S) \in [1 .. Len(walks) -> Iterator] /\ Len(walks) \in Nat
  BY DEF D!Killed, Iterator
<1> QED
  BY <1>1

(* A call of the dispatcher's register_proto.                              *)
LEMMA RegisterEffect ==
    ASSUME NEW id, NEW h, walks \in Seq(Iterator), D!register_proto(id, h)
    PROVE  /\ UNCHANGED <<clearing, it>> /\ ret' \in {-1, 0, 1} /\ walks' \in Seq(Iterator)
           /\ \/ /\ ret' = 0 /\ id \notin DOMAIN m_handler_mgr
                 /\ m_handler_mgr' = [i \in DOMAIN m_handler_mgr \cup {id} |->
                                         IF i = id THEN h ELSE m_handler_mgr[i]]
                 /\ level' = [level EXCEPT ![h] = @ + 1]
              \/ ret' # 0 /\ UNCHANGED <<m_handler_mgr, level>>
<1>1. CASE D!register_accepted(id, h)
  <2>1. walks' \in Seq(Iterator)
    BY <1>1, KilledType DEF D!register_accepted
  <2> QED
    BY <1>1, <2>1 DEF D!register_accepted, D!Registered, D!clear
<1>2. CASE D!register_exists(id, h)
  BY <1>2 DEF D!register_exists, D!clear
<1>3. CASE D!register_fails(h)
  BY <1>3 DEF D!register_fails, D!clear
<1> QED
  BY <1>1, <1>2, <1>3, Zenon DEF D!register_proto

(* A call of the dispatcher's unregister_proto for a registered protocol.  *)
LEMMA UnregisterEffect ==
    ASSUME walks \in Seq(Iterator), NEW id \in DOMAIN m_handler_mgr, D!unregister_proto(id)
    PROVE  /\ UNCHANGED <<clearing, it>> /\ ret' = 0 /\ walks' \in Seq(Iterator)
           /\ m_handler_mgr' = [i \in DOMAIN m_handler_mgr \ {id} |-> m_handler_mgr[i]]
           /\ level' = [level EXCEPT ![m_handler_mgr[id]] = @ - 1]
<1>1. walks' \in Seq(Iterator)
  BY KilledType DEF D!unregister_proto, D!Registered
<1> QED
  BY <1>1 DEF D!unregister_proto, D!Registered, D!clear, D!Remove, D!Restrict

LEMMA TableType ==
    ASSUME NEW f, NEW S, S \subseteq Path, NEW s, NEW M, M \subseteq ProtoId, Serves(f, S, s, M)
    PROVE  DOMAIN f \subseteq ProtoId /\ D!Range(f) \subseteq Handler
<1>1. Served(S) \subseteq ProtoId
  BY SoOfAssumption, ProtosAssumption DEF Served
<1>2. ASSUME NEW id \in DOMAIN f \ (Served(S) \cup M) PROVE id \in ProtoId
  <2>1. f[id] \in Handler /\ f[id][2] = id
    BY DEF Serves
  <2> QED
    BY <2>1 DEF Handler
<1> QED
  BY <1>1, <1>2 DEF Serves, D!Range

(* The types of the dispatcher's variables, after a call of it.            *)
LEMMA DispatcherType ==
    ASSUME D!TypeOK, UNCHANGED <<clearing, it>>, ret' \in {-1, 0, 1}, walks' \in Seq(Iterator),
           DOMAIN m_handler_mgr' \subseteq ProtoId, D!Range(m_handler_mgr') \subseteq Handler,
           level' \in [Handler -> Nat]
    PROVE  D!TypeOK'
  BY DEF D!TypeOK, D!Registered, Iterator

LEMMA DispatcherKept ==
    ASSUME D!TypeOK, UNCHANGED dispatcher
    PROVE  /\ D!TypeOK'
           /\ m_handler_mgr' = m_handler_mgr /\ level' = level
  BY DEF dispatcher, D!TypeOK, D!Registered

LEMMA WalksFact ==
    ASSUME LoaderInv
    PROVE  walks \in Seq(Iterator)
  BY DEF LoaderInv, TypeOK, D!TypeOK, Iterator

(* The end of a call, in a list of calls or by itself.                     *)
LEMMA Returning ==
    ASSUME TypeOK, NEW r \in Int, Return(r), op # "none" => rest # << >>
    PROVE  /\ pc' = "idle" /\ result' \in Int
           /\ op' = op /\ rest' \in Seq(Path) /\ count' \in Nat
<1>1. rest \in Seq(Path) /\ count \in Nat
  BY DEF TypeOK
<1>2. CASE op = "none"
  BY <1>1, <1>2 DEF Return, list
<1>3. CASE op # "none"
  <2>1. rest # << >> /\ rest' = Tail(rest) /\ count' = count + 1 /\ op' = op
    BY <1>3 DEF Return
  <2> QED
    BY <1>1, <2>1 DEF Return
<1> QED
  BY <1>2, <1>3

LEMMA CallFacts ==
    ASSUME NEW o, o # "none", NEW p, Call(o, p)
    PROVE  pc = "idle" /\ (op # "none" => rest # << >>)
  BY DEF Call

(* The object of the current path.                                         *)
LEMMA ObjectFacts ==
    ASSUME TypeOK
    PROVE  /\ path \in Path /\ so \in So /\ Protos[so] \subseteq ProtoId
           /\ \A p \in Path : so_of[p] \in So /\ Protos[so_of[p]] \subseteq ProtoId
  BY SoOfAssumption, ProtosAssumption DEF TypeOK, so

-----------------------------------------------------------------------------
(* Every step keeps the invariant.                                         *)

LEMMA LoaderInitially == Init => LoaderInv
<1> SUFFICES ASSUME Init PROVE LoaderInv
  OBVIOUS
<1>1. /\ m_handler_mgr = << >> /\ DOMAIN m_handler_mgr = {}
      /\ level = [h \in Handler |-> 0] /\ pc = "idle" /\ m_plugins = {}
  BY DEF Init, D!Init
<1>2. Others = {} /\ Mine = {} /\ Opened = {}
  BY <1>1 DEF Others, Mine, Opened
<1>3. Serves(m_handler_mgr, {}, so, {})
  BY <1>1 DEF Serves, Served
<1>4. LevelsMatch(m_handler_mgr, level) /\ Apart({})
  BY <1>1 DEF LevelsMatch, Apart
<1>5. Counts({}, active, refs, leaked)
  <2>1. \A s : UsersOf({}, s) = {}
    BY DEF UsersOf
  <2>2. IsFiniteSet({}) /\ Cardinality({}) = 0
    BY FS_EmptySet
  <2>3. \A s \in So : active[s] = 0 /\ refs[s] = 0 /\ leaked[s] = 0
    BY DEF Init
  <2> QED
    BY <2>1, <2>2, <2>3 DEF Counts
<1>6. TypeOK
  <2>1. path \in Path
    BY PathAssumption DEF Init
  <2>2. D!TypeOK
    <3>1. D!Range(m_handler_mgr) \subseteq Handler
      BY <1>1 DEF D!Range
    <3>2. walks \in Seq(ProtoId \cup {End, Dead})
      BY DEF Init, D!Init
    <3>3. clearing = FALSE /\ it = End /\ ret = 0
      BY DEF Init, D!Init
    <3>4. level \in [Handler -> Nat]
      BY <1>1
    <3> QED
      BY <1>1, <3>1, <3>2, <3>3, <3>4 DEF D!TypeOK, D!Registered
  <2> QED
    BY <2>1, <2>2, BoundsAssumption DEF Init, TypeOK
<1> QED
  BY <1>1, <1>2, <1>3, <1>4, <1>5, <1>6 DEF LoaderInv, CallInv, TableInv

(* A call that changes nothing.                                            *)
LEMMA NothingDoneStep ==
    ASSUME LoaderInv, NEW o \in {"load", "unload"}, NEW p \in Path, Call(o, p),
           NEW r \in Int, Return(r),
           UNCHANGED <<dispatcher, m_plugins, linker, active, path, todo>>
    PROVE  LoaderInv'
<1>1. pc = "idle" /\ (op # "none" => rest # << >>)
  BY CallFacts
<1>2. /\ pc' = "idle" /\ result' \in Int
      /\ op' = op /\ rest' \in Seq(Path) /\ count' \in Nat
  BY <1>1, Returning DEF LoaderInv
<1>3. D!TypeOK' /\ m_handler_mgr' = m_handler_mgr /\ level' = level
  BY DispatcherKept DEF LoaderInv, TypeOK
<1>4. Others' = Others /\ Mine' = Mine /\ Opened' = Opened /\ so' = so
  BY <1>1, <1>2 DEF Others, Mine, Opened, so
<1>5. TypeOK'
  BY <1>2, <1>3 DEF LoaderInv, TypeOK, linker
<1>6. TableInv'
  BY <1>3, <1>4 DEF LoaderInv, TableInv
<1>7. Counts(Opened, active, refs, leaked)'
  BY <1>4 DEF LoaderInv, linker
<1> QED
  BY <1>2, <1>5, <1>6, <1>7 DEF LoaderInv, CallInv

LEMMA LoadOpenStep ==
    ASSUME LoaderInv, NEW p \in Path, load_open(p)
    PROVE  LoaderInv'
<1>1. pc = "idle" /\ (op # "none" => rest # << >>) /\ p \notin m_plugins
  BY CallFacts DEF load_open
<1>2. PICK s \in So : s = so_of[p]
  BY SoOfAssumption
<1>3. /\ pc' = "register" /\ path' = p /\ todo' = Protos[s] /\ so' = s
      /\ m_plugins' = m_plugins /\ leaked' = leaked /\ result' = result
      /\ op' = op /\ rest' = rest /\ count' = count
      /\ refs' = [refs EXCEPT ![s] = @ + 1] /\ active' = [active EXCEPT ![s] = @ + 1]
  BY <1>2 DEF load_open, list, so
<1>4. D!TypeOK' /\ m_handler_mgr' = m_handler_mgr /\ level' = level
  BY DispatcherKept DEF LoaderInv, TypeOK, load_open
<1>5. /\ Others = m_plugins /\ Mine = {} /\ Opened = m_plugins
      /\ Others' = m_plugins /\ Mine' = {} /\ Opened' = m_plugins \cup {p}
  BY <1>1, <1>3 DEF Others, Mine, Opened
<1>6. TypeOK'
  <2>1. Protos[s] \subseteq ProtoId
    BY ProtosAssumption
  <2>2. refs' \in [So -> Nat] /\ active' \in [So -> Nat]
    BY <1>3 DEF LoaderInv, TypeOK
  <2> QED
    BY <1>3, <1>4, <2>1, <2>2 DEF LoaderInv, TypeOK
<1>7. CallInv'
  BY <1>1, <1>3 DEF CallInv
<1>8. TableInv'
  <2>1. Serves(m_handler_mgr, m_plugins, so, {})
    BY <1>5 DEF LoaderInv, TableInv
  <2>2. Serves(m_handler_mgr, m_plugins, s, {})
    BY <2>1, ServesIdle
  <2> QED
    BY <1>3, <1>4, <1>5, <2>2 DEF LoaderInv, TableInv
<1>9. Counts(m_plugins \cup {p}, active', refs', leaked)
  <2>1. Counts(m_plugins, active, refs, leaked)
    BY <1>5 DEF LoaderInv
  <2>2. /\ IsFiniteSet(m_plugins \cup {p})
        /\ Cardinality(UsersOf(m_plugins \cup {p}, s)) = Cardinality(UsersOf(m_plugins, s)) + 1
        /\ \A t : t # s => UsersOf(m_plugins \cup {p}, t) = UsersOf(m_plugins, t)
    <3>1. IsFiniteSet(m_plugins)
      BY <2>1 DEF Counts
    <3> QED
      BY <1>1, <1>2, <3>1, OneMoreUser
  <2>3. ASSUME NEW t \in So
        PROVE  /\ refs'[t] = Cardinality(UsersOf(m_plugins \cup {p}, t)) + leaked[t]
               /\ active'[t] >= Cardinality(UsersOf(m_plugins \cup {p}, t))
               /\ t \in HasUninit => active'[t] = Cardinality(UsersOf(m_plugins \cup {p}, t))
    <3>1. /\ refs[t] = Cardinality(UsersOf(m_plugins, t)) + leaked[t]
          /\ active[t] >= Cardinality(UsersOf(m_plugins, t))
          /\ t \in HasUninit => active[t] = Cardinality(UsersOf(m_plugins, t))
          /\ active[t] \in Nat /\ refs[t] \in Nat /\ leaked[t] \in Int
          /\ Cardinality(UsersOf(m_plugins, t)) \in Nat
      BY <2>1, BoundsAssumption, UsersAreFinite DEF Counts, LoaderInv, TypeOK
    <3>2. CASE t = s
      <4>1. active'[t] = active[t] + 1 /\ refs'[t] = refs[t] + 1
        BY <1>3, <3>2 DEF LoaderInv, TypeOK
      <4> QED
        BY <2>2, <3>1, <3>2, <4>1
    <3>3. CASE t # s
      <4>1. active'[t] = active[t] /\ refs'[t] = refs[t]
        BY <1>3, <3>3 DEF LoaderInv, TypeOK
      <4> QED
        BY <2>2, <3>1, <3>3, <4>1
    <3> QED
      BY <3>2, <3>3
  <2> QED
    BY <2>2, <2>3 DEF Counts
<1> QED
  BY <1>3, <1>5, <1>6, <1>7, <1>8, <1>9 DEF LoaderInv

(* A load fails and so does its dlclose.                                   *)
LEMMA LeftOpenStep ==
    ASSUME LoaderInv, NEW p \in Path, load_fails_open(p)
    PROVE  LoaderInv'
<1>1. pc = "idle" /\ (op # "none" => rest # << >>)
  BY CallFacts DEF load_fails_open
<1>2. PICK s \in So : s = so_of[p]
  BY SoOfAssumption
<1>3. /\ pc' = "idle" /\ result' \in Int
      /\ op' = op /\ rest' \in Seq(Path) /\ count' \in Nat
  <2>1. Return(-1)
    BY DEF load_fails_open
  <2> QED
    BY <1>1, <2>1, Returning DEF LoaderInv
<1>4. D!TypeOK' /\ m_handler_mgr' = m_handler_mgr /\ level' = level
  BY DispatcherKept DEF LoaderInv, TypeOK, load_fails_open
<1>5. /\ m_plugins' = m_plugins /\ active' = active /\ path' = path /\ todo' = todo /\ so' = so
      /\ refs' = [refs EXCEPT ![s] = @ + 1] /\ leaked' = [leaked EXCEPT ![s] = @ + 1]
      /\ leaked[s] < MaxLeaks
  BY <1>2 DEF load_fails_open, CloseFails, so
<1>6. Others' = Others /\ Mine' = Mine /\ Opened' = Opened
  BY <1>1, <1>3, <1>5 DEF Others, Mine, Opened
<1>7. TypeOK'
  <2>1. refs' \in [So -> Nat] /\ leaked' \in [So -> 0 .. MaxLeaks]
    BY <1>5, BoundsAssumption DEF LoaderInv, TypeOK
  <2> QED
    BY <1>3, <1>4, <1>5, <2>1 DEF LoaderInv, TypeOK
<1>8. TableInv'
  BY <1>4, <1>5, <1>6 DEF LoaderInv, TableInv
<1>9. Counts(Opened, active', refs', leaked')
  <2>1. Counts(Opened, active, refs, leaked)
    BY DEF LoaderInv
  <2>2. ASSUME NEW t \in So
        PROVE  refs'[t] = Cardinality(UsersOf(Opened, t)) + leaked'[t]
    <3>1. /\ refs[t] = Cardinality(UsersOf(Opened, t)) + leaked[t]
          /\ leaked[t] \in Int /\ Cardinality(UsersOf(Opened, t)) \in Nat
      BY <2>1, BoundsAssumption, UsersAreFinite DEF Counts, LoaderInv, TypeOK
    <3>2. \/ refs'[t] = refs[t] /\ leaked'[t] = leaked[t]
          \/ refs'[t] = refs[t] + 1 /\ leaked'[t] = leaked[t] + 1
      BY <1>5 DEF LoaderInv, TypeOK
    <3> QED
      BY <3>1, <3>2
  <2> QED
    BY <1>5, <2>1, <2>2 DEF Counts
<1> QED
  BY <1>1, <1>3, <1>6, <1>7, <1>8, <1>9 DEF LoaderInv, CallInv

LEMMA PluginRegisterStep ==
    ASSUME LoaderInv, NEW id \in ProtoId, plugin_register(id)
    PROVE  LoaderInv'
<1>1. PICK s \in So : s = so
  BY ObjectFacts DEF LoaderInv
<1>2. PICK M : M = Protos[s] \ todo
  OBVIOUS
<1>3. /\ pc = "register" /\ id \in todo /\ todo \subseteq Protos[s]
      /\ path \notin m_plugins /\ (op # "none" => rest # << >>)
      /\ Protos[s] \subseteq ProtoId
  BY <1>1, ObjectFacts DEF LoaderInv, CallInv, plugin_register
<1>4. /\ m_plugins' = m_plugins /\ refs' = refs /\ leaked' = leaked /\ active' = active
      /\ path' = path /\ result' = result /\ op' = op /\ rest' = rest /\ count' = count
      /\ so' = s
  BY <1>1 DEF plugin_register, linker, list, so
<1>5. /\ UNCHANGED <<clearing, it>> /\ ret' \in {-1, 0, 1} /\ walks' \in Seq(Iterator)
      /\ \/ /\ ret' = 0 /\ id \notin DOMAIN m_handler_mgr
            /\ m_handler_mgr' = [i \in DOMAIN m_handler_mgr \cup {id} |->
                                    IF i = id THEN <<s, id>> ELSE m_handler_mgr[i]]
            /\ level' = [level EXCEPT ![<<s, id>>] = @ + 1]
         \/ ret' # 0 /\ UNCHANGED <<m_handler_mgr, level>>
  <2>1. D!register_proto(id, <<s, id>>)
    BY <1>1, Zenon DEF plugin_register
  <2> QED
    BY <2>1, WalksFact, RegisterEffect, Zenon
<1>6. Serves(m_handler_mgr, m_plugins, s, M) /\ LevelsMatch(m_handler_mgr, level) /\ Apart(m_plugins)
  <2>1. Others = m_plugins /\ Mine = M
    BY <1>1, <1>2, <1>3 DEF Others, Mine
  <2> QED
    BY <1>1, <2>1 DEF LoaderInv, TableInv
<1>7. /\ todo' \subseteq Protos[s] /\ pc' \in {"register", "withdraw"}
      /\ LevelsMatch(m_handler_mgr', level')
      /\ Serves(m_handler_mgr', m_plugins, s, Mine')
      /\ Mine' \subseteq ProtoId
  <2>1. CASE ret' = 0
    <3>1. todo' = todo \ {id} /\ pc' = "register"
      BY <1>3, <2>1 DEF plugin_register
    <3>2. Mine' = M \cup {id}
      BY <1>2, <1>3, <1>4, <3>1 DEF Mine
    <3>3. Serves(m_handler_mgr', m_plugins, s, M \cup {id})
      BY <1>5, <1>6, <2>1, ServesOneMore
    <3>4. LevelsMatch(m_handler_mgr', level')
      <4>1. /\ id \notin DOMAIN m_handler_mgr
            /\ m_handler_mgr' = [i \in DOMAIN m_handler_mgr \cup {id} |->
                                    IF i = id THEN <<s, id>> ELSE m_handler_mgr[i]]
            /\ level' = [level EXCEPT ![<<s, id>>] = @ + 1]
        BY <1>5, <2>1, Zenon
      <4> QED
        BY <1>6, <4>1, LevelRises, Zenon
    <3> QED
      BY <1>2, <1>3, <3>1, <3>2, <3>3, <3>4
  <2>2. CASE ret' # 0
    <3>1. todo' = M /\ pc' = "withdraw"
      BY <1>1, <1>2, <2>2 DEF plugin_register
    <3>2. Mine' = M
      BY <3>1 DEF Mine
    <3> QED
      BY <1>2, <1>3, <1>5, <1>6, <2>2, <3>1, <3>2
  <2> QED
    BY <2>1, <2>2
<1>8. Others' = m_plugins /\ Opened' = Opened
  BY <1>3, <1>4, <1>7 DEF Others, Opened
<1>9. TypeOK'
  <2>1. DOMAIN m_handler_mgr' \subseteq ProtoId /\ D!Range(m_handler_mgr') \subseteq Handler
    <3>1. m_plugins \subseteq Path
      BY DEF LoaderInv, TypeOK
    <3> QED
      BY <1>7, <3>1, TableType
  <2>2. D!TypeOK'
    BY <1>5, <1>7, <2>1, DispatcherType DEF LoaderInv, TypeOK, LevelsMatch
  <2> QED
    BY <1>3, <1>4, <1>7, <2>2 DEF LoaderInv, TypeOK
<1>10. CallInv'
  BY <1>3, <1>4, <1>7 DEF CallInv
<1>11. TableInv'
  BY <1>4, <1>6, <1>7, <1>8 DEF TableInv
<1>12. Counts(Opened, active, refs, leaked)'
  BY <1>4, <1>8 DEF LoaderInv
<1> QED
  BY <1>9, <1>10, <1>11, <1>12 DEF LoaderInv

(* The plugin withdraws a protocol, in a failed load or in an unload.      *)
LEMMA PluginRemoveStep ==
    ASSUME LoaderInv, NEW id \in ProtoId, plugin_withdraw(id) \/ plugin_unregister(id)
    PROVE  LoaderInv'
<1>1. PICK s \in So : s = so
  BY ObjectFacts DEF LoaderInv
<1>2. /\ pc \in {"withdraw", "unregister"} /\ id \in todo /\ todo \subseteq Protos[s]
      /\ (path \in m_plugins <=> pc = "unregister") /\ (op # "none" => rest # << >>)
      /\ Protos[s] \subseteq ProtoId
  BY <1>1, ObjectFacts DEF LoaderInv, CallInv, plugin_withdraw, plugin_unregister
<1>3. /\ m_plugins' = m_plugins /\ refs' = refs /\ leaked' = leaked /\ active' = active
      /\ path' = path /\ result' = result /\ op' = op /\ rest' = rest /\ count' = count
      /\ pc' = pc /\ so' = s /\ todo' = todo \ {id}
  BY <1>1 DEF plugin_withdraw, plugin_unregister, linker, list, so
<1>4. PICK S : S = Others
  OBVIOUS
<1>5. Mine = todo /\ Mine' = todo \ {id} /\ Others' = S /\ Opened' = Opened
  BY <1>2, <1>3, <1>4 DEF Mine, Others, Opened
<1>6. Serves(m_handler_mgr, S, s, todo) /\ LevelsMatch(m_handler_mgr, level) /\ Apart(m_plugins)
  BY <1>1, <1>4, <1>5 DEF LoaderInv, TableInv
<1>7. /\ id \in DOMAIN m_handler_mgr /\ m_handler_mgr[id] = <<s, id>>
      /\ m_handler_mgr[id] \in Handler /\ m_handler_mgr[id][2] = id
  BY <1>2, <1>6 DEF Serves, Handler
<1>8. /\ UNCHANGED <<clearing, it>> /\ ret' = 0 /\ walks' \in Seq(Iterator)
      /\ m_handler_mgr' = [i \in DOMAIN m_handler_mgr \ {id} |-> m_handler_mgr[i]]
      /\ level' = [level EXCEPT ![m_handler_mgr[id]] = @ - 1]
  BY <1>7, WalksFact, UnregisterEffect DEF plugin_withdraw, plugin_unregister
<1>9. Serves(m_handler_mgr', S, s, todo \ {id})
  BY <1>2, <1>6, <1>8, ServesOneLess
<1>10. LevelsMatch(m_handler_mgr', level')
  BY <1>6, <1>7, <1>8, LevelFalls
<1>11. TypeOK'
  <2>1. S \subseteq Path /\ todo \ {id} \subseteq ProtoId
    BY <1>2, <1>4 DEF LoaderInv, TypeOK, Others
  <2>2. DOMAIN m_handler_mgr' \subseteq ProtoId /\ D!Range(m_handler_mgr') \subseteq Handler
    BY <1>9, <2>1, TableType
  <2>3. D!TypeOK'
    BY <1>8, <1>10, <2>2, DispatcherType DEF LoaderInv, TypeOK, LevelsMatch
  <2> QED
    BY <1>3, <2>1, <2>3 DEF LoaderInv, TypeOK
<1>12. CallInv'
  BY <1>2, <1>3 DEF CallInv
<1>13. TableInv'
  BY <1>3, <1>5, <1>6, <1>9, <1>10 DEF TableInv
<1>14. Counts(Opened, active, refs, leaked)'
  BY <1>3, <1>5 DEF LoaderInv
<1> QED
  BY <1>11, <1>12, <1>13, <1>14 DEF LoaderInv

(* All protocols of the plugin are registered.                             *)
LEMMA LoadDoneStep ==
    ASSUME LoaderInv, load_done
    PROVE  LoaderInv'
<1>1. PICK s \in So : s = so /\ s = so_of[path]
  BY ObjectFacts DEF LoaderInv, so
<1>2. pc = "register" /\ todo = {} /\ path \in Path /\ (op # "none" => rest # << >>)
  BY DEF LoaderInv, CallInv, TypeOK, load_done
<1>3. /\ pc' = "idle" /\ result' \in Int
      /\ op' = op /\ rest' \in Seq(Path) /\ count' \in Nat
  BY <1>2, Returning DEF LoaderInv, load_done
<1>4. D!TypeOK' /\ m_handler_mgr' = m_handler_mgr /\ level' = level
  BY DispatcherKept DEF LoaderInv, TypeOK, load_done
<1>5. /\ m_plugins' = m_plugins \cup {path} /\ refs' = refs /\ leaked' = leaked
      /\ active' = active /\ path' = path /\ todo' = todo /\ so' = so
  BY DEF load_done, linker, so
<1>6. /\ Others = m_plugins /\ Mine = Protos[s] /\ Opened = m_plugins \cup {path}
      /\ Others' = m_plugins \cup {path} /\ Mine' = {} /\ Opened' = m_plugins \cup {path}
  BY <1>1, <1>2, <1>3, <1>5 DEF Others, Mine, Opened
<1>7. TypeOK'
  BY <1>2, <1>3, <1>4, <1>5 DEF LoaderInv, TypeOK
<1>8. TableInv'
  <2>1. Serves(m_handler_mgr, m_plugins, s, Protos[s]) /\ Apart(m_plugins)
    BY <1>1, <1>6 DEF LoaderInv, TableInv
  <2>2. Serves(m_handler_mgr, m_plugins \cup {path}, so, {}) /\ Apart(m_plugins \cup {path})
    BY <1>1, <2>1, ServesLoaded
  <2> QED
    BY <1>4, <1>5, <1>6, <2>2 DEF LoaderInv, TableInv
<1>9. Counts(Opened, active, refs, leaked)'
  BY <1>5, <1>6 DEF LoaderInv
<1> QED
  BY <1>3, <1>7, <1>8, <1>9 DEF LoaderInv, CallInv

(* The plugin's unregister_proto is called.                                *)
LEMMA UnloadBeginStep ==
    ASSUME LoaderInv, NEW p \in Path, unload_begin(p)
    PROVE  LoaderInv'
<1>1. pc = "idle" /\ (op # "none" => rest # << >>) /\ p \in m_plugins
  BY CallFacts DEF unload_begin
<1>2. PICK s \in So : s = so_of[p]
  BY SoOfAssumption
<1>3. /\ pc' = "unregister" /\ path' = p /\ so' = s
      /\ todo' = IF s \in HasUnregister THEN Protos[s] ELSE {}
      /\ m_plugins' = m_plugins /\ leaked' = leaked /\ refs' = refs /\ active' = active
      /\ result' = result /\ op' = op /\ rest' = rest /\ count' = count
  BY <1>2 DEF unload_begin, linker, list, so
<1>4. D!TypeOK' /\ m_handler_mgr' = m_handler_mgr /\ level' = level
  BY DispatcherKept DEF LoaderInv, TypeOK, unload_begin
<1>5. /\ Others = m_plugins /\ Mine = {} /\ Opened = m_plugins
      /\ Others' = m_plugins \ {p} /\ Mine' = todo' /\ Opened' = m_plugins
  BY <1>1, <1>3 DEF Others, Mine, Opened
<1>6. TypeOK'
  <2>1. Protos[s] \subseteq ProtoId
    BY ProtosAssumption
  <2> QED
    BY <1>3, <1>4, <2>1 DEF LoaderInv, TypeOK
<1>7. CallInv'
  BY <1>1, <1>3 DEF CallInv
<1>8. TableInv'
  <2>1. Serves(m_handler_mgr, m_plugins, so, {}) /\ Apart(m_plugins)
    BY <1>5 DEF LoaderInv, TableInv
  <2>2. Serves(m_handler_mgr, m_plugins \ {p}, s, todo')
    <3>1. Serves(m_handler_mgr, m_plugins \ {p}, s, Protos[s])
      BY <1>1, <1>2, <2>1, ServesUnloading
    <3> QED
      BY <1>3, <3>1, ServesAbandoned
  <2> QED
    BY <1>3, <1>4, <1>5, <2>1, <2>2 DEF LoaderInv, TableInv
<1>9. Counts(Opened, active, refs, leaked)'
  BY <1>3, <1>5 DEF LoaderInv
<1> QED
  BY <1>6, <1>7, <1>8, <1>9 DEF LoaderInv

(* One path less by which an object is open, or a failed dlclose more.     *)
LEMMA CountsClosing ==
    ASSUME NEW S, NEW p \in S, NEW s \in So, s = so_of[p],
           Counts(S, active, refs, leaked),
           active \in [So -> Nat], refs \in [So -> Nat], leaked \in [So -> Nat],
           Uninit(s),
           \/ refs' = [refs EXCEPT ![s] = @ - 1] /\ leaked' = leaked
           \/ refs' = refs /\ leaked' = [leaked EXCEPT ![s] = @ + 1]
    PROVE  /\ Counts(S \ {p}, active', refs', leaked')
           /\ active' \in [So -> Nat] /\ refs' \in [So -> Nat]
<1>1. IsFiniteSet(S)
  BY DEF Counts
<1>2. /\ IsFiniteSet(S \ {p})
      /\ Cardinality(UsersOf(S \ {p}, s)) = Cardinality(UsersOf(S, s)) - 1
      /\ \A t : t # s => UsersOf(S \ {p}, t) = UsersOf(S, t)
  BY <1>1, OneUserLess
<1>3. ASSUME NEW t \in So
      PROVE  /\ refs'[t] = Cardinality(UsersOf(S \ {p}, t)) + leaked'[t]
             /\ active'[t] >= Cardinality(UsersOf(S \ {p}, t))
             /\ t \in HasUninit => active'[t] = Cardinality(UsersOf(S \ {p}, t))
             /\ active'[t] \in Nat /\ refs'[t] \in Nat
  <2>1. /\ refs[t] = Cardinality(UsersOf(S, t)) + leaked[t]
        /\ active[t] >= Cardinality(UsersOf(S, t))
        /\ t \in HasUninit => active[t] = Cardinality(UsersOf(S, t))
        /\ active[t] \in Nat /\ refs[t] \in Nat /\ leaked[t] \in Nat
        /\ Cardinality(UsersOf(S, t)) \in Nat
    BY <1>1, UsersAreFinite DEF Counts
  <2>2. CASE t = s
    <3>1. /\ active'[t] = IF t \in HasUninit THEN active[t] - 1 ELSE active[t]
          /\ \/ refs'[t] = refs[t] - 1 /\ leaked'[t] = leaked[t]
             \/ refs'[t] = refs[t] /\ leaked'[t] = leaked[t] + 1
      BY <2>2 DEF Uninit
    <3>2. Cardinality(UsersOf(S \ {p}, s)) \in Nat
      BY <1>2, UsersAreFinite
    <3> QED
      BY <1>2, <2>1, <2>2, <3>1, <3>2
  <2>3. CASE t # s
    <3>1. active'[t] = active[t] /\ refs'[t] = refs[t] /\ leaked'[t] = leaked[t]
      BY <2>3 DEF Uninit
    <3> QED
      BY <1>2, <2>1, <2>3, <3>1
  <2> QED
    BY <2>2, <2>3
<1>4. active' \in [So -> Nat] /\ refs' \in [So -> Nat]
  <2>1. active' = [t \in So |-> active'[t]] /\ refs' = [t \in So |-> refs'[t]]
    BY DEF Uninit
  <2> QED
    BY <1>3, <2>1
<1> QED
  BY <1>2, <1>3, <1>4 DEF Counts

(* The last step of a failed load, or of an unload.                        *)
LEMMA CloseStep ==
    ASSUME LoaderInv, \E closed \in BOOLEAN : load_undo(closed) \/ unload_end(closed)
    PROVE  LoaderInv'
<1>1. PICK s \in So : s = so /\ s = so_of[path]
  BY ObjectFacts DEF LoaderInv, so
<1>2. PICK S : S = Opened
  OBVIOUS
<1>3. /\ pc \in {"withdraw", "unregister"} /\ todo = {}
      /\ (path \in m_plugins <=> pc = "unregister") /\ (op # "none" => rest # << >>)
  BY DEF LoaderInv, CallInv, load_undo, unload_end
<1>4. PICK r \in Int : Return(r)
  BY DEF load_undo, unload_end
<1>5. /\ pc' = "idle" /\ result' \in Int
      /\ op' = op /\ rest' \in Seq(Path) /\ count' \in Nat
  BY <1>3, <1>4, Returning DEF LoaderInv
<1>6. D!TypeOK' /\ m_handler_mgr' = m_handler_mgr /\ level' = level
  BY DispatcherKept DEF LoaderInv, TypeOK, load_undo, unload_end
<1>7. /\ Uninit(s)
      /\ \/ refs' = [refs EXCEPT ![s] = @ - 1] /\ leaked' = leaked
         \/ /\ refs' = refs /\ leaked' = [leaked EXCEPT ![s] = @ + 1]
            /\ leaked[s] < MaxLeaks
      /\ m_plugins' = IF pc = "unregister" THEN m_plugins \ {path} ELSE m_plugins
      /\ path' = path /\ todo' = todo /\ so' = so
  <2>1. PICK closed \in BOOLEAN : load_undo(closed) \/ unload_end(closed)
    OBVIOUS
  <2>2. Close(s, closed) /\ Uninit(s)
    BY <1>1, <2>1, Zenon DEF load_undo, unload_end
  <2>3. /\ m_plugins' = IF pc = "unregister" THEN m_plugins \ {path} ELSE m_plugins
        /\ path' = path /\ todo' = todo /\ so' = so
    BY <2>1 DEF load_undo, unload_end, so
  <2> QED
    BY <2>2, <2>3 DEF Close, CloseFails
<1>8. /\ m_plugins' = Others /\ Others' = Others /\ Mine = {} /\ Mine' = {}
      /\ path \in S /\ Opened' = S \ {path}
  BY <1>2, <1>3, <1>5, <1>7 DEF Others, Mine, Opened
<1>9. leaked \in [So -> Nat]
  BY BoundsAssumption DEF LoaderInv, TypeOK
<1>10. Counts(S \ {path}, active', refs', leaked') /\ active' \in [So -> Nat] /\ refs' \in [So -> Nat]
  <2>1. active \in [So -> Nat] /\ refs \in [So -> Nat] /\ Counts(S, active, refs, leaked)
    BY <1>2 DEF LoaderInv, TypeOK
  <2>2. /\ Uninit(s)
        /\ \/ refs' = [refs EXCEPT ![s] = @ - 1] /\ leaked' = leaked
           \/ refs' = refs /\ leaked' = [leaked EXCEPT ![s] = @ + 1]
    BY <1>7, Zenon
  <2>3. PICK p \in S : p = path /\ s = so_of[p]
    BY <1>1, <1>8
  <2>4. /\ Counts(S \ {p}, active', refs', leaked')
        /\ active' \in [So -> Nat] /\ refs' \in [So -> Nat]
    BY <1>9, <2>1, <2>2, <2>3, CountsClosing, Zenon
  <2> QED
    BY <2>3, <2>4
<1>11. leaked' \in [So -> 0 .. MaxLeaks]
  <2>1. leaked \in [So -> 0 .. MaxLeaks]
    BY DEF LoaderInv, TypeOK
  <2>2. leaked[s] < MaxLeaks => leaked[s] + 1 \in 0 .. MaxLeaks
    BY <2>1, BoundsAssumption
  <2> QED
    BY <1>7, <2>1, <2>2
<1>12. TypeOK'
  <2>1. Others \subseteq Path
    BY DEF LoaderInv, TypeOK, Others
  <2> QED
    BY <1>5, <1>6, <1>7, <1>8, <1>10, <1>11, <2>1 DEF LoaderInv, TypeOK
<1>13. TableInv'
  <2>1. Apart(Others)
    BY DEF LoaderInv, TableInv, Others, Apart
  <2> QED
    BY <1>6, <1>7, <1>8, <2>1 DEF LoaderInv, TableInv
<1> QED
  BY <1>5, <1>8, <1>10, <1>12, <1>13 DEF LoaderInv, CallInv

(* A list of calls begins.                                                 *)
LEMMA ListBeginStep ==
    ASSUME LoaderInv, NEW o \in {"load", "unload"}, NEW paths \in Seq(Path), ListBegin(o, paths)
    PROVE  LoaderInv'
<1>1. D!TypeOK' /\ m_handler_mgr' = m_handler_mgr /\ level' = level
  BY DispatcherKept DEF LoaderInv, TypeOK, ListBegin
<1>2. /\ pc = "idle" /\ op' = o /\ rest' = paths /\ count' = 0
      /\ m_plugins' = m_plugins /\ refs' = refs /\ leaked' = leaked /\ active' = active
      /\ pc' = pc /\ path' = path /\ todo' = todo /\ result' = result
  BY DEF ListBegin, linker
<1>3. Others' = Others /\ Mine' = Mine /\ Opened' = Opened /\ so' = so
  BY <1>2 DEF Others, Mine, Opened, so
<1>4. TypeOK'
  BY <1>1, <1>2 DEF LoaderInv, TypeOK
<1>5. TableInv'
  BY <1>1, <1>2, <1>3 DEF LoaderInv, TableInv
<1>6. Counts(Opened, active, refs, leaked)'
  BY <1>2, <1>3 DEF LoaderInv
<1> QED
  BY <1>2, <1>4, <1>5, <1>6 DEF LoaderInv, CallInv

LEMMA ListEndStep ==
    ASSUME LoaderInv, ListEnd
    PROVE  LoaderInv'
<1>1. D!TypeOK' /\ m_handler_mgr' = m_handler_mgr /\ level' = level
  BY DispatcherKept DEF LoaderInv, TypeOK, ListEnd
<1>2. /\ pc = "idle" /\ op' = "none" /\ rest' = rest /\ count' = count /\ result' = count
      /\ m_plugins' = m_plugins /\ refs' = refs /\ leaked' = leaked /\ active' = active
      /\ pc' = pc /\ path' = path /\ todo' = todo
  BY DEF ListEnd, linker
<1>3. Others' = Others /\ Mine' = Mine /\ Opened' = Opened /\ so' = so
  BY <1>2 DEF Others, Mine, Opened, so
<1>4. TypeOK'
  BY <1>1, <1>2 DEF LoaderInv, TypeOK
<1>5. TableInv'
  BY <1>1, <1>2, <1>3 DEF LoaderInv, TableInv
<1>6. Counts(Opened, active, refs, leaked)'
  BY <1>2, <1>3 DEF LoaderInv
<1> QED
  BY <1>2, <1>4, <1>5, <1>6 DEF LoaderInv, CallInv

(* What may be a list of paths.                                            *)
LEMMA ListsOfPaths ==
    /\ \A paths \in Lists : paths \in Seq(Path)
    /\ LoaderInv => \A paths \in [1 .. Cardinality(m_plugins) -> m_plugins] : paths \in Seq(Path)
<1>1. ASSUME NEW paths \in Lists PROVE paths \in Seq(Path)
  <2>1. PICK n \in 0 .. MaxList : paths \in [1 .. n -> Path]
    BY DEF Lists
  <2>2. n \in Nat
    BY BoundsAssumption
  <2> QED
    BY <2>1, <2>2
<1>2. ASSUME LoaderInv, NEW paths \in [1 .. Cardinality(m_plugins) -> m_plugins]
      PROVE  paths \in Seq(Path)
  <2>1. IsFiniteSet(m_plugins)
    <3>1. m_plugins \in SUBSET Opened /\ IsFiniteSet(Opened)
      BY <1>2 DEF LoaderInv, Counts, Opened
    <3> QED
      BY <3>1, FS_Subset
  <2>2. Cardinality(m_plugins) \in Nat
    BY <2>1, FS_CardinalityType
  <2>3. paths \in [1 .. Cardinality(m_plugins) -> Path]
    BY <1>2 DEF LoaderInv, TypeOK
  <2> QED
    BY <2>2, <2>3
<1> QED
  BY <1>1, <1>2

-----------------------------------------------------------------------------
(***************************************************************************)
(* The invariant holds in every state.                                     *)
(***************************************************************************)
THEOREM LoaderInvariance == Spec => []LoaderInv
<1>1. ASSUME LoaderInv, [Next]_vars PROVE LoaderInv'
  <2>1. CASE \E p \in Path : load_exists(p) \/ load_fails(p) \/ unload_unknown(p)
    BY <1>1, <2>1, NothingDoneStep DEF load_exists, load_fails, unload_unknown
  <2>2. CASE \E p \in Path : load_open(p)
    BY <1>1, <2>2, LoadOpenStep
  <2>12. CASE \E p \in Path : load_fails_open(p)
    BY <1>1, <2>12, LeftOpenStep
  <2>3. CASE \E id \in ProtoId : plugin_register(id)
    BY <1>1, <2>3, PluginRegisterStep
  <2>4. CASE load_done
    BY <1>1, <2>4, LoadDoneStep
  <2>5. CASE \E id \in ProtoId : plugin_withdraw(id) \/ plugin_unregister(id)
    BY <1>1, <2>5, PluginRemoveStep
  <2>6. CASE \E closed \in BOOLEAN : load_undo(closed) \/ unload_end(closed)
    BY <1>1, <2>6, CloseStep
  <2>7. CASE \E p \in Path : unload_begin(p)
    BY <1>1, <2>7, UnloadBeginStep
  <2>8. CASE \E paths \in Lists : ListBegin("load", paths) \/ ListBegin("unload", paths)
    BY <1>1, <2>8, ListBeginStep, ListsOfPaths
  <2>9. CASE clear_plugins
    BY <1>1, <2>9, ListBeginStep, ListsOfPaths DEF clear_plugins
  <2>10. CASE ListEnd
    BY <1>1, <2>10, ListEndStep
  <2>11. CASE UNCHANGED vars
    <3>1. D!TypeOK' /\ m_handler_mgr' = m_handler_mgr /\ level' = level
      BY <1>1, <2>11, DispatcherKept DEF LoaderInv, TypeOK, vars
    <3>2. Others' = Others /\ Mine' = Mine /\ Opened' = Opened /\ so' = so
      BY <2>11 DEF Others, Mine, Opened, so, vars
    <3>3. TypeOK' /\ CallInv'
      BY <1>1, <2>11, <3>1, <3>2 DEF LoaderInv, TypeOK, CallInv, vars
    <3> QED
      BY <1>1, <2>11, <3>1, <3>2, <3>3 DEF LoaderInv, TableInv, vars
  <2> QED
    BY <1>1, <2>1, <2>2, <2>3, <2>4, <2>5, <2>6, <2>7, <2>8, <2>9, <2>10, <2>11, <2>12, Zenon DEF Next
<1> QED
  BY <1>1, LoaderInitially, PTL DEF Spec

(***************************************************************************)
(* The code of a registered handler is mapped, at every point of a load or *)
(* an unload, if its object has an unregister_proto: it is open by a path  *)
(* that is loaded or being worked on.                                      *)
(***************************************************************************)
THEOREM HandlersAreMapped == Spec => []NoDanglingHandler
<1>1. ASSUME LoaderInv PROVE NoDanglingHandler
  <2> SUFFICES ASSUME NEW id \in DOMAIN m_handler_mgr, m_handler_mgr[id][1] \in HasUnregister
               PROVE  refs[m_handler_mgr[id][1]] > 0
    BY DEF NoDanglingHandler, D!Registered
  <2>1. PICK p \in Opened : m_handler_mgr[id] = <<so_of[p], id>>
    <3>1. Serves(m_handler_mgr, Others, so, Mine)
      BY <1>1 DEF LoaderInv, TableInv
    <3>2. CASE id \in Mine
      <4>1. pc # "idle" /\ path \in Opened
        BY <1>1, <3>2 DEF LoaderInv, TypeOK, CallInv, Mine, Opened
      <4> QED
        BY <3>1, <3>2, <4>1 DEF Serves, so
    <3>3. CASE id \in Served(Others)
      <4>1. PICK p \in Others : id \in Protos[so_of[p]]
        BY <3>3 DEF Served
      <4>2. p \in Opened
        BY <4>1 DEF Others, Opened
      <4> QED
        BY <3>1, <4>1, <4>2 DEF Serves
    <3> QED
      BY <3>1, <3>2, <3>3 DEF Serves
  <2>2. PICK s \in So : s = so_of[p]
    BY <1>1, <2>1, SoOfAssumption DEF LoaderInv, TypeOK, Opened
  <2>3. IsFiniteSet(Opened) /\ refs[s] = Cardinality(UsersOf(Opened, s)) + leaked[s]
    BY <1>1, <2>2 DEF LoaderInv, Counts
  <2>4. IsFiniteSet(UsersOf(Opened, s)) /\ Cardinality(UsersOf(Opened, s)) \in Nat
    BY <2>3, UsersAreFinite
  <2>5. UsersOf(Opened, s) # {}
    BY <2>2 DEF UsersOf
  <2>6. Cardinality(UsersOf(Opened, s)) # 0
    BY <2>4, <2>5, FS_EmptySet
  <2>7. leaked[s] \in Nat
    BY <1>1, BoundsAssumption DEF LoaderInv, TypeOK
  <2> QED
    BY <2>1, <2>2, <2>3, <2>4, <2>6, <2>7
<1> QED
  BY <1>1, LoaderInvariance, PTL

(***************************************************************************)
(* Between calls a loaded plugin serves all its protocols, and one that    *)
(* has an unregister_proto and is not loaded serves none.                  *)
(***************************************************************************)
THEOREM LoadsAreAllOrNothing == Spec => []PluginsMatchProtocols
<1>1. LoaderInv => PluginsMatchProtocols
  <2> SUFFICES ASSUME LoaderInv, pc = "idle"
               PROVE  /\ \A p \in m_plugins : \A id \in Protos[so_of[p]] :
                            /\ id \in DOMAIN m_handler_mgr
                            /\ m_handler_mgr[id] = <<so_of[p], id>>
                      /\ \A id \in DOMAIN m_handler_mgr :
                            m_handler_mgr[id][1] \in HasUnregister =>
                                \E p \in m_plugins : m_handler_mgr[id] = <<so_of[p], id>>
    BY DEF PluginsMatchProtocols, D!Registered
  <2>1. Serves(m_handler_mgr, m_plugins, so, {})
    BY DEF Others, Mine, LoaderInv, TableInv
  <2>2. ASSUME NEW p \in m_plugins, NEW id \in Protos[so_of[p]]
        PROVE  id \in DOMAIN m_handler_mgr /\ m_handler_mgr[id] = <<so_of[p], id>>
    BY <2>1 DEF Serves, Served
  <2>3. ASSUME NEW id \in DOMAIN m_handler_mgr, m_handler_mgr[id][1] \in HasUnregister
        PROVE  \E p \in m_plugins : m_handler_mgr[id] = <<so_of[p], id>>
    <3>1. id \in Served(m_plugins)
      BY <2>1, <2>3 DEF Serves
    <3>2. PICK p \in m_plugins : id \in Protos[so_of[p]]
      BY <3>1 DEF Served
    <3> QED
      BY <2>2, <3>2
  <2> QED
    BY <2>2, <2>3
<1> QED
  BY <1>1, LoaderInvariance, PTL

(***************************************************************************)
(* Between calls an object is open once for each path it was loaded by and *)
(* each failed dlclose, and initialised once for each path if it has an    *)
(* uninit.                                                                 *)
(***************************************************************************)
THEOREM ObjectsAreBalanced == Spec => []ObjectsBalance
<1>1. LoaderInv => ObjectsBalance
  <2> SUFFICES ASSUME LoaderInv, pc = "idle", NEW s \in So
               PROVE  /\ refs[s] = Cardinality(PathsOf(s)) + leaked[s]
                      /\ active[s] >= Cardinality(PathsOf(s))
                      /\ s \in HasUninit => active[s] = Cardinality(PathsOf(s))
    BY DEF ObjectsBalance, LoaderInv
  <2>1. UsersOf(Opened, s) = PathsOf(s)
    BY DEF Opened, UsersOf, PathsOf
  <2> QED
    BY <2>1 DEF LoaderInv, Counts
<1> QED
  BY <1>1, LoaderInvariance, PTL

=============================================================================
