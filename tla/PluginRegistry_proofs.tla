----------------------- MODULE PluginRegistry_proofs -----------------------
(***************************************************************************)
(* Proofs about PluginRegistry for any files, plugins and number of        *)
(* requests.  That a finite set of file numbers has a least and a greatest *)
(* one is not taken from a library: the directory starts empty and grows   *)
(* by one file at a time, so the invariant carries it along.               *)
(***************************************************************************)
EXTENDS PluginRegistry, TLAPS

Ordered(S) ==
    \A T \in SUBSET S : T # {} => /\ \E x \in T : \A y \in T : x <= y
                                  /\ \E x \in T : \A y \in T : x >= y

\* The bundled plugins are in the engine and in each that is being built.
BundledKept ==
    \A p \in Bundled : /\ IdOf[p] \in DOMAIN engine
                       /\ \A q \in Request : req[q].step = "ReadFile" =>
                             IdOf[p] \in DOMAIN req[q].engine

RegistryInv == TypeOK /\ Ordered(DOMAIN dir) /\ BundledKept

-----------------------------------------------------------------------------
\* A set that gets one more number is still ordered, and so is a part of it.
LEMMA OrderedGrows ==
    ASSUME NEW S \in SUBSET Nat, NEW f \in Nat, Ordered(S)
    PROVE  Ordered(S \cup {f})
  <1> SUFFICES ASSUME NEW T \in SUBSET (S \cup {f}), T # {}
               PROVE  /\ \E x \in T : \A y \in T : x <= y
                      /\ \E x \in T : \A y \in T : x >= y
    BY DEF Ordered
  <1> DEFINE U == T \ {f}
  <1>1. U \in SUBSET S
    OBVIOUS
  <1>2. CASE U = {}
    <2>1. T = {f}
      BY <1>2
    <2> QED
      BY <2>1
  <1>3. CASE U # {}
    <2>1. PICK a \in U : \A y \in U : a <= y
      BY <1>1, <1>3 DEF Ordered
    <2>2. PICK b \in U : \A y \in U : b >= y
      BY <1>1, <1>3 DEF Ordered
    <2>3. a \in Nat /\ b \in Nat /\ a \in T /\ b \in T /\ \A y \in T : y \in Nat
      BY <1>1
    <2>4. \A y \in T : y \in U \/ y = f
      OBVIOUS
    <2> HIDE DEF U
    <2>5. CASE f \in T
      <3>1. \E x \in {a, f} : \A y \in T : x <= y
        BY <2>1, <2>3, <2>4
      <3>2. \E x \in {b, f} : \A y \in T : x >= y
        BY <2>2, <2>3, <2>4
      <3> QED
        BY <2>3, <2>5, <3>1, <3>2
    <2>6. CASE f \notin T
      BY <2>1, <2>2, <2>3, <2>4, <2>6
    <2> QED
      BY <2>5, <2>6
  <1> QED
    BY <1>2, <1>3

LEMMA OrderedPart ==
    ASSUME NEW S, NEW T \in SUBSET S, Ordered(S) PROVE Ordered(T)
  BY DEF Ordered

\* The bundled plugins make an engine.
LEMMA BundledIsEngine ==
    BundledEngine \in Engines /\ \A p \in Bundled : IdOf[p] \in DOMAIN BundledEngine
  <1> DEFINE ids == {IdOf[p] : p \in Bundled}
  <1>1. ids \in SUBSET Id
    BY RegistryAssumption
  <1>2. \A i \in ids : BundledEngine[i] \in Bundled /\ IdOf[BundledEngine[i]] = i
    BY DEF BundledEngine
  <1>3. BundledEngine \in [ids -> Plugin]
    BY <1>2, RegistryAssumption DEF BundledEngine
  <1>4. BundledEngine \in {e \in [ids -> Plugin] : \A i \in ids : IdOf[e[i]] = i}
    BY <1>2, <1>3
  <1>5. BundledEngine \in Engines
    BY <1>1, <1>4 DEF Engines
  <1> QED
    BY <1>5 DEF BundledEngine

\* What it means to be an engine.
LEMMA EngineIs ==
    ASSUME NEW S \in SUBSET Id, NEW e, e = [i \in S |-> e[i]],
           \A i \in S : e[i] \in Plugin /\ IdOf[e[i]] = i
    PROVE  e \in Engines
  <1>1. e \in {g \in [S -> Plugin] : \A i \in S : IdOf[g[i]] = i}
    OBVIOUS
  <1> QED
    BY <1>1 DEF Engines

\* And what an engine is.
LEMMA EngineHas ==
    ASSUME NEW e \in Engines
    PROVE  /\ DOMAIN e \in SUBSET Id /\ e = [i \in DOMAIN e |-> e[i]]
           /\ \A i \in DOMAIN e : e[i] \in Plugin /\ IdOf[e[i]] = i
  <1>1. PICK S \in SUBSET Id : e \in {g \in [S -> Plugin] : \A i \in S : IdOf[g[i]] = i}
    BY DEF Engines
  <1> QED
    BY <1>1

\* Reading a file keeps an engine an engine, and takes no ID away.
LEMMA LoadSourceIs ==
    ASSUME NEW e \in Engines, NEW f, NEW content,
           content = {} \/ \E p \in Plugin : content = {p}
    PROVE  LoadSource(e, f, content) \in Engines /\ DOMAIN e \subseteq DOMAIN LoadSource(e, f, content)
  <1> DEFINE ids == {IdOf[p] : p \in content}
             new == LoadSource(e, f, content)
  <1>1. /\ new = [i \in DOMAIN e \cup ids |-> new[i]] /\ DOMAIN new = DOMAIN e \cup ids
        /\ \A i \in DOMAIN e \cup ids :
              new[i] = IF i \in ids THEN CHOOSE p \in content : TRUE ELSE e[i]
    BY DEF LoadSource
  <1>2. ids \in SUBSET Id
    BY RegistryAssumption
  <1>3. \A i \in DOMAIN e \cup ids : new[i] \in Plugin /\ IdOf[new[i]] = i
    <2> SUFFICES ASSUME NEW i \in DOMAIN e \cup ids PROVE new[i] \in Plugin /\ IdOf[new[i]] = i
      OBVIOUS
    <2>1. CASE i \in ids
      <3>1. PICK p \in Plugin : content = {p}
        BY <2>1
      <3>2. (CHOOSE r \in content : TRUE) = p /\ i = IdOf[p]
        BY <2>1, <3>1
      <3> QED
        BY <1>1, <2>1, <3>2
    <2>2. CASE i \notin ids
      <3>1. i \in DOMAIN e /\ new[i] = e[i]
        BY <1>1, <2>2
      <3>2. e[i] \in Plugin /\ IdOf[e[i]] = i
        BY <3>1, EngineHas
      <3> QED
        BY <3>1, <3>2
    <2> QED
      BY <2>1, <2>2
  <1> HIDE DEF new, ids
  <1>4. DOMAIN e \cup ids \in SUBSET Id
    BY <1>2, EngineHas
  <1>5. new \in Engines
    BY <1>1, <1>3, <1>4, EngineIs
  <1> QED
    BY <1>1, <1>5 DEF new

\* So does loading files of the directory.
LEMMA LoadedFromIs ==
    ASSUME TypeOK, Ordered(DOMAIN dir), NEW fs \in SUBSET DOMAIN dir
    PROVE  /\ LoadedFrom(fs) \in Engines
           /\ \A p \in Bundled : IdOf[p] \in DOMAIN LoadedFrom(fs)
  <1> DEFINE with(i) == {f \in fs : \E p \in dir[f] : IdOf[p] = i}
             ids == DOMAIN BundledEngine \cup {i \in Id : with(i) # {}}
             loaded == LoadedFrom(fs)
  <1>1. /\ loaded = [i \in ids |-> loaded[i]] /\ DOMAIN loaded = ids
        /\ \A i \in ids : loaded[i] = IF with(i) = {} THEN BundledEngine[i]
                                      ELSE CHOOSE p \in dir[Max(with(i))] : TRUE
    BY DEF LoadedFrom
  <1>2. ids \in SUBSET Id
    BY BundledIsEngine, EngineHas
  <1>3. \A i \in ids : loaded[i] \in Plugin /\ IdOf[loaded[i]] = i
    <2> SUFFICES ASSUME NEW i \in ids PROVE loaded[i] \in Plugin /\ IdOf[loaded[i]] = i
      OBVIOUS
    <2>1. CASE with(i) = {}
      <3>1. i \in DOMAIN BundledEngine
        BY <2>1
      <3>2. BundledEngine[i] \in Plugin /\ IdOf[BundledEngine[i]] = i
        BY <3>1, BundledIsEngine, EngineHas
      <3>3. loaded[i] = BundledEngine[i]
        BY <1>1, <2>1
      <3> QED
        BY <3>2, <3>3
    <2>2. CASE with(i) # {}
      <3>1. Max(with(i)) \in with(i)
        <4>1. with(i) \in SUBSET DOMAIN dir
          OBVIOUS
        <4> QED
          BY <2>2, <4>1 DEF Ordered, Max
      <3>2. PICK p \in dir[Max(with(i))] : IdOf[p] = i
        BY <3>1
      <3>3. p \in Plugin /\ dir[Max(with(i))] = {p}
        BY <3>1, <3>2 DEF TypeOK
      <3>4. (CHOOSE r \in {p} : TRUE) = p
        OBVIOUS
      <3>5. loaded[i] = p
        BY <1>1, <2>2, <3>3, <3>4
      <3> QED
        BY <3>2, <3>3, <3>5
    <2> QED
      BY <2>1, <2>2
  <1>4. \A p \in Bundled : IdOf[p] \in ids
    BY BundledIsEngine
  <1> HIDE DEF ids, loaded
  <1>5. loaded \in Engines
    BY <1>1, <1>2, <1>3, EngineIs
  <1> QED
    BY <1>1, <1>4, <1>5 DEF loaded

-----------------------------------------------------------------------------
LEMMA InitRegistry == Init => RegistryInv
  <1> SUFFICES ASSUME Init PROVE RegistryInv
    OBVIOUS
  <1>1. dir = <<>> /\ DOMAIN dir = {}
    BY DEF Init
  <1>2. TypeOK
    BY <1>1, BundledIsEngine, RegistryAssumption DEF Init, TypeOK, Steps, Idle
  <1>3. Ordered(DOMAIN dir)
    BY <1>1 DEF Ordered
  <1>4. BundledKept
    BY BundledIsEngine DEF Init, BundledKept, Idle
  <1> QED
    BY <1>2, <1>3, <1>4 DEF RegistryInv

\* Requests that write to the directory or give up build no engine.
LEMMA WritingKeeps ==
    ASSUME RegistryInv, NEW q \in Request,
           \/ \E f \in File, p \in Plugin : UploadPlugin(q, f, p)
           \/ \E f \in File : DeletePlugin(q, f)
           \/ WriteFile(q) \/ WriteFails(q) \/ ReadDirFails(q)
    PROVE  RegistryInv'
  <1> USE DEF RegistryInv
  <1>1. CASE \E f \in File, p \in Plugin : UploadPlugin(q, f, p)
    <2>1. PICK f \in File, p \in Plugin : UploadPlugin(q, f, p)
      BY <1>1
    <2>2. DOMAIN dir' = DOMAIN dir \cup {f} /\ \A g \in DOMAIN dir' : dir'[g] = IF g = f THEN {} ELSE dir[g]
      BY <2>1 DEF UploadPlugin
    <2> DEFINE x == [step |-> "WriteFile", file |-> f, plugin |-> p]
    <2>3. req' = [req EXCEPT ![q] = x] /\ x \in Steps /\ x.step = "WriteFile"
      BY <2>1 DEF UploadPlugin, Steps
    <2> HIDE DEF x
    <2>4. TypeOK'
      BY <2>1, <2>2, <2>3 DEF TypeOK, UploadPlugin, Begin
    <2>5. Ordered(DOMAIN dir)'
      BY <2>2, OrderedGrows, RegistryAssumption DEF TypeOK
    <2>6. BundledKept'
      BY <2>1, <2>3 DEF BundledKept, UploadPlugin, TypeOK
    <2> QED
      BY <2>4, <2>5, <2>6
  <1>2. CASE \E f \in File : DeletePlugin(q, f)
    <2>1. PICK f \in File : DeletePlugin(q, f)
      BY <1>2
    <2>2. /\ DOMAIN dir' \subseteq DOMAIN dir
          /\ \A g \in DOMAIN dir' : dir'[g] = dir[g]
      BY <2>1 DEF DeletePlugin, Restrict
    <2>3. /\ ToReload \in Steps /\ ToReload.step = "ReadDir"
          /\ \A r \in Request : req'[r] = req[r] \/ req'[r] = ToReload
          /\ req' = [r \in Request |-> req'[r]]
      BY <2>1 DEF DeletePlugin, Steps, ToReload
    <2>4. TypeOK'
      <3>1. req' \in [Request -> Steps]
        BY <2>3 DEF TypeOK
      <3>2. DOMAIN dir' \subseteq File /\ \A g \in DOMAIN dir' : dir'[g] = {} \/ \E p \in Plugin : dir'[g] = {p}
        BY <2>2 DEF TypeOK
      <3>3. engine' = engine /\ inOrder' \in BOOLEAN
        BY <2>1 DEF DeletePlugin, Begin
      <3> QED
        BY <3>1, <3>2, <3>3 DEF TypeOK
    <2>5. Ordered(DOMAIN dir)'
      BY <2>2, OrderedPart
    <2>6. BundledKept'
      BY <2>1, <2>3 DEF BundledKept, DeletePlugin
    <2> QED
      BY <2>4, <2>5, <2>6
  <1>3. CASE WriteFile(q) \/ WriteFails(q) \/ ReadDirFails(q)
    <2>1. PICK x \in {ToReload, Idle} : req' = [req EXCEPT ![q] = x] /\ engine' = engine
      BY <1>3 DEF WriteFile, WriteFails, ReadDirFails
    <2>2. x \in Steps /\ x.step # "ReadFile"
      BY <2>1 DEF Steps, ToReload, Idle
    <2>3. DOMAIN dir' = DOMAIN dir
          /\ \A g \in DOMAIN dir' : \/ dir'[g] = dir[g] \/ dir'[g] = {}
                                    \/ dir'[g] = {req[q].plugin} /\ req[q].plugin \in Plugin
      <3>1. CASE WriteFile(q)
        <4>1. req[q].plugin \in Plugin
          BY <3>1 DEF WriteFile, TypeOK, Steps
        <4> QED
          BY <3>1, <4>1 DEF WriteFile
      <3>2. CASE WriteFails(q) \/ ReadDirFails(q)
        BY <3>2 DEF WriteFails, ReadDirFails
      <3> QED
        BY <1>3, <3>1, <3>2
    <2>4. inOrder' \in BOOLEAN
      BY <1>3 DEF WriteFile, WriteFails, ReadDirFails, TypeOK
    <2>5. TypeOK'
      BY <2>1, <2>2, <2>3, <2>4 DEF TypeOK
    <2>6. Ordered(DOMAIN dir)'
      BY <2>3
    <2>7. BundledKept'
      BY <2>1, <2>2 DEF BundledKept, TypeOK
    <2> QED
      BY <2>5, <2>6, <2>7
  <1> QED
    BY <1>1, <1>2, <1>3

\* A reload, from listing the directory to storing the engine.
LEMMA ReloadKeeps ==
    ASSUME RegistryInv, NEW q \in Request,
           ReadDir(q) \/ ReadFile(q) \/ ReadFileFails(q) \/ Store(q)
    PROVE  RegistryInv'
  <1> USE DEF RegistryInv
  <1>1. CASE ReadDir(q)
    <2>1. StartLoad \in Steps /\ StartLoad.engine = BundledEngine
      BY BundledIsEngine DEF StartLoad, Steps, TypeOK
    <2>2. TypeOK'
      BY <1>1, <2>1 DEF ReadDir, TypeOK
    <2>3. BundledKept'
      BY <1>1, <2>1, BundledIsEngine DEF ReadDir, BundledKept, TypeOK
    <2> QED
      BY <1>1, <2>2, <2>3 DEF ReadDir
  <1>2. CASE ReadFile(q)
    <2> DEFINE f == Min(req[q].todo)
               content == IF f \in DOMAIN dir THEN dir[f] ELSE {}
               new == LoadSource(req[q].engine, f, content)
               x == [req[q] EXCEPT !.todo = @ \ {f}, !.engine = new]
    <2>1. /\ req[q] \in [step : {"ReadFile"}, todo : SUBSET File, engine : Engines]
          /\ content = {} \/ \E p \in Plugin : content = {p}
      BY <1>2 DEF ReadFile, TypeOK, Steps
    <2>2. new \in Engines /\ DOMAIN req[q].engine \subseteq DOMAIN new
      BY <2>1, LoadSourceIs
    <2>3. req' = [req EXCEPT ![q] = x] /\ UNCHANGED <<dir, engine, inOrder>>
      BY <1>2 DEF ReadFile
    <2> HIDE DEF new
    <2>4. x \in Steps /\ x.engine = new
      BY <2>1, <2>2 DEF Steps
    <2> HIDE DEF x
    <2>5. TypeOK'
      BY <2>3, <2>4 DEF TypeOK
    <2>6. BundledKept'
      BY <1>2, <2>2, <2>3, <2>4 DEF ReadFile, BundledKept, TypeOK
    <2> QED
      BY <2>3, <2>5, <2>6
  <1>3. CASE ReadFileFails(q)
    <2> DEFINE x == [req[q] EXCEPT !.todo = @ \ {Min(@)}]
    <2>1. req[q] \in [step : {"ReadFile"}, todo : SUBSET File, engine : Engines]
      BY <1>3 DEF ReadFileFails, TypeOK, Steps
    <2>2. req' = [req EXCEPT ![q] = x] /\ UNCHANGED <<dir, engine>> /\ inOrder' = FALSE
      BY <1>3 DEF ReadFileFails
    <2>3. x \in Steps /\ x.engine = req[q].engine
      BY <2>1 DEF Steps
    <2> HIDE DEF x
    <2>4. TypeOK'
      BY <2>2, <2>3 DEF TypeOK
    <2>5. BundledKept'
      BY <1>3, <2>2, <2>3 DEF ReadFileFails, BundledKept, TypeOK
    <2> QED
      BY <2>2, <2>4, <2>5
  <1>4. CASE Store(q)
    <2>1. req[q] \in [step : {"ReadFile"}, todo : SUBSET File, engine : Engines]
      BY <1>4 DEF Store, TypeOK, Steps
    <2>2. TypeOK'
      BY <1>4, <2>1 DEF Store, TypeOK, Idle, Steps
    <2>3. BundledKept'
      BY <1>4 DEF Store, BundledKept, TypeOK, Idle
    <2> QED
      BY <1>4, <2>2, <2>3 DEF Store
  <1> QED
    BY <1>1, <1>2, <1>3, <1>4

LEMMA RegistryStep == RegistryInv /\ [Next]_vars => RegistryInv'
  <1> SUFFICES ASSUME RegistryInv, [Next]_vars PROVE RegistryInv'
    OBVIOUS
  <1>1. CASE Restart
    <2>1. PICK fs \in SUBSET DOMAIN dir : engine' = LoadedFrom(fs)
      BY <1>1 DEF Restart
    <2>2. LoadedFrom(fs) \in Engines /\ \A p \in Bundled : IdOf[p] \in DOMAIN LoadedFrom(fs)
      BY LoadedFromIs DEF RegistryInv
    <2> QED
      BY <1>1, <2>1, <2>2 DEF Restart, RegistryInv, TypeOK, BundledKept, Idle, Steps
  <1>2. CASE UNCHANGED vars
    BY <1>2 DEF vars, RegistryInv, TypeOK, BundledKept
  <1> QED
    BY <1>1, <1>2, WritingKeeps, ReloadKeeps DEF Next

\* The directory stays ordered and every engine, built or being built, has the bundled plugins.
THEOREM RegistryInvCorrect == Spec => []RegistryInv
  <1> QED
    BY InitRegistry, RegistryStep, PTL DEF Spec

\* Files hold a plugin or none, and every engine has plugins under their own IDs.
THEOREM RegistryTypeOKCorrect == Spec => []TypeOK
  <1>1. RegistryInv => TypeOK
    BY DEF RegistryInv
  <1> QED
    BY <1>1, RegistryInvCorrect, PTL

\* Whatever happens to the directory, also in the middle of a reload: the bundled plugins
\* are never missing from the engine.
THEOREM BundledStayCorrect == Spec => []BundledStay
  <1>1. RegistryInv => BundledStay
    BY DEF RegistryInv, BundledKept, BundledStay
  <1> QED
    BY <1>1, RegistryInvCorrect, PTL
-----------------------------------------------------------------------------
(* Requests and restarts in order.                                         *)

\* The files from S that have a plugin with ID i.
Having(i, S) == {f \in S : \E p \in dir[f] : IdOf[p] = i}

\* The engine e is what the files of S give: for each ID the last of them decides, and
\* without one the bundled plugin.
Gives(S, e) ==
    /\ DOMAIN e = DOMAIN BundledEngine \cup {i \in Id : Having(i, S) # {}}
    /\ \A i \in DOMAIN e :
          \/ Having(i, S) = {} /\ e[i] = BundledEngine[i]
          \/ \E f \in Having(i, S) : dir[f] = {e[i]} /\ \A g \in Having(i, S) : f >= g

\* A reload has read the files in front of those it has still to read.
Reading ==
    \A q \in Request : req[q].step = "ReadFile" =>
       /\ req[q].todo \subseteq DOMAIN dir
       /\ \A f \in DOMAIN dir \ req[q].todo, g \in req[q].todo : f < g
       /\ Gives(DOMAIN dir \ req[q].todo, req[q].engine)

OneAtATime == \A q, r \in Request : q = r \/ req[q] = Idle \/ req[r] = Idle

EngineMatchesDirectory == (\A q \in Request : req[q] = Idle) => engine = Loaded

\* A request that began alone is still alone, and what it has read is what the directory has.
MatchInv == inOrder => OneAtATime /\ Reading /\ EngineMatchesDirectory

\* What all files give is what a start loads.
LEMMA GivesLoaded ==
    ASSUME RegistryInv, NEW e \in Engines, Gives(DOMAIN dir, e) PROVE e = Loaded
  <1> DEFINE with(i) == {f \in DOMAIN dir : \E p \in dir[f] : IdOf[p] = i}
             ids == DOMAIN BundledEngine \cup {i \in Id : with(i) # {}}
  <1>1. \A i : with(i) = Having(i, DOMAIN dir)
    BY DEF Having
  <1>2. /\ Loaded = [i \in ids |-> Loaded[i]]
        /\ \A i \in ids : Loaded[i] = IF with(i) = {} THEN BundledEngine[i]
                                      ELSE CHOOSE p \in dir[Max(with(i))] : TRUE
    BY DEF Loaded, LoadedFrom
  <1>3. DOMAIN e = ids
    BY <1>1 DEF Gives
  <1>4. \A i \in ids : \/ with(i) = {} /\ e[i] = BundledEngine[i]
                       \/ \E f \in with(i) : dir[f] = {e[i]} /\ \A g \in with(i) : f >= g
    <2> HIDE DEF with, ids
    <2> QED
      BY <1>1, <1>3 DEF Gives
  <1>5. \A i : \A g \in with(i) : g \in Nat
    <2>1. DOMAIN dir \subseteq Nat
      BY RegistryAssumption DEF RegistryInv, TypeOK
    <2> QED
      BY <2>1
  <1> HIDE DEF with, ids
  <1>6. ASSUME NEW i \in ids PROVE e[i] = Loaded[i]
    <2>1. CASE with(i) = {}
      <3>1. e[i] = BundledEngine[i]
        BY <1>4, <2>1
      <3> QED
        BY <1>2, <2>1, <3>1
    <2>2. CASE with(i) # {}
      <3>1. PICK f \in with(i) : dir[f] = {e[i]} /\ \A g \in with(i) : f >= g
        BY <1>4, <2>2
      <3>2. \E m \in with(i) : \A g \in with(i) : m >= g
        BY <3>1
      <3>3. Max(with(i)) \in with(i) /\ \A g \in with(i) : Max(with(i)) >= g
        <4> DEFINE m == Max(with(i))
        <4>1. m = CHOOSE x \in with(i) : \A y \in with(i) : x >= y
          BY DEF Max
        <4> QED
          BY <3>2, <4>1
      <3>4. Max(with(i)) = f
        BY <1>5, <3>1, <3>3
      <3>5. (CHOOSE p \in {e[i]} : TRUE) = e[i]
        OBVIOUS
      <3> QED
        BY <1>2, <2>2, <3>1, <3>4, <3>5
    <2> QED
      BY <2>1, <2>2
  <1>7. e = [i \in ids |-> e[i]]
    BY <1>3, EngineHas
  <1> QED
    BY <1>2, <1>6, <1>7

\* Reading the next file keeps the part of the directory that was read in front.
LEMMA GivesNext ==
    ASSUME RegistryInv, NEW todo \in SUBSET DOMAIN dir, todo # {}, NEW e \in Engines,
           \A f \in DOMAIN dir \ todo, g \in todo : f < g,
           Gives(DOMAIN dir \ todo, e),
           NEW n, n = Min(todo)
    PROVE  /\ n \in todo
           /\ \A f \in DOMAIN dir \ (todo \ {n}), g \in todo \ {n} : f < g
           /\ Gives(DOMAIN dir \ (todo \ {n}), LoadSource(e, n, dir[n]))
  <1> DEFINE S == DOMAIN dir \ todo
             T == DOMAIN dir \ (todo \ {n})
             ids == {IdOf[p] : p \in dir[n]}
             new == LoadSource(e, n, dir[n])
  <1>1. \A f \in DOMAIN dir : f \in Nat
    BY RegistryAssumption DEF RegistryInv, TypeOK
  <1>2. n \in todo /\ \A g \in todo : n <= g
    BY DEF RegistryInv, Ordered, Min
  <1>3. \A f \in T, g \in todo \ {n} : f < g
    BY <1>1, <1>2
  <1>4. /\ DOMAIN new = DOMAIN e \cup ids
        /\ \A i \in DOMAIN new : new[i] = IF i \in ids THEN CHOOSE p \in dir[n] : TRUE ELSE e[i]
    BY DEF LoadSource
  <1>5. T = S \cup {n} /\ n \in DOMAIN dir
    BY <1>2
  <1>6. dir[n] = {} \/ \E p \in Plugin : dir[n] = {p}
    BY <1>5 DEF RegistryInv, TypeOK
  <1>7. \A i : Having(i, T) = IF i \in ids THEN Having(i, S) \cup {n} ELSE Having(i, S)
    BY <1>5 DEF Having
  <1>8. ids \subseteq Id
    BY <1>6, RegistryAssumption
  <1> HIDE DEF ids, new
  <1>9. DOMAIN new = DOMAIN BundledEngine \cup {i \in Id : Having(i, T) # {}}
    <2>1. DOMAIN e = DOMAIN BundledEngine \cup {i \in Id : Having(i, S) # {}}
      BY DEF Gives
    <2> HIDE DEF S, T
    <2> QED
      BY <1>4, <1>7, <1>8, <2>1
  <1>10. ASSUME NEW i \in DOMAIN new
         PROVE  \/ Having(i, T) = {} /\ new[i] = BundledEngine[i]
                \/ \E f \in Having(i, T) : dir[f] = {new[i]} /\ \A g \in Having(i, T) : f >= g
    <2>1. CASE i \in ids
      <3>1. PICK p \in Plugin : dir[n] = {p}
        BY <1>6, <2>1 DEF ids
      <3>2. new[i] = p
        BY <1>4, <2>1, <3>1
      <3>3. n \in Having(i, T) /\ \A g \in Having(i, T) : g \in S \/ g = n
        BY <1>7, <2>1 DEF Having
      <3>4. \A g \in Having(i, T) : n >= g
        BY <1>1, <1>2, <1>5, <3>3
      <3>5. dir[n] = {new[i]}
        BY <3>1, <3>2
      <3> HIDE DEF T
      <3> QED
        BY <3>3, <3>4, <3>5
    <2>2. CASE i \notin ids
      <3>1. i \in DOMAIN e /\ new[i] = e[i] /\ Having(i, T) = Having(i, S)
        BY <1>4, <1>7, <2>2
      <3> HIDE DEF S, T
      <3> QED
        BY <3>1 DEF Gives, S
    <2> QED
      BY <2>1, <2>2
  <1>11. Gives(T, new)
    BY <1>9, <1>10 DEF Gives
  <1> QED
    BY <1>2, <1>3, <1>11 DEF new

LEMMA SameLoaded == dir' = dir => Loaded' = Loaded
  BY DEF Loaded, LoadedFrom

\* While a request is in flight, all others are idle; when it is not reading files there
\* is nothing to show.
LEMMA NotReading ==
    ASSUME OneAtATime', NEW q \in Request, req'[q] # Idle, req'[q].step # "ReadFile"
    PROVE  OneAtATime' /\ Reading' /\ EngineMatchesDirectory'
  <1>1. \A r \in Request : r = q \/ req'[r] = Idle
    BY DEF OneAtATime
  <1>2. Reading'
    BY <1>1 DEF Reading, Idle
  <1>3. EngineMatchesDirectory'
    BY DEF EngineMatchesDirectory
  <1> QED
    BY <1>2, <1>3

LEMMA ReadDirMatches ==
    ASSUME RegistryInv, OneAtATime, NEW q \in Request, ReadDir(q)
    PROVE  OneAtATime' /\ Reading' /\ EngineMatchesDirectory'
  <1>1. req'[q] = StartLoad /\ dir' = dir
    BY DEF ReadDir, RegistryInv, TypeOK
  <1>2. \A r \in Request : r = q \/ req'[r] = Idle
    BY DEF OneAtATime, ReadDir, RegistryInv, TypeOK, Idle
  <1>3. \A i : Having(i, {}) = {}
    BY DEF Having
  <1>4. Gives({}, BundledEngine)'
    BY <1>3 DEF Gives, Having
  <1>5. (DOMAIN dir \ DOMAIN dir)' = {}
    OBVIOUS
  <1>6. Reading'
    <2> SUFFICES ASSUME NEW r \in Request, req'[r].step = "ReadFile"
                 PROVE  /\ req'[r].todo \subseteq DOMAIN dir'
                        /\ \A f \in DOMAIN dir' \ req'[r].todo, g \in req'[r].todo : f < g
                        /\ Gives(DOMAIN dir \ req[r].todo, req[r].engine)'
      BY DEF Reading
    <2>1. r = q
      BY <1>2 DEF Idle
    <2>2. req'[r].todo = DOMAIN dir' /\ req'[r].engine = BundledEngine
      BY <1>1, <2>1 DEF StartLoad
    <2>3. DOMAIN dir' \ req'[r].todo = {}
      BY <2>2
    <2>4. Gives(DOMAIN dir \ req[r].todo, req[r].engine)'
      BY <1>4, <2>2, <2>3
    <2> QED
      BY <2>2, <2>3, <2>4
  <1>7. EngineMatchesDirectory'
    BY <1>1 DEF EngineMatchesDirectory, StartLoad, Idle
  <1>8. OneAtATime'
    BY <1>2 DEF OneAtATime
  <1> QED
    BY <1>6, <1>7, <1>8

LEMMA ReadFileMatches ==
    ASSUME RegistryInv, Reading, OneAtATime, NEW q \in Request, ReadFile(q)
    PROVE  OneAtATime' /\ Reading' /\ EngineMatchesDirectory'
  <1> DEFINE todo == req[q].todo
             e == req[q].engine
             n == Min(todo)
  <1>1. todo \in SUBSET DOMAIN dir /\ todo # {} /\ e \in Engines /\ dir' = dir
    BY DEF ReadFile, Reading, RegistryInv, TypeOK, Steps
  <1>2. /\ n \in todo
        /\ \A f \in DOMAIN dir \ (todo \ {n}), g \in todo \ {n} : f < g
        /\ Gives(DOMAIN dir \ (todo \ {n}), LoadSource(e, n, dir[n]))
    <2>1. /\ \A f \in DOMAIN dir \ todo, g \in todo : f < g
          /\ Gives(DOMAIN dir \ todo, e)
      BY DEF ReadFile, Reading
    <2> HIDE DEF todo, e
    <2> QED
      BY <1>1, <2>1, GivesNext
  <1>3. n \in DOMAIN dir
    BY <1>1, <1>2
  <1>4. /\ req'[q].step = "ReadFile" /\ req'[q].todo = todo \ {n}
        /\ req'[q].engine = LoadSource(e, n, dir[n])
    BY <1>3 DEF ReadFile, RegistryInv, TypeOK, Steps
  <1>5. \A r \in Request : r = q \/ req'[r] = Idle
    BY DEF OneAtATime, ReadFile, RegistryInv, TypeOK, Idle
  <1>6. \A S, g : Gives(S, g)' <=> Gives(S, g)
    BY <1>1 DEF Gives, Having
  <1> HIDE DEF todo, e, n
  <1>7. Reading'
    BY <1>1, <1>2, <1>4, <1>5, <1>6 DEF Reading, Idle
  <1>8. EngineMatchesDirectory'
    BY <1>4 DEF EngineMatchesDirectory, Idle
  <1>9. OneAtATime'
    BY <1>5 DEF OneAtATime
  <1> QED
    BY <1>7, <1>8, <1>9

LEMMA StoreMatches ==
    ASSUME RegistryInv, Reading, OneAtATime, NEW q \in Request, Store(q)
    PROVE  OneAtATime' /\ Reading' /\ EngineMatchesDirectory'
  <1>1. \A r \in Request : req'[r] = Idle
    BY DEF OneAtATime, Store, RegistryInv, TypeOK, Idle
  <1>2. req[q].engine \in Engines /\ engine' = req[q].engine /\ dir' = dir
    BY DEF Store, RegistryInv, TypeOK, Steps
  <1>3. DOMAIN dir \ req[q].todo = DOMAIN dir
    BY DEF Store
  <1>4. Gives(DOMAIN dir, req[q].engine)
    BY <1>3 DEF Store, Reading
  <1>5. engine' = Loaded'
    BY <1>2, <1>4, GivesLoaded, SameLoaded
  <1> QED
    BY <1>1, <1>5 DEF OneAtATime, Reading, EngineMatchesDirectory, Idle

\* A request that changes the directory when all others are idle is the only one in flight.
LEMMA BeginMatches ==
    ASSUME RegistryInv, inOrder', NEW q \in Request,
           \/ \E f \in File, p \in Plugin : UploadPlugin(q, f, p)
           \/ \E f \in File : DeletePlugin(q, f)
    PROVE  OneAtATime' /\ Reading' /\ EngineMatchesDirectory'
  <1>1. \A r \in Request : req[r] = Idle
    BY DEF UploadPlugin, DeletePlugin, Begin
  <1>2. /\ req'[q] # Idle /\ req'[q].step # "ReadFile"
        /\ \A r \in Request : r # q => req'[r] = Idle
    <2>1. CASE \E f \in File, p \in Plugin : UploadPlugin(q, f, p)
      <3>1. PICK f \in File, p \in Plugin :
               req' = [req EXCEPT ![q] = [step |-> "WriteFile", file |-> f, plugin |-> p]]
        BY <2>1 DEF UploadPlugin
      <3> DEFINE x == [step |-> "WriteFile", file |-> f, plugin |-> p]
      <3>2. x # Idle /\ x.step # "ReadFile"
        BY DEF Idle
      <3> HIDE DEF x
      <3> QED
        BY <1>1, <3>1, <3>2 DEF RegistryInv, TypeOK, x
    <2>2. CASE \E f \in File : DeletePlugin(q, f)
      <3>1. ToReload # Idle /\ ToReload.step # "ReadFile" /\ Idle.step # "WriteFile"
        BY DEF ToReload, Idle
      <3> QED
        BY <1>1, <2>2, <3>1 DEF DeletePlugin
    <2> QED
      BY <2>1, <2>2
  <1>3. OneAtATime'
    BY <1>2 DEF OneAtATime
  <1> QED
    BY <1>2, <1>3, NotReading

\* Writing the file changes nothing about who is in flight.
LEMMA WriteFileMatches ==
    ASSUME RegistryInv, OneAtATime, NEW q \in Request, WriteFile(q)
    PROVE  OneAtATime' /\ Reading' /\ EngineMatchesDirectory'
  <1>1. req[q] # Idle /\ req' = [req EXCEPT ![q] = ToReload]
    BY DEF WriteFile, Idle
  <1>2. ToReload # Idle /\ ToReload.step # "ReadFile"
    BY DEF ToReload, Idle
  <1>3. req'[q] = ToReload /\ \A r \in Request : r # q => req'[r] = Idle
    BY <1>1 DEF OneAtATime, RegistryInv, TypeOK
  <1>4. OneAtATime'
    BY <1>3 DEF OneAtATime
  <1> QED
    BY <1>2, <1>3, <1>4, NotReading

LEMMA MatchStep == RegistryInv /\ MatchInv /\ [Next]_vars => MatchInv'
  <1> SUFFICES ASSUME RegistryInv, MatchInv, [Next]_vars, inOrder'
               PROVE  OneAtATime' /\ Reading' /\ EngineMatchesDirectory'
    BY DEF MatchInv
  <1>1. CASE \E q \in Request : \/ \E f \in File, p \in Plugin : UploadPlugin(q, f, p)
                                \/ \E f \in File : DeletePlugin(q, f)
    BY <1>1, BeginMatches
  <1>2. CASE \E q \in Request : WriteFile(q) \/ ReadDir(q) \/ ReadFile(q) \/ Store(q)
    <2>1. OneAtATime /\ Reading
      BY <1>2 DEF MatchInv, WriteFile, ReadDir, ReadFile, Store
    <2>2. PICK q \in Request : WriteFile(q) \/ ReadDir(q) \/ ReadFile(q) \/ Store(q)
      BY <1>2
    <2> QED
      BY <2>1, <2>2, WriteFileMatches, ReadDirMatches, ReadFileMatches, StoreMatches
  <1>3. ASSUME NEW q \in Request, WriteFails(q) \/ ReadDirFails(q) \/ ReadFileFails(q)
        PROVE  FALSE
    BY <1>3 DEF WriteFails, ReadDirFails, ReadFileFails
  <1>4. CASE Restart
    <2>1. engine' = Loaded /\ dir' = dir
      BY <1>4 DEF Restart, Loaded
    <2>2. engine' = Loaded'
      BY <2>1, SameLoaded
    <2> QED
      BY <1>4, <2>2 DEF Restart, OneAtATime, Reading, EngineMatchesDirectory, Idle
  <1>5. CASE UNCHANGED vars
    <2>1. UNCHANGED <<dir, engine, req, inOrder>> /\ Loaded' = Loaded
      BY <1>5, SameLoaded DEF vars
    <2>2. OneAtATime /\ Reading /\ EngineMatchesDirectory
      BY <2>1 DEF MatchInv
    <2>3. OneAtATime' /\ EngineMatchesDirectory'
      BY <2>1, <2>2 DEF OneAtATime, EngineMatchesDirectory
    <2>4. \A S, e : Gives(S, e)' <=> Gives(S, e)
      BY <2>1 DEF Gives, Having
    <2>5. Reading'
      BY <2>1, <2>2, <2>4 DEF Reading
    <2> QED
      BY <2>3, <2>5
  <1> QED
    BY <1>1, <1>2, <1>3, <1>4, <1>5 DEF Next

LEMMA InitMatches == Init => MatchInv
  <1> SUFFICES ASSUME Init PROVE MatchInv
    OBVIOUS
  <1>1. RegistryInv /\ DOMAIN dir = {}
    BY InitRegistry DEF Init
  <1>2. Gives(DOMAIN dir, BundledEngine)
    BY <1>1 DEF Gives, Having
  <1>3. BundledEngine = Loaded
    BY <1>1, <1>2, BundledIsEngine, GivesLoaded
  <1> QED
    BY <1>3 DEF Init, MatchInv, OneAtATime, Reading, EngineMatchesDirectory, Idle

\* Whatever failed or overlapped before: after a request that came on its own and met no
\* error, and after a restart that read every file, the engine is what the directory says.
THEOREM SequentialReloadsMatchCorrect == Spec => []SequentialReloadsMatch
  <1>1. MatchInv => SequentialReloadsMatch
    BY DEF MatchInv, EngineMatchesDirectory, SequentialReloadsMatch
  <1>2. Spec => []MatchInv
    BY InitMatches, MatchStep, RegistryInvCorrect, PTL DEF Spec
  <1> QED
    BY <1>1, <1>2, PTL
=============================================================================
