--------------------------- MODULE PluginRegistry ---------------------------
(***************************************************************************)
(* The plugins directory and the engine of loaded plugins: requests that   *)
(* upload or delete a file change the directory and then reload it file by *)
(* file into a new engine, which replaces the old one.  Nothing orders two *)
(* requests.  Writing a file, listing the directory and reading a file may *)
(* each fail, and the process may end at any point.  A file holds one of   *)
(* the plugins that Validate lets through, or, as a set, none while it is  *)
(* being written.                                                          *)
(***************************************************************************)
EXTENDS Integers, FiniteSets, FiniteSetsExt, Functions, TLC

CONSTANTS
    File,      \* file names, numbers in the order in which ReadDir lists them
    Plugin,    \* contents of plugin files
    Id,        \* plugin IDs, of sports and of tournament types
    IdOf,      \* the ID of a plugin
    Bundled,   \* the plugins that are built into the binary
    Request    \* the requests that may be in flight together

ASSUME RegistryAssumption ==
    /\ File \subseteq Nat
    /\ IdOf \in [Plugin -> Id]
    /\ Bundled \subseteq Plugin
    /\ \A p, r \in Bundled : IdOf[p] = IdOf[r] => p = r

VARIABLES
    dir,     \* per file in the plugins directory what it holds, {} or {p}
    engine,  \* what s.plugins points to: a function from IDs to plugins
    req,     \* per request its next step, with the file and plugin it writes, or with
             \* the files it has still to read and the engine it has built so far
    inOrder  \* history: the latest request, or restart, began when no other request was in
             \* flight, and since then none has begun beside it and nothing has failed

vars == <<dir, engine, req, inOrder>>

Engines == UNION {{e \in [S -> Plugin] : \A i \in S : IdOf[e[i]] = i} : S \in SUBSET Id}

Steps ==
    [step : {"none", "ReadDir"}]
        \cup [step : {"WriteFile"}, file : File, plugin : Plugin]
        \cup [step : {"ReadFile"}, todo : SUBSET File, engine : Engines]

TypeOK ==
    /\ DOMAIN dir \subseteq File
    /\ \A f \in DOMAIN dir : dir[f] = {} \/ \E p \in Plugin : dir[f] = {p}
    /\ engine \in Engines
    /\ req \in [Request -> Steps]
    /\ inOrder \in BOOLEAN

Idle == [step |-> "none"]
ToReload == [step |-> "ReadDir"]

-----------------------------------------------------------------------------
(* plugin.Load: the bundled plugins, then the files of the directory in    *)
(* order; a later plugin with the same ID takes the place of the earlier.  *)

BundledEngine == [i \in {IdOf[p] : p \in Bundled} |-> CHOOSE p \in Bundled : IdOf[p] = i]

\* Mistake: the first plugin with an ID stays.
LoadSourceFirst(e, f, content) ==
    e @@ [i \in {IdOf[p] : p \in content} |-> CHOOSE p \in content : TRUE]

\* A file that is gone or does not hold a plugin is skipped.
LoadSource(e, f, content) ==
    LET ids == {IdOf[p] : p \in content}
    IN  [i \in DOMAIN e \cup ids |-> IF i \in ids THEN CHOOSE p \in content : TRUE ELSE e[i]]

\* The directory is listed once; its files are read one by one.
StartLoad == [step |-> "ReadFile", todo |-> DOMAIN dir, engine |-> BundledEngine]

ReadDir(q) ==
    /\ req[q].step = "ReadDir"
    /\ req' = [req EXCEPT ![q] = StartLoad]
    /\ UNCHANGED <<dir, engine, inOrder>>

\* The directory cannot be listed: Load gives up, and the handler answers that the plugin is
\* saved or deleted but the reload failed.
ReadDirFails(q) ==
    /\ req[q].step = "ReadDir"
    /\ req' = [req EXCEPT ![q] = Idle]
    /\ inOrder' = FALSE
    /\ UNCHANGED <<dir, engine>>

ReadFile(q) ==
    /\ req[q].step = "ReadFile" /\ req[q].todo # {}
    /\ LET f == Min(req[q].todo)
           content == IF f \in DOMAIN dir THEN dir[f] ELSE {}
       IN  req' = [req EXCEPT ![q].todo = @ \ {f},
                              ![q].engine = LoadSource(@, f, content)]
    /\ UNCHANGED <<dir, engine, inOrder>>

\* A file that is there cannot be read: it is skipped, and the reload goes on.
ReadFileFails(q) ==
    /\ req[q].step = "ReadFile" /\ req[q].todo # {}
    /\ Min(req[q].todo) \in DOMAIN dir
    /\ req' = [req EXCEPT ![q].todo = @ \ {Min(@)}]
    /\ inOrder' = FALSE
    /\ UNCHANGED <<dir, engine>>

\* s.plugins.Store, and the response.
Store(q) ==
    /\ req[q].step = "ReadFile" /\ req[q].todo = {}
    /\ engine' = req[q].engine
    /\ req' = [req EXCEPT ![q] = Idle]
    /\ UNCHANGED <<dir, inOrder>>

-----------------------------------------------------------------------------
(* POST /api/plugins and DELETE /api/plugins/{filename}.                   *)

\* A request begins: alone, whatever happened before, or beside others.
Begin == inOrder' = \A q \in Request : req[q] = Idle

\* A plugin that Validate accepts; os.WriteFile opens and truncates the file first.
UploadPlugin(q, f, p) ==
    /\ req[q] = Idle
    /\ dir' = [g \in DOMAIN dir \cup {f} |-> IF g = f THEN {} ELSE dir[g]]
    /\ req' = [req EXCEPT ![q] = [step |-> "WriteFile", file |-> f, plugin |-> p]]
    /\ Begin
    /\ UNCHANGED engine

\* When another upload has written the same open file, what is longer shows behind
\* what was written last, and the file may not hold a plugin.
WriteFile(q) ==
    /\ req[q].step = "WriteFile"
    /\ LET f == req[q].file
       IN  \/ dir' = [dir EXCEPT ![f] = {req[q].plugin}]
           \/ dir[f] # {} /\ dir' = [dir EXCEPT ![f] = {}]
    /\ req' = [req EXCEPT ![q] = ToReload]
    /\ UNCHANGED <<engine, inOrder>>

\* The disk is full: the handler gives up and leaves the file empty.
WriteFails(q) ==
    /\ req[q].step = "WriteFile"
    /\ req' = [req EXCEPT ![q] = Idle]
    /\ inOrder' = FALSE
    /\ UNCHANGED <<dir, engine>>

\* An upload that has the file open writes to a file without a name.
DeletePlugin(q, f) ==
    /\ req[q] = Idle
    /\ f \in DOMAIN dir
    /\ dir' = Restrict(dir, DOMAIN dir \ {f})
    /\ req' = [r \in Request |->
                  IF r = q \/ (req[r].step = "WriteFile" /\ req[r].file = f) THEN ToReload
                                                                            ELSE req[r]]
    /\ Begin
    /\ UNCHANGED engine

-----------------------------------------------------------------------------
\* What the files fs give when nothing changes them: for each ID the plugin in the last file
\* that has one with this ID, or else the bundled one.
LoadedFrom(fs) ==
    LET with(i) == {f \in fs : \E p \in dir[f] : IdOf[p] = i}
        ids == DOMAIN BundledEngine \cup {i \in Id : with(i) # {}}
    IN  [i \in ids |-> IF with(i) = {} THEN BundledEngine[i]
                       ELSE CHOOSE p \in dir[Max(with(i))] : TRUE]

Loaded == LoadedFrom(DOMAIN dir)

Init ==
    /\ dir = <<>>
    /\ engine = BundledEngine
    /\ req = [q \in Request |-> Idle]
    /\ inOrder = TRUE

\* The process ends at any point and is started again: main loads the directory, without the
\* files that it cannot read.  When the directory cannot be listed main ends at once, and
\* nothing runs until a later start.
Restart ==
    /\ req' = [q \in Request |-> Idle]
    /\ \E readable \in SUBSET DOMAIN dir :
          /\ engine' = LoadedFrom(readable)
          /\ inOrder' = (readable = DOMAIN dir)
    /\ UNCHANGED dir

Next ==
    \/ \E q \in Request : \/ \E f \in File, p \in Plugin : UploadPlugin(q, f, p)
                          \/ \E f \in File : DeletePlugin(q, f)
                          \/ WriteFile(q) \/ WriteFails(q)
                          \/ ReadDir(q) \/ ReadDirFails(q)
                          \/ ReadFile(q) \/ ReadFileFails(q) \/ Store(q)
    \/ Restart

Spec == Init /\ [][Next]_vars

-----------------------------------------------------------------------------
(* Correctness.                                                            *)

\* Whatever uploads, deletions, errors and restarts do to the files in the middle of a
\* reload, the bundled plugins are never missing from the engine.
BundledStay == \A p \in Bundled : IdOf[p] \in DOMAIN engine

\* When no request is in flight the engine is what a start of the program would load from
\* the directory: overwritten plugins are replaced, the last file wins, a deleted override
\* gives way to what it hid.  The comment on reloadPlugins says it of every reload ("rebuilds
\* the Engine from scratch (bundled plugins plus everything currently in s.pluginsDir) and
\* atomically swaps it in").  Of two requests that overlap the one that stores last may have
\* read the older directory, and after an error the file is changed and the engine is not,
\* or a file is missing in it; the next request that comes on its own and meets no error
\* makes up for all that went wrong before, and so does a restart that reads every file.
SequentialReloadsMatch == inOrder /\ (\A q \in Request : req[q] = Idle) => engine = Loaded
=============================================================================
