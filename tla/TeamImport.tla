----------------------------- MODULE TeamImport -----------------------------
(***************************************************************************)
(* Importing teams from a file, with the page that uploads it: the handler *)
(* reads all rows, sorts out those without a name, and then inserts the    *)
(* teams one statement at a time, going on when one fails.  Several        *)
(* organizers upload and add teams; the process may end and the answer may *)
(* be lost at any point, and the page offers to upload again.              *)
(***************************************************************************)
EXTENDS Integers, Sequences, SequencesExt, FiniteSets, FiniteSetsExt

CONSTANTS
    Client,     \* pages for the import, in different browsers
    File,       \* the files: extension, header and records
    Cell,       \* what a cell may hold
    Blank,      \* a cell without characters other than spaces
    MaxUploads, \* bound on uploads
    MaxAdded,   \* bound on teams that are added by hand
    MaxFaults   \* bound on inserts that fail

ASSUME ImportAssumption ==
    /\ \A f \in File : /\ f.ext \in {".csv", ".xlsx", "other"}
                       /\ f.header \in Seq({"name", "club"})
                       /\ f.records \in Seq(Seq(Cell))
    /\ Blank \in Cell
    /\ MaxUploads \in Nat /\ MaxAdded \in Nat /\ MaxFaults \in Nat

VARIABLES
    teams,    \* teams: in the order of their IDs the upload and the row they come from;
              \* a team that was added by hand has upload 0
    uploads,  \* per upload, in order: its file and what its handler has done
    page,     \* per client what it shows, and the upload it waits for or has an answer to
    added,
    faults

importVars == <<teams, uploads, page, added, faults>>

-----------------------------------------------------------------------------
(* importer: files to rows, rows to teams.                                 *)

Columns(f, record) == DOMAIN f.header \cap DOMAIN record

\* row["name"]: the last of the columns with this name that the record has.
NameOf(f, record) ==
    LET at == {i \in Columns(f, record) : f.header[i] = "name"}
    IN  IF at = {} THEN Blank ELSE record[Max(at)]

\* A CSV file is refused when its records are not all as long as its header; a sheet drops
\* the empty cells at the end of its rows.
Parses(f) ==
    \/ f.ext = ".xlsx"
    \/ f.ext = ".csv" /\ \A i \in DOMAIN f.records : Len(f.records[i]) = Len(f.header)

\* The rows with a name, and a problem for each of the others, row by row.  Rows count
\* from 0 in the program and from 1 here.
Validate(f) ==
    LET sorted[i \in 0..Len(f.records)] ==
            IF i = 0 THEN [teams |-> <<>>, problems |-> <<>>]
            ELSE IF NameOf(f, f.records[i]) # Blank
            THEN [sorted[i - 1] EXCEPT !.teams = Append(@, i)]
            ELSE [sorted[i - 1] EXCEPT !.problems = Append(@, [row |-> i, failed |-> i])]
    IN  sorted[Len(f.records)]

-----------------------------------------------------------------------------
\* A handler that has read its file goes through todo; what it will answer.
Handling(f) ==
    [file |-> f, todo |-> Validate(f).teams, at |-> 1, imported |-> 0,
     problems |-> Validate(f).problems, state |-> "saving"]

Refused(f) ==
    [file |-> f, todo |-> <<>>, at |-> 1, imported |-> 0, problems |-> <<>>, state |-> "refused"]

ImportInit ==
    /\ teams = <<>>
    /\ uploads = <<>>
    /\ page = [c \in Client |-> [shows |-> "form", upload |-> 0]]
    /\ added = 0
    /\ faults = 0

-----------------------------------------------------------------------------
(* The handler.                                                            *)

\* The button is off while an upload is pending and gone once there is a result.
Upload(c, f) ==
    /\ page[c].shows \in {"form", "error"}
    /\ Len(uploads) < MaxUploads
    /\ uploads' = Append(uploads, IF Parses(f) THEN Handling(f) ELSE Refused(f))
    /\ page' = [page EXCEPT ![c] = [shows |-> "pending", upload |-> Len(uploads')]]
    /\ UNCHANGED <<teams, added, faults>>

\* Mistake: the teams are inserted from the last to the first.
SaveBackwards(u) ==
    /\ uploads[u].state = "saving" /\ uploads[u].at <= Len(uploads[u].todo)
    /\ teams' = Append(teams, [upload |-> u,
                               row |-> Reverse(uploads[u].todo)[uploads[u].at]])
    /\ uploads' = [uploads EXCEPT ![u].at = @ + 1, ![u].imported = @ + 1]
    /\ UNCHANGED <<page, added, faults>>

Saving(u) == uploads[u].state = "saving" /\ uploads[u].at <= Len(uploads[u].todo)

Save(u) ==
    /\ Saving(u)
    /\ teams' = Append(teams, [upload |-> u, row |-> uploads[u].todo[uploads[u].at]])
    /\ uploads' = [uploads EXCEPT ![u].at = @ + 1, ![u].imported = @ + 1]
    /\ UNCHANGED <<page, added, faults>>

\* Mistake: the number of teams that were imported stands for the row.
SaveFailsAtImported(u) ==
    /\ Saving(u)
    /\ faults < MaxFaults
    /\ faults' = faults + 1
    /\ LET x == uploads[u]
       IN  uploads' = [uploads EXCEPT
              ![u].at = @ + 1,
              ![u].problems = Append(@, [row |-> x.imported, failed |-> x.todo[x.at]])]
    /\ UNCHANGED <<teams, page, added>>

\* Mistake: the first error ends the import.
SaveFailsStop(u) ==
    /\ Saving(u)
    /\ faults < MaxFaults
    /\ faults' = faults + 1
    /\ LET x == uploads[u]
       IN  uploads' = [uploads EXCEPT
              ![u].at = Len(x.todo) + 1,
              ![u].problems = Append(@, [row |-> x.at, failed |-> x.todo[x.at]])]
    /\ UNCHANGED <<teams, page, added>>

\* Mistake: the first error is answered with status 500.
SaveFails500(u) ==
    /\ Saving(u)
    /\ faults < MaxFaults
    /\ faults' = faults + 1
    /\ uploads' = [uploads EXCEPT ![u].state = "refused"]
    /\ UNCHANGED <<teams, page, added>>

\* The row of the problem is the index in the list of teams to insert; failed is the row
\* of the file it is about.
SaveFails(u) ==
    /\ Saving(u)
    /\ faults < MaxFaults
    /\ faults' = faults + 1
    /\ LET x == uploads[u]
       IN  uploads' = [uploads EXCEPT
              ![u].at = @ + 1,
              ![u].problems = Append(@, [row |-> x.at, failed |-> x.todo[x.at]])]
    /\ UNCHANGED <<teams, page, added>>

Waits(c, u) == page[c] = [shows |-> "pending", upload |-> u]

\* The page of an answer: the list of problems is null in JSON when there is none, and
\* the results screen reads its length, which takes the page down.
ResultPage(u) == IF uploads[u].problems = <<>> THEN "nothing" ELSE "result"

Respond(u) ==
    /\ uploads[u].state \in {"saving", "refused"} /\ ~Saving(u)
    /\ uploads' = [uploads EXCEPT ![u].state = "answered"]
    /\ page' = [c \in Client |->
                  IF ~Waits(c, u) THEN page[c]
                  ELSE [page[c] EXCEPT !.shows = IF uploads[u].state = "refused" THEN "error"
                                                 ELSE ResultPage(u)]]
    /\ UNCHANGED <<teams, added, faults>>

\* The connection breaks: the page shows an error and offers to upload again; the handler
\* does not notice.
Lose(c) ==
    /\ page[c].shows = "pending"
    /\ page' = [page EXCEPT ![c] = [shows |-> "error", upload |-> 0]]
    /\ UNCHANGED <<teams, uploads, added, faults>>

\* The process ends and is started again.
Restart ==
    /\ \E u \in DOMAIN uploads : uploads[u].state \in {"saving", "refused"}
    /\ uploads' = [u \in DOMAIN uploads |->
                     IF uploads[u].state = "answered" THEN uploads[u]
                     ELSE [uploads[u] EXCEPT !.state = "ended"]]
    /\ page' = [c \in Client |-> IF page[c].shows = "pending"
                                 THEN [shows |-> "error", upload |-> 0] ELSE page[c]]
    /\ UNCHANGED <<teams, added, faults>>

\* The page is opened again, also while it waits.
Open(c) ==
    /\ page' = [page EXCEPT ![c] = [shows |-> "form", upload |-> 0]]
    /\ UNCHANGED <<teams, uploads, added, faults>>

\* POST .../teams, with a name.
CreateTeam ==
    /\ added < MaxAdded
    /\ added' = added + 1
    /\ teams' = Append(teams, [upload |-> 0, row |-> 0])
    /\ UNCHANGED <<uploads, page, faults>>

Handler(u) == Save(u) \/ SaveFails(u) \/ Respond(u)

ImportNext ==
    \/ \E c \in Client : (\E f \in File : Upload(c, f)) \/ Lose(c) \/ Open(c)
    \/ \E u \in DOMAIN uploads : Handler(u)
    \/ CreateTeam
    \/ Restart

ImportSpec == ImportInit /\ [][ImportNext]_importVars

-----------------------------------------------------------------------------
(* Correctness.                                                            *)

Stored(u, i) == {t \in DOMAIN teams : teams[t] = [upload |-> u, row |-> i]}
Reported(u, i) == {k \in DOMAIN uploads[u].problems : uploads[u].problems[k].failed = i}

\* The answer accounts for the file: each row was either stored as one team or has one
\* problem, and the count is the number of teams that this upload stored, whatever failed
\* and whoever else added teams meanwhile.
EveryRowAccounted ==
    \A u \in DOMAIN uploads : uploads[u].state = "answered" /\ Parses(uploads[u].file) =>
       /\ \A i \in DOMAIN uploads[u].file.records :
             Cardinality(Stored(u, i)) + Cardinality(Reported(u, i)) = 1
       /\ uploads[u].imported = Cardinality({t \in DOMAIN teams : teams[t].upload = u})

\* At every moment, so also when the process ends or a list is asked for in the middle of
\* an import, the teams of an upload are in the order of the file and come from its
\* beginning: of the rows before the last team each is stored before it or has a problem.
StoredIsABeginning ==
    \A t \in DOMAIN teams : \A i \in 1..(teams[t].row - 1) :
       \/ Reported(teams[t].upload, i) # {}
       \/ \E s \in Stored(teams[t].upload, i) : s < t

\* An error that the server has answered means that nothing of the file was stored, and
\* the file can be uploaded again.  After a lost answer it is not so, and a second upload
\* stores the teams twice.
AnsweredErrorStoredNothing ==
    \A c \in Client : page[c].shows = "error" /\ page[c].upload # 0 =>
       \A t \in DOMAIN teams : teams[t].upload # page[c].upload

\* A problem names the row of the file it is about, unless a row without a name came
\* before a row that could not be saved.
ProblemsNameRows ==
    \A u \in DOMAIN uploads : \A k \in DOMAIN uploads[u].problems :
       LET p == uploads[u].problems[k]
           f == uploads[u].file
       IN  p.row = p.failed \/ \E i \in 1..(p.failed - 1) : NameOf(f, f.records[i]) = Blank

-----------------------------------------------------------------------------
(* What documents say that the code does not do; violated.                 *)

\* Web UI design: after an upload a "results screen: N imported, a list of any per-row
\* problems".
ResultsAreShown == \A c \in Client : page[c].shows # "nothing"
=============================================================================
