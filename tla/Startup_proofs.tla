--------------------------- MODULE Startup_proofs ---------------------------
(***************************************************************************)
(* Proofs about Startup: for any number of processes, migrations and       *)
(* crashes, the schema is what schema_migrations says, one account is      *)
(* created, and who serves has both.                                       *)
(***************************************************************************)
EXTENDS Startup, TLAPS

\* How far each process has come, and what is true of the database from then on.
Progress ==
    \A p \in Process :
        /\ proc[p].at \in {"lookup", "apply"} =>
              proc[p].file >= 1 /\ 1..(proc[p].file - 1) \subseteq applied
        /\ proc[p].at = "apply" => proc[p].file <= Migrations
        /\ proc[p].at \in {"count", "create", "print", "listen", "serving"} =>
              applied = 1..Migrations
        /\ proc[p].at \in {"print", "listen", "serving"} => users # <<>>

StartupInv == TypeOK /\ SchemaIsRecorded /\ OneAdmin /\ Progress

Local == [at : {"down", "lookup", "apply", "count", "create", "print", "listen", "serving"},
          file : 0..(Migrations + 1)]

LEMMA InitStartup == Init => StartupInv
<1>. SUFFICES ASSUME Init PROVE StartupInv
  OBVIOUS
<1>1. TypeOK
  BY StartupAssumption DEF Init, TypeOK, Down, Password
<1>2. SchemaIsRecorded
  BY DEF Init, SchemaIsRecorded, ToSet
<1>3. OneAdmin /\ Progress
  BY DEF Init, OneAdmin, Progress, Down
<1>. QED
  BY <1>1, <1>2, <1>3 DEF StartupInv

\* Steps that only move one process on.
LEMMA Moves ==
    ASSUME StartupInv, NEW p \in Process, NEW l \in Local,
           proc' = [proc EXCEPT ![p] = l],
           UNCHANGED <<configured, schema, applied, users>>,
           known' \subseteq Password, faults' \in 0..MaxFaults,
           l.at \in {"lookup", "apply"} => l.file >= 1 /\ 1..(l.file - 1) \subseteq applied,
           l.at = "apply" => l.file <= Migrations,
           l.at \in {"count", "create", "print", "listen", "serving"} => applied = 1..Migrations,
           l.at \in {"print", "listen", "serving"} => users # <<>>
    PROVE  StartupInv'
<1>1. TypeOK'
  BY DEF StartupInv, TypeOK, Local
<1>2. SchemaIsRecorded' /\ OneAdmin'
  BY DEF StartupInv, SchemaIsRecorded, OneAdmin
<1>3. \A q \in Process : proc'[q] = IF q = p THEN l ELSE proc[q]
  BY DEF StartupInv, TypeOK
<1>4. Progress'
  BY <1>3 DEF StartupInv, Progress
<1>. QED
  BY <1>1, <1>2, <1>4 DEF StartupInv

\* A migration that is executed is the next one: all before it have been.
LEMMA NextFile ==
    ASSUME StartupInv, NEW p \in Process, proc[p].at = "apply", proc[p].file \notin applied
    PROVE  /\ proc[p].file = Len(schema) + 1
           /\ Len(schema) \in Nat
           /\ applied = 1..Len(schema)
           /\ proc[p].file \in 1..Migrations
<1>1. proc[p].file \in 1..Migrations /\ 1..(proc[p].file - 1) \subseteq applied
  BY StartupAssumption DEF StartupInv, TypeOK, Progress
<1>2. Len(schema) \in Nat /\ DOMAIN schema = 1..Len(schema)
  BY DEF StartupInv, TypeOK
<1>3. applied = 1..Len(schema)
  <2>1. applied = {schema[i] : i \in 1..Len(schema)}
    BY <1>2 DEF StartupInv, SchemaIsRecorded, ToSet
  <2>2. \A i \in 1..Len(schema) : schema[i] = i
    BY DEF StartupInv, SchemaIsRecorded
  <2>. QED
    BY <2>1, <2>2
<1>4. proc[p].file > Len(schema)
  BY <1>1, <1>2, <1>3
<1>5. ~(proc[p].file - 1 > Len(schema))
  <2>. SUFFICES ASSUME proc[p].file - 1 > Len(schema) PROVE FALSE
    OBVIOUS
  <2>1. Len(schema) + 1 \in 1..(proc[p].file - 1)
    BY <1>1, <1>2
  <2>2. Len(schema) + 1 \in 1..Len(schema)
    BY <1>1, <1>3, <2>1
  <2>. QED
    BY <1>2, <2>2
<1>. QED
  BY <1>1, <1>2, <1>3, <1>4, <1>5

LEMMA ApplyStartup ==
    ASSUME StartupInv, NEW p \in Process, Apply(p)
    PROVE  StartupInv'
<1>. DEFINE file == proc[p].file
<1>0. proc[p] \in Local /\ proc[p].at = "apply"
  BY DEF StartupInv, TypeOK, Local, Apply
<1>1. CASE file \in applied
  <2>1. Down \in Local
    BY StartupAssumption DEF Down, Local
  <2>. QED
    BY <1>1, <2>1, Moves DEF Apply, Fatal, Down, StartupInv, TypeOK
<1>2. CASE file \notin applied
  <2>. DEFINE l == [at |-> "lookup", file |-> file + 1]
  <2>1. /\ file = Len(schema) + 1 /\ Len(schema) \in Nat /\ applied = 1..Len(schema)
        /\ file \in 1..Migrations
    BY <1>0, <1>2, NextFile
  <2>2. /\ schema' = Append(schema, file) /\ applied' = applied \cup {file}
        /\ proc' = [proc EXCEPT ![p] = l]
        /\ UNCHANGED <<configured, users, known, faults>>
    BY <1>2 DEF Apply
  <2>3. schema' \in Seq(1..Migrations)
    BY <2>1, <2>2 DEF StartupInv, TypeOK
  <2>4. l \in Local
    BY <2>1, StartupAssumption DEF Local
  <2>5. TypeOK'
    BY <2>1, <2>2, <2>3, <2>4 DEF StartupInv, TypeOK, Local
  <2>6. Len(schema') = file /\ \A i \in 1..file : schema'[i] = i
    <3>1. schema \in Seq(1..Migrations) /\ \A i \in 1..Len(schema) : schema[i] = i
      BY DEF StartupInv, TypeOK, SchemaIsRecorded
    <3>. QED
      BY <2>1, <2>2, <3>1
  <2>7. schema' = [i \in 1..Len(schema') |-> i]
    BY <2>3, <2>6
  <2>8. DOMAIN schema' = 1..file /\ applied' = 1..file
    BY <2>1, <2>2, <2>3, <2>6
  <2>9. SchemaIsRecorded'
    BY <2>6, <2>7, <2>8 DEF SchemaIsRecorded, ToSet
  <2>10. \A q \in Process : proc'[q] = IF q = p THEN l ELSE proc[q]
    BY <2>2 DEF StartupInv, TypeOK
  <2>11. \A q \in Process : proc[q].at \notin {"count", "create", "print", "listen", "serving"}
    BY <1>2, <2>1 DEF StartupInv, Progress
  <2>12. Progress'
    <3>. SUFFICES ASSUME NEW q \in Process
                  PROVE  /\ proc'[q].at \in {"lookup", "apply"} =>
                               proc'[q].file >= 1 /\ 1..(proc'[q].file - 1) \subseteq applied'
                         /\ proc'[q].at = "apply" => proc'[q].file <= Migrations
                         /\ proc'[q].at \notin {"count", "create", "print", "listen", "serving"}
      BY DEF Progress
    <3>1. CASE q = p
      BY <2>1, <2>8, <2>10, <3>1
    <3>2. CASE q # p
      BY <2>2, <2>10, <2>11, <3>2 DEF StartupInv, Progress
    <3>. QED
      BY <3>1, <3>2
  <2>. QED
    BY <2>2, <2>5, <2>9, <2>12 DEF StartupInv, OneAdmin
<1>. QED
  BY <1>1, <1>2

LEMMA CreateStartup ==
    ASSUME StartupInv, NEW p \in Process, Create(p)
    PROVE  StartupInv'
<1>1. CASE users = <<>>
  <2>. DEFINE l == [proc[p] EXCEPT !.at = "print"]
  <2>1. /\ users' = <<NewPassword(p)>> /\ proc' = [proc EXCEPT ![p] = l]
        /\ UNCHANGED <<configured, schema, applied, known, faults>>
    BY <1>1 DEF Create, Go
  <2>2. NewPassword(p) \in Password
    BY DEF NewPassword, Password
  <2>3. TypeOK'
    BY <2>1, <2>2 DEF StartupInv, TypeOK
  <2>4. SchemaIsRecorded'
    BY <2>1 DEF StartupInv, SchemaIsRecorded
  <2>5. OneAdmin' /\ users' # <<>>
    BY <2>1 DEF OneAdmin
  <2>6. \A q \in Process : proc'[q] = IF q = p THEN l ELSE proc[q]
    BY <2>1 DEF StartupInv, TypeOK
  <2>7. l.at = "print" /\ applied = 1..Migrations
    BY DEF StartupInv, TypeOK, Progress, Create
  <2>8. Progress'
    BY <2>1, <2>5, <2>6, <2>7 DEF StartupInv, Progress
  <2>. QED
    BY <2>3, <2>4, <2>5, <2>8 DEF StartupInv
<1>2. CASE users # <<>>
  <2>1. Down \in Local
    BY StartupAssumption DEF Down, Local
  <2>. QED
    BY <1>2, <2>1, Moves DEF Create, Fatal, Down, StartupInv, TypeOK
<1>. QED
  BY <1>1, <1>2

LEMMA LookupStartup ==
    ASSUME StartupInv, NEW p \in Process, Lookup(p)
    PROVE  StartupInv'
<1>. DEFINE file == proc[p].file
<1>0. /\ proc[p] \in Local /\ proc[p].at = "lookup"
      /\ file \in 1..(Migrations + 1) /\ 1..(file - 1) \subseteq applied
      /\ applied \subseteq 1..Migrations
      /\ UNCHANGED <<configured, schema, applied, users, known, faults>>
      /\ known' \subseteq Password /\ faults' \in 0..MaxFaults
  BY DEF StartupInv, TypeOK, Local, Progress, Lookup
<1>1. CASE file > Migrations /\ Go(p, "count")
  <2>. DEFINE l == [proc[p] EXCEPT !.at = "count"]
  <2>1. l \in Local /\ l.at = "count" /\ proc' = [proc EXCEPT ![p] = l]
    BY <1>0, <1>1 DEF Local, Go
  <2>2. applied = 1..Migrations
    <3>1. 1..Migrations \subseteq 1..(file - 1)
      BY <1>0, <1>1, StartupAssumption
    <3>. QED
      BY <1>0, <3>1
  <2>. QED
    BY <1>0, <2>1, <2>2, Moves
<1>2. CASE file \in applied /\ proc' = [proc EXCEPT ![p].file = file + 1]
  <2>. DEFINE l == [proc[p] EXCEPT !.file = file + 1]
  <2>1. /\ l \in Local /\ l.at = "lookup" /\ l.file = file + 1
        /\ proc' = [proc EXCEPT ![p] = l]
    BY <1>0, <1>2, StartupAssumption DEF Local
  <2>2. l.file >= 1 /\ 1..(l.file - 1) \subseteq applied
    BY <1>0, <1>2, <2>1, StartupAssumption
  <2>. QED
    BY <1>0, <2>1, <2>2, Moves
<1>3. CASE file \in 1..Migrations \ applied /\ Go(p, "apply")
  <2>. DEFINE l == [proc[p] EXCEPT !.at = "apply"]
  <2>1. /\ l \in Local /\ l.at = "apply" /\ l.file = file
        /\ proc' = [proc EXCEPT ![p] = l]
    BY <1>0, <1>3 DEF Local, Go
  <2>2. l.file >= 1 /\ l.file <= Migrations /\ 1..(l.file - 1) \subseteq applied
    BY <1>0, <1>3, <2>1, StartupAssumption
  <2>. HIDE DEF l
  <2>. QED
    BY <1>0, <2>1, <2>2, Moves
<1>. QED
  BY <1>1, <1>2, <1>3 DEF Lookup

LEMMA StepStartup == StartupInv /\ [Next]_vars => StartupInv'
<1>. SUFFICES ASSUME StartupInv, [Next]_vars PROVE StartupInv'
  OBVIOUS
<1>1. CASE UNCHANGED vars
  BY <1>1 DEF vars, StartupInv, TypeOK, SchemaIsRecorded, OneAdmin, Progress
<1>2. ASSUME NEW p \in Process, Start(p) PROVE StartupInv'
  <2>. DEFINE l == [at |-> "lookup", file |-> 1]
  <2>1. l \in Local /\ l.at = "lookup" /\ l.file >= 1
    BY StartupAssumption DEF Local
  <2>2. 1..(l.file - 1) \subseteq applied
    OBVIOUS
  <2>3. /\ proc' = [proc EXCEPT ![p] = l]
        /\ UNCHANGED <<configured, schema, applied, users>>
        /\ known' \subseteq Password /\ faults' \in 0..MaxFaults
    BY <1>2 DEF Start, StartupInv, TypeOK
  <2>. HIDE DEF l
  <2>. QED
    BY <2>1, <2>2, <2>3, Moves
<1>3. ASSUME NEW p \in Process, Count(p) PROVE StartupInv'
  <2>. DEFINE l == [proc[p] EXCEPT !.at = IF users = <<>> THEN "create" ELSE "listen"]
  <2>1. l \in Local /\ l.at = IF users = <<>> THEN "create" ELSE "listen"
    BY DEF StartupInv, TypeOK, Local
  <2>2. applied = 1..Migrations
    BY <1>3 DEF StartupInv, Progress, Count
  <2>. QED
    BY <1>3, <2>1, <2>2, Moves DEF Count, Go, StartupInv, TypeOK
<1>4. ASSUME NEW p \in Process, PrintPassword(p) PROVE StartupInv'
  <2>. DEFINE l == [proc[p] EXCEPT !.at = "listen"]
  <2>1. l \in Local /\ l.at = "listen"
    BY DEF StartupInv, TypeOK, Local
  <2>2. applied = 1..Migrations /\ users # <<>>
    BY <1>4 DEF StartupInv, Progress, PrintPassword
  <2>3. known' \subseteq Password
    BY <1>4 DEF PrintPassword, NewPassword, Password, StartupInv, TypeOK
  <2>. QED
    BY <1>4, <2>1, <2>2, <2>3, Moves DEF PrintPassword, Go, StartupInv, TypeOK
<1>5. ASSUME NEW p \in Process, Listen(p) PROVE StartupInv'
  <2>. DEFINE l == [proc[p] EXCEPT !.at = "serving"]
  <2>1. l \in Local /\ l.at = "serving" /\ Down \in Local
    BY StartupAssumption DEF StartupInv, TypeOK, Local, Down
  <2>2. applied = 1..Migrations /\ users # <<>>
    BY <1>5 DEF StartupInv, Progress, Listen
  <2>3. known' \subseteq Password /\ faults' \in 0..MaxFaults
        /\ UNCHANGED <<configured, schema, applied, users>>
    BY <1>5 DEF Listen, StartupInv, TypeOK
  <2>4. CASE Fatal(p)
    BY <2>1, <2>3, <2>4, Moves DEF Fatal, Down
  <2>5. CASE Go(p, "serving")
    BY <2>1, <2>2, <2>3, <2>5, Moves DEF Go
  <2>. QED
    BY <1>5, <2>4, <2>5 DEF Listen
<1>6. ASSUME NEW p \in Process, Ends(p) PROVE StartupInv'
  <2>1. Down \in Local
    BY StartupAssumption DEF Local, Down
  <2>2. faults' \in 0..MaxFaults
    BY <1>6, StartupAssumption DEF Ends, StartupInv, TypeOK
  <2>. QED
    BY <1>6, <2>1, <2>2, Moves DEF Ends, Fatal, Down, StartupInv, TypeOK
<1>. QED
  BY <1>1, <1>2, <1>3, <1>4, <1>5, <1>6, ApplyStartup, CreateStartup, LookupStartup
     DEF Next, Step

LEMMA StartupCorrect == Spec => []StartupInv
  BY InitStartup, StepStartup, PTL DEF Spec

\* Each migration is executed once and in order, and schema_migrations names exactly
\* those that were, however many processes migrate together and wherever they end.
THEOREM SchemaIsRecordedCorrect == Spec => []SchemaIsRecorded
<1>1. StartupInv => SchemaIsRecorded
  BY DEF StartupInv
<1>. QED
  BY <1>1, StartupCorrect, PTL

\* Any number of processes that find no account create one between them.
THEOREM OneAdminCorrect == Spec => []OneAdmin
<1>1. StartupInv => OneAdmin
  BY DEF StartupInv
<1>. QED
  BY <1>1, StartupCorrect, PTL

\* A process that serves has all migrations and an account.
THEOREM ServesCompleteCorrect == Spec => []ServesComplete
<1>1. StartupInv => ServesComplete
  BY DEF StartupInv, Progress, ServesComplete
<1>. QED
  BY <1>1, StartupCorrect, PTL

-----------------------------------------------------------------------------
\* Whoever is about to print has created the account, what is known without the
\* environment was printed, and only a process that ended took a password along.
PasswordsKept ==
    /\ \A p \in Process : proc[p].at = "print" => users = <<NewPassword(p)>>
    /\ known \subseteq {"environment"} \cup ToSet(users)
    /\ faults = 0 => \/ ToSet(users) \subseteq known
                    \/ \E p \in Process : proc[p].at = "print"

\* Every step keeps the account's password with the process that created it until it
\* is printed.
LEMMA StepPasswords ==
    ASSUME StartupInv, PasswordsKept, [Next]_vars
    PROVE  PasswordsKept'
<1>1. proc \in [Process -> Local] /\ faults \in Nat
  BY StartupAssumption DEF StartupInv, TypeOK, Local
<1>2. CASE UNCHANGED vars
  BY <1>2 DEF vars, PasswordsKept, NewPassword
<1>3. ASSUME NEW p \in Process, UNCHANGED <<configured, users, known>>,
             (faults' = faults /\ proc[p].at # "print") \/ faults' = faults + 1,
             proc'[p].at # "print", \A q \in Process \ {p} : proc'[q] = proc[q]
      PROVE  PasswordsKept'
  <2>1. \A q \in Process : proc'[q].at = "print" => proc[q].at = "print"
    BY <1>3
  <2>2. faults' = 0 => /\ faults = 0
                       /\ \A q \in Process : proc[q].at = "print" => proc'[q].at = "print"
    BY <1>1, <1>3
  <2>. QED  BY <1>3, <2>1, <2>2 DEF PasswordsKept, NewPassword
<1>4. ASSUME NEW p \in Process, Start(p) \/ Lookup(p) \/ Apply(p) \/ Count(p) \/ Listen(p)
      PROVE  PasswordsKept'
  <2>1. UNCHANGED <<configured, users, known, faults>> /\ proc[p].at # "print"
    BY <1>4 DEF Start, Lookup, Apply, Count, Listen, Down
  <2>2. \/ Fatal(p)
        \/ \E at \in {"apply", "count", "create", "listen", "serving"} : Go(p, at)
        \/ \E file : proc' = [proc EXCEPT ![p] = [at |-> "lookup", file |-> file]]
        \/ proc[p].at = "lookup" /\ \E file : proc' = [proc EXCEPT ![p].file = file]
    BY <1>4 DEF Start, Lookup, Apply, Count, Listen
  <2>3. proc'[p].at # "print" /\ \A q \in Process \ {p} : proc'[q] = proc[q]
    BY <2>2 DEF Fatal, Go, Down, StartupInv, TypeOK
  <2>. QED  BY <1>3, <2>1, <2>3
<1>5. ASSUME NEW p \in Process, Ends(p)
      PROVE  PasswordsKept'
  <2>1. UNCHANGED <<configured, users, known>> /\ faults' = faults + 1
        /\ proc' = [proc EXCEPT ![p] = Down]
    BY <1>5 DEF Ends, Fatal
  <2>2. proc'[p].at = "down" /\ \A q \in Process \ {p} : proc'[q] = proc[q]
    BY <1>1, <2>1 DEF Down
  <2>. QED  BY <1>3, <2>1, <2>2
<1>6. ASSUME NEW p \in Process, Create(p), users # <<>>
      PROVE  PasswordsKept'
  <2>1. UNCHANGED <<configured, users, known, faults>> /\ proc[p].at # "print"
        /\ proc' = [proc EXCEPT ![p] = Down]
    BY <1>6 DEF Create, Fatal
  <2>2. proc'[p].at = "down" /\ \A q \in Process \ {p} : proc'[q] = proc[q]
    BY <1>1, <2>1 DEF Down
  <2>. QED  BY <1>3, <2>1, <2>2
<1>7. ASSUME NEW p \in Process, Create(p), users = <<>>
      PROVE  PasswordsKept'
  <2>1. /\ users' = <<NewPassword(p)>> /\ UNCHANGED <<configured, known, faults>>
        /\ proc' = [proc EXCEPT ![p] = [proc[p] EXCEPT !.at = "print"]]
    BY <1>7 DEF Create, Go
  <2>2. \A q \in Process : proc[q].at # "print"
    BY <1>7 DEF StartupInv, Progress
  <2>3. proc'[p].at = "print" /\ \A q \in Process : proc'[q].at = "print" => q = p
    BY <1>1, <2>1, <2>2 DEF Local
  <2>4. known \subseteq {"environment"}
    BY <1>7 DEF PasswordsKept, ToSet
  <2>. QED  BY <2>1, <2>3, <2>4 DEF PasswordsKept, NewPassword
<1>8. ASSUME NEW p \in Process, PrintPassword(p)
      PROVE  PasswordsKept'
  <2>1. /\ known' = known \cup {NewPassword(p)} /\ UNCHANGED <<configured, users, faults>>
        /\ proc[p].at = "print"
        /\ proc' = [proc EXCEPT ![p] = [proc[p] EXCEPT !.at = "listen"]]
    BY <1>8 DEF PrintPassword, Go
  <2>2. users = <<NewPassword(p)>>
    BY <2>1 DEF PasswordsKept
  <2>3. ToSet(users) = {NewPassword(p)}
    BY <2>2 DEF ToSet
  <2>4. \A q \in Process : proc'[q].at = "print" => proc[q].at = "print"
    BY <1>1, <2>1 DEF Local
  <2>. QED  BY <2>1, <2>3, <2>4 DEF PasswordsKept, NewPassword
<1>. QED
  BY <1>2, <1>4, <1>5, <1>6, <1>7, <1>8 DEF Next, Step

\* The printed password is the account's, and without a crash the account's is printed.
THEOREM PrintedPasswordWorksCorrect == Spec => []PrintedPasswordWorks
<1>1. Init => PasswordsKept
  BY DEF Init, PasswordsKept, Down, ToSet
<1>2. StartupInv /\ PasswordsKept /\ [Next]_vars => PasswordsKept'
  BY StepPasswords
<1>3. PasswordsKept => PrintedPasswordWorks
  BY StartupAssumption DEF PasswordsKept, PrintedPasswordWorks
<1>. QED
  BY <1>1, <1>2, <1>3, StartupCorrect, PTL DEF Spec
=============================================================================
