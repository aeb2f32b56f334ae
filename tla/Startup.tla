------------------------------ MODULE Startup ------------------------------
(***************************************************************************)
(* Starting the server: main opens the store, which applies the migrations *)
(* the database lacks, creates the first account when there is none, and   *)
(* listens.  The process may end between any two statements and be started *)
(* again, also twice at a time on the same database.  Plugins, languages   *)
(* and the web UI are loaded without a trace in the database.              *)
(***************************************************************************)
EXTENDS Integers, Sequences, SequencesExt

CONSTANTS
    Process,     \* the processes that may run together, all with the same environment
    Migrations,  \* the number of migration files
    MaxFaults    \* bound on processes that end

\* A generated password stands under its process's name; it is never the configured one.
ASSUME StartupAssumption ==
    /\ Migrations \in Nat /\ MaxFaults \in Nat
    /\ "environment" \notin Process

VARIABLES
    configured,  \* whether the environment names the first account and its password
    schema,      \* the migrations that have been executed, in order
    applied,     \* the rows of schema_migrations
    users,       \* the accounts, each with its password: that of the environment, or
                 \* one that a process has generated
    known,       \* the passwords somebody can know
    proc,        \* per process what it does next, for which migration
    faults

vars == <<configured, schema, applied, users, known, proc, faults>>

Password == {"environment"} \cup Process

Down == [at |-> "down", file |-> 0]

TypeOK ==
    /\ configured \in BOOLEAN
    /\ schema \in Seq(1..Migrations)
    /\ applied \subseteq 1..Migrations
    /\ users \in Seq(Password) /\ known \subseteq Password
    /\ proc \in [Process -> [at : {"down", "lookup", "apply", "count", "create", "print",
                                   "listen", "serving"},
                             file : 0..(Migrations + 1)]]
    /\ faults \in 0..MaxFaults

Init ==
    /\ configured \in BOOLEAN
    /\ schema = <<>> /\ applied = {} /\ users = <<>>
    /\ known = IF configured THEN {"environment"} ELSE {}
    /\ proc = [p \in Process |-> Down]
    /\ faults = 0

Go(p, at) == proc' = [proc EXCEPT ![p].at = at]

\* log.Fatalf.
Fatal(p) == proc' = [proc EXCEPT ![p] = Down]

-----------------------------------------------------------------------------
Start(p) ==
    /\ proc[p] = Down
    /\ proc' = [proc EXCEPT ![p] = [at |-> "lookup", file |-> 1]]
    /\ UNCHANGED <<configured, schema, applied, users, known, faults>>

\* Mistake: a database with any migration is taken for a complete one.
LookupAny(p) ==
    /\ proc[p].at = "lookup"
    /\ Go(p, IF proc[p].file > Migrations \/ (proc[p].file = 1 /\ applied # {}) THEN "count"
             ELSE "apply")
    /\ UNCHANGED <<configured, schema, applied, users, known, faults>>

\* Mistake: what is applied is not looked up.
LookupNever(p) ==
    /\ proc[p].at = "lookup"
    /\ Go(p, IF proc[p].file > Migrations THEN "count" ELSE "apply")
    /\ UNCHANGED <<configured, schema, applied, users, known, faults>>

\* A file whose version is in schema_migrations is skipped.
Lookup(p) ==
    /\ proc[p].at = "lookup"
    /\ LET file == proc[p].file
       IN  \/ file > Migrations /\ Go(p, "count")
           \/ file \in applied /\ proc' = [proc EXCEPT ![p].file = file + 1]
           \/ file \in 1..Migrations \ applied /\ Go(p, "apply")
    /\ UNCHANGED <<configured, schema, applied, users, known, faults>>

\* Mistake: statements that do not mind being executed again.
ApplyAgain(p) ==
    /\ proc[p].at = "apply"
    /\ schema' = Append(schema, proc[p].file)
    /\ applied' = applied \cup {proc[p].file}
    /\ proc' = [proc EXCEPT ![p] = [at |-> "lookup", file |-> @.file + 1]]
    /\ UNCHANGED <<configured, users, known, faults>>

\* The statements of the file and its version, in one transaction; it fails when the
\* tables, the index or the version are there already.
Apply(p) ==
    /\ proc[p].at = "apply"
    /\ LET file == proc[p].file
       IN  IF file \in applied
           THEN Fatal(p) /\ UNCHANGED <<schema, applied>>
           ELSE /\ schema' = Append(schema, file)
                /\ applied' = applied \cup {file}
                /\ proc' = [proc EXCEPT ![p] = [at |-> "lookup", file |-> file + 1]]
    /\ UNCHANGED <<configured, users, known, faults>>

Count(p) ==
    /\ proc[p].at = "count"
    /\ Go(p, IF users = <<>> THEN "create" ELSE "listen")
    /\ UNCHANGED <<configured, schema, applied, users, known, faults>>

NewPassword(p) == IF configured THEN "environment" ELSE p

\* Mistake: names that repeat.
CreateAgain(p) ==
    /\ proc[p].at = "create"
    /\ users' = Append(users, NewPassword(p))
    /\ Go(p, "print")
    /\ UNCHANGED <<configured, schema, applied, known, faults>>

\* Mistake: the conflict is ignored, and a password printed that nobody has.
CreateOrIgnore(p) ==
    /\ proc[p].at = "create"
    /\ users' = IF users = <<>> THEN <<NewPassword(p)>> ELSE users
    /\ Go(p, "print")
    /\ UNCHANGED <<configured, schema, applied, known, faults>>

\* INSERT INTO users; the name is unique.
Create(p) ==
    /\ proc[p].at = "create"
    /\ IF users = <<>> THEN users' = <<NewPassword(p)>> /\ Go(p, "print")
                       ELSE Fatal(p) /\ UNCHANGED users
    /\ UNCHANGED <<configured, schema, applied, known, faults>>

\* "Created initial admin account ...": a generated password is printed once.
PrintPassword(p) ==
    /\ proc[p].at = "print"
    /\ known' = known \cup {NewPassword(p)}
    /\ Go(p, "listen")
    /\ UNCHANGED <<configured, schema, applied, users, faults>>

\* The port is taken by another process that is serving.
Listen(p) ==
    /\ proc[p].at = "listen"
    /\ IF \E q \in Process : proc[q].at = "serving" THEN Fatal(p) ELSE Go(p, "serving")
    /\ UNCHANGED <<configured, schema, applied, users, known, faults>>

\* The process is stopped, or a statement fails.
Ends(p) ==
    /\ proc[p] # Down
    /\ faults < MaxFaults
    /\ faults' = faults + 1
    /\ Fatal(p)
    /\ UNCHANGED <<configured, schema, applied, users, known>>

-----------------------------------------------------------------------------
Step(p) == Lookup(p) \/ Apply(p) \/ Count(p) \/ Create(p) \/ PrintPassword(p) \/ Listen(p)

Next == \E p \in Process : Start(p) \/ Step(p) \/ Ends(p)

Spec == Init /\ [][Next]_vars

\* A process that runs goes on; nobody has to start one.
FairSpec == Spec /\ \A p \in Process : WF_vars(Step(p))

-----------------------------------------------------------------------------
(* Correctness.                                                            *)

\* Each migration has been executed once, in order, and exactly those that
\* schema_migrations names, wherever processes ended or met.
SchemaIsRecorded ==
    /\ schema = [i \in 1..Len(schema) |-> i]
    /\ ToSet(schema) = applied

\* A server that takes requests has all of its tables, and an account.
ServesComplete ==
    (\E p \in Process : proc[p].at = "serving") => applied = 1..Migrations /\ users # <<>>

\* Two processes that both find no account create one between them.
OneAdmin == Len(users) <= 1

\* A password that was printed is that of the account, also when two processes were to
\* create it; and while no process has ended the account's password was printed once its
\* creator is past that.  (One that ends between the INSERT and the log line takes the
\* password along, and no later start creates another account.)
PrintedPasswordWorks ==
    /\ known \cap Process \subseteq ToSet(users)
    /\ faults = 0 /\ (\A p \in Process : proc[p].at # "print") => ToSet(users) \subseteq known

\* A start that failed may be repeated: when a process is started again as often as it
\* ends, in the end some process serves.
StartedAgainServes ==
    (\E p \in Process : []<>(proc[p] # Down)) => []<>(\E p \in Process : proc[p].at = "serving")
=============================================================================
