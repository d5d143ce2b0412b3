------------------------------ MODULE Migrator ------------------------------
(***************************************************************************)
(* runMigrations, which every instance of the service runs before it       *)
(* listens: apply the migration files that schema_migrations does not      *)
(* name, in order, and record each.  A file is sent as one query but       *)
(* executed statement by statement, every statement committing on its own, *)
(* and nothing keeps two starting instances apart.  An instance may die at *)
(* any point and is started again.                                         *)
(***************************************************************************)
EXTENDS Naturals, Sequences

CONSTANTS
    Instances,    \* processes that start the service on one database
    Migrations,   \* the sorted files of migrations/, each a sequence of statements
    Objects,      \* the tables, columns, keys and seeded rows they are about
    MaxCrashes    \* bound: how often an instance dies

(* A statement makes objects and drops objects.  A guarded one (IF NOT       *)
(* EXISTS, INSERT IGNORE, an UPDATE of what is still NULL) may be run again. *)
Statement == [makes : SUBSET Objects, drops : SUBSET Objects, guarded : BOOLEAN]

Files == DOMAIN Migrations
Positions == UNION {{f} \X DOMAIN Migrations[f] : f \in Files}
At(s) == Migrations[s[1]][s[2]]

ASSUME MigrationsAssumption ==
    /\ Migrations \in Seq(Seq(Statement))
    /\ \A f \in Files : Migrations[f] # <<>>
    /\ MaxCrashes \in Nat

\* How the files are written: no object is made by two statements, every
\* statement makes an object that stays, and a guarded one drops nothing.
ASSUME ScriptAssumption ==
    /\ \A s, t \in Positions : At(s).makes \cap At(t).makes # {} => s = t
    /\ \A s \in Positions : \E o \in At(s).makes : \A t \in Positions : o \notin At(t).drops
    /\ \A s \in Positions : At(s).guarded => At(s).drops = {}

VARIABLES
    schema,     \* the objects that exist in the database
    recorded,   \* the files named in schema_migrations
    pc,         \* where each instance is
    applied,    \* the names an instance read when it started
    file, stmt, \* the file it is at and the statement the server is at
    ran,        \* history: statements that were executed without an error
    crashes,    \* how many times an instance died
    torn        \* history: one died inside a file that cannot be run again

dbVars == <<schema, recorded, ran>>
vars == <<dbVars, pc, applied, file, stmt, crashes, torn>>

\* The type invariant.
TypeOK ==
    /\ schema \in SUBSET Objects
    /\ recorded \in SUBSET Files
    /\ pc \in [Instances -> {"down", "read", "next", "run", "record", "up"}]
    /\ applied \in [Instances -> SUBSET Files]
    /\ file \in [Instances -> Nat \ {0}]
    /\ stmt \in [Instances -> Nat \ {0}]
    /\ ran \in SUBSET Positions
    /\ crashes \in Nat
    /\ torn \in BOOLEAN

Init ==
    /\ schema = {} /\ recorded = {} /\ ran = {}
    /\ pc = [i \in Instances |-> "down"]
    /\ applied = [i \in Instances |-> {}]
    /\ file = [i \in Instances |-> 1]
    /\ stmt = [i \in Instances |-> 1]
    /\ crashes = 0 /\ torn = FALSE

-----------------------------------------------------------------------------
(* What MySQL does with one statement. *)

\* A duplicate column or key, or a key to drop that is not there.
Rejected(s) ==
    ~At(s).guarded /\ (At(s).makes \cap schema # {} \/ ~(At(s).drops \subseteq schema))

\* Mutant: CREATE TABLE without a look at what is there already.
EffectAgain(s) == (schema \cup At(s).makes) \ At(s).drops

\* A guarded statement leaves alone what is there already.
Effect(s) ==
    IF At(s).guarded /\ At(s).makes \cap schema # {}
    THEN schema
    ELSE (schema \cup At(s).makes) \ At(s).drops

-----------------------------------------------------------------------------

\* The process is gone, and what it had in memory with it.
Stop(i) ==
    /\ pc' = [pc EXCEPT ![i] = "down"]
    /\ applied' = [applied EXCEPT ![i] = {}]
    /\ file' = [file EXCEPT ![i] = 1]
    /\ stmt' = [stmt EXCEPT ![i] = 1]

\* bootstrap calls runMigrations: connect, and CREATE TABLE IF NOT EXISTS
\* schema_migrations.
Start(i) ==
    /\ pc[i] = "down"
    /\ pc' = [pc EXCEPT ![i] = "read"]
    /\ UNCHANGED <<dbVars, applied, file, stmt, crashes, torn>>

\* Mutant: the names recorded are not looked at.
ReadAppliedNothing(i) ==
    /\ pc[i] = "read"
    /\ pc' = [pc EXCEPT ![i] = "next"]
    /\ UNCHANGED <<dbVars, applied, file, stmt, crashes, torn>>

\* SELECT name FROM schema_migrations, once.
ReadApplied(i) ==
    /\ pc[i] = "read"
    /\ applied' = [applied EXCEPT ![i] = recorded]
    /\ pc' = [pc EXCEPT ![i] = "next"]
    /\ UNCHANGED <<dbVars, file, stmt, crashes, torn>>

\* The loop over the sorted files: skip one that was recorded, read and send one
\* that was not; after the last, runMigrations returns and the service listens.
NextFile(i) ==
    /\ pc[i] = "next"
    /\ \/ /\ file[i] \in applied[i]
          /\ file' = [file EXCEPT ![i] = @ + 1]
          /\ UNCHANGED <<pc, stmt>>
       \/ /\ file[i] \in Files \ applied[i]
          /\ pc' = [pc EXCEPT ![i] = "run"]
          /\ stmt' = [stmt EXCEPT ![i] = 1]
          /\ UNCHANGED file
       \/ /\ file[i] \notin Files
          /\ pc' = [pc EXCEPT ![i] = "up"]
          /\ UNCHANGED <<file, stmt>>
    /\ UNCHANGED <<dbVars, applied, crashes, torn>>

\* Mutant: an error is logged, and the file counts as done.
RunStatementLogsErrors(i) ==
    LET s == <<file[i], stmt[i]>> IN
    /\ pc[i] = "run"
    /\ \/ /\ Rejected(s)
          /\ pc' = [pc EXCEPT ![i] = "record"]
          /\ UNCHANGED <<dbVars, stmt>>
       \/ /\ ~Rejected(s)
          /\ schema' = Effect(s)
          /\ ran' = ran \cup {s}
          /\ IF stmt[i] < Len(Migrations[file[i]])
             THEN stmt' = [stmt EXCEPT ![i] = @ + 1] /\ UNCHANGED pc
             ELSE pc' = [pc EXCEPT ![i] = "record"] /\ UNCHANGED stmt
          /\ UNCHANGED recorded
    /\ UNCHANGED <<applied, file, crashes, torn>>

\* The server executes the next statement of the file.  An error ends the file
\* there, and runMigrations throws, which ends the process.
RunStatement(i) ==
    LET s == <<file[i], stmt[i]>> IN
    /\ pc[i] = "run"
    /\ \/ /\ Rejected(s)
          /\ Stop(i)
          /\ UNCHANGED dbVars
       \/ /\ ~Rejected(s)
          /\ schema' = Effect(s)
          /\ ran' = ran \cup {s}
          /\ \/ /\ stmt[i] < Len(Migrations[file[i]])
                /\ stmt' = [stmt EXCEPT ![i] = @ + 1]
                /\ UNCHANGED pc
             \/ /\ stmt[i] = Len(Migrations[file[i]])
                /\ pc' = [pc EXCEPT ![i] = "record"]
                /\ UNCHANGED stmt
          /\ UNCHANGED <<recorded, applied, file>>
    /\ UNCHANGED <<crashes, torn>>

\* INSERT INTO schema_migrations; a name that is there already is an error.
Record(i) ==
    /\ pc[i] = "record"
    /\ \/ /\ file[i] \notin recorded
          /\ recorded' = recorded \cup {file[i]}
          /\ pc' = [pc EXCEPT ![i] = "next"]
          /\ file' = [file EXCEPT ![i] = @ + 1]
          /\ UNCHANGED <<applied, stmt>>
       \/ /\ file[i] \in recorded
          /\ Stop(i)
          /\ UNCHANGED recorded
    /\ UNCHANGED <<schema, ran, crashes, torn>>

\* It has run a statement of its file that cannot be run again.
Committed(i) ==
    /\ pc[i] \in {"run", "record"}
    /\ \E k \in 1 .. Len(Migrations[file[i]]) :
          /\ k < stmt[i] \/ pc[i] = "record"
          /\ ~Migrations[file[i]][k].guarded

\* The process dies, or loses its connection.
Crash(i) ==
    /\ pc[i] # "down"
    /\ crashes < MaxCrashes
    /\ crashes' = crashes + 1
    /\ torn' = (torn \/ Committed(i))
    /\ Stop(i)
    /\ UNCHANGED dbVars

Step(i) == Start(i) \/ ReadApplied(i) \/ NextFile(i) \/ RunStatement(i) \/ Record(i)

Next == \E i \in Instances : Step(i) \/ Crash(i)

Spec == Init /\ [][Next]_vars

\* The database answers, and an instance that stopped is started again.
FairSpec == Spec /\ \A i \in Instances : WF_vars(Step(i))

-----------------------------------------------------------------------------
(* Properties. *)

\* What all files together make of an empty database.
Target ==
    {o \in Objects :
        /\ \E s \in Positions : o \in At(s).makes
        /\ \A s \in Positions : o \notin At(s).drops}

\* No instance serves a request on a half-migrated database, whatever other
\* instances run or crash beside it: when runMigrations returns, every file is
\* recorded and the schema is the one the files describe.
ListensOnlyMigrated ==
    \A i \in Instances : pc[i] = "up" => recorded = Files /\ schema = Target

\* migrator.ts: "Idempotent: re-running with nothing pending is a no-op", also for
\* an instance that read schema_migrations before another one finished: the
\* schema only changes by statements that never took effect before.
NoStatementTakesEffectTwice ==
    [][schema' # schema => ran' # ran]_vars

\* Instances that start together trip over each other and stop, but one gets
\* through and the others follow when they are started again.  The exception is
\* a process that died inside a file that cannot be run again.
EveryInstanceComesUp == <>[](torn \/ \A i \in Instances : pc[i] = "up")
=============================================================================
