--------------------------- MODULE MigratorProofs ---------------------------
(***************************************************************************)
(* Proofs about Migrator, for any number of instances and crashes, and for *)
(* any migration files written as ScriptAssumption says.                   *)
(***************************************************************************)
EXTENDS Migrator, TLAPS

\* Where an instance is: everything before its file is recorded, and of its file
\* it has run the statements before the one it is at.
InstanceInv ==
    \A i \in Instances :
        /\ applied[i] \subseteq recorded
        /\ pc[i] \in {"down", "read"} => file[i] = 1
        /\ \A f \in Files : f < file[i] => f \in recorded
        /\ pc[i] \in {"run", "record"} => file[i] \in Files
        /\ pc[i] = "run" =>
              /\ stmt[i] \in DOMAIN Migrations[file[i]]
              /\ \A k \in DOMAIN Migrations[file[i]] : k < stmt[i] => <<file[i], k>> \in ran
        /\ pc[i] = "record" => \A k \in DOMAIN Migrations[file[i]] : <<file[i], k>> \in ran
        /\ pc[i] = "up" => file[i] \notin Files

\* A name in schema_migrations stands for a file that was executed to its end.
RecordedInv ==
    \A f \in recorded : \A k \in DOMAIN Migrations[f] : <<f, k>> \in ran

\* The schema is what the executed statements make and drop, each taken once.
SchemaInv ==
    /\ \A o \in Objects :
          o \in schema <=>
              /\ \E s \in ran : o \in At(s).makes
              /\ \A s \in ran : o \notin At(s).drops
    /\ \A d \in ran : \A o \in At(d).drops : \E s \in ran : o \in At(s).makes

IInv == TypeOK /\ InstanceInv /\ RecordedInv /\ SchemaInv

-----------------------------------------------------------------------------
(* Facts about the files. *)

\* The files are numbered from one.
LEMMA FilesFact == Files = 1 .. Len(Migrations) /\ Len(Migrations) \in Nat
  BY MigrationsAssumption DEF Files

\* A file has a first statement, and its statements are numbered from one.
LEMMA FileFact ==
    ASSUME NEW f \in Files
    PROVE  /\ DOMAIN Migrations[f] = 1 .. Len(Migrations[f])
           /\ Len(Migrations[f]) \in Nat \ {0}
           /\ 1 \in DOMAIN Migrations[f]
  <1>1. Migrations[f] \in Seq(Statement) /\ Migrations[f] # <<>>
    BY MigrationsAssumption DEF Files
  <1> QED  BY <1>1

\* A statement of a file is a position, and a position has a statement.
LEMMA PositionFact ==
    /\ \A f \in Files : \A k \in DOMAIN Migrations[f] : <<f, k>> \in Positions
    /\ \A s \in Positions : At(s) \in Statement
  <1>1. \A f \in Files : \A k \in DOMAIN Migrations[f] : <<f, k>> \in Positions
    BY DEF Positions
  <1>2. ASSUME NEW s \in Positions PROVE At(s) \in Statement
    <2>1. PICK f \in Files : s \in {f} \X DOMAIN Migrations[f]  BY DEF Positions
    <2>2. Migrations[f] \in Seq(Statement)  BY MigrationsAssumption DEF Files
    <2>3. Migrations[f][s[2]] \in Statement /\ s[1] = f  BY <2>1, <2>2
    <2> QED  BY <2>3 DEF At
  <1> QED  BY <1>1, <1>2

\* The database knows whether a statement was executed: what it makes is there
\* in part if it was, and not at all if it was not.
LEMMA SchemaTells ==
    ASSUME TypeOK, SchemaInv, NEW s \in Positions
    PROVE  s \in ran <=> At(s).makes \cap schema # {}
  <1>1. ASSUME s \in ran PROVE At(s).makes \cap schema # {}
    <2>1. PICK o \in At(s).makes : \A t \in Positions : o \notin At(t).drops
      BY ScriptAssumption
    <2>2. o \in Objects  BY PositionFact, <2>1 DEF Statement
    <2>3. o \in schema  BY <1>1, <2>1, <2>2 DEF SchemaInv, TypeOK
    <2> QED  BY <2>1, <2>3
  <1>2. ASSUME NEW o \in At(s).makes, o \in schema PROVE s \in ran
    <2>1. o \in Objects  BY PositionFact DEF Statement
    <2>2. PICK t \in ran : o \in At(t).makes  BY <1>2, <2>1 DEF SchemaInv
    <2>3. t \in Positions  BY DEF TypeOK
    <2>4. s = t  BY <2>2, <2>3, ScriptAssumption
    <2> QED  BY <2>4
  <1> QED  BY <1>1, <1>2

\* What one statement does to the database: the first time it counts, after that
\* it changes nothing.
LEMMA OneStatement ==
    ASSUME TypeOK, SchemaInv, NEW s \in Positions, ~Rejected(s),
           schema' = Effect(s), ran' = ran \cup {s}
    PROVE  SchemaInv' /\ (s \in ran => schema' = schema)
  <1>0. At(s) \in Statement /\ s \in Positions  BY PositionFact
  <1>1. CASE s \in ran
    <2>1. At(s).makes \cap schema # {}  BY <1>1, SchemaTells
    <2>2. At(s).guarded  BY <2>1, <1>0 DEF Rejected, Statement
    <2>3. schema' = schema /\ ran' = ran  BY <1>1, <2>1, <2>2 DEF Effect
    <2>4. SchemaInv'  BY <2>3 DEF SchemaInv, At
    <2> QED  BY <2>3, <2>4
  <1>2. CASE s \notin ran
    <2>1. At(s).makes \cap schema = {}  BY <1>2, SchemaTells
    <2>2. schema' = (schema \cup At(s).makes) \ At(s).drops  BY <2>1 DEF Effect
    <2>3. At(s).drops \subseteq schema
      BY ScriptAssumption, <1>0 DEF Rejected
    <2>4. ASSUME NEW o \in At(s).makes, NEW d \in ran PROVE o \notin At(d).drops
      <3>1. SUFFICES ASSUME o \in At(d).drops PROVE FALSE  OBVIOUS
      <3>2. PICK t \in ran : o \in At(t).makes  BY <3>1 DEF SchemaInv
      <3>3. t \in Positions  BY DEF TypeOK
      <3>4. s = t  BY <3>2, <3>3, ScriptAssumption
      <3> QED  BY <3>4, <1>2
    <2>5. At(s).makes \cap At(s).drops = {}  BY <2>1, <2>3
    <2>6. ASSUME NEW o \in Objects
          PROVE  o \in schema' <=> /\ \E t \in ran' : o \in At(t).makes
                                   /\ \A t \in ran' : o \notin At(t).drops
      <3>1. o \in schema <=> /\ \E t \in ran : o \in At(t).makes
                             /\ \A t \in ran : o \notin At(t).drops
        BY DEF SchemaInv
      <3>2. CASE o \in At(s).makes  BY <3>2, <2>2, <2>4, <2>5
      <3>3. CASE o \notin At(s).makes  BY <3>1, <3>3, <2>2
      <3> QED  BY <3>2, <3>3
    <2>7. ASSUME NEW d \in ran', NEW o \in At(d).drops
          PROVE  \E t \in ran' : o \in At(t).makes
      <3>1. CASE d \in ran  BY <3>1 DEF SchemaInv
      <3>2. CASE d = s
        <4>1. o \in schema /\ o \in Objects  BY <3>2, <2>3, <1>0 DEF Statement
        <4> QED  BY <4>1 DEF SchemaInv
      <3> QED  BY <3>1, <3>2
    <2>8. SchemaInv'  BY <2>6, <2>7 DEF SchemaInv, At
    <2> QED  BY <2>8, <1>2
  <1> QED  BY <1>1, <1>2
-----------------------------------------------------------------------------
(* The invariant. *)

\* An instance that stops, whether by an error or by a crash, holds nothing.
LEMMA StopStep ==
    ASSUME IInv, NEW i \in Instances, Stop(i), UNCHANGED dbVars,
           crashes' \in Nat, torn' \in BOOLEAN
    PROVE  IInv'
  <1>1. TypeOK'  BY DEF IInv, TypeOK, Stop, dbVars
  <1>2. InstanceInv'
    BY FilesFact DEF IInv, TypeOK, InstanceInv, Stop, dbVars
  <1>3. RecordedInv' /\ SchemaInv'
    BY DEF IInv, RecordedInv, SchemaInv, dbVars, At
  <1> QED  BY <1>1, <1>2, <1>3 DEF IInv

\* Starting and reading the recorded names.
LEMMA StartStep ==
    ASSUME IInv, NEW i \in Instances, Start(i) \/ ReadApplied(i)
    PROVE  IInv'
  <1>1. TypeOK'  BY DEF IInv, TypeOK, Start, ReadApplied, dbVars
  <1>2. InstanceInv'
    BY FilesFact DEF IInv, TypeOK, InstanceInv, Start, ReadApplied, dbVars
  <1>3. RecordedInv' /\ SchemaInv'
    BY DEF IInv, RecordedInv, SchemaInv, dbVars, At, Start, ReadApplied
  <1> QED  BY <1>1, <1>2, <1>3 DEF IInv

\* Going on to the next file.
LEMMA NextFileStep ==
    ASSUME IInv, NEW i \in Instances, NextFile(i)
    PROVE  IInv'
  <1>1. TypeOK'  BY DEF IInv, TypeOK, NextFile, dbVars
  <1>2. InstanceInv'
    <2>1. SUFFICES ASSUME NEW j \in Instances PROVE InstanceInv!(j)'
      BY DEF InstanceInv
    <2>2. CASE j # i
      BY <2>2 DEF IInv, TypeOK, InstanceInv, NextFile, dbVars
    <2>3. CASE j = i /\ file[i] \in applied[i]
      BY <2>3, FilesFact DEF IInv, TypeOK, InstanceInv, NextFile, dbVars
    <2>4. CASE j = i /\ file[i] \in Files \ applied[i]
      BY <2>4, FilesFact, FileFact DEF IInv, TypeOK, InstanceInv, NextFile, dbVars
    <2>5. CASE j = i /\ file[i] \notin Files
      BY <2>5, FilesFact DEF IInv, TypeOK, InstanceInv, NextFile, dbVars
    <2> QED  BY <2>2, <2>3, <2>4, <2>5
  <1>3. RecordedInv' /\ SchemaInv'
    BY DEF IInv, RecordedInv, SchemaInv, dbVars, At, NextFile
  <1> QED  BY <1>1, <1>2, <1>3 DEF IInv

\* Running a statement.
LEMMA RunStatementStep ==
    ASSUME IInv, NEW i \in Instances, RunStatement(i)
    PROVE  IInv'
  <1> DEFINE s == <<file[i], stmt[i]>>
  <1>0. /\ file[i] \in Files /\ stmt[i] \in DOMAIN Migrations[file[i]]
        /\ DOMAIN Migrations[file[i]] = 1 .. Len(Migrations[file[i]])
        /\ Len(Migrations[file[i]]) \in Nat
        /\ s \in Positions
    BY FileFact, PositionFact DEF IInv, InstanceInv, RunStatement
  <1>1. CASE Rejected(s)
    <2>1. Stop(i) /\ UNCHANGED dbVars /\ UNCHANGED <<crashes, torn>>
      BY <1>1 DEF RunStatement
    <2> QED  BY <2>1, StopStep DEF IInv, TypeOK
  <1>2. CASE ~Rejected(s)
    <2>1. /\ schema' = Effect(s) /\ ran' = ran \cup {s}
          /\ UNCHANGED <<recorded, applied, file, crashes, torn>>
      BY <1>2 DEF RunStatement
    <2>2. \/ /\ stmt[i] < Len(Migrations[file[i]])
             /\ stmt' = [stmt EXCEPT ![i] = @ + 1] /\ pc' = pc
          \/ /\ stmt[i] = Len(Migrations[file[i]])
             /\ pc' = [pc EXCEPT ![i] = "record"] /\ stmt' = stmt
      BY <1>2 DEF RunStatement
    <2>3. At(s) \in Statement  BY <1>0, PositionFact
    <2>4. schema' \in SUBSET Objects
      BY <2>1, <2>3 DEF IInv, TypeOK, Effect, Statement
    <2>5. stmt' \in [Instances -> Nat \ {0}]
          /\ pc' \in [Instances -> {"down", "read", "next", "run", "record", "up"}]
      <3>1. stmt \in [Instances -> Nat \ {0}] /\ stmt[i] + 1 \in Nat \ {0}
        BY DEF IInv, TypeOK
      <3>2. pc \in [Instances -> {"down", "read", "next", "run", "record", "up"}]
        BY DEF IInv, TypeOK
      <3>3. CASE stmt' = [stmt EXCEPT ![i] = @ + 1] /\ pc' = pc  BY <3>1, <3>2, <3>3
      <3>4. CASE pc' = [pc EXCEPT ![i] = "record"] /\ stmt' = stmt  BY <3>1, <3>2, <3>4
      <3> QED  BY <2>2, <3>3, <3>4
    <2>6. TypeOK'  BY <1>0, <2>1, <2>4, <2>5 DEF IInv, TypeOK
    <2>7. InstanceInv'
      <3>1. SUFFICES ASSUME NEW j \in Instances PROVE InstanceInv!(j)'
        BY DEF InstanceInv
      <3>2. CASE j # i
        BY <3>2, <2>1, <2>2 DEF IInv, TypeOK, InstanceInv
      <3>3. CASE j = i
        BY <3>3, <1>0, <2>1, <2>2 DEF IInv, TypeOK, InstanceInv, RunStatement
      <3> QED  BY <3>2, <3>3
    <2>8. RecordedInv'  BY <2>1 DEF IInv, RecordedInv
    <2>9. SchemaInv'  BY <1>0, <1>2, <2>1, OneStatement DEF IInv
    <2> QED  BY <2>6, <2>7, <2>8, <2>9 DEF IInv
  <1> QED  BY <1>1, <1>2

\* Recording a file.
LEMMA RecordStep ==
    ASSUME IInv, NEW i \in Instances, Record(i)
    PROVE  IInv'
  <1>0. file[i] \in Files  BY DEF IInv, InstanceInv, Record
  <1>1. CASE file[i] \in recorded
    <2>1. Stop(i) /\ UNCHANGED dbVars /\ UNCHANGED <<crashes, torn>>
      BY <1>1 DEF Record, dbVars
    <2> QED  BY <2>1, StopStep DEF IInv, TypeOK
  <1>2. CASE file[i] \notin recorded
    <2>1. /\ recorded' = recorded \cup {file[i]}
          /\ pc' = [pc EXCEPT ![i] = "next"] /\ file' = [file EXCEPT ![i] = @ + 1]
          /\ UNCHANGED <<applied, stmt, schema, ran, crashes, torn>>
      BY <1>2 DEF Record
    <2>2. TypeOK'  BY <1>0, <2>1 DEF IInv, TypeOK
    <2>3. InstanceInv'
      <3>1. SUFFICES ASSUME NEW j \in Instances PROVE InstanceInv!(j)'
        BY DEF InstanceInv
      <3>2. CASE j # i
        BY <3>2, <2>1 DEF IInv, TypeOK, InstanceInv
      <3>3. CASE j = i
        BY <3>3, <1>0, <2>1, FilesFact DEF IInv, TypeOK, InstanceInv
      <3> QED  BY <3>2, <3>3
    <2>4. RecordedInv'
      BY <2>1 DEF IInv, RecordedInv, InstanceInv, Record
    <2>5. SchemaInv'  BY <2>1 DEF IInv, SchemaInv, At
    <2> QED  BY <2>2, <2>3, <2>4, <2>5 DEF IInv
  <1> QED  BY <1>1, <1>2

\* Every step keeps the invariant.
LEMMA Inductive == IInv /\ [Next]_vars => IInv'
  <1>1. SUFFICES ASSUME IInv, [Next]_vars PROVE IInv'  OBVIOUS
  <1>2. CASE UNCHANGED vars
    BY <1>1, <1>2 DEF IInv, TypeOK, InstanceInv, RecordedInv, SchemaInv, At, vars, dbVars
  <1>3. ASSUME NEW i \in Instances, Crash(i) PROVE IInv'
    BY <1>1, <1>3, StopStep DEF Crash, IInv, TypeOK
  <1>4. ASSUME NEW i \in Instances, Step(i) PROVE IInv'
    BY <1>1, <1>4, StartStep, NextFileStep, RunStatementStep, RecordStep DEF Step
  <1> QED  BY <1>1, <1>2, <1>3, <1>4 DEF Next

\* The invariant holds of every reachable state.
THEOREM Invariance == Spec => []IInv
  <1>1. Init => IInv
    <2>1. SUFFICES ASSUME Init PROVE IInv  OBVIOUS
    <2>2. TypeOK
      <3>1. /\ schema \in SUBSET Objects /\ recorded \in SUBSET Files
            /\ ran \in SUBSET Positions
        BY <2>1 DEF Init
      <3>2. /\ pc \in [Instances -> {"down", "read", "next", "run", "record", "up"}]
            /\ applied \in [Instances -> SUBSET Files]
        BY <2>1 DEF Init
      <3>3. file \in [Instances -> Nat \ {0}] /\ stmt \in [Instances -> Nat \ {0}]
        BY <2>1 DEF Init
      <3>4. crashes \in Nat /\ torn \in BOOLEAN  BY <2>1 DEF Init
      <3> QED  BY <3>1, <3>2, <3>3, <3>4 DEF TypeOK
    <2>3. InstanceInv
      <3>1. SUFFICES ASSUME NEW i \in Instances PROVE InstanceInv!(i)
        BY DEF InstanceInv
      <3>2. pc[i] = "down" /\ file[i] = 1 /\ applied[i] = {}  BY <2>1 DEF Init
      <3>3. \A f \in Files : ~(f < 1)  BY FilesFact
      <3> QED  BY <3>2, <3>3
    <2>4. RecordedInv /\ SchemaInv  BY <2>1 DEF Init, RecordedInv, SchemaInv
    <2> QED  BY <2>2, <2>3, <2>4 DEF IInv
  <1> QED  BY <1>1, Inductive, PTL DEF Spec

\* The state of runMigrations has its type.
THEOREM TypeCorrect == Spec => []TypeOK
  BY Invariance, PTL DEF IInv

\* Whatever instances start, run and die together, the service listens only on a
\* database that has all of the migrations.
THEOREM ListensOnlyMigratedHolds == Spec => []ListensOnlyMigrated
  <1>1. IInv => ListensOnlyMigrated
    <2>1. SUFFICES ASSUME IInv, NEW i \in Instances, pc[i] = "up"
                   PROVE  recorded = Files /\ schema = Target
      BY DEF ListensOnlyMigrated
    <2>2. recorded = Files
      <3>1. file[i] \in Nat \ {0} /\ file[i] \notin Files
        BY <2>1 DEF IInv, TypeOK, InstanceInv
      <3>2. \A f \in Files : f < file[i]  BY <3>1, FilesFact
      <3>3. Files \subseteq recorded  BY <2>1, <3>2 DEF IInv, InstanceInv
      <3> QED  BY <2>1, <3>3 DEF IInv, TypeOK
    <2>3. ran = Positions
      BY <2>1, <2>2 DEF IInv, TypeOK, RecordedInv, Positions
    <2>4. schema = Target
      BY <2>1, <2>3 DEF IInv, TypeOK, SchemaInv, Target
    <2> QED  BY <2>2, <2>4
  <1> QED  BY <1>1, Invariance, PTL

\* No statement that was executed before changes the schema again, not even for an
\* instance with a stale list of recorded files.
THEOREM NoStatementTakesEffectTwiceHolds == Spec => NoStatementTakesEffectTwice
  <1>1. IInv /\ [Next]_vars => [schema' # schema => ran' # ran]_vars
    <2>1. SUFFICES ASSUME IInv, Next, schema' # schema PROVE ran' # ran
      BY DEF vars, dbVars
    <2>2. PICK i \in Instances : Step(i) \/ Crash(i)  BY <2>1 DEF Next
    <2>3. RunStatement(i)
      BY <2>1, <2>2 DEF Step, Start, ReadApplied, NextFile, Record, Crash, dbVars
    <2> DEFINE s == <<file[i], stmt[i]>>
    <2>4. s \in Positions
      BY <2>1, <2>3, PositionFact DEF IInv, InstanceInv, RunStatement
    <2>5. ~Rejected(s) /\ schema' = Effect(s) /\ ran' = ran \cup {s}
      BY <2>1, <2>3 DEF RunStatement, dbVars
    <2>6. s \notin ran  BY <2>1, <2>4, <2>5, OneStatement DEF IInv
    <2> QED  BY <2>5, <2>6
  <1> QED  BY <1>1, Invariance, PTL DEF Spec, NoStatementTakesEffectTwice
=============================================================================
