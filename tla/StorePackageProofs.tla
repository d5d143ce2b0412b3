------------------------- MODULE StorePackageProofs -------------------------
(***************************************************************************)
(* Proofs about StorePackage, for every number of requests, lockers,       *)
(* packages and attempts; then about the smallest fit that BestFit tracks, *)
(* and about the fan-out of FanOut, for every number of parcels.           *)
(***************************************************************************)
EXTENDS BestFit, FanOut, TLAPS, FiniteSetTheorems

-----------------------------------------------------------------------------
(* The inductive invariant. *)

\* A request knows what it works on: past the first check it has a job, and
\* its package has a row; once the walk has stopped it stands on a locker that
\* fits, whose row it has locked and which is in service.
RequestInv ==
    \A a \in Agents :
        /\ pc[a] # "idle" => job[a] \in Job /\ package[job[a].package] # "NONE"
        /\ pc[a] \in {"insert", "insertWait", "update", "commit"} =>
              /\ cursor[a] \in locks[a]
              /\ lockerStatus[cursor[a]] = "IN_SERVICE"
              /\ Fits(cursor[a], job[a].package)

\* A retrieval only ever holds the id of an existing row.
DoorInv == \A d \in Doors : doorRow[d] # None => Exists(doorRow[d])

\* An inserted, uncommitted row clashes with no committed and with no other
\* uncommitted row, which is what the two unique keys enforce.
PendingInv ==
    \A a \in Agents : Pending(a) =>
        /\ ~LockerKeyTaken(cursor[a])
        /\ ~PackageKeyTaken(job[a].package)
        /\ ~UncommittedClash(a)

RowsInv ==
    /\ OneActivePackagePerLocker
    /\ OneAssignmentPerPackage
    /\ StatusMatchesAssignment

IInv == TypeOK /\ RequestInv /\ DoorInv /\ PendingInv /\ RowsInv /\ AnswersAreTrue

-----------------------------------------------------------------------------
(* The steps by what they write. *)

\* A step of a store request that changes no committed row.
LocalStep(a) ==
    \/ FindStation(a) \/ Begin(a) \/ ScanRow(a) \/ ScanEmpty(a) \/ Insert(a)
    \/ InsertResumes(a) \/ UpdatePackage(a) \/ DeadlockVictim(a) \/ Fail(a)

CommitStep(a) == Commit(a) \/ CommitAckLost(a)

\* Every step of the specification is of one of these kinds.
LEMMA StepKinds ==
    ASSUME [Next]_vars
    PROVE  \/ \E a \in Agents : StoreRequest(a) \/ LocalStep(a) \/ CommitStep(a)
           \/ \E d \in Doors : Retrieval(d)
           \/ \E p \in Packages : Register(p)
           \/ OperatorWrite
           \/ UNCHANGED vars
BY DEF Next, StoreStep, Fault, LocalStep, CommitStep

\* A local step touches nothing but its own request's locals.
LEMMA LocalFrame ==
    ASSUME NEW a \in Agents, LocalStep(a)
    PROVE  UNCHANGED <<dbVars, job, doorRow>>
BY DEF LocalStep, FindStation, Begin, ScanRow, ScanEmpty, Insert, InsertResumes,
       UpdatePackage, DeadlockVictim, Fail

-----------------------------------------------------------------------------
(* Types. *)

\* Ending a request resets its locals within their types.
LEMMA AnswerType ==
    ASSUME TypeOK, NEW a \in Agents, NEW code \in Reply, Answer(a, code)
    PROVE  AgentType'
BY ConstantsAssumption DEF Answer, EndTransaction, TypeOK, AgentType, PC

\* So does every outcome of the INSERT.
LEMMA InsertOutcomeType ==
    ASSUME TypeOK, NEW a \in Agents, InsertOutcome(a)
    PROVE  AgentType'
<1>1. CASE LockerJustTaken(a)
  <2>1. CASE attempt[a] < MAX_ATTEMPTS /\ EndTransaction(a) /\ GoTo(a, "begin")
             /\ attempt' = [attempt EXCEPT ![a] = @ + 1] /\ UNCHANGED reply
    BY <2>1, ConstantsAssumption DEF EndTransaction, GoTo, TypeOK, AgentType, PC
  <2>2. CASE Answer(a, "locker_just_taken")
    BY <2>2, AnswerType DEF Reply
  <2> QED BY <1>1, <2>1, <2>2 DEF LockerJustTaken
<1>2. CASE Answer(a, "package_already_stored")
  BY <1>2, AnswerType DEF Reply
<1>3. CASE GoTo(a, "update") /\ UNCHANGED <<walkVars, reply>>
  BY <1>3 DEF GoTo, walkVars, TypeOK, AgentType, PC
<1> QED BY <1>1, <1>2, <1>3 DEF InsertOutcome

\* A commit writes one new, open row for the request's package and locker.
LEMMA CommitRowsType ==
    ASSUME IInv, NEW a \in Agents, pc[a] = "commit", CommitRows(a)
    PROVE  DbType'
<1>1. job[a] \in Job /\ cursor[a] \in Lockers
  BY DEF IInv, RequestInv, TypeOK, AgentType
<1>2. PICK i \in AssignmentIds :
        assignment' = [assignment EXCEPT ![i] =
            [package |-> job[a].package, locker |-> cursor[a], retrieved |-> FALSE]]
  BY DEF CommitRows
<1>3. [package |-> job[a].package, locker |-> cursor[a], retrieved |-> FALSE] \in Row
  BY <1>1 DEF Row, Job
<1> QED BY <1>2, <1>3 DEF CommitRows, IInv, TypeOK, DbType, PackageStatus

\* Every step keeps the types.
LEMMA TypeStep == IInv /\ [Next]_vars => TypeOK'
<1> SUFFICES ASSUME IInv, [Next]_vars PROVE TypeOK'
  OBVIOUS
<1> TypeOK BY DEF IInv
<1>1. ASSUME NEW a \in Agents, StoreRequest(a)
      PROVE  TypeOK'
  <2>1. PICK p \in Packages, s \in Stations : FindPackage(a, p, s)
    BY <1>1 DEF StoreRequest
  <2>2. AgentType'
    <3>1. CASE Answer(a, "package_not_found") \/ Answer(a, "package_already_stored")
      BY <3>1, AnswerType DEF Reply
    <3>2. CASE GoTo(a, "findStation") /\ reply' = [reply EXCEPT ![a] = "none"]
               /\ UNCHANGED walkVars
      BY <3>2 DEF TypeOK, AgentType, walkVars, GoTo, PC, Reply
    <3> QED BY <2>1, <3>1, <3>2 DEF FindPackage
  <2> QED BY <2>1, <2>2 DEF FindPackage, TypeOK, DbType, dbVars, Job
<1>2. ASSUME NEW a \in Agents, LocalStep(a)
      PROVE  TypeOK'
  <2> UNCHANGED <<dbVars, job, doorRow>>
    BY <1>2, LocalFrame
  <2>1. CASE FindStation(a)
    <3>1. CASE Answer(a, "station_not_found") \/ Answer(a, "station_decommissioned")
      BY <3>1, AnswerType DEF Reply, TypeOK, DbType, dbVars
    <3>2. CASE GoTo(a, "begin") /\ attempt' = [attempt EXCEPT ![a] = 1]
               /\ UNCHANGED <<cursor, view, locks, reply>>
      <4>1. AgentType'
        BY <3>2, ConstantsAssumption DEF TypeOK, AgentType, GoTo, PC
      <4> QED BY <4>1 DEF TypeOK, DbType, dbVars
    <3> QED BY <2>1, <3>1, <3>2 DEF FindStation
  <2>2. CASE Begin(a) \/ UpdatePackage(a)
    BY <2>2 DEF Begin, UpdatePackage, TypeOK, DbType, AgentType, dbVars, walkVars, GoTo, PC
  <2>3. CASE ScanRow(a)
    <3>1. PICK l \in Lockers :
              /\ cursor' = [cursor EXCEPT ![a] = l]
              /\ SkipRow(a, l) \/ ExamineRow(a, l)
      BY <2>3 DEF ScanRow
    <3>2. Snapshot(a) \in SUBSET Lockers
      BY DEF Snapshot, OccupiedLockers, TypeOK, AgentType
    <3>3. AgentType'
      BY <2>3, <3>1, <3>2 DEF ScanRow, SkipRow, ExamineRow, GoTo, TypeOK, AgentType, PC
    <3> QED BY <3>3 DEF TypeOK, DbType, dbVars
  <2>4. CASE ScanEmpty(a) \/ Fail(a) \/ DeadlockVictim(a)
    <3>1. AgentType'
      BY <2>4, AnswerType DEF ScanEmpty, Fail, DeadlockVictim, Reply
    <3> QED BY <3>1 DEF TypeOK, DbType, dbVars
  <2>5. CASE Insert(a) \/ InsertResumes(a)
    <3>1. AgentType'
      <4>1. CASE InsertOutcome(a)
        BY <4>1, InsertOutcomeType
      <4>2. CASE GoTo(a, "insertWait") /\ UNCHANGED <<walkVars, reply>>
        BY <4>2 DEF TypeOK, AgentType, walkVars, GoTo, PC
      <4> QED BY <2>5, <4>1, <4>2 DEF Insert, InsertResumes
    <3> QED BY <3>1 DEF TypeOK, DbType, dbVars
  <2> QED BY <1>2, <2>1, <2>2, <2>3, <2>4, <2>5 DEF LocalStep
<1>3. ASSUME NEW a \in Agents, CommitStep(a)
      PROVE  TypeOK'
  <2>1. AgentType'
    BY <1>3, AnswerType DEF CommitStep, Commit, CommitAckLost, Reply
  <2>2. DbType'
    BY <1>3, CommitRowsType DEF CommitStep, Commit, CommitAckLost
  <2> QED BY <1>3, <2>1, <2>2 DEF CommitStep, Commit, CommitAckLost, TypeOK
<1>4. ASSUME NEW d \in Doors, Retrieval(d)
      PROVE  TypeOK'
  <2>1. CASE \E i \in AssignmentIds : FindActiveByLocker(d, i)
    BY <2>1 DEF FindActiveByLocker, TypeOK, DbType, AgentType, dbVars, agentVars, walkVars
  <2>2. CASE RetrievalFails(d)
    BY <2>2 DEF RetrievalFails, TypeOK, DbType, AgentType, dbVars, agentVars, walkVars
  <2>3. CASE SaveRetrieval(d)
    <3> DEFINE i == doorRow[d]
    <3>1. i \in AssignmentIds /\ assignment[i] \in Row
      BY <2>3 DEF SaveRetrieval, IInv, DoorInv, Exists, TypeOK, DbType
    <3>2. DbType'
      <4>1. CASE assignment' = [assignment EXCEPT ![i].retrieved = TRUE]
                 /\ package' = [package EXCEPT ![assignment[i].package] = "RETRIEVED"]
        <5>1. [assignment[i] EXCEPT !.retrieved = TRUE] \in Row
          BY <3>1 DEF Row
        <5> QED BY <2>3, <3>1, <4>1, <5>1 DEF SaveRetrieval, TypeOK, DbType, PackageStatus
      <4>2. CASE UNCHANGED <<package, assignment>>
        BY <2>3, <4>2 DEF SaveRetrieval, TypeOK, DbType
      <4> QED BY <2>3, <4>1, <4>2 DEF SaveRetrieval
    <3> QED BY <2>3, <3>2 DEF SaveRetrieval, TypeOK, AgentType, agentVars, walkVars
  <2> QED BY <1>4, <2>1, <2>2, <2>3 DEF Retrieval
<1>5. ASSUME NEW p \in Packages, Register(p)
      PROVE  TypeOK'
  BY <1>5 DEF Register, TypeOK, DbType, AgentType, PackageStatus, agentVars, walkVars
<1>6. ASSUME OperatorWrite
      PROVE  TypeOK'
  BY <1>6, ConstantsAssumption
     DEF OperatorWrite, WriteLocker, WriteStation, TypeOK, DbType, AgentType, StationStatus,
         agentVars, walkVars
<1>7. CASE UNCHANGED vars
  BY <1>7 DEF vars, TypeOK, DbType, AgentType, dbVars, agentVars, walkVars
<1> QED BY <1>1, <1>2, <1>3, <1>4, <1>5, <1>6, <1>7, StepKinds

-----------------------------------------------------------------------------
(* Requests and retrievals. *)

\* The locker the walk stops at is locked, in service and large enough.
LEMMA ScanRowStops ==
    ASSUME TypeOK, NEW a \in Agents, ScanRow(a), pc'[a] # "scan"
    PROVE  /\ cursor'[a] \in locks'[a]
           /\ lockerStatus[cursor'[a]] = "IN_SERVICE"
           /\ Fits(cursor'[a], job[a].package)
<1>1. PICK l \in Lockers :
          /\ IsNext(a, l)
          /\ cursor' = [cursor EXCEPT ![a] = l]
          /\ SkipRow(a, l) \/ ExamineRow(a, l)
  BY DEF ScanRow
<1>2. ExamineRow(a, l)
  BY <1>1 DEF SkipRow, GoTo, TypeOK, AgentType
<1>3. lockerStatus[l] = "IN_SERVICE" /\ Fits(l, job[a].package)
  BY <1>1 DEF IsNext, Ahead, Suitable
<1> QED BY <1>1, <1>2, <1>3 DEF ExamineRow, TypeOK, AgentType

\* Where a request may be after a local step, and with which locker in hand.
LEMMA LocalStepEffect ==
    ASSUME TypeOK, NEW a \in Agents, LocalStep(a)
    PROVE  /\ pc[a] # "idle"
           /\ \A b \in Agents \ {a} :
                 pc'[b] = pc[b] /\ cursor'[b] = cursor[b] /\ locks'[b] = locks[b]
                 /\ reply'[b] = reply[b]
           /\ \/ pc'[a] \in {"idle", "begin", "scan"}
              \/ pc'[a] = "insert" /\ ScanRow(a)
              \/ /\ pc[a] \in {"insert", "insertWait", "update"}
                 /\ pc'[a] \in {"insertWait", "update", "commit"}
                 /\ cursor'[a] = cursor[a] /\ locks'[a] = locks[a]
           /\ pc'[a] = "update" => /\ ~LockerKeyTaken(cursor[a])
                                  /\ ~PackageKeyTaken(job[a].package)
                                  /\ ~UncommittedClash(a)
           /\ pc'[a] = "commit" => pc[a] = "update"
           /\ reply'[a] = "stored" => reply[a] = "stored"
           /\ reply'[a] = "package_already_stored" =>
                 reply[a] = reply'[a] \/ PackageKeyTaken(job[a].package)
<1>1. CASE FindStation(a)
  BY <1>1 DEF FindStation, Answer, EndTransaction, GoTo, TypeOK, AgentType
<1>2. CASE Begin(a) \/ UpdatePackage(a)
  BY <1>2 DEF Begin, UpdatePackage, GoTo, TypeOK, AgentType, walkVars
<1>3. CASE ScanRow(a)
  BY <1>3 DEF ScanRow, SkipRow, ExamineRow, GoTo, TypeOK, AgentType
<1>4. CASE ScanEmpty(a) \/ Fail(a)
  BY <1>4 DEF ScanEmpty, Fail, Answer, EndTransaction, TypeOK, AgentType
<1>5. CASE DeadlockVictim(a)
  BY <1>5 DEF DeadlockVictim, Deadlocked, BlocksUpdate, Answer, EndTransaction, TypeOK, AgentType
<1>6. CASE Insert(a) \/ InsertResumes(a)
  <2>1. CASE InsertOutcome(a)
    BY <1>6, <2>1 DEF Insert, InsertResumes, InsertOutcome, LockerJustTaken, Answer,
                      EndTransaction, GoTo, TypeOK, AgentType, walkVars
  <2>2. CASE GoTo(a, "insertWait") /\ UNCHANGED <<walkVars, reply>>
    BY <1>6, <2>2 DEF Insert, InsertResumes, GoTo, TypeOK, AgentType, walkVars
  <2> QED BY <1>6, <2>1, <2>2 DEF Insert, InsertResumes
<1> QED BY <1>1, <1>2, <1>3, <1>4, <1>5, <1>6 DEF LocalStep

\* A commit ends the request and leaves the others alone.
LEMMA CommitEffect ==
    ASSUME TypeOK, NEW a \in Agents, CommitStep(a)
    PROVE  /\ pc[a] = "commit" /\ pc'[a] = "idle"
           /\ CommitRows(a)
           /\ UNCHANGED <<job, doorRow, stationStatus, lockerStatus>>
           /\ \A b \in Agents \ {a} :
                 pc'[b] = pc[b] /\ cursor'[b] = cursor[b] /\ locks'[b] = locks[b]
                 /\ reply'[b] = reply[b]
           /\ reply'[a] \in {"stored", "error"}
BY DEF CommitStep, Commit, CommitAckLost, CommitRows, Answer, EndTransaction, TypeOK, AgentType

\* A new request starts with a registered package or is answered at once.
LEMMA RequestEffect ==
    ASSUME TypeOK, NEW a \in Agents, StoreRequest(a)
    PROVE  /\ UNCHANGED <<dbVars, doorRow>>
           /\ pc[a] = "idle" /\ pc'[a] \in {"idle", "findStation"}
           /\ job'[a] \in Job
           /\ pc'[a] # "idle" => package[job'[a].package] # "NONE"
           /\ reply'[a] # "stored"
           /\ reply'[a] = "package_already_stored" =>
                 package[job'[a].package] \in {"STORED", "RETRIEVED"}
           /\ \A b \in Agents \ {a} :
                 /\ pc'[b] = pc[b] /\ cursor'[b] = cursor[b] /\ locks'[b] = locks[b]
                 /\ reply'[b] = reply[b] /\ job'[b] = job[b]
<1>1. PICK p \in Packages, s \in Stations : FindPackage(a, p, s)
  BY DEF StoreRequest
<1>2. job'[a] = [package |-> p, station |-> s]
  BY <1>1 DEF FindPackage, TypeOK
<1>3. job'[a] \in Job /\ job'[a].package = p
  BY <1>2 DEF Job
<1> QED BY <1>1, <1>3 DEF FindPackage, Answer, EndTransaction, GoTo, walkVars, TypeOK, AgentType

\* The rows are written by commits, retrievals and registrations only.
LEMMA RetrievalEffect ==
    ASSUME TypeOK, DoorInv, NEW d \in Doors, Retrieval(d)
    PROVE  /\ UNCHANGED <<agentVars, stationStatus, lockerStatus>>
           /\ \A e \in Doors : doorRow'[e] # None => Exists(doorRow'[e])
           /\ \/ UNCHANGED <<package, assignment>>
              \/ \E i \in AssignmentIds :
                    /\ Active(i)
                    /\ assignment' = [assignment EXCEPT ![i].retrieved = TRUE]
                    /\ package' = [package EXCEPT ![assignment[i].package] = "RETRIEVED"]
<1>1. CASE \E i \in AssignmentIds : FindActiveByLocker(d, i)
  BY <1>1 DEF FindActiveByLocker, DoorInv, Active, dbVars, TypeOK
<1>2. CASE RetrievalFails(d)
  BY <1>2 DEF RetrievalFails, DoorInv, dbVars, TypeOK
<1>3. CASE SaveRetrieval(d)
  BY <1>3 DEF SaveRetrieval, DoorInv, TypeOK
<1> QED BY <1>1, <1>2, <1>3 DEF Retrieval

-----------------------------------------------------------------------------
(* Preservation, part by part. *)

\* RequestInv: only the request's own steps and operators touch what it speaks
\* of, and the row lock keeps the operators out.
LEMMA RequestStep == IInv /\ [Next]_vars => RequestInv'
<1> SUFFICES ASSUME IInv, [Next]_vars PROVE RequestInv'
  OBVIOUS
<1> TypeOK /\ RequestInv /\ DoorInv
  BY DEF IInv
<1>1. ASSUME NEW a \in Agents, StoreRequest(a)
      PROVE  RequestInv'
  BY <1>1, RequestEffect DEF RequestInv, dbVars, Fits
<1>2. ASSUME NEW a \in Agents, LocalStep(a)
      PROVE  RequestInv'
  <2>1. UNCHANGED <<dbVars, job, doorRow>>
    BY <1>2, LocalFrame
  <2>2. CASE ScanRow(a) /\ pc'[a] = "insert"
    BY <1>2, <2>1, <2>2, LocalStepEffect, ScanRowStops DEF RequestInv, dbVars, Fits
  <2>3. CASE ~(ScanRow(a) /\ pc'[a] = "insert")
    BY <1>2, <2>1, <2>3, LocalStepEffect DEF RequestInv, dbVars, Fits
  <2> QED BY <2>2, <2>3
<1>3. ASSUME NEW a \in Agents, CommitStep(a)
      PROVE  RequestInv'
  <2>1. \A p \in Packages : package[p] # "NONE" => package'[p] # "NONE"
    BY <1>3, CommitEffect DEF CommitRows, TypeOK, DbType
  <2> QED BY <1>3, <2>1, CommitEffect DEF RequestInv, Fits, Job
<1>4. ASSUME NEW d \in Doors, Retrieval(d)
      PROVE  RequestInv'
  <2>1. \A p \in Packages : package[p] # "NONE" => package'[p] # "NONE"
    BY <1>4, RetrievalEffect DEF TypeOK, DbType
  <2> QED BY <1>4, <2>1, RetrievalEffect DEF RequestInv, Fits, Job, agentVars, walkVars
<1>5. ASSUME NEW p \in Packages, Register(p)
      PROVE  RequestInv'
  BY <1>5 DEF Register, RequestInv, Fits, Job, agentVars, walkVars, TypeOK, DbType
<1>6. ASSUME OperatorWrite
      PROVE  RequestInv'
  <2>1. UNCHANGED <<package, pc, job, cursor, locks>>
    BY <1>6 DEF OperatorWrite, WriteLocker, WriteStation, agentVars, walkVars
  <2>2. \A a \in Agents : \A l \in locks[a] : lockerStatus'[l] = lockerStatus[l]
    <3>1. ASSUME NEW l \in Lockers, NEW st \in LockerStatus, WriteLocker(l, st)
          PROVE  \A a \in Agents : \A m \in locks[a] : lockerStatus'[m] = lockerStatus[m]
      BY <3>1 DEF WriteLocker, TypeOK, DbType, AgentType
    <3>2. ASSUME UNCHANGED lockerStatus
          PROVE  \A a \in Agents : \A m \in locks[a] : lockerStatus'[m] = lockerStatus[m]
      BY <3>2
    <3> QED BY <1>6, <3>1, <3>2, ConstantsAssumption DEF OperatorWrite, WriteStation
  <2> QED BY <2>1, <2>2 DEF RequestInv, Fits
<1>7. CASE UNCHANGED vars
  BY <1>7 DEF vars, RequestInv, Fits, dbVars, agentVars, walkVars
<1> QED BY <1>1, <1>2, <1>3, <1>4, <1>5, <1>6, <1>7, StepKinds

\* No step makes an assignment row disappear, move or reopen.
LEMMA RowsOnlyClose ==
    ASSUME TypeOK, DoorInv, [Next]_vars, NEW i \in AssignmentIds, Exists(i)
    PROVE  \/ assignment'[i] = assignment[i]
           \/ assignment'[i] = [assignment[i] EXCEPT !.retrieved = TRUE]
<1>1. ASSUME NEW a \in Agents, CommitStep(a)
      PROVE  assignment'[i] = assignment[i]
  BY <1>1, CommitEffect DEF CommitRows, Exists, TypeOK, DbType
<1>2. ASSUME NEW d \in Doors, Retrieval(d)
      PROVE  \/ assignment'[i] = assignment[i]
             \/ assignment'[i] = [assignment[i] EXCEPT !.retrieved = TRUE]
  BY <1>2, RetrievalEffect DEF TypeOK, DbType
<1>3. CASE UNCHANGED assignment
  BY <1>3
<1> QED BY <1>1, <1>2, <1>3, StepKinds, RequestEffect, LocalFrame
        DEF Register, OperatorWrite, WriteLocker, WriteStation, vars, dbVars

\* A row that exists goes on existing, with the same package and locker.
LEMMA RowsStay ==
    ASSUME TypeOK, DoorInv, [Next]_vars, NEW i \in AssignmentIds, Exists(i)
    PROVE  /\ Exists(i)'
           /\ assignment'[i].package = assignment[i].package
           /\ assignment'[i].locker = assignment[i].locker
<1>1. assignment[i] \in Row
  BY DEF Exists, TypeOK, DbType
<1>2. [assignment[i] EXCEPT !.retrieved = TRUE] \in Row
  BY <1>1 DEF Row
<1> QED BY <1>1, <1>2, RowsOnlyClose, NoneAssumption DEF Exists, Row

\* DoorInv: a retrieval picks up an existing row, and rows stay.
LEMMA DoorStep == IInv /\ [Next]_vars => DoorInv'
<1> SUFFICES ASSUME IInv, [Next]_vars, NEW d \in Doors, doorRow'[d] # None
             PROVE  assignment'[doorRow'[d]] # None
  BY DEF DoorInv, Exists
<1>1. TypeOK /\ DoorInv /\ TypeOK'
  BY TypeStep DEF IInv
<1>2. doorRow'[d] \in AssignmentIds
  BY <1>1 DEF TypeOK
<1>3. CASE \E e \in Doors : Retrieval(e)
  BY <1>1, <1>2, <1>3, RetrievalEffect, RowsStay DEF Exists
<1>4. CASE UNCHANGED doorRow
  BY <1>1, <1>2, <1>4, RowsStay DEF DoorInv, Exists
<1> QED BY <1>1, <1>3, <1>4, StepKinds, RequestEffect, LocalFrame, CommitEffect
        DEF Register, OperatorWrite, WriteLocker, WriteStation, vars, dbVars

\* What one commit adds to the two keys, and what a retrieval takes away.
LEMMA KeysAfterCommit ==
    ASSUME TypeOK, RequestInv, NEW a \in Agents, CommitStep(a)
    PROVE  /\ \A l \in Lockers : LockerKeyTaken(l)' => LockerKeyTaken(l) \/ l = cursor[a]
           /\ \A p \in Packages : PackageKeyTaken(p)' => PackageKeyTaken(p) \/ p = job[a].package
           /\ PackageKeyTaken(job[a].package)'
<1>1. CommitRows(a) /\ pc[a] = "commit"
  BY CommitEffect
<1>2. PICK i \in AssignmentIds :
        /\ ~Exists(i)
        /\ assignment' = [assignment EXCEPT ![i] =
              [package |-> job[a].package, locker |-> cursor[a], retrieved |-> FALSE]]
  BY <1>1 DEF CommitRows
<1>3. assignment'[i].package = job[a].package /\ assignment'[i].locker = cursor[a]
  BY <1>2 DEF TypeOK, DbType
<1>4. \A j \in AssignmentIds : j # i => assignment'[j] = assignment[j]
  BY <1>2 DEF TypeOK, DbType
<1>5. Exists(i)'
  <2>1. job[a] \in Job /\ cursor[a] \in Lockers
    BY <1>1 DEF RequestInv, TypeOK, AgentType
  <2>2. [package |-> job[a].package, locker |-> cursor[a], retrieved |-> FALSE] \in Row
    BY <2>1 DEF Row, Job
  <2> QED BY <1>2, <2>2, NoneAssumption DEF Exists, TypeOK, DbType
<1>6. job' = job
  BY CommitEffect
<1> QED BY <1>3, <1>4, <1>5, <1>6 DEF LockerKeyTaken, PackageKeyTaken, Active, Exists

\* Every other step leaves the keys as they are or frees a locker.
LEMMA KeysOtherwise ==
    ASSUME TypeOK, DoorInv, [Next]_vars, \A a \in Agents : ~CommitStep(a)
    PROVE  /\ \A l \in Lockers : LockerKeyTaken(l)' => LockerKeyTaken(l)
           /\ \A p \in Packages : PackageKeyTaken(p)' <=> PackageKeyTaken(p)
<1>1. CASE UNCHANGED assignment
  BY <1>1 DEF LockerKeyTaken, PackageKeyTaken, Active, Exists
<1>2. ASSUME NEW i \in AssignmentIds, Active(i),
             assignment' = [assignment EXCEPT ![i].retrieved = TRUE]
      PROVE  /\ \A l \in Lockers : LockerKeyTaken(l)' => LockerKeyTaken(l)
             /\ \A p \in Packages : PackageKeyTaken(p)' <=> PackageKeyTaken(p)
  <2>1. assignment[i] \in Row
    BY <1>2 DEF Active, Exists, TypeOK, DbType
  <2>2. /\ assignment'[i] \in Row
        /\ assignment'[i].package = assignment[i].package
        /\ assignment'[i].retrieved
    BY <1>2, <2>1 DEF Row, TypeOK, DbType
  <2>3. \A j \in AssignmentIds : j # i => assignment'[j] = assignment[j]
    BY <1>2 DEF TypeOK, DbType
  <2>4. Exists(i) /\ Exists(i)'
    BY <2>1, <2>2, NoneAssumption DEF Exists
  <2> QED BY <2>2, <2>3, <2>4 DEF LockerKeyTaken, PackageKeyTaken, Active, Exists
<1> QED BY <1>1, <1>2, StepKinds, RequestEffect, LocalFrame, RetrievalEffect
        DEF Register, OperatorWrite, WriteLocker, WriteStation, vars, dbVars

\* PendingInv: the INSERT lets a row in only if it clashes with nothing, and
\* every later insert is checked against it.
LEMMA PendingStep == IInv /\ [Next]_vars => PendingInv'
<1> SUFFICES ASSUME IInv, [Next]_vars PROVE PendingInv'
  OBVIOUS
<1> TypeOK /\ RequestInv /\ DoorInv /\ PendingInv
  BY DEF IInv
<1>0. \A a \in Agents : Pending(a) => job[a].package \in Packages /\ cursor[a] \in Lockers
  BY DEF RequestInv, Pending, Job, TypeOK, AgentType
<1>1. ASSUME NEW a \in Agents, CommitStep(a)
      PROVE  PendingInv'
  <2>1. Pending(a) /\ ~Pending(a)'
    BY <1>1, CommitEffect DEF Pending
  <2>2. \A b \in Agents : Pending(b)' =>
            /\ b # a /\ Pending(b)
            /\ cursor'[b] = cursor[b] /\ job'[b] = job[b]
    BY <1>1, <2>1, CommitEffect DEF Pending
  <2>3. \A b \in Agents : Pending(b)' =>
            cursor[b] # cursor[a] /\ job[b].package # job[a].package
    BY <2>1, <2>2 DEF PendingInv, UncommittedClash
  <2>4. \A b \in Agents : Pending(b)' =>
            ~LockerKeyTaken(cursor[b])' /\ ~PackageKeyTaken(job[b].package)'
    BY <1>0, <1>1, <2>2, <2>3, KeysAfterCommit DEF PendingInv
  <2>5. \A b \in Agents : Pending(b)' => ~UncommittedClash(b)'
    BY <2>2 DEF PendingInv, UncommittedClash
  <2>6. \A b \in Agents : Pending(b)' =>
            ~LockerKeyTaken(cursor[b])' /\ ~PackageKeyTaken(job[b].package)'
            /\ cursor'[b] = cursor[b] /\ job'[b] = job[b]
    BY <2>2, <2>4
  <2> QED BY <2>5, <2>6 DEF PendingInv, LockerKeyTaken, PackageKeyTaken, Active, Exists
<1>2. ASSUME \A a \in Agents : ~CommitStep(a)
      PROVE  PendingInv'
  <2>1. /\ \A l \in Lockers : LockerKeyTaken(l)' => LockerKeyTaken(l)
        /\ \A p \in Packages : PackageKeyTaken(p)' <=> PackageKeyTaken(p)
    BY <1>2, KeysOtherwise
  <2>2. \A a, b \in Agents : Pending(a)' =>
            /\ cursor'[a] = cursor[a] /\ job'[a] = job[a]
            /\ job[a].package \in Packages /\ cursor[a] \in Lockers
            /\ ~LockerKeyTaken(cursor[a]) /\ ~PackageKeyTaken(job[a].package)
            /\ ~UncommittedClash(a)
            /\ Pending(b)' /\ b # a => Pending(a) \/ Pending(b)
    <3>1. ASSUME NEW c \in Agents, LocalStep(c), NEW a \in Agents, Pending(a)'
          PROVE  /\ cursor'[a] = cursor[a] /\ job'[a] = job[a]
                 /\ job[a].package \in Packages /\ cursor[a] \in Lockers
                 /\ ~LockerKeyTaken(cursor[a]) /\ ~PackageKeyTaken(job[a].package)
                 /\ ~UncommittedClash(a)
                 /\ a # c => Pending(a)
      <4>1. job' = job
        BY <3>1, LocalFrame
      <4>2. CASE a = c
        <5>1. /\ pc[c] \in {"insert", "insertWait", "update"}
              /\ cursor'[c] = cursor[c]
              /\ pc'[c] = "commit" => pc[c] = "update"
              /\ pc'[c] = "update" => /\ ~LockerKeyTaken(cursor[c])
                                     /\ ~PackageKeyTaken(job[c].package)
                                     /\ ~UncommittedClash(c)
          BY <3>1, <4>2, LocalStepEffect DEF Pending
        <5>2. job[c].package \in Packages /\ cursor[c] \in Lockers
          BY <5>1 DEF RequestInv, Job, TypeOK, AgentType
        <5> QED BY <3>1, <4>1, <4>2, <5>1, <5>2 DEF Pending, PendingInv
      <4>3. CASE a # c
        BY <1>0, <3>1, <4>1, <4>3, LocalStepEffect DEF Pending, PendingInv
      <4> QED BY <4>2, <4>3
    <3>2. ASSUME NEW c \in Agents, StoreRequest(c), NEW a \in Agents, Pending(a)'
          PROVE  Pending(a) /\ cursor'[a] = cursor[a] /\ job'[a] = job[a]
      BY <3>2, RequestEffect DEF Pending
    <3>3. ASSUME UNCHANGED <<pc, cursor, job>>, NEW a \in Agents, Pending(a)'
          PROVE  Pending(a) /\ cursor'[a] = cursor[a] /\ job'[a] = job[a]
      BY <3>3 DEF Pending
    <3>4. \/ \E c \in Agents : LocalStep(c) \/ StoreRequest(c)
          \/ UNCHANGED <<pc, cursor, job>>
      BY <1>2, StepKinds, RetrievalEffect
         DEF Register, OperatorWrite, WriteLocker, WriteStation, vars, agentVars, walkVars
    <3>5. ASSUME NEW a \in Agents, Pending(a), cursor'[a] = cursor[a], job'[a] = job[a]
          PROVE  /\ job[a].package \in Packages /\ cursor[a] \in Lockers
                 /\ ~LockerKeyTaken(cursor[a]) /\ ~PackageKeyTaken(job[a].package)
                 /\ ~UncommittedClash(a)
      BY <1>0, <3>5 DEF PendingInv
    <3> QED BY <3>1, <3>2, <3>3, <3>4, <3>5
  <2>3. \A a \in Agents : Pending(a)' => ~UncommittedClash(a)'
    BY <2>2 DEF UncommittedClash
  <2>4. \A a \in Agents : Pending(a)' =>
            /\ ~LockerKeyTaken(cursor[a])' /\ ~PackageKeyTaken(job[a].package)'
    BY <2>1, <2>2 DEF LockerKeyTaken, PackageKeyTaken
  <2> QED BY <2>3, <2>4 DEF PendingInv
<1> QED BY <1>1, <1>2

\* RowsInv: a commit adds a row that clashes with none, a retrieval closes the
\* only row of its package.
LEMMA RowsStep == IInv /\ [Next]_vars => RowsInv'
<1> SUFFICES ASSUME IInv, [Next]_vars PROVE RowsInv'
  OBVIOUS
<1> TypeOK /\ RequestInv /\ DoorInv /\ PendingInv /\ RowsInv
  BY DEF IInv
<1>1. ASSUME NEW a \in Agents, CommitStep(a)
      PROVE  RowsInv'
  <2> DEFINE p == job[a].package
             l == cursor[a]
             new == [package |-> p, locker |-> l, retrieved |-> FALSE]
  <2>1. CommitRows(a) /\ pc[a] = "commit" /\ Pending(a)
    BY <1>1, CommitEffect DEF Pending
  <2>2. p \in Packages /\ l \in Lockers
    BY <2>1 DEF RequestInv, Job, TypeOK, AgentType
  <2>3. PICK i \in AssignmentIds : ~Exists(i) /\ assignment' = [assignment EXCEPT ![i] = new]
    BY <2>1 DEF CommitRows
  <2>4. new \in Row /\ new.package = p /\ new.locker = l /\ ~new.retrieved
    BY <2>2 DEF Row
  <2> HIDE DEF new
  <2>5. assignment'[i] = new /\ \A j \in AssignmentIds : j # i => assignment'[j] = assignment[j]
    BY <2>3 DEF TypeOK, DbType
  <2>6. \A j \in AssignmentIds : Exists(j) => j # i /\ assignment[j].package # p
    BY <2>1, <2>3 DEF PendingInv, PackageKeyTaken
  <2>7. \A j \in AssignmentIds : Active(j) => assignment[j].locker # l
    BY <2>1 DEF PendingInv, LockerKeyTaken
  <2>8. /\ Active(i)' /\ Exists(i)'
        /\ \A j \in AssignmentIds : j # i => (Active(j)' <=> Active(j)) /\ (Exists(j)' <=> Exists(j))
    BY <2>4, <2>5, NoneAssumption DEF Active, Exists
  <2>9. /\ package'[p] = "STORED"
        /\ \A q \in Packages : q # p => package'[q] = package[q]
    BY <2>1, <2>2 DEF CommitRows, TypeOK, DbType
  <2>10. OneActivePackagePerLocker'
    BY <2>4, <2>5, <2>7, <2>8 DEF RowsInv, OneActivePackagePerLocker
  <2>11. OneAssignmentPerPackage'
    BY <2>4, <2>5, <2>6, <2>8 DEF RowsInv, OneAssignmentPerPackage
  <2>12. StatusMatchesAssignment'
    <3> SUFFICES ASSUME NEW q \in Packages
                 PROVE  /\ (package'[q] = "STORED") <=>
                              (\E j \in AssignmentIds : Active(j)' /\ assignment'[j].package = q)
                        /\ (package'[q] = "RETRIEVED") <=>
                              (\E j \in AssignmentIds :
                                  Exists(j)' /\ assignment'[j].retrieved /\ assignment'[j].package = q)
      BY DEF StatusMatchesAssignment
    <3>1. CASE q = p
      BY <2>4, <2>5, <2>6, <2>8, <2>9, <3>1
    <3>2. CASE q # p
      BY <2>3, <2>4, <2>5, <2>8, <2>9, <3>2 DEF RowsInv, StatusMatchesAssignment, Active
    <3> QED BY <3>1, <3>2
  <2> QED BY <2>10, <2>11, <2>12 DEF RowsInv
<1>2. ASSUME NEW i \in AssignmentIds, Active(i),
             assignment' = [assignment EXCEPT ![i].retrieved = TRUE],
             package' = [package EXCEPT ![assignment[i].package] = "RETRIEVED"]
      PROVE  RowsInv'
  <2>1. assignment[i] \in Row
    BY <1>2 DEF Active, Exists, TypeOK, DbType
  <2>2. /\ assignment'[i] \in Row
        /\ assignment'[i].package = assignment[i].package
        /\ assignment'[i].retrieved
        /\ assignment[i].package \in Packages
    BY <1>2, <2>1 DEF Row, TypeOK, DbType
  <2>3. \A j \in AssignmentIds : j # i => assignment'[j] = assignment[j]
    BY <1>2 DEF TypeOK, DbType
  <2>4. /\ Exists(i) /\ Exists(i)' /\ ~Active(i)'
        /\ \A j \in AssignmentIds : j # i => (Active(j)' <=> Active(j)) /\ (Exists(j)' <=> Exists(j))
    BY <1>2, <2>2, <2>3, NoneAssumption DEF Active, Exists
  <2>5. /\ package'[assignment[i].package] = "RETRIEVED"
        /\ \A q \in Packages : q # assignment[i].package => package'[q] = package[q]
    BY <1>2, <2>2 DEF TypeOK, DbType
  <2>6. OneActivePackagePerLocker'
    BY <2>3, <2>4 DEF RowsInv, OneActivePackagePerLocker
  <2>7. OneAssignmentPerPackage'
    BY <2>2, <2>3, <2>4 DEF RowsInv, OneAssignmentPerPackage
  <2>8. StatusMatchesAssignment'
    <3> SUFFICES ASSUME NEW q \in Packages
                 PROVE  /\ (package'[q] = "STORED") <=>
                              (\E j \in AssignmentIds : Active(j)' /\ assignment'[j].package = q)
                        /\ (package'[q] = "RETRIEVED") <=>
                              (\E j \in AssignmentIds :
                                  Exists(j)' /\ assignment'[j].retrieved /\ assignment'[j].package = q)
      BY DEF StatusMatchesAssignment
    <3>1. CASE q = assignment[i].package
      <4>1. \A j \in AssignmentIds : j # i /\ Exists(j) => assignment[j].package # q
        BY <2>4, <3>1 DEF RowsInv, OneAssignmentPerPackage
      <4> QED BY <2>2, <2>3, <2>4, <2>5, <3>1, <4>1 DEF Active
    <3>2. CASE q # assignment[i].package
      BY <2>2, <2>3, <2>4, <2>5, <3>2 DEF RowsInv, StatusMatchesAssignment
    <3> QED BY <3>1, <3>2
  <2> QED BY <2>6, <2>7, <2>8 DEF RowsInv
<1>3. ASSUME NEW p \in Packages, Register(p)
      PROVE  RowsInv'
  <2>1. /\ assignment' = assignment
        /\ \A q \in Packages : /\ package'[q] = "STORED" <=> package[q] = "STORED"
                               /\ package'[q] = "RETRIEVED" <=> package[q] = "RETRIEVED"
    BY <1>3 DEF Register, TypeOK, DbType
  <2> QED BY <2>1 DEF RowsInv, OneActivePackagePerLocker, OneAssignmentPerPackage,
                      StatusMatchesAssignment, Active, Exists
<1>4. CASE UNCHANGED <<package, assignment>>
  BY <1>4 DEF RowsInv, OneActivePackagePerLocker, OneAssignmentPerPackage,
              StatusMatchesAssignment, Active, Exists
<1>5. \/ \E a \in Agents : CommitStep(a)
      \/ \E i \in AssignmentIds :
            /\ Active(i)
            /\ assignment' = [assignment EXCEPT ![i].retrieved = TRUE]
            /\ package' = [package EXCEPT ![assignment[i].package] = "RETRIEVED"]
      \/ \E p \in Packages : Register(p)
      \/ UNCHANGED <<package, assignment>>
  BY StepKinds, RequestEffect, LocalFrame, RetrievalEffect
     DEF OperatorWrite, WriteLocker, WriteStation, vars, dbVars
<1> QED BY <1>1, <1>2, <1>3, <1>4, <1>5

\* AnswersAreTrue: an answer about a row is given when the row is there, and
\* rows stay; two requests cannot both commit a row for one package.
LEMMA AnswersStep == IInv /\ [Next]_vars => AnswersAreTrue'
<1> SUFFICES ASSUME IInv, [Next]_vars PROVE AnswersAreTrue'
  OBVIOUS
<1> TypeOK /\ RequestInv /\ DoorInv /\ PendingInv /\ RowsInv /\ AnswersAreTrue
  BY DEF IInv
<1>0. \A p : PackageKeyTaken(p) => \E i \in AssignmentIds : Exists(i)' /\ assignment'[i].package = p
  BY RowsStay DEF PackageKeyTaken
<1>1. ASSUME NEW a \in Agents, CommitStep(a)
      PROVE  AnswersAreTrue'
  <2>1. ~PackageKeyTaken(job[a].package)
    BY <1>1, CommitEffect DEF PendingInv, Pending
  <2>2. PackageKeyTaken(job[a].package)'
    BY <1>1, KeysAfterCommit
  <2>3. job' = job /\ \A b \in Agents : b # a => reply'[b] = reply[b]
    BY <1>1, CommitEffect
  <2>4. \A b \in Agents : reply[b] = "stored" => job[b].package # job[a].package
    BY <2>1 DEF AnswersAreTrue
  <2> QED BY <1>0, <2>2, <2>3, <2>4 DEF AnswersAreTrue, PackageKeyTaken, SamePackage
<1>2. ASSUME NEW a \in Agents, LocalStep(a)
      PROVE  AnswersAreTrue'
  <2>1. job' = job
    BY <1>2, LocalFrame
  <2>2. \A b \in Agents : /\ reply'[b] = "stored" => reply[b] = "stored"
                          /\ reply'[b] = "package_already_stored" =>
                                reply[b] = "package_already_stored" \/ PackageKeyTaken(job[b].package)
    BY <1>2, LocalStepEffect
  <2> QED BY <1>0, <2>1, <2>2 DEF AnswersAreTrue, PackageKeyTaken, SamePackage
<1>3. ASSUME NEW a \in Agents, StoreRequest(a)
      PROVE  AnswersAreTrue'
  <2>1. reply'[a] = "package_already_stored" => PackageKeyTaken(job'[a].package)
    BY <1>3, RequestEffect DEF RowsInv, StatusMatchesAssignment, PackageKeyTaken, Active, Job
  <2>2. /\ reply'[a] # "stored"
        /\ \A b \in Agents : b # a => reply'[b] = reply[b] /\ job'[b] = job[b]
    BY <1>3, RequestEffect
  <2>3. \A b \in Agents : reply'[b] \in {"stored", "package_already_stored"} =>
            PackageKeyTaken(job[b].package)'
    BY <1>0, <2>1, <2>2 DEF AnswersAreTrue, PackageKeyTaken
  <2>4. \A b, c \in Agents : reply'[b] = "stored" /\ reply'[c] = "stored" => ~SamePackage(b, c)'
    BY <2>2 DEF AnswersAreTrue, SamePackage
  <2> QED BY <2>3, <2>4 DEF AnswersAreTrue
<1>4. CASE UNCHANGED <<reply, job>>
  BY <1>0, <1>4 DEF AnswersAreTrue, PackageKeyTaken, SamePackage
<1>5. \/ \E a \in Agents : CommitStep(a) \/ LocalStep(a) \/ StoreRequest(a)
      \/ UNCHANGED <<reply, job>>
  BY StepKinds, RetrievalEffect
     DEF Register, OperatorWrite, WriteLocker, WriteStation, vars, agentVars
<1> QED BY <1>1, <1>2, <1>3, <1>4, <1>5

-----------------------------------------------------------------------------
(* The theorems. *)

\* The invariant holds initially: nothing is stored and nobody is working.
LEMMA InitIInv == Init => IInv
<1> SUFFICES ASSUME Init PROVE IInv
  OBVIOUS
<1>1. TypeOK
  BY ConstantsAssumption DEF Init, TypeOK, DbType, AgentType, PackageStatus, StationStatus,
                             LockerStatus, PC, Reply
<1>2. RowsInv
  BY DEF Init, RowsInv, OneActivePackagePerLocker, OneAssignmentPerPackage,
         StatusMatchesAssignment, Active, Exists
<1>3. RequestInv /\ DoorInv /\ PendingInv /\ AnswersAreTrue
  BY DEF Init, RequestInv, DoorInv, PendingInv, Pending, AnswersAreTrue
<1> QED BY <1>1, <1>2, <1>3 DEF IInv

\* The inductive invariant of the allocation transaction: types, what a request
\* holds at each of its awaits, what an uncommitted row excludes, and the rows.
THEOREM Invariance == Spec => []IInv
<1>1. IInv /\ [Next]_vars => IInv'
  BY TypeStep, RequestStep, DoorStep, PendingStep, RowsStep, AnswersStep DEF IInv
<1> QED BY InitIInv, <1>1, PTL DEF Spec

\* Type correctness: columns and locals stay in their domains, and no request
\* makes more than MAX_ATTEMPTS allocation attempts.
THEOREM TypeCorrect == Spec => []TypeOK
<1>1. IInv => TypeOK
  BY DEF IInv
<1> QED BY Invariance, <1>1, PTL

\* A locker never holds two active packages, for any number of concurrent
\* requests: the unique key is enough, whatever the row locks do.
THEOREM LockerNeverShared == Spec => []OneActivePackagePerLocker
<1>1. IInv => OneActivePackagePerLocker
  BY DEF IInv, RowsInv
<1> QED BY Invariance, <1>1, PTL

\* A package has at most one storage episode.
THEOREM PackageStoredOnce == Spec => []OneAssignmentPerPackage
<1>1. IInv => OneAssignmentPerPackage
  BY DEF IInv, RowsInv
<1> QED BY Invariance, <1>1, PTL

\* The package's status and its assignment row always agree, which is what the
\* unconditional UPDATE of reserveLockerAndStore relies on.
THEOREM StatusAgrees == Spec => []StatusMatchesAssignment
<1>1. IInv => StatusMatchesAssignment
  BY DEF IInv, RowsInv
<1> QED BY Invariance, <1>1, PTL

\* No parcel is allocated to a locker that an operator took out of service
\* before the allocation committed.
THEOREM NeverOutOfService == Spec => []AllocatedLockerInService
<1>1. IInv => AllocatedLockerInService
  BY DEF IInv, RequestInv, AllocatedLockerInService
<1> QED BY Invariance, <1>1, PTL

\* The answers stored and package_already_stored are true, and the first is
\* given to one request per package at most.
THEOREM TrueAnswers == Spec => []AnswersAreTrue
<1>1. IInv => AnswersAreTrue
  BY DEF IInv
<1> QED BY Invariance, <1>1, PTL

\* Assignment rows are append-and-close only.
THEOREM RowsAreHistory == Spec => HistoryKept
<1>1. IInv /\ [Next]_vars =>
        [\A i \in AssignmentIds : Exists(i) =>
            \/ assignment'[i] = assignment[i]
            \/ assignment'[i] = [assignment[i] EXCEPT !.retrieved = TRUE]]_vars
  BY RowsOnlyClose DEF IInv
<1> QED BY Invariance, <1>1, PTL DEF Spec, HistoryKept

-----------------------------------------------------------------------------
(* The refinement. *)

\* In a table with one row per package, CHOOSE finds that row.
LEMMA ChooseRow ==
    ASSUME NEW table, NEW p, NEW i \in AssignmentIds, table[i] # None, table[i].package = p,
           \A j \in AssignmentIds : table[j] # None /\ table[j].package = p => j = i
    PROVE  (CHOOSE j \in AssignmentIds : table[j] # None /\ table[j].package = p) = i
OBVIOUS

\* The place of a package is the locker of its row.
LEMMA PlaceOfRow ==
    ASSUME OneAssignmentPerPackage, NEW i \in AssignmentIds, Exists(i)
    PROVE  LockerOf(assignment[i].package) = assignment[i].locker
<1> DEFINE p == assignment[i].package
<1>1. \A j \in AssignmentIds : assignment[j] # None /\ assignment[j].package = p => j = i
  BY DEF OneAssignmentPerPackage, Exists
<1>2. (CHOOSE j \in AssignmentIds : assignment[j] # None /\ assignment[j].package = p) = i
  BY <1>1, ChooseRow DEF Exists
<1> QED BY <1>2 DEF LockerOf, PackageKeyTaken, Exists

\* The same in the next state.
LEMMA PlaceOfRowNext ==
    ASSUME OneAssignmentPerPackage', NEW i \in AssignmentIds, Exists(i)'
    PROVE  LockerOf(assignment[i].package)' = assignment'[i].locker
<1> DEFINE p == assignment'[i].package
<1>1. \A j \in AssignmentIds : assignment'[j] # None /\ assignment'[j].package = p => j = i
  BY DEF OneAssignmentPerPackage, Exists
<1>2. (CHOOSE j \in AssignmentIds : assignment'[j] # None /\ assignment'[j].package = p) = i
  BY <1>1, ChooseRow DEF Exists
<1> QED BY <1>2 DEF LockerOf, PackageKeyTaken, Exists

\* A package that has a row keeps its place.
LEMMA PlaceStays ==
    ASSUME TypeOK, DoorInv, OneAssignmentPerPackage, OneAssignmentPerPackage', [Next]_vars,
           NEW p \in Packages, PackageKeyTaken(p)
    PROVE  LockerOf(p)' = LockerOf(p)
<1>1. PICK i \in AssignmentIds : Exists(i) /\ assignment[i].package = p
  BY DEF PackageKeyTaken
<1>2. Exists(i)' /\ assignment'[i].package = p /\ assignment'[i].locker = assignment[i].locker
  BY <1>1, RowsStay
<1>3. LockerOf(p) = assignment[i].locker
  BY <1>1, PlaceOfRow
<1>4. LockerOf(p)' = assignment'[i].locker
  BY <1>1, <1>2, PlaceOfRowNext DEF LockerOf, PackageKeyTaken, Exists
<1> QED BY <1>2, <1>3, <1>4

\* A package without a row has no place, before and after a step.
LEMMA NoPlace ==
    ASSUME NEW p
    PROVE  /\ ~PackageKeyTaken(p) => LockerOf(p) = None
           /\ ~(\E i \in AssignmentIds : Exists(i)' /\ assignment'[i].package = p) =>
                 LockerOf(p)' = None
BY DEF LockerOf, PackageKeyTaken, Exists

\* A commit is a Store of the abstract locker bank.
LEMMA CommitIsStore ==
    ASSUME IInv, IInv', [Next]_vars, NEW a \in Agents, CommitStep(a)
    PROVE  Bank!Store(job[a].package, cursor[a])
<1> DEFINE p == job[a].package
           l == cursor[a]
<1> TypeOK /\ RequestInv /\ DoorInv /\ PendingInv /\ RowsInv /\ RowsInv'
  BY DEF IInv
<1>1. CommitRows(a) /\ pc[a] = "commit" /\ Pending(a) /\ job' = job
  BY CommitEffect DEF Pending
<1>2. p \in Packages /\ l \in Lockers /\ package[p] # "NONE" /\ Fits(l, p)
  BY <1>1 DEF RequestInv, Job, TypeOK, AgentType
<1>3. ~PackageKeyTaken(p) /\ ~LockerKeyTaken(l)
  BY <1>1 DEF PendingInv
<1>4. package[p] = "REGISTERED"
  <2>1. package[p] # "STORED" /\ package[p] # "RETRIEVED"
    BY <1>2, <1>3 DEF RowsInv, StatusMatchesAssignment, PackageKeyTaken, Active
  <2> QED BY <1>2, <2>1 DEF TypeOK, DbType, PackageStatus
<1>5. \A q \in Packages : package[q] = "STORED" => LockerOf(q) # l
  <2> SUFFICES ASSUME NEW q \in Packages, package[q] = "STORED" PROVE LockerOf(q) # l
    OBVIOUS
  <2>1. PICK i \in AssignmentIds : Active(i) /\ assignment[i].package = q
    BY DEF RowsInv, StatusMatchesAssignment
  <2>2. LockerOf(q) = assignment[i].locker
    BY <2>1, PlaceOfRow DEF RowsInv, Active
  <2> QED BY <1>3, <2>1, <2>2 DEF LockerKeyTaken
<1>6. PICK i \in AssignmentIds :
        /\ ~Exists(i)
        /\ assignment' = [assignment EXCEPT ![i] =
              [package |-> p, locker |-> l, retrieved |-> FALSE]]
  BY <1>1 DEF CommitRows
<1>7. /\ assignment'[i].package = p /\ assignment'[i].locker = l /\ assignment'[i] # None
      /\ \A j \in AssignmentIds : j # i => assignment'[j] = assignment[j]
  <2>1. [package |-> p, locker |-> l, retrieved |-> FALSE] \in Row
    BY <1>2 DEF Row
  <2> QED BY <1>6, <2>1, NoneAssumption DEF TypeOK, DbType
<1>8. LockerOf(p)' = l
  BY <1>1, <1>7, PlaceOfRowNext DEF RowsInv, Exists, LockerOf, PackageKeyTaken
<1>9. \A q \in Packages : q # p => LockerOf(q)' = LockerOf(q)
  <2> SUFFICES ASSUME NEW q \in Packages, q # p PROVE LockerOf(q)' = LockerOf(q)
    OBVIOUS
  <2>1. CASE PackageKeyTaken(q)
    BY <2>1, PlaceStays DEF RowsInv
  <2>2. CASE ~PackageKeyTaken(q)
    BY <1>7, <2>2, NoPlace DEF PackageKeyTaken, Exists
  <2> QED BY <2>1, <2>2
<1>10. [q \in Packages |-> LockerOf(q)]' =
          [[q \in Packages |-> LockerOf(q)] EXCEPT ![p] = l]
  BY <1>1, <1>2, <1>8, <1>9
<1>11. package' = [package EXCEPT ![p] = "STORED"]
  BY <1>1 DEF CommitRows
<1> QED BY <1>2, <1>4, <1>5, <1>10, <1>11 DEF Bank!Store, Bank!Occupied, Bank!Fits, Fits

\* Every other step keeps all places.
LEMMA PlacesKept ==
    ASSUME IInv, IInv', [Next]_vars, \A a \in Agents : ~CommitStep(a)
    PROVE  [p \in Packages |-> LockerOf(p)]' = [p \in Packages |-> LockerOf(p)]
<1> TypeOK /\ DoorInv /\ RowsInv /\ RowsInv'
  BY DEF IInv
<1> SUFFICES ASSUME NEW p \in Packages PROVE LockerOf(p)' = LockerOf(p)
  OBVIOUS
<1>1. CASE PackageKeyTaken(p)
  BY <1>1, PlaceStays DEF RowsInv
<1>2. CASE ~PackageKeyTaken(p)
  BY <1>2, KeysOtherwise, NoPlace DEF PackageKeyTaken
<1> QED BY <1>1, <1>2

\* The service implements the abstract locker bank: a commit is its Store, the
\* transaction of saveRetrieval its Retrieve, the INSERT of register its
\* Register, and every other step of every request leaves parcels alone.
THEOREM Refinement == Spec => ImplementsLockerBank
<1>1. Init => Bank!Init
  BY NoPlace DEF Init, Bank!Init, PackageKeyTaken, Exists
<1>2. IInv /\ IInv' /\ [Next]_vars => [Bank!Next]_(Bank!bankVars)
  <2> SUFFICES ASSUME IInv, IInv', [Next]_vars
               PROVE  Bank!Next \/ UNCHANGED Bank!bankVars
    OBVIOUS
  <2> TypeOK /\ RequestInv /\ DoorInv /\ RowsInv
    BY DEF IInv
  <2>1. CASE \E a \in Agents : CommitStep(a)
    <3>1. PICK a \in Agents : CommitStep(a)
      BY <2>1
    <3>2. job[a].package \in Packages /\ cursor[a] \in Lockers
      BY <3>1, CommitEffect DEF RequestInv, Job, TypeOK, AgentType
    <3> QED BY <3>1, <3>2, CommitIsStore DEF Bank!Next
  <2>2. CASE \A a \in Agents : ~CommitStep(a)
    <3>1. [p \in Packages |-> LockerOf(p)]' = [p \in Packages |-> LockerOf(p)]
      BY <2>2, PlacesKept
    <3>2. ASSUME NEW p \in Packages, Register(p)
          PROVE  Bank!Register(p)
      BY <3>1, <3>2 DEF Register, Bank!Register
    <3>3. ASSUME NEW i \in AssignmentIds, Active(i),
                 package' = [package EXCEPT ![assignment[i].package] = "RETRIEVED"]
          PROVE  \E p \in Packages : Bank!Retrieve(p)
      <4>1. assignment[i].package \in Packages
        BY <3>3 DEF Active, Exists, TypeOK, DbType, Row
      <4>2. package[assignment[i].package] = "STORED"
        BY <3>3, <4>1 DEF RowsInv, StatusMatchesAssignment
      <4> QED BY <3>1, <3>3, <4>1, <4>2 DEF Bank!Retrieve
    <3>4. CASE UNCHANGED package
      BY <3>1, <3>4 DEF Bank!bankVars
    <3>5. \/ \E p \in Packages : Register(p)
          \/ \E i \in AssignmentIds :
                Active(i) /\ package' = [package EXCEPT ![assignment[i].package] = "RETRIEVED"]
          \/ UNCHANGED package
      BY <2>2, StepKinds, RequestEffect, LocalFrame, RetrievalEffect
         DEF OperatorWrite, WriteLocker, WriteStation, vars, dbVars
    <3> QED BY <3>2, <3>3, <3>4, <3>5 DEF Bank!Next
  <2> QED BY <2>1, <2>2
<1> QED BY Invariance, <1>1, <1>2, PTL DEF Spec, Bank!Spec, ImplementsLockerBank

-----------------------------------------------------------------------------
(* What every walk obeys. *)

\* A request starts an attempt with nothing of the attempt before, and has
\* not answered while it runs.
AttemptInv ==
    \A a \in Agents :
        /\ pc[a] \in {"idle", "findStation", "begin"} =>
              cursor[a] = None /\ view[a] = None /\ locks[a] = {}
        /\ pc[a] # "idle" => reply[a] = "none"

\* Initially nobody has started.
LEMMA AttemptInit == Init => AttemptInv
BY DEF Init, AttemptInv

\* The end of a request leaves it with nothing.
LEMMA AnswerAttempt ==
    ASSUME TypeOK, AttemptInv, NEW a \in Agents, NEW code, Answer(a, code)
    PROVE  AttemptInv'
BY DEF Answer, EndTransaction, TypeOK, AgentType, AttemptInv

\* Every step keeps it so.
LEMMA AttemptStep == TypeOK /\ AttemptInv /\ [Next]_vars => AttemptInv'
<1> SUFFICES ASSUME TypeOK, AttemptInv, [Next]_vars PROVE AttemptInv'
  OBVIOUS
<1>1. ASSUME NEW a \in Agents, StoreRequest(a)
      PROVE  AttemptInv'
  <2>1. PICK p \in Packages, s \in Stations : FindPackage(a, p, s)
    BY <1>1 DEF StoreRequest
  <2>2. CASE Answer(a, "package_not_found") \/ Answer(a, "package_already_stored")
    BY <2>2, AnswerAttempt
  <2>3. CASE GoTo(a, "findStation") /\ reply' = [reply EXCEPT ![a] = "none"]
             /\ UNCHANGED walkVars
    BY <2>1, <2>3 DEF FindPackage, GoTo, walkVars, TypeOK, AgentType, AttemptInv
  <2> QED BY <2>1, <2>2, <2>3 DEF FindPackage
<1>2. ASSUME NEW a \in Agents, LocalStep(a)
      PROVE  AttemptInv'
  <2>1. CASE \E code : Answer(a, code)
    BY <2>1, AnswerAttempt
  <2>2. CASE EndTransaction(a) /\ GoTo(a, "begin") /\ UNCHANGED reply /\ pc[a] # "idle"
    BY <2>2 DEF EndTransaction, GoTo, TypeOK, AgentType, AttemptInv
  <2>3. CASE pc[a] = "findStation" /\ GoTo(a, "begin") /\ UNCHANGED <<cursor, view, locks, reply>>
    BY <2>3 DEF GoTo, TypeOK, AgentType, AttemptInv
  <2>4. CASE /\ pc[a] \notin {"idle", "findStation"} /\ UNCHANGED reply
             /\ \E label \in {"scan", "insert", "insertWait", "update", "commit"} : GoTo(a, label)
             /\ \A b \in Agents \ {a} :
                   view'[b] = view[b] /\ cursor'[b] = cursor[b] /\ locks'[b] = locks[b]
    BY <2>4 DEF GoTo, TypeOK, AgentType, AttemptInv
  <2>5. CASE ScanRow(a)
    BY <2>4, <2>5 DEF ScanRow, SkipRow, ExamineRow, GoTo, TypeOK, AgentType
  <2>6. CASE Insert(a) \/ InsertResumes(a)
    BY <2>1, <2>2, <2>4, <2>6
       DEF Insert, InsertResumes, InsertOutcome, LockerJustTaken, walkVars
  <2>7. CASE FindStation(a)
    BY <2>1, <2>3, <2>7 DEF FindStation
  <2>8. CASE Begin(a) \/ UpdatePackage(a)
    BY <2>4, <2>8 DEF Begin, UpdatePackage, walkVars
  <2>9. CASE ScanEmpty(a) \/ DeadlockVictim(a) \/ Fail(a)
    BY <2>1, <2>9 DEF ScanEmpty, DeadlockVictim, Fail
  <2> QED BY <1>2, <2>5, <2>6, <2>7, <2>8, <2>9 DEF LocalStep
<1>3. ASSUME NEW a \in Agents, CommitStep(a)
      PROVE  AttemptInv'
  BY <1>3, AnswerAttempt DEF CommitStep, Commit, CommitAckLost
<1>4. CASE UNCHANGED agentVars
  BY <1>4 DEF agentVars, walkVars, AttemptInv
<1>5. ASSUME NEW d \in Doors, Retrieval(d)
      PROVE  UNCHANGED agentVars
  BY <1>5 DEF Retrieval, FindActiveByLocker, SaveRetrieval, RetrievalFails
<1>6. ASSUME OperatorWrite \/ \E p \in Packages : Register(p)
      PROVE  UNCHANGED agentVars
  BY <1>6 DEF OperatorWrite, WriteLocker, WriteStation, Register
<1>7. UNCHANGED vars => UNCHANGED agentVars
  BY DEF vars
<1> QED BY <1>1, <1>2, <1>3, <1>4, <1>5, <1>6, <1>7, StepKinds

-----------------------------------------------------------------------------
(* ORDER BY (size_rank, code) on the lockers of one station. *)

\* No row comes before itself, and of two rows at most one comes first.
LEMMA BeforeIsStrict ==
    ASSUME NEW l \in Lockers, NEW m \in Lockers, Before(l, m)
    PROVE  l # m /\ ~Before(m, l)
BY ConstantsAssumption DEF Before

\* Two rows of a station are never tied, because their codes differ.
LEMMA BeforeIsTotal ==
    ASSUME NEW l \in Lockers, NEW m \in Lockers, LockerStation[l] = LockerStation[m]
    PROVE  l = m \/ Before(l, m) \/ Before(m, l)
BY ConstantsAssumption, LockerCodesDistinct DEF Before

-----------------------------------------------------------------------------
(* Steady lockers. *)

\* A walk has not passed a locker that was available all the time, and its
\* snapshot shows none of them as occupied.
SteadyInv ==
    /\ steady \in [Agents -> SUBSET Lockers]
    /\ \A a \in Agents : pc[a] = "scan" =>
          /\ steady[a] \cap Available(a) \subseteq Ahead(a)
          /\ view[a] # None => steady[a] \cap view[a] = {}

\* What TrackSteady does to a walk that goes on, and to one that begins.
LEMMA Tracking ==
    ASSUME NEW a \in Agents, TrackSteady
    PROVE  /\ pc[a] = "scan" => steady'[a] = steady[a] \cap Available(a)
           /\ pc[a] = "begin" /\ pc'[a] = "scan" => steady'[a] = Available(a)'
<1> DEFINE S(x) == CASE pc'[x] = "scan" /\ pc[x] = "begin" -> Available(x)'
                     [] pc[x] = "scan" -> steady[x] \cap Available(x)
                     [] OTHER -> {}
<1>1. steady' = [x \in Agents |-> S(x)]
  BY DEF TrackSteady
<1>2. steady'[a] = S(a)
  BY <1>1
<1>3. CASE pc[a] = "scan"
  BY <1>2, <1>3
<1>4. CASE pc[a] = "begin" /\ pc'[a] = "scan"
  BY <1>2, <1>4
<1> QED BY <1>3, <1>4

\* Available lockers are lockers.
LEMMA SteadyType ==
    ASSUME SteadyInv, TrackSteady
    PROVE  steady' \in [Agents -> SUBSET Lockers]
<1>1. \A a \in Agents : Available(a) \subseteq Lockers /\ Available(a)' \subseteq Lockers
  BY DEF Available
<1> QED BY <1>1 DEF TrackSteady, SteadyInv

\* One row further.  The rows ahead of the old cursor are the new one and those
\* ahead of it; a row that is passed was skipped or is occupied.
LEMMA WalkKeepsSteady ==
    ASSUME TypeOK, SteadyInv, TrackSteady, NEW a \in Agents, ScanRow(a), pc'[a] = "scan"
    PROVE  /\ steady'[a] \cap Available(a)' \subseteq Ahead(a)'
           /\ view'[a] # None => steady'[a] \cap view'[a] = {}
<1>1. PICK l \in Lockers :
          /\ IsNext(a, l)
          /\ cursor' = [cursor EXCEPT ![a] = l]
          /\ SkipRow(a, l) \/ ExamineRow(a, l)
  BY DEF ScanRow
<1>2. pc[a] = "scan" /\ steady'[a] = steady[a] \cap Available(a)
  BY Tracking DEF ScanRow
<1>3. cursor'[a] = l
  BY <1>1 DEF TypeOK, AgentType
<1>4. /\ SkipRow(a, l) => view' = view
      /\ ExamineRow(a, l) => view'[a] = Snapshot(a) /\ l \in Snapshot(a)
  <2>1. ExamineRow(a, l) => view'[a] = Snapshot(a)
    BY DEF ExamineRow, TypeOK, AgentType
  <2>2. ExamineRow(a, l) => l \in Snapshot(a)
    BY DEF ExamineRow, GoTo, TypeOK, AgentType
  <2> QED BY <2>1, <2>2 DEF SkipRow
<1>5. steady[a] \cap Available(a) \cap Snapshot(a) = {}
  BY <1>2 DEF Snapshot, SteadyInv, Available
<1>6. l \notin steady'[a]
  <2>1. CASE SkipRow(a, l)
    BY <1>2, <2>1 DEF SkipRow, Available
  <2>2. CASE ExamineRow(a, l)
    BY <1>2, <1>4, <1>5, <2>2
  <2> QED BY <1>1, <2>1, <2>2
<1>7. ASSUME NEW m \in steady'[a] \cap Available(a)'
      PROVE  m \in Ahead(a)'
  <2>1. m \in Ahead(a) /\ m # l
    BY <1>2, <1>6, <1>7 DEF SteadyInv
  <2>2. Before(l, m)
    BY <1>1, <2>1 DEF IsNext
  <2>3. m \in Lockers /\ Suitable(a, m)'
    BY <1>7 DEF Available
  <2>4. Before(l, m)'
    BY <2>2 DEF Before
  <2> QED BY <1>3, <2>3, <2>4 DEF Ahead, Before
<1>8. view'[a] # None => steady'[a] \cap view'[a] = {}
  BY <1>1, <1>2, <1>4, <1>5 DEF SteadyInv
<1> QED BY <1>7, <1>8

\* Nobody but the request itself touches its walk.
LEMMA OthersKeep ==
    ASSUME TypeOK, NEW a \in Agents, NEW b \in Agents, a # b,
           StoreRequest(b) \/ LocalStep(b) \/ CommitStep(b)
    PROVE  /\ pc'[a] = pc[a] /\ cursor'[a] = cursor[a] /\ view'[a] = view[a]
           /\ locks'[a] = locks[a] /\ attempt'[a] = attempt[a] /\ reply'[a] = reply[a]
           /\ job'[a] = job[a]
<1> DEFINE Kept == /\ pc'[a] = pc[a] /\ cursor'[a] = cursor[a] /\ view'[a] = view[a]
                   /\ locks'[a] = locks[a] /\ attempt'[a] = attempt[a] /\ reply'[a] = reply[a]
<1>1. (\E code : Answer(b, code)) => Kept
  BY DEF Answer, EndTransaction, TypeOK, AgentType
<1>2. ASSUME NEW label PROVE GoTo(b, label) => pc'[a] = pc[a]
  BY DEF GoTo, TypeOK, AgentType
<1>3. CASE StoreRequest(b)
  <2>1. PICK p \in Packages, s \in Stations : FindPackage(b, p, s)
    BY <1>3 DEF StoreRequest
  <2>2. job'[a] = job[a]
    BY <2>1 DEF FindPackage, TypeOK
  <2>3. Kept
    BY <1>1, <1>2, <2>1 DEF FindPackage, walkVars, TypeOK, AgentType
  <2> QED BY <2>2, <2>3
<1>4. CASE CommitStep(b)
  BY <1>1, <1>4 DEF CommitStep, Commit, CommitAckLost
<1>5. CASE LocalStep(b)
  <2>1. job'[a] = job[a]
    BY <1>5, LocalFrame
  <2>2. CASE FindStation(b)
    BY <1>1, <1>2, <2>1, <2>2 DEF FindStation, TypeOK, AgentType
  <2>3. CASE ScanRow(b)
    BY <1>2, <2>1, <2>3 DEF ScanRow, SkipRow, ExamineRow, TypeOK, AgentType
  <2>4. CASE Insert(b) \/ InsertResumes(b)
    <3>1. LockerJustTaken(b) => Kept
      BY <1>1, <1>2 DEF LockerJustTaken, EndTransaction, TypeOK, AgentType
    <3> QED BY <1>1, <1>2, <2>1, <2>4, <3>1 DEF Insert, InsertResumes, InsertOutcome, walkVars
  <2>5. CASE Begin(b) \/ UpdatePackage(b) \/ ScanEmpty(b) \/ DeadlockVictim(b) \/ Fail(b)
    BY <1>1, <1>2, <2>1, <2>5 DEF Begin, UpdatePackage, ScanEmpty, DeadlockVictim, Fail, walkVars
  <2> QED BY <1>5, <2>2, <2>3, <2>4, <2>5 DEF LocalStep
<1> QED BY <1>3, <1>4, <1>5

\* A walk moves by its own steps only.
LEMMA WalkSteps ==
    ASSUME TypeOK, [Next]_vars, NEW a \in Agents, pc'[a] = "scan"
    PROVE  \/ ScanRow(a)
           \/ Begin(a)
           \/ pc[a] = "scan" /\ cursor'[a] = cursor[a] /\ view'[a] = view[a]
<1>1. CASE \E b \in Agents \ {a} : StoreRequest(b) \/ LocalStep(b) \/ CommitStep(b)
  BY <1>1, OthersKeep
<1>2. CASE StoreRequest(a) \/ CommitStep(a)
  BY <1>2, RequestEffect, CommitEffect
<1>3. CASE LocalStep(a)
  <2>1. ASSUME NEW code, Answer(a, code) PROVE FALSE
    BY <2>1 DEF Answer, TypeOK, AgentType
  <2>2. ASSUME NEW label \in {"begin", "insertWait", "update", "commit"}, GoTo(a, label)
        PROVE  FALSE
    BY <2>2 DEF GoTo, TypeOK, AgentType
  <2> QED BY <1>3, <2>1, <2>2
          DEF LocalStep, FindStation, ScanEmpty, Insert, InsertResumes, InsertOutcome,
              LockerJustTaken, UpdatePackage, DeadlockVictim, Fail
<1>4. CASE \E d \in Doors : Retrieval(d)
  BY <1>4 DEF Retrieval, FindActiveByLocker, SaveRetrieval, RetrievalFails, agentVars, walkVars
<1>5. CASE OperatorWrite \/ (\E p \in Packages : Register(p)) \/ UNCHANGED vars
  BY <1>5 DEF OperatorWrite, WriteLocker, WriteStation, Register, agentVars, walkVars, vars
<1> QED BY <1>1, <1>2, <1>3, <1>4, <1>5, StepKinds

\* What can happen to a request that is walking.
LEMMA FromScan ==
    ASSUME TypeOK, [Next]_vars, NEW a \in Agents, pc[a] = "scan"
    PROVE  \/ ScanRow(a)
           \/ ScanEmpty(a)
           \/ Answer(a, "error")
           \/ pc'[a] = pc[a] /\ reply'[a] = reply[a]
<1>1. CASE \E b \in Agents \ {a} : StoreRequest(b) \/ LocalStep(b) \/ CommitStep(b)
  BY <1>1, OthersKeep
<1>2. CASE StoreRequest(a) \/ CommitStep(a)
  BY <1>2, RequestEffect, CommitEffect
<1>3. CASE LocalStep(a)
  BY <1>3 DEF LocalStep, FindStation, Begin, Insert, InsertResumes, UpdatePackage,
              DeadlockVictim, Fail
<1>4. ASSUME NEW d \in Doors, Retrieval(d) PROVE UNCHANGED agentVars
  BY <1>4 DEF Retrieval, FindActiveByLocker, SaveRetrieval, RetrievalFails
<1>5. CASE OperatorWrite \/ (\E p \in Packages : Register(p)) \/ UNCHANGED vars
  BY <1>5 DEF OperatorWrite, WriteLocker, WriteStation, Register, vars, agentVars
<1> QED BY <1>1, <1>2, <1>3, <1>4, <1>5, StepKinds DEF agentVars

\* Every step of anybody keeps the steady lockers of a walk ahead of it.
LEMMA SteadyStep ==
    ASSUME TypeOK, AttemptInv, SteadyInv, [FitNext]_fitVars
    PROVE  SteadyInv'
<1>1. CASE UNCHANGED fitVars
  BY <1>1 DEF fitVars, vars, dbVars, agentVars, walkVars, SteadyInv, Available, Ahead, Suitable,
              OccupiedLockers, LockedByOther, Active, Exists, Before, Fits
<1>2. CASE FitNext
  <2>1. TrackSteady /\ [Next]_vars
    BY <1>2 DEF FitNext
  <2>2. ASSUME NEW a \in Agents, pc'[a] = "scan"
        PROVE  /\ steady'[a] \cap Available(a)' \subseteq Ahead(a)'
               /\ view'[a] # None => steady'[a] \cap view'[a] = {}
    <3>1. CASE ScanRow(a)
      BY <2>1, <2>2, <3>1, WalkKeepsSteady
    <3>2. CASE Begin(a)
      <4>1. cursor'[a] = None /\ view'[a] = None
        BY <3>2 DEF Begin, walkVars, AttemptInv
      <4> QED BY <4>1 DEF Available, Ahead
    <3>3. CASE pc[a] = "scan" /\ cursor'[a] = cursor[a] /\ view'[a] = view[a]
      <4>1. steady'[a] = steady[a] \cap Available(a)
        BY <2>1, <3>3, Tracking
      <4>2. ASSUME NEW m \in steady'[a] \cap Available(a)'
            PROVE  m \in Ahead(a)'
        <5>1. m \in Ahead(a)
          BY <3>3, <4>1, <4>2 DEF SteadyInv
        <5>2. m \in Lockers /\ Suitable(a, m)'
          BY <4>2 DEF Available
        <5> QED BY <3>3, <5>1, <5>2 DEF Ahead, Before
      <4> QED BY <3>3, <4>1, <4>2 DEF SteadyInv
    <3> QED BY <2>1, <2>2, <3>1, <3>2, <3>3, WalkSteps
  <2> QED BY <2>1, <2>2, SteadyType DEF SteadyInv
<1> QED BY <1>1, <1>2

\* The history variable changes nothing: what holds of StorePackage holds here,
\* and with it what walks obey.
THEOREM FitInvariance == FitSpec => [](IInv /\ AttemptInv /\ SteadyInv)
<1>1. FitInit => IInv /\ AttemptInv /\ SteadyInv
  BY InitIInv, AttemptInit DEF FitInit, SteadyInv, Init
<1>2. IInv /\ AttemptInv /\ SteadyInv /\ [FitNext]_fitVars => (IInv /\ AttemptInv /\ SteadyInv)'
  <2> SUFFICES ASSUME IInv, AttemptInv, SteadyInv, [FitNext]_fitVars
               PROVE  (IInv /\ AttemptInv /\ SteadyInv)'
    OBVIOUS
  <2>1. [Next]_vars
    BY DEF FitNext, fitVars
  <2>2. TypeOK
    BY DEF IInv
  <2> QED BY <2>1, <2>2, TypeStep, RequestStep, DoorStep, PendingStep, RowsStep, AnswersStep,
             AttemptStep, SteadyStep DEF IInv
<1> QED BY <1>1, <1>2, PTL DEF FitSpec

\* ORDER BY with LIMIT 1 under SKIP LOCKED gives the smallest locker that was
\* there for the taking during the whole walk, for any number of requests.
THEOREM SmallestFitHolds == FitSpec => SmallestFit
<1>1. ASSUME IInv, AttemptInv, SteadyInv, [FitNext]_fitVars,
             NEW a \in Agents, pc[a] = "scan", pc'[a] = "insert",
             NEW m \in steady[a] \cap Available(a)
      PROVE  ~Before(m, cursor'[a])
  <2>1. TypeOK /\ [Next]_vars
    BY <1>1 DEF IInv, FitNext, fitVars
  <2>2. ScanRow(a)
    BY <1>1, <2>1, FromScan DEF ScanEmpty, Answer, TypeOK, AgentType
  <2>3. PICK l \in Lockers : IsNext(a, l) /\ cursor' = [cursor EXCEPT ![a] = l]
    BY <2>2 DEF ScanRow
  <2>4. cursor'[a] = l
    BY <2>1, <2>3 DEF TypeOK, AgentType
  <2>5. m \in Ahead(a)
    BY <1>1 DEF SteadyInv
  <2> QED BY <2>3, <2>4, <2>5, BeforeIsStrict DEF IsNext, Ahead
<1>2. IInv /\ AttemptInv /\ SteadyInv /\ [FitNext]_fitVars =>
        [\A a \in Agents :
            pc[a] = "scan" /\ pc'[a] = "insert" =>
                \A m \in steady[a] \cap Available(a) : ~Before(m, cursor'[a])]_fitVars
  BY <1>1
<1> QED BY <1>2, FitInvariance, PTL DEF FitSpec, SmallestFit

\* A request is refused only if no locker was free, in service and unlocked from
\* the first to the last row of its walk.
THEOREM RefusedOnlyWhenFullHolds == FitSpec => RefusedOnlyWhenFull
<1>1. ASSUME IInv, AttemptInv, SteadyInv, [FitNext]_fitVars,
             NEW a \in Agents, pc[a] = "scan", reply'[a] = "no_suitable_locker"
      PROVE  steady[a] \cap Available(a) = {}
  <2>1. TypeOK /\ [Next]_vars
    BY <1>1 DEF IInv, FitNext, fitVars
  <2>2. reply[a] = "none"
    BY <1>1 DEF AttemptInv
  <2>3. Ahead(a) = {}
    BY <1>1, <2>1, <2>2, FromScan DEF ScanRow, ScanEmpty, Answer, TypeOK, AgentType
  <2> QED BY <1>1, <2>3 DEF SteadyInv
<1>2. IInv /\ AttemptInv /\ SteadyInv /\ [FitNext]_fitVars =>
        [\A a \in Agents :
            pc[a] = "scan" /\ reply'[a] = "no_suitable_locker" =>
                steady[a] \cap Available(a) = {}]_fitVars
  BY <1>1
<1> QED BY <1>2, FitInvariance, PTL DEF FitSpec, RefusedOnlyWhenFull

-----------------------------------------------------------------------------
(* Fan-out: N stores of N parcels, nothing else going on. *)

\* A request that has chosen its locker.
Standing(a) == pc[a] \in {"insert", "insertWait", "update", "commit"}

\* A locker nobody else needs to hope for: filled, or about to be.
Covered(l) == l \in OccupiedLockers \/ \E b \in Agents : Standing(b) /\ cursor[b] = l

\* Nobody operates and nobody collects.
QuietInv ==
    /\ lockerStatus = [l \in Lockers |-> "IN_SERVICE"]
    /\ stationStatus = [s \in Stations |-> "ACTIVE"]
    /\ \A i \in AssignmentIds : Exists(i) => ~assignment[i].retrieved

\* Everybody has a parcel of his own, and only finished requests have stored one.
JobsInv ==
    /\ \A a, b \in Agents :
          a # b /\ job[a] # None /\ job[b] # None => job[a].package # job[b].package
    /\ \A i \in AssignmentIds : Exists(i) =>
          \E c \in Agents : pc[c] = "idle" /\ job[c] # None /\ job[c].package = assignment[i].package

\* Row locks exclude each other, and a request keeps none on a free locker but
\* the one it has chosen.
LocksInv ==
    /\ \A a, b \in Agents : a # b => locks[a] \cap locks[b] = {}
    /\ \A a \in Agents : \A l \in locks[a] : l \in OccupiedLockers \/ (Standing(a) /\ cursor[a] = l)
    /\ \A a \in Agents : view[a] # None => view[a] \subseteq OccupiedLockers

\* A walk has passed covered lockers only.
PassedInv ==
    \A a \in Agents : pc[a] = "scan" /\ cursor[a] # None =>
        /\ Suitable(a, cursor[a])
        /\ \A l \in Lockers :
              Suitable(a, l) /\ (l = cursor[a] \/ Before(l, cursor[a])) => Covered(l)

\* A race is lost to a locker that the snapshot did not show: with every lost
\* attempt the snapshot of the next one is larger.
RaceInv ==
    \A a \in Agents :
        /\ attempt[a] >= 2 => Cardinality(OccupiedLockers) >= attempt[a]
        /\ pc[a] = "scan" /\ view[a] # None => Cardinality(view[a]) >= attempt[a]
        /\ Standing(a) =>
              /\ view[a] # None /\ cursor[a] \notin view[a]
              /\ cursor[a] \in OccupiedLockers => Cardinality(view[a]) >= attempt[a]

\* What the answers given so far mean.
RefusalInv ==
    \A a \in Agents :
        /\ reply[a] \in {"none", "stored", "no_suitable_locker", "locker_just_taken"}
        /\ job[a] # None /\ pc[a] = "idle" => reply[a] # "none"
        /\ reply[a] = "no_suitable_locker" =>
              job[a] # None /\ \A l \in Lockers : Suitable(a, l) => Covered(l)
        /\ reply[a] = "locker_just_taken" => Cardinality(OccupiedLockers) > MAX_ATTEMPTS

\* All of it, beside the invariant of the service itself.
FanInv == QuietInv /\ JobsInv /\ LocksInv /\ PassedInv /\ RaceInv /\ RefusalInv

-----------------------------------------------------------------------------
(* The steps that are left. *)

\* A request is made, for a parcel nobody else asks about.
Asks(a) ==
    /\ pc[a] = "idle" /\ job[a] = None
    /\ GoTo(a, "findStation")
    /\ reply' = [reply EXCEPT ![a] = "none"]
    /\ UNCHANGED walkVars
    /\ \E j \in Job :
          /\ job' = [job EXCEPT ![a] = j]
          /\ \A b \in Agents : job[b] # None => job[b].package # j.package

\* The station is open, and the first attempt begins.
Enters(a) ==
    /\ pc[a] = "findStation"
    /\ GoTo(a, "begin")
    /\ attempt' = [attempt EXCEPT ![a] = 1]
    /\ UNCHANGED <<job, cursor, view, locks, reply>>

\* The INSERT meets the key of a locker that was filled meanwhile.
Loses(a) ==
    /\ Standing(a)
    /\ cursor[a] \in OccupiedLockers
    /\ LockerJustTaken(a)
    /\ UNCHANGED job

\* The chosen locker is still free, or a peer is waited for.
Proceeds(a) ==
    /\ Standing(a)
    /\ \E label \in {"insertWait", "update", "commit"} : GoTo(a, label)
    /\ UNCHANGED <<job, walkVars, reply>>

\* A step of one request that commits nothing.
FanStep(a) ==
    Asks(a) \/ Enters(a) \/ Begin(a) \/ ScanRow(a) \/ ScanEmpty(a) \/ Loses(a) \/ Proceeds(a)

\* The steps of the fan-out are steps of the service.
LEMMA FanOutIsStore == [FanOutNext]_vars => [Next]_vars
BY DEF FanOutNext, FirstRequest, Next, StoreRequest

\* No parcel is asked for twice, so that no package key is ever in the way.
LEMMA NoPackageClash ==
    ASSUME IInv, JobsInv, NEW a \in Agents, pc[a] # "idle"
    PROVE  /\ ~PackageKeyTaken(job[a].package)
           /\ \A b \in Agents : pc[b] # "idle" => ~SamePackage(a, b)
<1>1. \A b \in Agents : pc[b] # "idle" => job[b] # None
  BY NoneAssumption DEF IInv, RequestInv
<1> QED BY <1>1 DEF JobsInv, PackageKeyTaken, SamePackage

\* Every step is one of these.
LEMMA FanSteps ==
    ASSUME IInv, QuietInv, JobsInv, [FanOutNext]_vars
    PROVE  \/ \E a \in Agents : Commit(a)
           \/ /\ UNCHANGED <<assignment, lockerStatus, stationStatus>>
              /\ (\E a \in Agents : FanStep(a)) \/ UNCHANGED agentVars
<1> TypeOK /\ RequestInv /\ StatusMatchesAssignment
  BY DEF IInv, RowsInv
<1>1. CASE \E p \in Packages : Register(p)
  BY <1>1 DEF Register
<1>2. CASE UNCHANGED vars
  BY <1>2 DEF vars, dbVars
<1>3. ASSUME NEW a \in Agents, FirstRequest(a), \A p \in Packages : package[p] # "NONE"
      PROVE  Asks(a) /\ UNCHANGED <<assignment, lockerStatus, stationStatus>>
  <2>1. PICK p \in Packages, s \in Stations :
            /\ \A b \in Agents : job[b] # None => job[b].package # p
            /\ FindPackage(a, p, s)
    BY <1>3 DEF FirstRequest
  <2>2. package[p] \notin {"STORED", "RETRIEVED"}
    BY <2>1 DEF StatusMatchesAssignment, JobsInv, Active
  <2>3. [package |-> p, station |-> s] \in Job
    BY DEF Job
  <2> QED BY <1>3, <2>1, <2>2, <2>3 DEF FindPackage, FirstRequest, Asks, dbVars
<1>4. ASSUME NEW a \in Agents, StoreStep(a)
      PROVE  \/ Commit(a)
             \/ FanStep(a) /\ UNCHANGED <<assignment, lockerStatus, stationStatus>>
  <2>1. CASE FindStation(a)
    <3>1. job[a].station \in Stations
      BY <2>1 DEF FindStation, RequestInv, Job
    <3> QED BY <2>1, <3>1 DEF FindStation, QuietInv, Enters, FanStep, dbVars
  <2>2. CASE Begin(a) \/ ScanRow(a) \/ ScanEmpty(a)
    BY <2>2 DEF Begin, ScanRow, ScanEmpty, FanStep, dbVars
  <2>3. CASE Insert(a) \/ InsertResumes(a)
    <3>1. Standing(a) /\ ~PackageKeyTaken(job[a].package)
      BY <2>3, NoPackageClash DEF Insert, InsertResumes, Standing
    <3>2. cursor[a] \in Lockers
      BY <3>1 DEF RequestInv, Standing, TypeOK, AgentType
    <3>3. LockerKeyTaken(cursor[a]) => cursor[a] \in OccupiedLockers
      BY <3>2 DEF LockerKeyTaken, OccupiedLockers
    <3> QED BY <2>3, <3>1, <3>3
            DEF Insert, InsertResumes, InsertOutcome, Loses, Proceeds, FanStep, dbVars
  <2>4. CASE UpdatePackage(a)
    BY <2>4 DEF UpdatePackage, Proceeds, Standing, FanStep, dbVars
  <2>5. CASE DeadlockVictim(a)
    <3>1. PICK b \in Agents : Deadlocked(a, b) \/ Deadlocked(b, a)
      BY <2>5 DEF DeadlockVictim
    <3>2. SamePackage(a, b) /\ pc[a] # "idle" /\ pc[b] # "idle"
      BY <3>1 DEF Deadlocked, BlocksUpdate, SamePackage
    <3> QED BY <3>2, NoPackageClash
  <2> QED BY <1>4, <2>1, <2>2, <2>3, <2>4, <2>5 DEF StoreStep
<1> QED BY <1>1, <1>2, <1>3, <1>4 DEF FanOutNext, FanStep

\* Nobody else's walk is touched.
LEMMA FanOthersKeep ==
    ASSUME TypeOK, NEW a \in Agents, NEW b \in Agents, a # b, FanStep(b) \/ Commit(b)
    PROVE  /\ pc'[a] = pc[a] /\ cursor'[a] = cursor[a] /\ view'[a] = view[a]
           /\ locks'[a] = locks[a] /\ attempt'[a] = attempt[a] /\ reply'[a] = reply[a]
           /\ job'[a] = job[a]
<1>1. CASE Asks(b)
  BY <1>1 DEF Asks, GoTo, walkVars, TypeOK, AgentType
<1>2. CASE Enters(b)
  BY <1>2 DEF Enters, GoTo, TypeOK, AgentType
<1>3. CASE Loses(b)
  BY <1>3 DEF Loses, LockerJustTaken, Answer, EndTransaction, GoTo, TypeOK, AgentType
<1>4. CASE Proceeds(b)
  BY <1>4 DEF Proceeds, GoTo, walkVars, TypeOK, AgentType
<1>5. CASE Begin(b) \/ ScanRow(b) \/ ScanEmpty(b)
  BY <1>5, OthersKeep DEF LocalStep
<1>6. CASE Commit(b)
  BY <1>6, OthersKeep DEF CommitStep
<1> QED BY <1>1, <1>2, <1>3, <1>4, <1>5, <1>6 DEF FanStep

\* Occupancy is what the open assignments say.
LEMMA OccupiedSame == UNCHANGED assignment => OccupiedLockers' = OccupiedLockers
BY DEF OccupiedLockers, Active, Exists

\* A commit fills the locker its request stands on, and nothing else.
LEMMA CommitFills ==
    ASSUME IInv, QuietInv, NEW a \in Agents, Commit(a)
    PROVE  /\ Standing(a) /\ cursor[a] \in Lockers /\ cursor[a] \in locks[a]
           /\ OccupiedLockers' = OccupiedLockers \cup {cursor[a]}
           /\ QuietInv'
           /\ \E i \in AssignmentIds :
                 /\ assignment'[i].package = job[a].package
                 /\ \A k \in AssignmentIds \ {i} : assignment'[k] = assignment[k]
<1> TypeOK /\ RequestInv
  BY DEF IInv
<1>1. pc[a] = "commit" /\ CommitRows(a)
  BY DEF Commit
<1>2. Standing(a) /\ cursor[a] \in locks[a] /\ cursor[a] \in Lockers
  BY <1>1 DEF Standing, RequestInv, TypeOK, AgentType
<1>3. PICK i \in AssignmentIds :
          /\ ~Exists(i)
          /\ assignment' = [assignment EXCEPT ![i] =
                [package |-> job[a].package, locker |-> cursor[a], retrieved |-> FALSE]]
  BY <1>1 DEF CommitRows
<1>4. /\ assignment'[i] = [package |-> job[a].package, locker |-> cursor[a], retrieved |-> FALSE]
      /\ \A k \in AssignmentIds \ {i} : assignment'[k] = assignment[k]
  BY <1>3 DEF TypeOK, DbType
<1>5. assignment'[i] # None
  <2>1. job[a] \in Job
    BY <1>1 DEF RequestInv
  <2>2. assignment'[i] \in Row
    BY <1>2, <1>4, <2>1 DEF Row, Job
  <2> QED BY <2>2, NoneAssumption
<1>6. OccupiedLockers' = OccupiedLockers \cup {cursor[a]}
  <2>1. ASSUME NEW l \in OccupiedLockers PROVE l \in OccupiedLockers'
    BY <1>3, <1>4, <2>1 DEF OccupiedLockers, Active, Exists
  <2>2. cursor[a] \in OccupiedLockers'
    BY <1>2, <1>4, <1>5 DEF OccupiedLockers, Active, Exists
  <2>3. ASSUME NEW l \in OccupiedLockers', l # cursor[a] PROVE l \in OccupiedLockers
    BY <1>4, <2>3 DEF OccupiedLockers, Active, Exists
  <2> QED BY <2>1, <2>2, <2>3
<1>7. QuietInv'
  BY <1>1, <1>4 DEF CommitRows, QuietInv, Exists
<1> QED BY <1>2, <1>4, <1>6, <1>7

\* The fan-out never frees a locker.
LEMMA OccupiedGrows ==
    ASSUME IInv, QuietInv, JobsInv, [FanOutNext]_vars
    PROVE  OccupiedLockers \subseteq OccupiedLockers'
BY FanSteps, OccupiedSame, CommitFills

\* What is covered stays covered: whoever stands on a locker fills it, or lost it
\* to somebody who has.
LEMMA CoveredStays ==
    ASSUME IInv, QuietInv, JobsInv, [FanOutNext]_vars, NEW l \in Lockers, Covered(l)
    PROVE  Covered(l)'
<1> TypeOK
  BY DEF IInv
<1>1. CASE l \in OccupiedLockers
  BY <1>1, OccupiedGrows DEF Covered
<1>2. ASSUME NEW b \in Agents, Standing(b), cursor[b] = l
      PROVE  Covered(l)'
  <2>1. CASE Commit(b)
    BY <1>2, <2>1, CommitFills DEF Covered
  <2>2. CASE FanStep(b)
    <3>1. CASE Proceeds(b)
      BY <1>2, <3>1 DEF Proceeds, GoTo, walkVars, Standing, Covered, TypeOK, AgentType
    <3>2. CASE Loses(b)
      BY <1>1, <1>2, <3>2 DEF Loses
    <3> QED BY <1>2, <2>2, <3>1, <3>2
            DEF FanStep, Asks, Enters, Begin, ScanRow, ScanEmpty, Standing
  <2>3. CASE \E a \in Agents \ {b} : FanStep(a) \/ Commit(a)
    <3>1. pc'[b] = pc[b] /\ cursor'[b] = cursor[b]
      BY <2>3, FanOthersKeep
    <3> QED BY <1>2, <3>1 DEF Covered, Standing
  <2>4. CASE UNCHANGED agentVars
    BY <1>2, <2>4 DEF Covered, Standing, agentVars, walkVars
  <2> QED BY <2>1, <2>2, <2>3, <2>4, FanSteps
<1> QED BY <1>1, <1>2 DEF Covered

-----------------------------------------------------------------------------
(* The invariant, part by part. *)

\* No operator and no collection is among the steps.
LEMMA QuietStep ==
    ASSUME IInv, QuietInv, JobsInv, [FanOutNext]_vars
    PROVE  QuietInv'
<1>1. CASE UNCHANGED <<assignment, lockerStatus, stationStatus>>
  BY <1>1 DEF QuietInv, Exists
<1> QED BY <1>1, FanSteps, CommitFills

\* A request keeps its parcel, and a row is committed by the request that ends.
LEMMA JobsStep ==
    ASSUME IInv, QuietInv, JobsInv, [FanOutNext]_vars
    PROVE  JobsInv'
<1> TypeOK /\ RequestInv
  BY DEF IInv
<1>1. ASSUME NEW a \in Agents, Commit(a)
      PROVE  JobsInv'
  <2>1. UNCHANGED job /\ pc[a] = "commit" /\ pc' = [pc EXCEPT ![a] = "idle"]
    BY <1>1 DEF Commit, Answer
  <2>2. job[a] # None /\ pc'[a] = "idle" /\ \A c \in Agents : pc[c] = "idle" => pc'[c] = "idle"
    BY <2>1, NoneAssumption DEF RequestInv, TypeOK, AgentType
  <2>3. PICK i \in AssignmentIds :
                 /\ assignment'[i].package = job[a].package
                 /\ \A k \in AssignmentIds \ {i} : assignment'[k] = assignment[k]
    BY <1>1, CommitFills
  <2>4. ASSUME NEW k \in AssignmentIds, Exists(k)'
        PROVE  \E c \in Agents : pc'[c] = "idle" /\ job[c] # None
                                 /\ job[c].package = assignment'[k].package
    <3>1. CASE k = i
      BY <2>2, <2>3, <3>1
    <3>2. CASE k # i
      BY <2>2, <2>3, <2>4, <3>2 DEF JobsInv, Exists
    <3> QED BY <3>1, <3>2
  <2> QED BY <2>1, <2>4 DEF JobsInv
<1>2. ASSUME UNCHANGED assignment, UNCHANGED job,
             \A c \in Agents : pc[c] = "idle" => pc'[c] = "idle"
      PROVE  JobsInv'
  BY <1>2 DEF JobsInv, Exists
<1>3. ASSUME NEW a \in Agents, Asks(a), UNCHANGED assignment
      PROVE  JobsInv'
  <2>1. PICK j \in Job : /\ job' = [job EXCEPT ![a] = j]
                         /\ \A b \in Agents : job[b] # None => job[b].package # j.package
    BY <1>3 DEF Asks
  <2>2. job'[a] = j /\ \A b \in Agents \ {a} : job'[b] = job[b] /\ pc'[b] = pc[b]
    BY <1>3, <2>1 DEF Asks, GoTo, TypeOK, AgentType
  <2>3. \A c \in Agents : job[c] # None => c # a
    BY <1>3 DEF Asks
  <2>4. \A b, c \in Agents :
          b # c /\ job'[b] # None /\ job'[c] # None => job'[b].package # job'[c].package
    BY <2>1, <2>2 DEF JobsInv
  <2>5. \A k \in AssignmentIds : assignment'[k] # None =>
          \E c \in Agents : pc'[c] = "idle" /\ job'[c] # None
                            /\ job'[c].package = assignment'[k].package
    BY <1>3, <2>2, <2>3 DEF JobsInv, Exists
  <2> QED BY <2>4, <2>5 DEF JobsInv, Exists
<1>4. ASSUME NEW a \in Agents, FanStep(a), ~Asks(a)
      PROVE  UNCHANGED job /\ pc[a] # "idle" /\ \A c \in Agents : pc[c] = "idle" => pc'[c] = "idle"
  <2>1. \A c \in Agents \ {a} : pc'[c] = pc[c]
    BY <1>4, FanOthersKeep
  <2>2. UNCHANGED job /\ pc[a] # "idle"
    BY <1>4 DEF FanStep, Enters, Begin, ScanRow, ScanEmpty, Loses, Proceeds, Standing
  <2> QED BY <2>1, <2>2
<1>5. UNCHANGED agentVars => UNCHANGED <<job, pc>>
  BY DEF agentVars
<1> QED BY <1>1, <1>2, <1>3, <1>4, <1>5, FanSteps

\* What one step of the index walk does.
LEMMA ScanRowEffect ==
    ASSUME TypeOK, NEW a \in Agents, ScanRow(a)
    PROVE  \E l \in Lockers :
              /\ IsNext(a, l) /\ cursor'[a] = l /\ attempt'[a] = attempt[a] /\ reply'[a] = reply[a]
              /\ \/ /\ LockedByOther(a, l) /\ pc'[a] = "scan"
                    /\ view'[a] = view[a] /\ locks'[a] = locks[a]
                 \/ /\ ~LockedByOther(a, l) /\ view'[a] = Snapshot(a)
                    /\ locks'[a] = locks[a] \cup {l}
                    /\ pc'[a] = IF l \in Snapshot(a) THEN "scan" ELSE "insert"
BY DEF ScanRow, SkipRow, ExamineRow, GoTo, TypeOK, AgentType

\* The two ends of a lost race.
LEMMA LosesEffect ==
    ASSUME TypeOK, NEW a \in Agents, Loses(a)
    PROVE  /\ view'[a] = None /\ locks'[a] = {} /\ cursor'[a] = None
           /\ \/ attempt[a] < MAX_ATTEMPTS /\ pc'[a] = "begin"
                 /\ attempt'[a] = attempt[a] + 1 /\ reply'[a] = reply[a]
              \/ attempt[a] >= MAX_ATTEMPTS /\ pc'[a] = "idle"
                 /\ attempt'[a] = 0 /\ reply'[a] = "locker_just_taken"
<1>1. CASE attempt[a] < MAX_ATTEMPTS /\ EndTransaction(a) /\ GoTo(a, "begin")
           /\ attempt' = [attempt EXCEPT ![a] = @ + 1] /\ UNCHANGED reply
  BY <1>1 DEF EndTransaction, GoTo, TypeOK, AgentType
<1>2. CASE attempt[a] >= MAX_ATTEMPTS /\ Answer(a, "locker_just_taken")
  BY <1>2 DEF Answer, EndTransaction, TypeOK, AgentType
<1> QED BY <1>1, <1>2 DEF Loses, LockerJustTaken

\* An answer leaves nothing behind.
LEMMA AnswerEffect ==
    ASSUME TypeOK, NEW a \in Agents, NEW code, Answer(a, code)
    PROVE  /\ view'[a] = None /\ locks'[a] = {} /\ cursor'[a] = None
           /\ pc'[a] = "idle" /\ attempt'[a] = 0 /\ reply'[a] = code
BY DEF Answer, EndTransaction, TypeOK, AgentType

\* A request that is not walking keeps its locks and its snapshot, or drops them.
LEMMA OtherwiseKeeps ==
    ASSUME TypeOK, NEW a \in Agents, FanStep(a) \/ Commit(a), ~ScanRow(a)
    PROVE  \/ /\ view'[a] = None /\ locks'[a] = {} /\ cursor'[a] = None
              /\ pc'[a] \in {"idle", "begin"}
           \/ /\ view'[a] = view[a] /\ locks'[a] = locks[a] /\ cursor'[a] = cursor[a]
              /\ Standing(a) => Standing(a)' /\ attempt'[a] = attempt[a]
              /\ ~Standing(a) => pc'[a] \in {"findStation", "begin", "scan"} /\ pc[a] # "scan"
<1>1. CASE Asks(a) \/ Enters(a) \/ Begin(a) \/ Proceeds(a)
  BY <1>1 DEF Asks, Enters, Begin, Proceeds, GoTo, walkVars, Standing, TypeOK, AgentType
<1>2. CASE ScanEmpty(a) \/ Commit(a)
  BY <1>2, AnswerEffect DEF ScanEmpty, Commit
<1>3. CASE Loses(a)
  BY <1>3, LosesEffect
<1> QED BY <1>1, <1>2, <1>3 DEF FanStep

\* SKIP LOCKED takes no row that a peer has, and what a walk locked and left
\* behind was filled.
LEMMA LocksStep ==
    ASSUME IInv, FanInv, [FanOutNext]_vars
    PROVE  LocksInv'
<1> TypeOK /\ QuietInv /\ JobsInv /\ LocksInv
  BY DEF IInv, FanInv
<1>1. OccupiedLockers \subseteq OccupiedLockers'
  BY OccupiedGrows
<1> DEFINE Own(a) == /\ \A l \in locks'[a] : l \in OccupiedLockers' \/ (Standing(a)' /\ cursor'[a] = l)
                     /\ view'[a] # None => view'[a] \subseteq OccupiedLockers'
           New(a) == {l \in locks'[a] : l \notin locks[a]}
<1>2. ASSUME NEW a \in Agents, FanStep(a) \/ Commit(a)
      PROVE  Own(a) /\ \A b \in Agents \ {a} : New(a) \cap locks[b] = {}
  <2>1. CASE ScanRow(a)
    <3>1. PICK l \in Lockers :
              /\ cursor'[a] = l
              /\ \/ /\ LockedByOther(a, l) /\ pc'[a] = "scan"
                    /\ view'[a] = view[a] /\ locks'[a] = locks[a]
                 \/ /\ ~LockedByOther(a, l) /\ view'[a] = Snapshot(a)
                    /\ locks'[a] = locks[a] \cup {l}
                    /\ pc'[a] = IF l \in Snapshot(a) THEN "scan" ELSE "insert"
      BY <2>1, ScanRowEffect
    <3>2. locks[a] \subseteq OccupiedLockers
      BY <2>1 DEF ScanRow, LocksInv, Standing
    <3>3. Snapshot(a) \subseteq OccupiedLockers
      BY DEF Snapshot, LocksInv
    <3>4. view'[a] # None => view'[a] \subseteq OccupiedLockers'
      BY <1>1, <3>1, <3>3 DEF LocksInv
    <3>5. ASSUME NEW k \in locks'[a]
          PROVE  k \in OccupiedLockers' \/ (Standing(a)' /\ cursor'[a] = k)
      <4>1. CASE k \in locks[a] \/ l \in Snapshot(a)
        BY <1>1, <3>1, <3>2, <3>3, <3>5, <4>1
      <4>2. CASE k \notin locks[a] /\ l \notin Snapshot(a)
        BY <3>1, <3>5, <4>2 DEF Standing
      <4> QED BY <4>1, <4>2
    <3>6. \A b \in Agents \ {a} : New(a) \cap locks[b] = {}
      BY <3>1 DEF LockedByOther
    <3> QED BY <3>4, <3>5, <3>6
  <2>2. CASE ~ScanRow(a)
    <3>1. CASE /\ view'[a] = None /\ locks'[a] = {}
      BY <3>1
    <3>2. CASE /\ view'[a] = view[a] /\ locks'[a] = locks[a] /\ cursor'[a] = cursor[a]
               /\ Standing(a) => Standing(a)'
      BY <1>1, <3>2 DEF LocksInv
    <3> QED BY <1>2, <2>2, <3>1, <3>2, OtherwiseKeeps
  <2> QED BY <2>1, <2>2
<1>3. ASSUME NEW a \in Agents, locks'[a] = locks[a], view'[a] = view[a], cursor'[a] = cursor[a],
             pc'[a] = pc[a]
      PROVE  Own(a)
  BY <1>1, <1>3 DEF LocksInv, Standing
<1>4. CASE \E a \in Agents : FanStep(a) \/ Commit(a)
  <2>1. PICK a \in Agents : FanStep(a) \/ Commit(a)
    BY <1>4
  <2>2. \A b \in Agents \ {a} : /\ locks'[b] = locks[b] /\ view'[b] = view[b]
                                /\ cursor'[b] = cursor[b] /\ pc'[b] = pc[b]
    BY <2>1, FanOthersKeep
  <2>3. \A b \in Agents : Own(b)
    BY <1>2, <1>3, <2>1, <2>2
  <2>4. \A b, c \in Agents : b # c => locks'[b] \cap locks'[c] = {}
    <3> SUFFICES ASSUME NEW b \in Agents, NEW c \in Agents, b # c,
                        NEW l \in locks'[b], l \in locks'[c]
                 PROVE  FALSE
      OBVIOUS
    <3>1. CASE b # a /\ c # a
      BY <2>2, <3>1 DEF LocksInv
    <3>2. CASE b = a
      <4>1. l \in locks[c] /\ c # a
        BY <2>2, <3>2
      <4>2. CASE l \in locks[a]
        BY <3>2, <4>1, <4>2 DEF LocksInv
      <4>3. CASE l \notin locks[a]
        BY <1>2, <2>1, <3>2, <4>1, <4>3
      <4> QED BY <4>2, <4>3
    <3>3. CASE c = a
      <4>1. l \in locks[b] /\ b # a
        BY <2>2, <3>3
      <4>2. CASE l \in locks[a]
        BY <3>3, <4>1, <4>2 DEF LocksInv
      <4>3. CASE l \notin locks[a]
        BY <1>2, <2>1, <3>3, <4>1, <4>3
      <4> QED BY <4>2, <4>3
    <3> QED BY <3>1, <3>2, <3>3
  <2> QED BY <2>3, <2>4 DEF LocksInv
<1>5. CASE UNCHANGED agentVars
  <2>1. UNCHANGED <<locks, view, cursor, pc>>
    BY <1>5 DEF agentVars, walkVars
  <2> QED BY <1>3, <2>1 DEF LocksInv
<1> QED BY <1>4, <1>5, FanSteps

\* A walk passes a row that is locked or filled, and a covered locker stays covered.
LEMMA PassedStep ==
    ASSUME IInv, FanInv, AttemptInv, [FanOutNext]_vars
    PROVE  PassedInv'
<1> TypeOK /\ QuietInv /\ JobsInv /\ LocksInv /\ PassedInv
  BY DEF IInv, FanInv
<1>1. \A l \in Lockers : Covered(l) => Covered(l)'
  BY CoveredStays
<1>2. UNCHANGED lockerStatus
  BY QuietStep DEF QuietInv
<1> SUFFICES ASSUME NEW a \in Agents, pc'[a] = "scan", cursor'[a] # None
             PROVE  /\ Suitable(a, cursor[a])'
                    /\ \A l \in Lockers :
                          Suitable(a, l)' /\ (l = cursor'[a] \/ Before(l, cursor'[a])) => Covered(l)'
  BY DEF PassedInv, Before
<1>3. CASE ScanRow(a)
  <2>1. UNCHANGED job
    BY <1>3 DEF ScanRow
  <2>2. PICK n \in Lockers :
              /\ IsNext(a, n) /\ cursor'[a] = n
              /\ \/ LockedByOther(a, n)
                 \/ pc'[a] = IF n \in Snapshot(a) THEN "scan" ELSE "insert"
    BY <1>3, ScanRowEffect
  <2>3. Suitable(a, n)
    BY <2>2 DEF IsNext, Ahead
  <2>4. Covered(n)
    <3>1. CASE LockedByOther(a, n)
      BY <3>1 DEF LockedByOther, LocksInv, Covered
    <3>2. CASE n \in Snapshot(a)
      BY <3>2 DEF Snapshot, LocksInv, Covered
    <3> QED BY <2>2, <3>1, <3>2
  <2>5. ASSUME NEW l \in Lockers, Suitable(a, l), Before(l, n)
        PROVE  Covered(l)
    <3>1. l \notin Ahead(a)
      BY <2>2, <2>5, BeforeIsStrict DEF IsNext
    <3>2. cursor[a] # None /\ ~Before(cursor[a], l)
      BY <2>5, <3>1 DEF Ahead
    <3>3. pc[a] = "scan" /\ cursor[a] \in Lockers
      BY <1>3, <3>2 DEF ScanRow, TypeOK, AgentType
    <3>4. Suitable(a, cursor[a])
      BY <3>2, <3>3 DEF PassedInv
    <3>5. l = cursor[a] \/ Before(l, cursor[a])
      BY <2>5, <3>2, <3>3, <3>4, BeforeIsTotal DEF Suitable
    <3> QED BY <2>5, <3>2, <3>3, <3>5 DEF PassedInv
  <2>6. \A l \in Lockers : Suitable(a, l)' <=> Suitable(a, l)
    BY <1>2, <2>1 DEF Suitable, Fits
  <2> QED BY <1>1, <2>2, <2>3, <2>4, <2>5, <2>6
<1>4. CASE Begin(a)
  BY <1>4 DEF Begin, walkVars, AttemptInv
<1>5. CASE pc[a] = "scan" /\ cursor'[a] = cursor[a] /\ job'[a] = job[a]
  <2>1. \A l \in Lockers : Suitable(a, l)' <=> Suitable(a, l)
    BY <1>2, <1>5 DEF Suitable, Fits
  <2>2. cursor[a] \in Lockers
    BY <1>5 DEF TypeOK, AgentType
  <2> QED BY <1>1, <1>5, <2>1, <2>2 DEF PassedInv, Suitable, Fits
<1>6. ASSUME ~ScanRow(a), ~Begin(a)
      PROVE  pc[a] = "scan" /\ cursor'[a] = cursor[a] /\ job'[a] = job[a]
  <2>1. CASE \E b \in Agents \ {a} : FanStep(b) \/ Commit(b)
    BY <2>1, FanOthersKeep
  <2>2. CASE UNCHANGED agentVars
    BY <2>2 DEF agentVars, walkVars
  <2>3. CASE FanStep(a) \/ Commit(a)
    BY <1>6, <2>3, LosesEffect, AnswerEffect
       DEF FanStep, Asks, Enters, ScanEmpty, Proceeds, Commit, GoTo, TypeOK, AgentType
  <2> QED BY <2>1, <2>2, <2>3, FanSteps
<1> QED BY <1>3, <1>4, <1>5, <1>6

\* A locker more than the snapshot shows makes a larger set.
LEMMA OneMore ==
    ASSUME IsFiniteSet(Lockers), NEW V \in SUBSET OccupiedLockers,
           NEW l \in OccupiedLockers, l \notin V
    PROVE  Cardinality(OccupiedLockers) >= Cardinality(V) + 1 /\ Cardinality(V) \in Nat
<1>1. OccupiedLockers \subseteq Lockers
  BY DEF OccupiedLockers
<1>2. IsFiniteSet(OccupiedLockers) /\ IsFiniteSet(V) /\ V \cup {l} \in SUBSET OccupiedLockers
  BY <1>1, FS_Subset
<1>3. /\ Cardinality(V \cup {l}) = Cardinality(V) + 1
      /\ Cardinality(V) \in Nat /\ Cardinality(V \cup {l}) \in Nat
  BY <1>2, FS_AddElement, FS_CardinalityType
<1>4. Cardinality(V \cup {l}) <= Cardinality(OccupiedLockers)
  BY <1>2, FS_Subset
<1>5. Cardinality(OccupiedLockers) \in Nat
  BY <1>2, FS_CardinalityType
<1> QED BY <1>3, <1>4, <1>5

\* The number of filled lockers only grows.
LEMMA CountGrows ==
    ASSUME IsFiniteSet(Lockers), IInv, QuietInv, JobsInv, [FanOutNext]_vars
    PROVE  /\ Cardinality(OccupiedLockers) \in Nat
           /\ Cardinality(OccupiedLockers)' \in Nat
           /\ Cardinality(OccupiedLockers)' >= Cardinality(OccupiedLockers)
<1>1. OccupiedLockers \in SUBSET Lockers /\ OccupiedLockers' \in SUBSET Lockers
  BY DEF OccupiedLockers
<1>2. IsFiniteSet(OccupiedLockers) /\ IsFiniteSet(OccupiedLockers')
  BY <1>1, FS_Subset
<1>3. OccupiedLockers \in SUBSET OccupiedLockers'
  BY OccupiedGrows
<1>4. Cardinality(OccupiedLockers) <= Cardinality(OccupiedLockers')
  BY <1>2, <1>3, FS_Subset
<1>5. Cardinality(OccupiedLockers) \in Nat /\ Cardinality(OccupiedLockers') \in Nat
  BY <1>2, FS_CardinalityType
<1> QED BY <1>4, <1>5

\* A lost race shows the next attempt one more filled locker.
LEMMA RaceStep ==
    ASSUME IsFiniteSet(Lockers), IInv, FanInv, AttemptInv, [FanOutNext]_vars
    PROVE  RaceInv'
<1> TypeOK /\ RequestInv /\ QuietInv /\ JobsInv /\ LocksInv /\ RaceInv
  BY DEF IInv, FanInv
<1> DEFINE N == Cardinality(OccupiedLockers)
<1>1. N \in Nat /\ N' \in Nat /\ N' >= N /\ OccupiedLockers \subseteq OccupiedLockers'
  BY CountGrows, OccupiedGrows
<1>2. \A a \in Agents : attempt[a] \in Nat
  BY ConstantsAssumption DEF TypeOK, AgentType
<1> DEFINE Own(a) ==
        /\ attempt'[a] >= 2 => N' >= attempt'[a]
        /\ pc'[a] = "scan" /\ view'[a] # None => Cardinality(view'[a]) >= attempt'[a]
        /\ Standing(a)' =>
              /\ view'[a] # None /\ cursor'[a] \notin view'[a]
              /\ cursor'[a] \in OccupiedLockers' => Cardinality(view'[a]) >= attempt'[a]
<1>3. ASSUME NEW a \in Agents, FanStep(a), UNCHANGED assignment
      PROVE  Own(a)
  <2>0. OccupiedLockers' = OccupiedLockers
    BY <1>3, OccupiedSame
  <2>1. CASE ScanRow(a)
    <3>1. PICK l \in Lockers :
              /\ cursor'[a] = l /\ attempt'[a] = attempt[a]
              /\ \/ pc'[a] = "scan" /\ view'[a] = view[a]
                 \/ /\ view'[a] = Snapshot(a)
                    /\ pc'[a] = IF l \in Snapshot(a) THEN "scan" ELSE "insert"
      BY <2>1, ScanRowEffect
    <3>2. pc[a] = "scan"
      BY <2>1 DEF ScanRow
    <3>3. CASE pc'[a] = "scan" /\ view'[a] = view[a]
      BY <1>1, <1>2, <2>0, <3>1, <3>2, <3>3 DEF RaceInv, Standing
    <3>4. CASE view[a] # None /\ view'[a] = Snapshot(a)
               /\ pc'[a] = IF l \in Snapshot(a) THEN "scan" ELSE "insert"
      <4>1. view'[a] = view[a]
        BY <3>4 DEF Snapshot
      <4> QED BY <1>1, <1>2, <2>0, <3>1, <3>2, <3>4, <4>1 DEF RaceInv, Standing
    <3>5. CASE view[a] = None /\ view'[a] = Snapshot(a) /\ l \in Snapshot(a) /\ pc'[a] = "scan"
      <4>1. view'[a] = OccupiedLockers /\ l \in OccupiedLockers
        BY <3>5 DEF Snapshot
      <4>2. N >= 1
        BY <4>1, OneMore, FS_EmptySet
      <4> QED BY <1>1, <1>2, <2>0, <3>1, <3>5, <4>1, <4>2 DEF RaceInv, Standing
    <3>6. CASE view[a] = None /\ view'[a] = Snapshot(a) /\ l \notin Snapshot(a) /\ pc'[a] = "insert"
      <4>1. view'[a] = OccupiedLockers /\ l \notin OccupiedLockers
        BY <3>6 DEF Snapshot
      <4>2. view'[a] # None
        BY <4>1, NoneAssumption DEF OccupiedLockers
      <4> QED BY <1>1, <1>2, <2>0, <3>1, <3>6, <4>1, <4>2 DEF RaceInv, Standing
    <3> QED BY <3>1, <3>3, <3>4, <3>5, <3>6
  <2>2. CASE Loses(a)
    <3>1. /\ cursor[a] \in OccupiedLockers /\ Standing(a)
      BY <2>2 DEF Loses
    <3>2. view[a] \in SUBSET OccupiedLockers /\ cursor[a] \notin view[a]
          /\ Cardinality(view[a]) >= attempt[a]
      BY <3>1 DEF RaceInv, LocksInv
    <3>3. N >= attempt[a] + 1
      BY <1>1, <1>2, <3>1, <3>2, OneMore
    <3> QED BY <1>1, <1>2, <2>2, <3>3, LosesEffect DEF Standing
  <2>3. CASE Asks(a) \/ Begin(a) \/ Proceeds(a)
    <3>1. attempt' = attempt /\ view' = view /\ cursor' = cursor
      BY <2>3 DEF Asks, Begin, Proceeds, walkVars
    <3>2. CASE Asks(a)
      BY <1>1, <1>2, <3>1, <3>2, <2>0 DEF Asks, GoTo, RaceInv, Standing, TypeOK, AgentType
    <3>3. CASE Begin(a)
      BY <1>1, <1>2, <3>1, <3>3, <2>0 DEF Begin, GoTo, RaceInv, Standing, AttemptInv, TypeOK, AgentType
    <3>4. CASE Proceeds(a)
      BY <1>1, <1>2, <3>1, <3>4, <2>0 DEF Proceeds, GoTo, RaceInv, Standing, TypeOK, AgentType
    <3> QED BY <2>3, <3>2, <3>3, <3>4
  <2>4. CASE Enters(a)
    BY <1>1, <2>4 DEF Enters, GoTo, Standing, TypeOK, AgentType
  <2>5. CASE ScanEmpty(a)
    BY <1>1, <2>5, AnswerEffect DEF ScanEmpty, Standing
  <2> QED BY <1>3, <2>1, <2>2, <2>3, <2>4, <2>5 DEF FanStep
<1>4. ASSUME NEW a \in Agents, pc'[a] = pc[a], view'[a] = view[a], cursor'[a] = cursor[a],
             attempt'[a] = attempt[a],
             Standing(a) /\ cursor[a] \in OccupiedLockers' => cursor[a] \in OccupiedLockers
      PROVE  Own(a)
  BY <1>1, <1>2, <1>4 DEF RaceInv, Standing
<1>5. CASE \E a \in Agents : FanStep(a) /\ UNCHANGED assignment
  <2>1. PICK a \in Agents : FanStep(a) /\ UNCHANGED assignment
    BY <1>5
  <2>2. \A b \in Agents \ {a} : Own(b)
    BY <1>4, <2>1, FanOthersKeep, OccupiedSame
  <2> QED BY <1>3, <2>1, <2>2 DEF RaceInv
<1>6. CASE \E a \in Agents : Commit(a)
  <2>1. PICK a \in Agents : Commit(a)
    BY <1>6
  <2>2. Own(a)
    BY <1>1, <2>1, AnswerEffect DEF Commit, Standing
  <2>3. ASSUME NEW b \in Agents, b # a
        PROVE  Own(b)
    <3>1. /\ pc'[b] = pc[b] /\ view'[b] = view[b] /\ cursor'[b] = cursor[b]
          /\ attempt'[b] = attempt[b]
      BY <2>1, <2>3, FanOthersKeep
    <3>2. ASSUME Standing(b), cursor[b] \in OccupiedLockers'
          PROVE  cursor[b] \in OccupiedLockers
      <4>1. cursor[b] \in locks[b]
        BY <3>2 DEF Standing, RequestInv
      <4>2. cursor[a] \in locks[a] /\ OccupiedLockers' = OccupiedLockers \cup {cursor[a]}
        BY <2>1, CommitFills
      <4> QED BY <2>3, <3>2, <4>1, <4>2 DEF LocksInv
    <3> QED BY <1>4, <3>1, <3>2
  <2> QED BY <2>2, <2>3 DEF RaceInv
<1>7. CASE UNCHANGED agentVars /\ UNCHANGED assignment
  BY <1>4, <1>7, OccupiedSame DEF agentVars, walkVars, RaceInv
<1> QED BY <1>5, <1>6, <1>7, FanSteps

\* At its end a walk has passed every suitable locker, and the last lost race
\* was lost to one more locker than the attempts before it.
LEMMA RefusalStep ==
    ASSUME IsFiniteSet(Lockers), IInv, FanInv, AttemptInv, [FanOutNext]_vars
    PROVE  RefusalInv'
<1> TypeOK /\ RequestInv /\ QuietInv /\ JobsInv /\ LocksInv /\ PassedInv /\ RaceInv /\ RefusalInv
  BY DEF IInv, FanInv
<1> DEFINE N == Cardinality(OccupiedLockers)
<1>1. N \in Nat /\ N' \in Nat /\ N' >= N
  BY CountGrows
<1>2. \A l \in Lockers : Covered(l) => Covered(l)'
  BY CoveredStays
<1>3. UNCHANGED lockerStatus
  BY QuietStep DEF QuietInv
<1>4. MAX_ATTEMPTS \in Nat
  BY ConstantsAssumption
<1> DEFINE Own(a) ==
        /\ reply'[a] \in {"none", "stored", "no_suitable_locker", "locker_just_taken"}
        /\ job'[a] # None /\ pc'[a] = "idle" => reply'[a] # "none"
        /\ reply'[a] = "no_suitable_locker" =>
              job'[a] # None /\ \A l \in Lockers : Suitable(a, l)' => Covered(l)'
        /\ reply'[a] = "locker_just_taken" => N' > MAX_ATTEMPTS
<1>5. ASSUME NEW a \in Agents, reply'[a] = reply[a], job'[a] = job[a],
             pc'[a] = pc[a] \/ pc'[a] # "idle"
      PROVE  Own(a)
  <2>1. \A l \in Lockers : Suitable(a, l)' <=> Suitable(a, l)
    BY <1>3, <1>5 DEF Suitable, Fits
  <2> QED BY <1>1, <1>2, <1>4, <1>5, <2>1 DEF RefusalInv
<1>6. ASSUME NEW a \in Agents, FanStep(a) \/ Commit(a)
      PROVE  Own(a)
  <2>1. CASE Asks(a)
    BY <2>1 DEF Asks, GoTo, TypeOK, AgentType
  <2>2. CASE Enters(a) \/ Begin(a) \/ Proceeds(a)
    BY <1>5, <2>2 DEF Enters, Begin, Proceeds, GoTo, TypeOK, AgentType
  <2>3. CASE ScanRow(a)
    BY <1>5, <2>3, ScanRowEffect DEF ScanRow
  <2>4. CASE Commit(a)
    BY <2>4, AnswerEffect DEF Commit
  <2>5. CASE Loses(a)
    <3>1. /\ cursor[a] \in OccupiedLockers /\ Standing(a) /\ pc[a] # "idle" /\ UNCHANGED job
      BY <2>5 DEF Loses, Standing
    <3>2. view[a] \in SUBSET OccupiedLockers /\ cursor[a] \notin view[a]
          /\ Cardinality(view[a]) >= attempt[a]
      BY <3>1 DEF RaceInv, LocksInv
    <3>3. attempt[a] \in Nat
      BY <1>4 DEF TypeOK, AgentType
    <3>4. N >= attempt[a] + 1
      BY <1>1, <3>1, <3>2, <3>3, OneMore
    <3> QED BY <1>1, <1>4, <1>5, <2>5, <3>1, <3>3, <3>4, LosesEffect
  <2>6. CASE ScanEmpty(a)
    <3>1. reply'[a] = "no_suitable_locker" /\ UNCHANGED job /\ pc[a] = "scan" /\ Ahead(a) = {}
      BY <2>6, AnswerEffect DEF ScanEmpty
    <3>2. job[a] # None
      BY <3>1, NoneAssumption DEF RequestInv
    <3>3. ASSUME NEW l \in Lockers, Suitable(a, l)'
          PROVE  Covered(l)'
      <4>1. Suitable(a, l)
        BY <1>3, <3>1, <3>3 DEF Suitable, Fits
      <4>2. cursor[a] # None /\ ~Before(cursor[a], l)
        BY <3>1, <4>1 DEF Ahead
      <4>3. cursor[a] \in Lockers /\ Suitable(a, cursor[a])
        BY <3>1, <4>2 DEF PassedInv, TypeOK, AgentType
      <4>4. l = cursor[a] \/ Before(l, cursor[a])
        BY <4>1, <4>2, <4>3, BeforeIsTotal DEF Suitable
      <4> QED BY <1>2, <3>1, <4>1, <4>2, <4>4 DEF PassedInv
    <3> QED BY <3>1, <3>2, <3>3
  <2> QED BY <1>6, <2>1, <2>2, <2>3, <2>4, <2>5, <2>6 DEF FanStep
<1>7. CASE \E a \in Agents : FanStep(a) \/ Commit(a)
  <2>1. PICK a \in Agents : FanStep(a) \/ Commit(a)
    BY <1>7
  <2>2. \A b \in Agents \ {a} : Own(b)
    BY <1>5, <2>1, FanOthersKeep
  <2> QED BY <1>6, <2>1, <2>2 DEF RefusalInv
<1>8. CASE UNCHANGED agentVars
  BY <1>5, <1>8 DEF agentVars, RefusalInv
<1> QED BY <1>7, <1>8, FanSteps

\* Before the first request nothing has happened.
LEMMA FanInit == FanOutInit => IInv /\ AttemptInv /\ FanInv
<1> SUFFICES ASSUME FanOutInit PROVE IInv /\ AttemptInv /\ FanInv
  OBVIOUS
<1>1. IInv /\ AttemptInv
  BY InitIInv, AttemptInit DEF FanOutInit
<1>2. QuietInv /\ JobsInv
  BY DEF FanOutInit, Init, QuietInv, JobsInv, Exists
<1>3. LocksInv /\ PassedInv /\ RaceInv
  BY DEF FanOutInit, Init, LocksInv, PassedInv, RaceInv, Standing
<1>4. RefusalInv
  BY DEF FanOutInit, Init, RefusalInv
<1> QED BY <1>1, <1>2, <1>3, <1>4 DEF FanInv

\* The facts about fan-out hold throughout, for finitely many lockers.
THEOREM FanOutInvariance ==
    ASSUME IsFiniteSet(Lockers)
    PROVE  FanOutSpec => [](IInv /\ AttemptInv /\ FanInv)
<1>1. IInv /\ AttemptInv /\ FanInv /\ [FanOutNext]_vars => (IInv /\ AttemptInv /\ FanInv)'
  <2> SUFFICES ASSUME IInv, AttemptInv, FanInv, [FanOutNext]_vars
               PROVE  (IInv /\ AttemptInv /\ FanInv)'
    OBVIOUS
  <2>1. [Next]_vars
    BY FanOutIsStore
  <2>2. IInv' /\ AttemptInv'
    BY <2>1, TypeStep, RequestStep, DoorStep, PendingStep, RowsStep, AnswersStep, AttemptStep
       DEF IInv
  <2>3. QuietInv' /\ JobsInv'
    BY QuietStep, JobsStep DEF FanInv
  <2> QED BY <2>2, <2>3, LocksStep, PassedStep, RaceStep, RefusalStep DEF FanInv
<1> QED BY <1>1, FanInit, PTL DEF FanOutSpec

\* README.md's untested property, for any number of stores and lockers: when all
\* have their answer, nobody was refused a locker that is free, and whoever ran
\* out of attempts lost each of them to another filled locker.
THEOREM NobodyRefusedForNothing ==
    ASSUME IsFiniteSet(Lockers)
    PROVE  FanOutSpec => []NoSpuriousRefusal
<1>1. FanInv => NoSpuriousRefusal
  <2> SUFFICES ASSUME FanInv, AllAnswered, NEW a \in Agents, reply[a] # "stored"
               PROVE  \/ /\ reply[a] = "no_suitable_locker"
                         /\ \A l \in Lockers : Suitable(a, l) => l \in OccupiedLockers
                      \/ /\ reply[a] = "locker_just_taken"
                         /\ Cardinality(OccupiedLockers) > MAX_ATTEMPTS
    BY DEF NoSpuriousRefusal
  <2>1. \A b \in Agents : ~Standing(b)
    BY DEF AllAnswered, Standing
  <2>2. \A l \in Lockers : Covered(l) => l \in OccupiedLockers
    BY <2>1 DEF Covered
  <2> QED BY <2>2 DEF FanInv, RefusalInv, AllAnswered
<1> QED BY <1>1, FanOutInvariance, PTL

=============================================================================
