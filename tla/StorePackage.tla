---------------------------- MODULE StorePackage ----------------------------
(***************************************************************************)
(* Locker allocation: StorePackageService.store and the transaction of     *)
(* MysqlPackageRepository.reserveLockerAndStore, run by any number of      *)
(* concurrent requests against one MySQL database, together with what else *)
(* touches the same rows: registration, retrieval (read the open           *)
(* assignment, later close it) and an operator's writes of locker and      *)
(* station rows.                                                           *)
(*                                                                         *)
(* One action is one statement sent to the database (or one await of the   *)
(* service), because that is where requests interleave.  The transaction   *)
(* is the one InnoDB runs at its default REPEATABLE READ:                  *)
(*   - the allocation SELECT walks ix_locker_allocation row by row, skips  *)
(*     a row another transaction has locked, locks each row it examines    *)
(*     and judges occupancy by a snapshot taken at the first such row;     *)
(*   - an INSERT first takes a shared lock on the package row (foreign     *)
(*     key), then meets the two unique keys and waits for another          *)
(*     transaction's uncommitted row;                                      *)
(*   - the UPDATE of the package row needs it exclusively.                 *)
(***************************************************************************)
EXTENDS Naturals, FiniteSets

CONSTANTS
    Agents,          \* concurrently running store requests
    Doors,           \* concurrently running retrieval requests
    Stations,
    Lockers,
    Packages,
    AssignmentIds,   \* what IdGenerator.next can return
    LockerStation,   \* locker.station_id, immutable
    LockerRank,      \* locker.size_rank, immutable
    LockerCode,      \* locker.code, ordered as the collation orders it
    PackageRank,     \* LockerSize.rank of package.size_code, immutable
    MAX_ATTEMPTS,    \* allocation attempts of one request
    ManagedLockers,  \* bound: the lockers an operator writes
    ManagedStations, \* bound: the stations an operator writes
    PoolSize,        \* connectionLimit of the MySQL pool
    None             \* no row, no locker, no snapshot, no job

Row == [package : Packages, locker : Lockers, retrieved : BOOLEAN]
Job == [package : Packages, station : Stations]

ASSUME ConstantsAssumption ==
    /\ LockerStation \in [Lockers -> Stations]
    /\ LockerRank \in [Lockers -> Nat]
    /\ LockerCode \in [Lockers -> Nat]
    /\ PackageRank \in [Packages -> Nat]
    /\ ManagedLockers \subseteq Lockers
    /\ ManagedStations \subseteq Stations
    /\ MAX_ATTEMPTS \in Nat \ {0}
    /\ PoolSize \in Nat \ {0}

ASSUME NoneAssumption ==
    /\ None \notin Lockers
    /\ \A S \in SUBSET Lockers : S # None
    /\ None \notin AssignmentIds
    /\ None \notin Row
    /\ None \notin Job

\* uq_locker_code_per_station (station_id, code): two lockers of a station differ in code.
ASSUME LockerCodesDistinct ==
    \A l, m \in Lockers :
        LockerStation[l] = LockerStation[m] /\ LockerCode[l] = LockerCode[m] => l = m

VARIABLES
    (* committed rows *)
    package,         \* package.status, "NONE" when there is no such row
    assignment,      \* locker_assignment by id
    stationStatus,   \* locker_station.status, "NONE" when there is no such row
    lockerStatus,    \* locker.status
    (* a store request *)
    pc,              \* the await the request stands at
    job,             \* its packageId and stationId
    attempt,         \* the loop counter of store()
    cursor,          \* the locker row its index walk last examined
    view,            \* the lockers its snapshot shows as occupied
    locks,           \* the locker rows its transaction has locked
    reply,           \* the last answer it gave
    (* a retrieval request *)
    doorRow          \* the open assignment it read and has not closed yet

dbVars == <<package, assignment, stationStatus, lockerStatus>>
walkVars == <<attempt, cursor, view, locks>>
agentVars == <<pc, job, walkVars, reply>>
vars == <<dbVars, agentVars, doorRow>>

PackageStatus == {"NONE", "REGISTERED", "STORED", "RETRIEVED"}
StationStatus == {"NONE", "ACTIVE", "DECOMMISSIONED"}
LockerStatus == {"IN_SERVICE", "OUT_OF_SERVICE", "DECOMMISSIONED"}
Reply ==
    {"none", "stored", "package_not_found", "package_already_stored",
     "station_not_found", "station_decommissioned", "no_suitable_locker",
     "locker_just_taken", "error"}
PC == {"idle", "findStation", "begin", "scan", "insert", "insertWait", "update", "commit"}

DbType ==
    /\ package \in [Packages -> PackageStatus]
    /\ assignment \in [AssignmentIds -> Row \cup {None}]
    /\ stationStatus \in [Stations -> StationStatus]
    /\ lockerStatus \in [Lockers -> LockerStatus]

AgentType ==
    /\ pc \in [Agents -> PC]
    /\ attempt \in [Agents -> 0 .. MAX_ATTEMPTS]
    /\ cursor \in [Agents -> Lockers \cup {None}]
    /\ view \in [Agents -> {None} \cup SUBSET Lockers]
    /\ locks \in [Agents -> SUBSET Lockers]
    /\ reply \in [Agents -> Reply]

\* The type invariant: every column and every local holds a value of its domain;
\* in particular no request makes more than MAX_ATTEMPTS attempts.
TypeOK ==
    /\ DbType
    /\ AgentType
    /\ job \in [Agents -> Job \cup {None}]
    /\ doorRow \in [Doors -> AssignmentIds \cup {None}]

Init ==
    /\ package = [p \in Packages |-> "NONE"]
    /\ assignment = [i \in AssignmentIds |-> None]
    /\ stationStatus \in [Stations -> {"NONE", "ACTIVE"}]
    /\ lockerStatus = [l \in Lockers |-> "IN_SERVICE"]
    /\ pc = [a \in Agents |-> "idle"]
    /\ job = [a \in Agents |-> None]
    /\ attempt = [a \in Agents |-> 0]
    /\ cursor = [a \in Agents |-> None]
    /\ view = [a \in Agents |-> None]
    /\ locks = [a \in Agents |-> {}]
    /\ reply = [a \in Agents |-> "none"]
    /\ doorRow = [d \in Doors |-> None]

-----------------------------------------------------------------------------
(* The rows of locker_assignment. *)

Exists(i) == assignment[i] # None

\* active_locker_id is not NULL: the generated column of an open assignment.
Active(i) == Exists(i) /\ ~assignment[i].retrieved

OccupiedLockers == {l \in Lockers : \E i \in AssignmentIds : Active(i) /\ assignment[i].locker = l}

\* Mutant: the unique key on active_locker_id is missing.
NoLockerKey(l) == FALSE

\* uq_one_active_assignment_per_locker rejects a row for locker l.
LockerKeyTaken(l) == \E i \in AssignmentIds : Active(i) /\ assignment[i].locker = l

\* Mutant: the unique key on package_id is missing.
NoPackageKey(p) == FALSE

\* uq_one_assignment_per_package rejects a row for package p.
PackageKeyTaken(p) == \E i \in AssignmentIds : Exists(i) /\ assignment[i].package = p

-----------------------------------------------------------------------------
(* What a transaction holds. *)

InTransaction(a) == pc[a] \in {"scan", "insert", "insertWait", "update", "commit"}

\* a has inserted its row and not committed it yet.
Pending(a) == pc[a] \in {"update", "commit"}

LockedByOther(a, l) == \E b \in Agents \ {a} : l \in locks[b]

SamePackage(a, b) == a # b /\ job[a].package = job[b].package

\* An uncommitted row of another transaction that one of the keys would clash with.
UncommittedClash(a) ==
    \E b \in Agents \ {a} :
        /\ Pending(b)
        /\ job[b].package = job[a].package \/ cursor[b] = cursor[a]

\* b waits in its INSERT holding the shared lock on the package row a must update.
BlocksUpdate(a, b) == pc[b] = "insertWait" /\ SamePackage(a, b)

\* The transaction is over, committed or rolled back; the connection is released.
EndTransaction(a) ==
    /\ locks' = [locks EXCEPT ![a] = {}]
    /\ view' = [view EXCEPT ![a] = None]
    /\ cursor' = [cursor EXCEPT ![a] = None]

Answer(a, code) ==
    /\ EndTransaction(a)
    /\ pc' = [pc EXCEPT ![a] = "idle"]
    /\ attempt' = [attempt EXCEPT ![a] = 0]
    /\ reply' = [reply EXCEPT ![a] = code]

GoTo(a, label) == pc' = [pc EXCEPT ![a] = label]

-----------------------------------------------------------------------------
(* store(): the two checks before the loop. *)

\* packages.findById, and the two early errors its result can mean.
FindPackage(a, p, s) ==
    /\ pc[a] = "idle"
    /\ job' = [job EXCEPT ![a] = [package |-> p, station |-> s]]
    /\ \/ /\ package[p] = "NONE"
          /\ Answer(a, "package_not_found")
       \/ /\ package[p] \in {"STORED", "RETRIEVED"}
          /\ Answer(a, "package_already_stored")
       \/ /\ package[p] = "REGISTERED"
          /\ GoTo(a, "findStation")
          /\ reply' = [reply EXCEPT ![a] = "none"]
          /\ UNCHANGED walkVars
    /\ UNCHANGED <<dbVars, doorRow>>

\* stations.findById; the station is not looked at again.
FindStation(a) ==
    /\ pc[a] = "findStation"
    /\ \/ /\ stationStatus[job[a].station] = "NONE"
          /\ Answer(a, "station_not_found")
       \/ /\ stationStatus[job[a].station] = "DECOMMISSIONED"
          /\ Answer(a, "station_decommissioned")
       \/ /\ stationStatus[job[a].station] = "ACTIVE"
          /\ GoTo(a, "begin")
          /\ attempt' = [attempt EXCEPT ![a] = 1]
          /\ UNCHANGED <<cursor, view, locks, reply>>
    /\ UNCHANGED <<dbVars, job, doorRow>>

-----------------------------------------------------------------------------
(* reserveLockerAndStore: the transaction of one attempt. *)

\* withTransaction takes a connection of the pool and begins.
Begin(a) ==
    /\ pc[a] = "begin"
    /\ Cardinality({b \in Agents : InTransaction(b)}) < PoolSize
    /\ GoTo(a, "scan")
    /\ UNCHANGED <<dbVars, job, walkVars, reply, doorRow>>

\* ORDER BY size_rank ASC, code ASC.
Before(l, m) ==
    \/ LockerRank[l] < LockerRank[m]
    \/ LockerRank[l] = LockerRank[m] /\ LockerCode[l] < LockerCode[m]

\* Mutant: the comparison of the allocation query the wrong way round.
FitsReversed(l, p) == LockerRank[l] <= PackageRank[p]

\* LockerSize.fits, in SQL l.size_rank >= :sizeRank.
Fits(l, p) == LockerRank[l] >= PackageRank[p]

\* The WHERE clause on the locker row itself.
Suitable(a, l) ==
    /\ LockerStation[l] = job[a].station
    /\ lockerStatus[l] = "IN_SERVICE"
    /\ Fits(l, job[a].package)

\* Mutant: only an exact size match is considered.
AheadExactSize(a) ==
    {l \in Lockers :
        /\ Suitable(a, l) /\ LockerRank[l] = PackageRank[job[a].package]
        /\ cursor[a] = None \/ Before(cursor[a], l)}

\* The index entries the walk has still in front of it.
Ahead(a) ==
    {l \in Lockers : Suitable(a, l) /\ (cursor[a] = None \/ Before(cursor[a], l))}

\* Mutant: no ORDER BY.
AnyRowAhead(a, l) == l \in Ahead(a)

\* The index walk in allocation order.
IsNext(a, l) == l \in Ahead(a) /\ \A m \in Ahead(a) : m = l \/ Before(l, m)

\* The snapshot of locker_assignment: taken at the first row joined to it.
Snapshot(a) == IF view[a] = None THEN OccupiedLockers ELSE view[a]

\* SKIP LOCKED.
SkipRow(a, l) ==
    /\ LockedByOther(a, l)
    /\ GoTo(a, "scan")
    /\ UNCHANGED <<view, locks>>

\* Mutant: a plain SELECT, the row is not locked.
ExamineRowUnlocked(a, l) ==
    /\ ~LockedByOther(a, l)
    /\ view' = [view EXCEPT ![a] = Snapshot(a)]
    /\ GoTo(a, IF l \in Snapshot(a) THEN "scan" ELSE "insert")
    /\ UNCHANGED locks

\* The row is locked and judged: la.id IS NULL stops the walk (LIMIT 1).
ExamineRow(a, l) ==
    /\ ~LockedByOther(a, l)
    /\ locks' = [locks EXCEPT ![a] = @ \cup {l}]
    /\ view' = [view EXCEPT ![a] = Snapshot(a)]
    /\ GoTo(a, IF l \in Snapshot(a) THEN "scan" ELSE "insert")

ScanRow(a) ==
    /\ pc[a] = "scan"
    /\ \E l \in Lockers :
          /\ IsNext(a, l)
          /\ cursor' = [cursor EXCEPT ![a] = l]
          /\ SkipRow(a, l) \/ ExamineRow(a, l)
    /\ UNCHANGED <<dbVars, job, attempt, reply, doorRow>>

\* The SELECT returns no row: commit, and NoSuitableLockerError from store().
ScanEmpty(a) ==
    /\ pc[a] = "scan"
    /\ Ahead(a) = {}
    /\ Answer(a, "no_suitable_locker")
    /\ UNCHANGED <<dbVars, job, doorRow>>

\* Mutant: the loop of store() counts one attempt too many.
LockerJustTakenOffByOne(a) ==
    \/ /\ attempt[a] <= MAX_ATTEMPTS
       /\ EndTransaction(a)
       /\ GoTo(a, "begin")
       /\ attempt' = [attempt EXCEPT ![a] = @ + 1]
       /\ UNCHANGED reply
    \/ /\ attempt[a] > MAX_ATTEMPTS
       /\ Answer(a, "locker_just_taken")

\* Mutant: a lost race is not retried.
LockerJustTakenNoRetry(a) == Answer(a, "locker_just_taken")

\* Mutant: the INSERT alone is retried, with the locker that was just lost.
LockerJustTakenSameLocker(a) == GoTo(a, "insert") /\ UNCHANGED <<walkVars, reply>>

\* LockerJustTakenError: rolled back, and retried by the loop of store().
LockerJustTaken(a) ==
    \/ /\ attempt[a] < MAX_ATTEMPTS
       /\ EndTransaction(a)
       /\ GoTo(a, "begin")
       /\ attempt' = [attempt EXCEPT ![a] = @ + 1]
       /\ UNCHANGED reply
    \/ /\ attempt[a] >= MAX_ATTEMPTS
       /\ Answer(a, "locker_just_taken")

\* Mutant: every ER_DUP_ENTRY is read as a package clash.
InsertOutcomeAnyKey(a) ==
    \/ /\ LockerKeyTaken(cursor[a]) \/ PackageKeyTaken(job[a].package)
       /\ Answer(a, "package_already_stored")
    \/ /\ ~LockerKeyTaken(cursor[a])
       /\ ~PackageKeyTaken(job[a].package)
       /\ ~UncommittedClash(a)
       /\ GoTo(a, "update")
       /\ UNCHANGED <<walkVars, reply>>

\* The outcomes of the INSERT.  A row that clashes with both keys is reported
\* under whichever of them the server checks first.
InsertOutcome(a) ==
    \/ /\ LockerKeyTaken(cursor[a])
       /\ LockerJustTaken(a)
    \/ /\ PackageKeyTaken(job[a].package)
       /\ Answer(a, "package_already_stored")
    \/ /\ ~LockerKeyTaken(cursor[a])
       /\ ~PackageKeyTaken(job[a].package)
       /\ ~UncommittedClash(a)
       /\ GoTo(a, "update")
       /\ UNCHANGED <<walkVars, reply>>

\* The INSERT is sent.  It waits for the shared lock on the package row while
\* another transaction has updated that row and not committed.
Insert(a) ==
    /\ pc[a] = "insert"
    /\ \A b \in Agents : pc[b] = "commit" => ~SamePackage(a, b)
    /\ \/ InsertOutcome(a)
       \/ /\ UncommittedClash(a)
          /\ GoTo(a, "insertWait")
          /\ UNCHANGED <<walkVars, reply>>
    /\ UNCHANGED <<dbVars, job, doorRow>>

\* The transaction it waited for has ended.
InsertResumes(a) ==
    /\ pc[a] = "insertWait"
    /\ ~UncommittedClash(a)
    /\ InsertOutcome(a)
    /\ UNCHANGED <<dbVars, job, doorRow>>

\* UPDATE package SET status = 'STORED', inside the transaction.
UpdatePackage(a) ==
    /\ pc[a] = "update"
    /\ \A b \in Agents : ~BlocksUpdate(a, b)
    /\ GoTo(a, "commit")
    /\ UNCHANGED <<dbVars, job, walkVars, reply, doorRow>>

\* Mutant: the package row is left as it was.
CommitRowOnly(a) ==
    /\ \E i \in AssignmentIds :
          /\ ~Exists(i)
          /\ assignment' = [assignment EXCEPT ![i] =
                [package |-> job[a].package, locker |-> cursor[a], retrieved |-> FALSE]]
    /\ UNCHANGED <<package, stationStatus, lockerStatus>>

\* The commit makes the row of the INSERT and the UPDATE visible.
CommitRows(a) ==
    /\ \E i \in AssignmentIds :
          /\ ~Exists(i)
          /\ assignment' = [assignment EXCEPT ![i] =
                [package |-> job[a].package, locker |-> cursor[a], retrieved |-> FALSE]]
    /\ package' = [package EXCEPT ![job[a].package] = "STORED"]
    /\ UNCHANGED <<stationStatus, lockerStatus>>

Commit(a) ==
    /\ pc[a] = "commit"
    /\ CommitRows(a)
    /\ Answer(a, "stored")
    /\ UNCHANGED <<job, doorRow>>

\* The commit took effect but its acknowledgement never came back.
CommitAckLost(a) ==
    /\ pc[a] = "commit"
    /\ CommitRows(a)
    /\ Answer(a, "error")
    /\ UNCHANGED <<job, doorRow>>

\* Any await of the request rejects (connection lost, lock wait timeout, process
\* killed): withTransaction, or the server on its own, rolls back.
Fail(a) ==
    /\ pc[a] # "idle"
    /\ Answer(a, "error")
    /\ UNCHANGED <<dbVars, job, doorRow>>

\* a's UPDATE and b's INSERT wait for each other.
Deadlocked(a, b) == pc[a] = "update" /\ BlocksUpdate(a, b)

\* InnoDB rolls one of the two back; ER_LOCK_DEADLOCK is not handled by store().
DeadlockVictim(a) ==
    /\ \E b \in Agents : Deadlocked(a, b) \/ Deadlocked(b, a)
    /\ Answer(a, "error")
    /\ UNCHANGED <<dbVars, job, doorRow>>

-----------------------------------------------------------------------------
(* What else writes these rows. *)

\* RegisterPackageService.register: one INSERT.
Register(p) ==
    /\ package[p] = "NONE"
    /\ package' = [package EXCEPT ![p] = "REGISTERED"]
    /\ UNCHANGED <<assignment, stationStatus, lockerStatus, agentVars, doorRow>>

\* findActiveByLocker: the retrieval has found the open assignment behind a door.
FindActiveByLocker(d, i) ==
    /\ doorRow[d] = None
    /\ Active(i)
    /\ doorRow' = [doorRow EXCEPT ![d] = i]
    /\ UNCHANGED <<dbVars, agentVars>>

\* Mutant: the assignment row is deleted on pickup.
SaveRetrievalDeletes(d) ==
    /\ doorRow[d] # None
    /\ doorRow' = [doorRow EXCEPT ![d] = None]
    /\ Active(doorRow[d])
    /\ assignment' = [assignment EXCEPT ![doorRow[d]] = None]
    /\ package' = [package EXCEPT ![assignment[doorRow[d]].package] = "RETRIEVED"]
    /\ UNCHANGED <<stationStatus, lockerStatus, agentVars>>

\* saveRetrieval: the conditional UPDATE and the package row, one transaction.
SaveRetrieval(d) ==
    /\ doorRow[d] # None
    /\ doorRow' = [doorRow EXCEPT ![d] = None]
    /\ \/ /\ Active(doorRow[d])
          /\ assignment' = [assignment EXCEPT ![doorRow[d]].retrieved = TRUE]
          /\ package' = [package EXCEPT ![assignment[doorRow[d]].package] = "RETRIEVED"]
       \/ /\ ~Active(doorRow[d])
          /\ UNCHANGED <<package, assignment>>
    /\ UNCHANGED <<stationStatus, lockerStatus, agentVars>>

\* The retrieval fails before it has written anything.
RetrievalFails(d) ==
    /\ doorRow[d] # None
    /\ doorRow' = [doorRow EXCEPT ![d] = None]
    /\ UNCHANGED <<dbVars, agentVars>>

\* lockers.update lands: the UPDATE waits for a transaction that locked the row.
WriteLocker(l, st) ==
    /\ \A a \in Agents : l \notin locks[a]
    /\ lockerStatus' = [lockerStatus EXCEPT ![l] = st]
    /\ UNCHANGED <<package, assignment, stationStatus, agentVars, doorRow>>

\* stations.save or stations.update lands.
WriteStation(s, st) ==
    /\ stationStatus[s] = "NONE" => st = "ACTIVE"
    /\ stationStatus' = [stationStatus EXCEPT ![s] = st]
    /\ UNCHANGED <<package, assignment, lockerStatus, agentVars, doorRow>>

-----------------------------------------------------------------------------

StoreStep(a) ==
    \/ FindStation(a) \/ Begin(a) \/ ScanRow(a) \/ ScanEmpty(a) \/ Insert(a)
    \/ InsertResumes(a) \/ UpdatePackage(a) \/ Commit(a) \/ DeadlockVictim(a)

Fault(a) == Fail(a) \/ CommitAckLost(a)

StoreRequest(a) == \E p \in Packages, s \in Stations : FindPackage(a, p, s)

Retrieval(d) ==
    \/ \E i \in AssignmentIds : FindActiveByLocker(d, i)
    \/ SaveRetrieval(d)
    \/ RetrievalFails(d)

OperatorWrite ==
    \/ \E l \in ManagedLockers, st \in LockerStatus : WriteLocker(l, st)
    \/ \E s \in ManagedStations, st \in {"ACTIVE", "DECOMMISSIONED"} : WriteStation(s, st)

Next ==
    \/ \E a \in Agents : StoreRequest(a) \/ StoreStep(a) \/ Fault(a)
    \/ \E d \in Doors : Retrieval(d)
    \/ \E p \in Packages : Register(p)
    \/ OperatorWrite

Spec == Init /\ [][Next]_vars

(***************************************************************************)
(* Node runs the next step of every promise that settles, and the database *)
(* answers.  A statement that queues for a lock, and a request that queues *)
(* for a connection, is served in turn (InnoDB's lock queues and the       *)
(* pool's wait queue are first come, first served), so a step that is      *)
(* enabled again and again is taken in the end: strong fairness.  Nothing  *)
(* is assumed of new requests, faults, retrievals or operators.            *)
(***************************************************************************)
Fairness == \A a \in Agents : SF_vars(StoreStep(a))

FairSpec == Spec /\ Fairness

-----------------------------------------------------------------------------
(* Properties. *)

\* A locker holds at most one active package, whatever the requests do
\* (001_init.sql: "THE core invariant", enforced by the unique key alone).
OneActivePackagePerLocker ==
    \A i, j \in AssignmentIds :
        Active(i) /\ Active(j) /\ assignment[i].locker = assignment[j].locker => i = j

\* A package has at most one storage episode, ever.
OneAssignmentPerPackage ==
    \A i, j \in AssignmentIds :
        Exists(i) /\ Exists(j) /\ assignment[i].package = assignment[j].package => i = j

\* package.status and the assignment rows tell one story: STORED and RETRIEVED
\* are exactly the packages with an open and with a closed assignment, which is
\* why the UPDATE in reserveLockerAndStore may be unconditional.
StatusMatchesAssignment ==
    \A p \in Packages :
        /\ (package[p] = "STORED") <=>
              (\E i \in AssignmentIds : Active(i) /\ assignment[i].package = p)
        /\ (package[p] = "RETRIEVED") <=>
              (\E i \in AssignmentIds :
                  Exists(i) /\ assignment[i].retrieved /\ assignment[i].package = p)

\* The locker a transaction is about to fill is still in service when it
\* commits: the row lock of the SELECT keeps an operator's write out.
AllocatedLockerInService ==
    \A a \in Agents :
        pc[a] \in {"insert", "insertWait", "update", "commit"} =>
            lockerStatus[cursor[a]] = "IN_SERVICE"

\* A 409 package_already_stored is true, and of all requests for one package at
\* most one is told that it stored it.
AnswersAreTrue ==
    \A a \in Agents :
        /\ reply[a] \in {"stored", "package_already_stored"} => PackageKeyTaken(job[a].package)
        /\ reply[a] = "stored" =>
              \A b \in Agents : reply[b] = "stored" => ~SamePackage(a, b)

\* Assignment rows are history: never deleted, moved to another locker or
\* package, or reopened, by any of the requests that write them.
HistoryKept ==
    [][\A i \in AssignmentIds :
          Exists(i) =>
              \/ assignment'[i] = assignment[i]
              \/ assignment'[i] = [assignment[i] EXCEPT !.retrieved = TRUE]]_vars

\* Every store request is answered: no interleaving of row locks, key waits,
\* deadlocks, retries and connections leaves it hanging.
EveryStoreIsAnswered ==
    \A a \in Agents : pc[a] # "idle" ~> pc[a] = "idle"

(***************************************************************************)
(* Refinement: the service is a LockerBank.                                *)
(***************************************************************************)
LockerOf(p) ==
    IF PackageKeyTaken(p)
    THEN assignment[CHOOSE i \in AssignmentIds : Exists(i) /\ assignment[i].package = p].locker
    ELSE None

Bank == INSTANCE LockerBank WITH
            status <- package,
            place <- [p \in Packages |-> LockerOf(p)]

\* Under every interleaving, what the requests do to parcels is what the
\* abstract locker bank allows: stored once, in one empty locker large enough.
ImplementsLockerBank == Bank!Spec
=============================================================================
