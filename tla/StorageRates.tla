---------------------------- MODULE StorageRates ----------------------------
(***************************************************************************)
(* Rate versions of one locker size, published while parcels lie in        *)
(* lockers: PublishStorageRateService, MysqlStorageRateRepository and the  *)
(* fee that TieredStorageFeePolicy computes at pickup.  A publication is   *)
(* checked against the clock, then written band by band in one             *)
(* transaction; the drops and pickups of customers interleave with it.     *)
(***************************************************************************)
EXTENDS StorageFee, FiniteSets, Functions

CONSTANTS
    Publishers,     \* operators' requests in flight
    Parcels,
    Inputs,         \* sequences of bands an operator may send
    Seed,           \* the bands the migrations leave in force at time 0
    MaxTime         \* bound: ticks of the clock

ASSUME RatesAssumption ==
    /\ MaxTime \in Nat
    /\ \A bands \in Inputs \cup {Seed} : bands \in Seq(Range(bands))
    /\ Tiles(Seed)
    /\ \A i \in DOMAIN Seed : IsBand(Seed[i])

VARIABLES
    now,
    rates,      \* committed rows of storage_rate
    draft,      \* per publisher: None, or the schedule being inserted
    storedAt,   \* per parcel: None, or when it was dropped
    posted,     \* history: the bands in force when it was dropped
    fee,        \* per parcel: None, or storage_fee_minor
    late        \* history: versions committed when they were already in force

vars == <<now, rates, draft, storedAt, posted, fee, late>>

\* The type invariant; in particular only bands that StorageRateBand.of accepts
\* reach the table or a transaction on their way to it.
TypeOK ==
    /\ now \in 0 .. MaxTime
    /\ \A r \in rates : r.at \in 0 .. MaxTime /\ IsBand(r)
    /\ \A o \in Publishers :
          draft[o] # None =>
              /\ draft[o].at \in 1 .. MaxTime
              /\ \A i \in DOMAIN draft[o].bands : IsBand(draft[o].bands[i])
              /\ draft[o].inserted \in 0 .. Len(draft[o].bands)
    /\ storedAt \in [Parcels -> (0 .. MaxTime) \cup {None}]
    /\ fee \in [Parcels -> Nat \cup {None}]

Row(at, b) == [at |-> at, fromDay |-> b.fromDay, toDay |-> b.toDay, rate |-> b.rate]

\* The rows of one instant, in fromDay order.
Version(at) == InOrder(SetToSeq({r \in rates : r.at = at}))

\* Mutant: the version in force at pickup.
FindBandsForToday(asOf) ==
    LET past == {r.at : r \in {r \in rates : r.at <= now}}
    IN  Version(CHOOSE at \in past : \A other \in past : other <= at)

\* findBandsFor.
FindBandsFor(asOf) ==
    LET past == {r.at : r \in {r \in rates : r.at <= asOf}}
    IN  IF past = {} THEN <<>>
        ELSE Version(CHOOSE at \in past : \A other \in past : other <= at)

\* TieredStorageFeePolicy.calculate.
Calculate(p) ==
    LET bands == FindBandsFor(storedAt[p])
    IN  IF bands = <<>> THEN Throws ELSE CalculateStorageFeeMinor(bands, now - storedAt[p])

Init ==
    /\ now = 0
    /\ rates = {Row(0, Seed[i]) : i \in DOMAIN Seed}
    /\ draft = [o \in Publishers |-> None]
    /\ storedAt = [p \in Parcels |-> None]
    /\ posted = [p \in Parcels |-> None]
    /\ fee = [p \in Parcels |-> None]
    /\ late = {}

-----------------------------------------------------------------------------
(* Publishing. *)

\* Mutant: the bands are not rebuilt through StorageRateBand.of.
PublishUncheckedBands(o, at, input) ==
    /\ draft[o] = None
    /\ at > now
    /\ Tiles(InOrder(input))
    /\ draft' = [draft EXCEPT ![o] = [at |-> at, bands |-> InOrder(input), inserted |-> 0]]
    /\ UNCHANGED <<now, rates, storedAt, posted, fee, late>>

\* StorageRateSchedule.publish: whatever it rejects leaves no trace.
Publish(o, at, input) ==
    /\ draft[o] = None
    /\ at > now
    /\ \A i \in DOMAIN input : IsBand(input[i])
    /\ Tiles(InOrder(input))
    /\ draft' = [draft EXCEPT ![o] = [at |-> at, bands |-> InOrder(input), inserted |-> 0]]
    /\ UNCHANGED <<now, rates, storedAt, posted, fee, late>>

Uncommitted(o) ==
    IF draft[o] = None THEN {}
    ELSE {Row(draft[o].at, draft[o].bands[i]) : i \in 1 .. draft[o].inserted}

SameBand(r, s) == r.at = s.at /\ r.fromDay = s.fromDay

\* Mutant: no unique key.
NoBandKey(row) == FALSE

\* uq_storage_rate_band, on committed rows.
BandKeyTaken(row) == \E r \in rates : SameBand(r, row)

\* One INSERT of the loop.  It waits for another transaction's row of the same
\* key; a committed one rolls the publication back (409).
InsertBand(o) ==
    /\ draft[o] # None
    /\ draft[o].inserted < Len(draft[o].bands)
    /\ LET row == Row(draft[o].at, draft[o].bands[draft[o].inserted + 1])
       IN  \/ /\ BandKeyTaken(row)
              /\ draft' = [draft EXCEPT ![o] = None]
           \/ /\ ~BandKeyTaken(row)
              /\ \A w \in Publishers \ {o} : \A r \in Uncommitted(w) : ~SameBand(r, row)
              /\ draft' = [draft EXCEPT ![o].inserted = @ + 1]
    /\ UNCHANGED <<now, rates, storedAt, posted, fee, late>>

Commit(o) ==
    /\ draft[o] # None
    /\ draft[o].inserted = Len(draft[o].bands)
    /\ rates' = rates \cup Uncommitted(o)
    /\ draft' = [draft EXCEPT ![o] = None]
    /\ late' = late \cup {v \in {draft[o].at} : v <= now}
    /\ UNCHANGED <<now, storedAt, posted, fee>>

\* A lost connection, a lock wait timeout or a crash: rolled back.
PublishFails(o) ==
    /\ draft[o] # None
    /\ draft' = [draft EXCEPT ![o] = None]
    /\ UNCHANGED <<now, rates, storedAt, posted, fee, late>>

-----------------------------------------------------------------------------
(* Parcels and time. *)

Drop(p) ==
    /\ storedAt[p] = None
    /\ storedAt' = [storedAt EXCEPT ![p] = now]
    /\ posted' = [posted EXCEPT ![p] = FindBandsFor(now)]
    /\ UNCHANGED <<now, rates, draft, fee, late>>

\* A fee that throws fails the request; the parcel stays.
Retrieve(p) ==
    /\ storedAt[p] # None /\ fee[p] = None
    /\ Calculate(p) # Throws
    /\ fee' = [fee EXCEPT ![p] = Calculate(p)]
    /\ UNCHANGED <<now, rates, draft, storedAt, posted, late>>

Tick ==
    /\ now < MaxTime
    /\ now' = now + 1
    /\ UNCHANGED <<rates, draft, storedAt, posted, fee, late>>

Next ==
    \/ Tick
    \/ \E o \in Publishers :
        \/ \E at \in 1 .. MaxTime, input \in Inputs : Publish(o, at, input)
        \/ InsertBand(o)
        \/ Commit(o)
        \/ PublishFails(o)
    \/ \E p \in Parcels : Drop(p) \/ Retrieve(p)

Spec == Init /\ [][Next]_vars

-----------------------------------------------------------------------------
(* Properties. *)

\* Two publications of one instant, interleaved INSERT by INSERT, never mix:
\* every version readers can see prices every day exactly once.
VersionsTile == \A r \in rates : Tiles(Version(r.at))

\* A parcel in a locker can always be paid for: whatever is published
\* meanwhile, the fee of its stay so far never throws StorageRateConfigError.
EveryStayPriced ==
    \A p \in Parcels : storedAt[p] # None /\ fee[p] = None => Calculate(p) # Throws

\* errors.ts: "Rates are forward-only."  A customer pays, day by day, the rates
\* that were posted when the parcel went in.  publish() compares effectiveFrom
\* with the clock before the transaction, so the one exception is a version that
\* was committed after it had come into force, and for parcels dropped since.
PostedPriceCharged ==
    [][\A p \in Parcels :
         fee'[p] # fee[p] =>
             \/ fee'[p] = DayByDay(posted[p], now - storedAt[p])
             \/ \E v \in late : v <= storedAt[p]]_vars
=============================================================================
