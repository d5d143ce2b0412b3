----------------------------- MODULE StorageFee -----------------------------
(***************************************************************************)
(* The arithmetic of storage fees: StorageRateBand, the tiling rule of     *)
(* StorageRateSchedule.publish and calculateStorageFeeMinor, with the      *)
(* day-by-day meaning they are meant to have.  Time is counted in ticks,   *)
(* DAY of them to a day.                                                   *)
(***************************************************************************)
EXTENDS Integers, Sequences, SequencesExt

CONSTANTS
    DAY,    \* DAY_MS
    None    \* toDay of an open-ended band; no value

ASSUME FeeAssumption == DAY \in Nat \ {0} /\ None \notin Nat

\* StorageRateBand.of, and the CHECK constraints of storage_rate.
IsBand(b) ==
    /\ b.fromDay \in Nat
    /\ b.toDay # None => b.toDay \in Nat /\ b.toDay > b.fromDay
    /\ b.rate \in Nat

Covers(b, day) == day >= b.fromDay /\ (b.toDay = None \/ day < b.toDay)

\* The stable sort by fromDay of publish, and ORDER BY from_day.
InOrder(bands) ==
    LET ahead(i, j) == \/ bands[i].fromDay < bands[j].fromDay
                       \/ bands[i].fromDay = bands[j].fromDay /\ i < j
        place == CHOOSE p \in [DOMAIN bands -> DOMAIN bands] :
                    \A i, j \in DOMAIN bands : i < j => ahead(p[i], p[j])
    IN  [i \in DOMAIN bands |-> bands[place[i]]]

\* Mutant: the last band need not be open-ended.
TilesWithoutTail(bands) ==
    /\ Len(bands) > 0
    /\ bands[1].fromDay = 0
    /\ \A i \in 1 .. Len(bands) - 1 : bands[i].toDay = bands[i + 1].fromDay

\* The checks of publish, on bands in fromDay order.
Tiles(bands) ==
    /\ Len(bands) > 0
    /\ bands[1].fromDay = 0
    /\ \A i \in 1 .. Len(bands) - 1 : bands[i].toDay = bands[i + 1].fromDay
    /\ bands[Len(bands)].toDay = None

\* Mutant: whole days only.
ChargeableDaysFloor(stay) == IF stay <= 0 THEN 0 ELSE stay \div DAY

\* Every day started is charged; a retrieval before the drop is none.
ChargeableDays(stay) == IF stay <= 0 THEN 0 ELSE (stay + DAY - 1) \div DAY

DaysInBand(b, days) ==
    LET end == IF b.toDay = None \/ b.toDay > days THEN days ELSE b.toDay
    IN  IF end > b.fromDay THEN end - b.fromDay ELSE 0

\* StorageRateConfigError.
Throws == -1

\* calculateStorageFeeMinor.
CalculateStorageFeeMinor(bands, stay) ==
    LET days == ChargeableDays(stay)
        covered == FoldLeft(LAMBDA n, b : n + DaysInBand(b, days), 0, bands)
        total == FoldLeft(LAMBDA n, b : n + DaysInBand(b, days) * b.rate, 0, bands)
    IN  IF days = 0 THEN 0 ELSE IF covered = days THEN total ELSE Throws

-----------------------------------------------------------------------------
(* What it is meant to be. *)

\* The days, from 0, of which some part has passed when a stay ends.
StartedDays(stay) == {d \in 0 .. stay : d * DAY < stay}

\* The bands that price a day.
Pricing(bands, day) == {i \in 1 .. Len(bands) : Covers(bands[i], day)}

\* Every started day at the rate of its band.
DayByDay(bands, stay) ==
    MapThenSumSet(LAMBDA d : bands[CHOOSE i \in Pricing(bands, d) : TRUE].rate, StartedDays(stay))
=============================================================================
