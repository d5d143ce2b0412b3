-------------------------- MODULE StorageRateTable --------------------------
(***************************************************************************)
(* Every table of bands one rate version can hold: rows added one by one   *)
(* in fromDay order (findBandsFor's ORDER BY), constrained only by what    *)
(* MySQL enforces, the CHECKs and uq_storage_rate_band.  On each, the      *)
(* publish rule and the fee calculator are compared with their meaning.    *)
(***************************************************************************)
EXTENDS StorageFee

CONSTANTS
    MaxDay,   \* bound: no finite band edge is later
    MaxRate,  \* bound: no rate is higher
    MaxBands  \* bound: a version has at most so many bands

ASSUME TableAssumption == MaxDay \in Nat /\ MaxRate \in Nat /\ MaxBands \in Nat

VARIABLE table

Bands ==
    {b \in [fromDay : 0 .. MaxDay, toDay : (1 .. MaxDay) \cup {None}, rate : 0 .. MaxRate] :
        IsBand(b)}

TableInit == table = <<>>

\* A row of the version, published or edited by hand.
AddRow(b) ==
    /\ Len(table) < MaxBands
    /\ table # <<>> => b.fromDay > table[Len(table)].fromDay
    /\ table' = Append(table, b)

TableNext == \E b \in Bands : AddRow(b)

TableSpec == TableInit /\ [][TableNext]_table

\* bound: from here on every day is like this one
Stays == 0 .. (MaxDay + 2) * DAY

\* Nothing but the tiling rule keeps gaps and overlaps out of the table
\* (storage_rate has no exclusion constraint), so it must accept exactly the
\* tables that price every day once.
TilesMeansOneRatePerDay ==
    Tiles(table) <=>
        /\ \A d \in 0 .. MaxDay + 1 : Cardinality(Pricing(table, d)) = 1
        /\ table # <<>>

\* On a published table the calculator, which adds up days per band, charges
\* every started day its own band's rate and never throws.
FeeIsDayByDay ==
    Tiles(table) => \A s \in Stays : CalculateStorageFeeMinor(table, s) = DayByDay(table, s)
=============================================================================
