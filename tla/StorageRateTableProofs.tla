----------------------- MODULE StorageRateTableProofs -----------------------
(***************************************************************************)
(* Proofs about StorageRateTable, for tables of every size.                *)
(***************************************************************************)
EXTENDS StorageRateTable, StorageFeeProofs

\* The rows are bands, in fromDay order and no two of one fromDay.
TableInv ==
    /\ table \in Seq(Bands)
    /\ Ascends(table, Len(table))

\* Adding a row keeps them so.
LEMMA TableStep == TableInv /\ [TableNext]_table => TableInv'
<1> SUFFICES ASSUME TableInv, [TableNext]_table PROVE TableInv'
  OBVIOUS
<1>1. ASSUME NEW b \in Bands, AddRow(b)
      PROVE  TableInv'
  <2> DEFINE n == Len(table)
  <2>1. n \in Nat /\ table \in Seq(Bands) /\ table' = Append(table, b)
    BY <1>1 DEF TableInv, AddRow
  <2>2. table' \in Seq(Bands) /\ Len(table') = n + 1 /\ table'[n + 1] = b
        /\ \A i \in 1 .. n : table'[i] = table[i]
    BY <2>1
  <2>3. \A i \in 1 .. n : table[i].fromDay \in Nat
    BY <2>1 DEF Bands
  <2>4. b.fromDay \in Nat
    BY DEF Bands
  <2>5. \A i, j \in 1 .. n : i < j => table[i].fromDay < table[j].fromDay
    BY DEF TableInv, Ascends
  <2>6. \A i \in 1 .. n : table[i].fromDay < b.fromDay
    <3> TAKE i \in 1 .. n
    <3>1. table # <<>> /\ n \in 1 .. n
      BY <2>1
    <3>2. b.fromDay > table[n].fromDay
      BY <1>1, <3>1 DEF AddRow
    <3>3. i # n => table[i].fromDay < table[n].fromDay
      BY <2>1, <2>5, <3>1
    <3> QED BY <2>3, <2>4, <3>1, <3>2, <3>3
  <2>7. ASSUME NEW i \in 1 .. n + 1, NEW j \in 1 .. n + 1, i < j
        PROVE  table'[i].fromDay < table'[j].fromDay
    <3>1. i \in 1 .. n
      BY <2>1, <2>7
    <3>2. CASE j = n + 1
      BY <2>2, <2>6, <3>1, <3>2
    <3>3. CASE j # n + 1
      <4>1. j \in 1 .. n
        BY <2>1, <3>3
      <4> QED BY <2>2, <2>5, <2>7, <3>1, <4>1
    <3> QED BY <3>2, <3>3
  <2> QED BY <2>2, <2>7 DEF TableInv, Ascends
<1>2. CASE UNCHANGED table
  BY <1>2 DEF TableInv
<1> QED BY <1>1, <1>2 DEF TableNext

\* Such a table is one the lemmas about fees speak of.
LEMMA TableIsTable == TableInv => IsTable(table, Len(table))
BY DEF TableInv, IsTable, Bands

\* Every table that can arise.
THEOREM TableInvariance == TableSpec => []TableInv
<1>1. TableInit => TableInv
  BY DEF TableInit, TableInv, Ascends
<1> QED BY <1>1, TableStep, PTL DEF TableSpec

\* The tiling rule of StorageRateSchedule.publish accepts exactly the tables
\* that price every day once, whatever their bands.
THEOREM TilingIsExact == TableSpec => []TilesMeansOneRatePerDay
<1>1. ASSUME TableInv PROVE TilesMeansOneRatePerDay
  <2> DEFINE N == Len(table)
  <2>1. IsTable(table, N)
    BY <1>1, TableIsTable
  <2>2. N \in Nat /\ (table # <<>> <=> N # 0)
    BY <1>1 DEF TableInv
  <2>3. \A d \in Nat : Cardinality(Pricing(table, d)) = 1 <=> \E i \in 1 .. N : Pricing(table, d) = {i}
    <3> TAKE d \in Nat
    <3>1. IsFiniteSet(1 .. N) /\ Pricing(table, d) \in SUBSET (1 .. N)
      BY <2>2, FS_Interval DEF Pricing
    <3>2. IsFiniteSet(Pricing(table, d))
      BY <3>1, FS_Subset
    <3>3. Cardinality(Pricing(table, d)) = 1 <=> \E i : Pricing(table, d) = {i}
      BY <3>2, FS_Singleton
    <3> QED BY <3>1, <3>3
  <2>4. ASSUME Tiles(table)
        PROVE  table # <<>> /\ \A d \in 0 .. MaxDay + 1 : Cardinality(Pricing(table, d)) = 1
    <3>1. \A d \in Nat : \E i \in 1 .. N : Pricing(table, d) = {i}
      BY <2>1, <2>4, TilesPriceOnce
    <3>2. 0 .. MaxDay + 1 \subseteq Nat
      BY TableAssumption
    <3>3. N # 0
      BY <2>2, <2>4 DEF Tiles
    <3> QED BY <2>2, <2>3, <3>1, <3>2, <3>3
  <2>5. ASSUME table # <<>>, \A d \in 0 .. MaxDay + 1 : Cardinality(Pricing(table, d)) = 1
        PROVE  Tiles(table)
    <3>1. \A d \in 0 .. MaxDay + 1 : \E i \in 1 .. N : Pricing(table, d) = {i}
      BY <2>3, <2>5, TableAssumption
    <3>2. \A i \in 1 .. N : table[i].fromDay <= MaxDay /\ (table[i].toDay # None => table[i].toDay <= MaxDay)
      BY <1>1, TableAssumption DEF TableInv, Bands
    <3>3. Ascends(table, N) /\ N # 0 /\ MaxDay \in Nat
      BY <1>1, <2>2, <2>5, TableAssumption DEF TableInv
    <3> QED BY <2>1, <3>1, <3>2, <3>3, PricedOnceTiles
  <2> QED BY <2>4, <2>5 DEF TilesMeansOneRatePerDay
<1> QED BY <1>1, TableInvariance, PTL

\* On every published table calculateStorageFeeMinor, which adds up days per
\* band, charges every started day the rate of its band and never throws.
THEOREM FeeIsExact == TableSpec => []FeeIsDayByDay
<1>1. ASSUME TableInv PROVE FeeIsDayByDay
  <2>1. IsTable(table, Len(table))
    BY <1>1, TableIsTable
  <2>2. Stays \subseteq Nat
    BY DEF Stays
  <2> QED BY <2>1, <2>2, FeeOfTable DEF FeeIsDayByDay
<1> QED BY <1>1, TableInvariance, PTL
=============================================================================
