------------------------- MODULE StorageRatesProofs -------------------------
(***************************************************************************)
(* Proofs about StorageRates, for every number of publishers, parcels and  *)
(* versions, every input and every seed that tiles.                        *)
(***************************************************************************)
EXTENDS StorageRates, StorageFeeProofs

-----------------------------------------------------------------------------
(* The inductive invariant. *)

\* A schedule on its way to the table has passed publish().
DraftInv ==
    /\ DOMAIN draft = Publishers
    /\ \A o \in Publishers : draft[o] # None =>
          /\ draft[o] = [at |-> draft[o].at, bands |-> draft[o].bands, inserted |-> draft[o].inserted]
          /\ draft[o].at \in 1 .. MaxTime
          /\ IsTable(draft[o].bands, Len(draft[o].bands))
          /\ Tiles(draft[o].bands)
          /\ draft[o].inserted \in 0 .. Len(draft[o].bands)

\* The unique key, as transactions see it: no row clashes with a row that is
\* committed or that another transaction has inserted.
KeyInv ==
    /\ \A o \in Publishers : \A r \in Uncommitted(o) : ~BandKeyTaken(r)
    /\ \A o, w \in Publishers :
          o # w => \A r \in Uncommitted(o), s \in Uncommitted(w) : ~SameBand(r, s)

\* Every committed version is whole: it has a first day and it tiles; and there
\* is one from the start.
WholeInv ==
    /\ \A r \in rates : r.at \in 0 .. MaxTime /\ IsBand(r)
    /\ \A r \in rates : \E s \in rates : s.at = r.at /\ s.fromDay = 0
    /\ \A r \in rates : IsTable(Version(r.at), Len(Version(r.at))) /\ Tiles(Version(r.at))
    /\ \E r \in rates : r.at = 0

\* A parcel was dropped in the past, at the prices that are still the ones in
\* force then, but for a version that was late.
ParcelInv ==
    /\ now \in 0 .. MaxTime
    /\ storedAt \in [Parcels -> (0 .. MaxTime) \cup {None}]
    /\ fee \in [Parcels -> Nat \cup {None}]
    /\ DOMAIN posted = Parcels
    /\ \A p \in Parcels : storedAt[p] # None =>
          /\ storedAt[p] <= now
          /\ posted[p] = FindBandsFor(storedAt[p]) \/ \E v \in late : v <= storedAt[p]

\* All of it.
RatesInv == DraftInv /\ KeyInv /\ WholeInv /\ ParcelInv

\* It has the type invariant in it.
LEMMA RatesType == RatesInv => TypeOK
BY DEF RatesInv, DraftInv, WholeInv, ParcelInv, TypeOK, IsTable

-----------------------------------------------------------------------------
(* Versions. *)

\* The rows that a schedule becomes.
RowsOf(at, bands, N) == {Row(at, bands[i]) : i \in 1 .. N}

\* Of a schedule that tiles they are a version that tiles.
LEMMA ScheduleBecomesVersion ==
    ASSUME NEW bands, NEW N, IsTable(bands, N), Tiles(bands), NEW at
    PROVE  /\ IsTable(InOrder(SetToSeq(RowsOf(at, bands, N))), Len(InOrder(SetToSeq(RowsOf(at, bands, N)))))
           /\ Tiles(InOrder(SetToSeq(RowsOf(at, bands, N))))
<1> DEFINE rows == RowsOf(at, bands, N)
           s == [i \in 1 .. N |-> Row(at, bands[i])]
<1>1. \A i \in 1 .. N : /\ s[i].fromDay = bands[i].fromDay /\ s[i].toDay = bands[i].toDay
                        /\ s[i].rate = bands[i].rate
  BY DEF Row
<1>2. N \in Nat /\ Len(bands) = N /\ N # 0
  BY DEF IsTable, Tiles
<1>3. DOMAIN s = 1 .. N /\ Len(s) = N
  BY <1>2
<1>4. rows = {s[i] : i \in 1 .. N}
  BY DEF RowsOf
<1> HIDE DEF s, rows
<1>5. IsTable(s, N)
  BY <1>1, <1>2, <1>3 DEF IsTable, IsBand
<1>6. Tiles(s)
  <2>1. \A i \in 1 .. N - 1 : i \in 1 .. N /\ i + 1 \in 1 .. N
    BY <1>2
  <2>2. 1 \in 1 .. N /\ N \in 1 .. N
    BY <1>2
  <2> QED BY <1>1, <1>2, <1>3, <2>1, <2>2 DEF Tiles
<1>7. PICK M : IsTable(InOrder(SetToSeq(rows)), M) /\ Tiles(InOrder(SetToSeq(rows)))
  BY <1>4, <1>5, <1>6, RowsTile
<1>8. M = Len(InOrder(SetToSeq(rows)))
  BY <1>7 DEF IsTable
<1> QED BY <1>7, <1>8 DEF rows

\* The bands in force at a time no earlier than the seed are a whole version.
LEMMA BandsInForce ==
    ASSUME WholeInv, NEW t \in Nat
    PROVE  /\ \E r \in rates : r.at <= t /\ FindBandsFor(t) = Version(r.at)
           /\ IsTable(FindBandsFor(t), Len(FindBandsFor(t)))
           /\ Tiles(FindBandsFor(t))
<1> DEFINE past == {r.at : r \in {r \in rates : r.at <= t}}
           Latest(at) == \A other \in past : other <= at
<1>1. past \in SUBSET Nat /\ past # {} /\ \A at \in past : at <= t
  BY DEF WholeInv
<1>2. \E at \in past : Latest(at)
  <2> HIDE DEF past
  <2> QED BY <1>1, GreatestNatural
<1> DEFINE at == CHOOSE at \in past : Latest(at)
<1>3. at \in past
  <2> HIDE DEF past, Latest
  <2> QED BY <1>2
<1>4. FindBandsFor(t) = Version(at)
  BY <1>1 DEF FindBandsFor
<1> HIDE DEF at
<1>5. PICK r \in rates : r.at <= t /\ r.at = at
  BY <1>3
<1> QED BY <1>4, <1>5 DEF WholeInv

\* What was in force at a time stays in force while no row of an earlier
\* version comes in.
LEMMA PastStays ==
    ASSUME WholeInv, NEW t \in Nat, \A r : r.at <= t => (r \in rates' <=> r \in rates),
           \A r \in rates' : r.at \in Nat
    PROVE  FindBandsFor(t)' = FindBandsFor(t)
<1> DEFINE past == {r.at : r \in {r \in rates : r.at <= t}}
           pastNext == {r.at : r \in {r \in rates' : r.at <= t}}
           at == CHOOSE at \in past : \A other \in past : other <= at
           rows(a) == {r \in rates : r.at = a}
           rowsNext(a) == {r \in rates' : r.at = a}
<1>1. past # {} /\ past \in SUBSET Nat /\ \A a \in past : a <= t
  <2>1. \A r \in rates : r.at \in Nat
    BY DEF WholeInv
  <2>2. \E r \in rates : r.at <= t
    BY DEF WholeInv
  <2> QED BY <2>1, <2>2
<1>2. pastNext = past
  OBVIOUS
<1>3. at \in past
  <2>1. \E a \in past : \A other \in past : other <= a
    <3> HIDE DEF past
    <3> QED BY <1>1, GreatestNatural
  <2> HIDE DEF past
  <2> QED BY <2>1
<1>4. FindBandsFor(t) = Version(at)
  BY <1>1 DEF FindBandsFor
<1>5. FindBandsFor(t)' = InOrder(SetToSeq(rowsNext(at)))
  <2>1. FindBandsFor(t)' =
          IF pastNext = {} THEN <<>>
          ELSE InOrder(SetToSeq(rowsNext(CHOOSE a \in pastNext : \A other \in pastNext : other <= a)))
    BY DEF FindBandsFor, Version
  <2> HIDE DEF past, pastNext, rowsNext
  <2> QED BY <1>1, <1>2, <2>1 DEF at
<1> HIDE DEF at
<1>6. rowsNext(at) = rows(at)
  BY <1>1, <1>3
<1>7. Version(at) = InOrder(SetToSeq(rows(at)))
  BY DEF Version
<1> HIDE DEF rows, rowsNext, past
<1> QED BY <1>4, <1>5, <1>6, <1>7, Zenon

-----------------------------------------------------------------------------
(* The steps. *)

\* The migrations leave one whole version.
LEMMA RatesInit == Init => RatesInv
<1> SUFFICES ASSUME Init PROVE RatesInv
  OBVIOUS
<1> DEFINE N == Len(Seed)
<1>1. N \in Nat /\ DOMAIN Seed = 1 .. N
  BY RatesAssumption
<1>2. IsTable(Seed, N) /\ Tiles(Seed) /\ N # 0
  BY <1>1, RatesAssumption DEF IsTable, Tiles
<1>3. rates = {Row(0, Seed[i]) : i \in 1 .. N} /\ 1 \in 1 .. N
  BY <1>1, <1>2 DEF Init
<1>4. {r \in rates : r.at = 0} = {Row(0, Seed[i]) : i \in 1 .. N}
  BY <1>3 DEF Row
<1>5. \A r \in rates : r.at = 0
  BY <1>3 DEF Row
<1> HIDE DEF N
<1>6. IsTable(Version(0), Len(Version(0))) /\ Tiles(Version(0))
  <2>1. Version(0) = InOrder(SetToSeq(RowsOf(0, Seed, N)))
    BY <1>4, Zenon DEF Version, RowsOf
  <2> QED BY <1>2, <2>1, ScheduleBecomesVersion
<1>7. WholeInv
  <2>1. \A r \in rates : r.at \in 0 .. MaxTime /\ IsBand(r)
    BY <1>2, <1>3, RatesAssumption DEF Row, IsTable, IsBand
  <2>2. Row(0, Seed[1]) \in rates /\ Row(0, Seed[1]).at = 0 /\ Row(0, Seed[1]).fromDay = 0
    BY <1>2, <1>3 DEF Row, Tiles
  <2> QED BY <1>5, <1>6, <2>1, <2>2 DEF WholeInv
<1>8. DraftInv /\ KeyInv
  BY DEF Init, DraftInv, KeyInv, Uncommitted
<1>9. ParcelInv
  BY RatesAssumption DEF Init, ParcelInv
<1> QED BY <1>7, <1>8, <1>9 DEF RatesInv

\* publish() lets nothing through that does not tile.
LEMMA PublishStep ==
    ASSUME RatesInv, NEW o \in Publishers, NEW at \in 1 .. MaxTime, NEW input \in Inputs,
           Publish(o, at, input)
    PROVE  DraftInv' /\ KeyInv'
<1> DEFINE N == Len(input)
           new == [at |-> at, bands |-> InOrder(input), inserted |-> 0]
<1>1. IsTable(input, N)
  <2>1. input \in Seq(Range(input))
    BY RatesAssumption
  <2>2. N \in Nat /\ DOMAIN input = 1 .. N
    BY <2>1
  <2> QED BY <2>2 DEF Publish, IsTable
<1>2. IsTable(InOrder(input), N)
  <2> HIDE DEF N
  <2> QED BY <1>1, InOrderSorts
<1>3. IsTable(InOrder(input), Len(InOrder(input))) /\ Tiles(InOrder(input))
  BY <1>2 DEF IsTable, Publish
<1>4. draft' = [draft EXCEPT ![o] = new] /\ rates' = rates
  BY DEF Publish
<1>5. /\ DOMAIN draft = Publishers
      /\ draft'[o] = new
      /\ DOMAIN draft' = Publishers
      /\ \A w \in Publishers \ {o} : draft'[w] = draft[w]
  BY <1>4 DEF RatesInv, DraftInv
<1>6. 0 \in 0 .. Len(InOrder(input))
  BY <1>3 DEF IsTable
<1>7. DraftInv'
  BY <1>3, <1>5, <1>6 DEF RatesInv, DraftInv
<1>8. Uncommitted(o)' = {} /\ \A w \in Publishers \ {o} : Uncommitted(w)' = Uncommitted(w)
  BY <1>5 DEF Uncommitted
<1>9. KeyInv'
  BY <1>4, <1>8 DEF RatesInv, KeyInv, BandKeyTaken
<1> QED BY <1>7, <1>9

\* What a transaction that ends without a commit leaves.
LEMMA RollbackStep ==
    ASSUME RatesInv, NEW o \in Publishers, draft' = [draft EXCEPT ![o] = None], UNCHANGED rates
    PROVE  DraftInv' /\ KeyInv'
<1>1. /\ draft'[o] = None
      /\ DOMAIN draft' = Publishers
      /\ \A w \in Publishers \ {o} : draft'[w] = draft[w]
  BY DEF RatesInv, DraftInv
<1>2. DraftInv'
  BY <1>1 DEF RatesInv, DraftInv
<1>3. Uncommitted(o)' = {} /\ \A w \in Publishers \ {o} : Uncommitted(w)' = Uncommitted(w)
  BY <1>1 DEF Uncommitted
<1>4. KeyInv'
  BY <1>3 DEF RatesInv, KeyInv, BandKeyTaken
<1> QED BY <1>2, <1>4

\* One INSERT: the key admits the row only if it is nobody's.
LEMMA InsertStep ==
    ASSUME RatesInv, NEW o \in Publishers, InsertBand(o)
    PROVE  DraftInv' /\ KeyInv'
<1> DEFINE n == draft[o].inserted
           row == Row(draft[o].at, draft[o].bands[n + 1])
<1>0. /\ draft[o] # None /\ n < Len(draft[o].bands) /\ rates' = rates
      /\ BandKeyTaken(row) => draft' = [draft EXCEPT ![o] = None]
      /\ ~BandKeyTaken(row) =>
            /\ \A w \in Publishers \ {o} : \A r \in Uncommitted(w) : ~SameBand(r, row)
            /\ draft' = [draft EXCEPT ![o].inserted = n + 1]
  BY DEF InsertBand
<1>1. CASE BandKeyTaken(row)
  <2>1. draft' = [draft EXCEPT ![o] = None] /\ rates' = rates
    BY <1>0, <1>1
  <2> QED BY <2>1, RollbackStep
<1>2. CASE ~BandKeyTaken(row)
  <2>1. /\ draft[o] # None /\ n < Len(draft[o].bands) /\ rates' = rates
        /\ draft' = [draft EXCEPT ![o].inserted = n + 1]
        /\ \A w \in Publishers \ {o} : \A r \in Uncommitted(w) : ~SameBand(r, row)
    BY <1>0, <1>2
  <2>2. /\ DOMAIN draft = Publishers
        /\ draft[o] = [at |-> draft[o].at, bands |-> draft[o].bands, inserted |-> n]
        /\ draft[o].at \in 1 .. MaxTime
        /\ IsTable(draft[o].bands, Len(draft[o].bands)) /\ Tiles(draft[o].bands)
        /\ n \in 0 .. Len(draft[o].bands)
        /\ Len(draft[o].bands) \in Nat
    BY <2>1 DEF RatesInv, DraftInv, IsTable
  <2>3. /\ draft'[o] = [at |-> draft[o].at, bands |-> draft[o].bands, inserted |-> n + 1]
        /\ DOMAIN draft' = Publishers
        /\ \A w \in Publishers \ {o} : draft'[w] = draft[w]
    BY <2>1, <2>2
  <2>4. n + 1 \in 0 .. Len(draft[o].bands)
    BY <2>1, <2>2
  <2>5. DraftInv'
    BY <2>2, <2>3, <2>4 DEF RatesInv, DraftInv
  <2>6. \A w \in Publishers \ {o} : Uncommitted(w)' = Uncommitted(w)
    BY <2>3 DEF Uncommitted
  <2>7. Uncommitted(o)' \subseteq Uncommitted(o) \cup {row}
    <3>1. CASE draft'[o] = None
      BY <3>1 DEF Uncommitted
    <3>2. CASE draft'[o] # None
      <4>1. Uncommitted(o)' = {Row(draft[o].at, draft[o].bands[i]) : i \in 1 .. n + 1}
        BY <2>3, <3>2 DEF Uncommitted
      <4>2. Uncommitted(o) = {Row(draft[o].at, draft[o].bands[i]) : i \in 1 .. n}
        BY <2>1 DEF Uncommitted
      <4>3. \A i \in 1 .. n + 1 : i \in 1 .. n \/ i = n + 1
        BY <2>2
      <4> QED BY <4>1, <4>2, <4>3
    <3> QED BY <3>1, <3>2
  <2> HIDE DEF row
  <2>8. KeyInv'
    <3>1. \A w \in Publishers : \A r \in Uncommitted(w)' : ~BandKeyTaken(r)
      BY <1>2, <2>6, <2>7 DEF RatesInv, KeyInv
    <3>2. ASSUME NEW w \in Publishers \ {o}, NEW r \in Uncommitted(o)', NEW s \in Uncommitted(w)'
          PROVE  ~SameBand(r, s) /\ ~SameBand(s, r)
      BY <2>1, <2>6, <2>7 DEF RatesInv, KeyInv, SameBand
    <3> QED BY <2>1, <2>6, <3>1, <3>2 DEF RatesInv, KeyInv, BandKeyTaken
  <2> QED BY <2>5, <2>8
<1> QED BY <1>1, <1>2

\* A commit adds a version of its own: the first day of its instant was free.
LEMMA CommitAdds ==
    ASSUME RatesInv, NEW o \in Publishers, Commit(o)
    PROVE  /\ draft[o] # None /\ draft[o].at \in 1 .. MaxTime
           /\ \A r \in rates : r.at # draft[o].at
           /\ \A r \in Uncommitted(o) : r.at = draft[o].at /\ IsBand(r)
           /\ \E r \in Uncommitted(o) : r.fromDay = 0
           /\ IsTable(InOrder(SetToSeq(Uncommitted(o))), Len(InOrder(SetToSeq(Uncommitted(o)))))
           /\ Tiles(InOrder(SetToSeq(Uncommitted(o))))
<1> DEFINE bands == draft[o].bands
           N == Len(bands)
           at == draft[o].at
           rows == Uncommitted(o)
<1>1. draft[o] # None /\ draft[o].inserted = N
  BY DEF Commit
<1>2. at \in 1 .. MaxTime /\ IsTable(bands, N) /\ Tiles(bands)
  BY <1>1 DEF RatesInv, DraftInv
<1>3. rows = RowsOf(at, bands, N)
  BY <1>1 DEF Uncommitted, RowsOf
<1> HIDE DEF bands, N, rows, at
<1>4. IsTable(InOrder(SetToSeq(rows)), Len(InOrder(SetToSeq(rows)))) /\ Tiles(InOrder(SetToSeq(rows)))
  <2>1. /\ IsTable(InOrder(SetToSeq(RowsOf(at, bands, N))), Len(InOrder(SetToSeq(RowsOf(at, bands, N)))))
        /\ Tiles(InOrder(SetToSeq(RowsOf(at, bands, N))))
    BY <1>2, ScheduleBecomesVersion
  <2> QED BY <1>3, <2>1, Zenon
<1>5. \A r \in rows : r.at = at /\ IsBand(r)
  BY <1>2, <1>3 DEF RowsOf, Row, IsTable, IsBand
<1>6. Row(at, bands[1]) \in rows /\ Row(at, bands[1]).at = at /\ Row(at, bands[1]).fromDay = 0
  BY <1>2, <1>3 DEF RowsOf, Row, IsTable, Tiles
<1>7. ASSUME NEW r \in rates, r.at = at
      PROVE  FALSE
  <2>1. PICK s \in rates : s.at = at /\ s.fromDay = 0
    BY <1>7 DEF RatesInv, WholeInv
  <2>2. BandKeyTaken(Row(at, bands[1]))
    BY <1>6, <2>1 DEF BandKeyTaken, SameBand
  <2> QED BY <1>6, <2>2 DEF RatesInv, KeyInv, rows
<1> QED BY <1>1, <1>2, <1>4, <1>5, <1>6, <1>7 DEF rows, at

\* The commit ends the transaction: its rows are now rows of the table.
LEMMA CommitStep ==
    ASSUME RatesInv, NEW o \in Publishers, Commit(o)
    PROVE  RatesInv'
<1>0. PICK at : at = draft[o].at
  OBVIOUS
<1> DEFINE new == Uncommitted(o)
<1>1. /\ draft[o] # None /\ at \in 1 .. MaxTime
      /\ \A r \in rates : r.at # at
      /\ \A r \in new : r.at = at /\ IsBand(r)
      /\ \E r \in new : r.fromDay = 0
  BY <1>0, CommitAdds
<1>2. /\ rates' = rates \cup new
      /\ draft' = [draft EXCEPT ![o] = None]
      /\ late' = late \cup {v \in {at} : v <= now}
      /\ UNCHANGED <<now, storedAt, posted, fee>>
  BY <1>0 DEF Commit
<1>3. /\ draft'[o] = None
      /\ DOMAIN draft' = Publishers
      /\ \A w \in Publishers \ {o} : draft'[w] = draft[w]
  BY <1>2 DEF RatesInv, DraftInv
<1>4. DraftInv'
  BY <1>3 DEF RatesInv, DraftInv
<1>5. Uncommitted(o)' = {} /\ \A w \in Publishers \ {o} : Uncommitted(w)' = Uncommitted(w)
  BY <1>3 DEF Uncommitted
<1>6. KeyInv'
  <2>1. ASSUME NEW w \in Publishers \ {o}, NEW r \in Uncommitted(w), NEW s \in rates \cup new
        PROVE  ~SameBand(s, r)
    BY <2>1 DEF RatesInv, KeyInv, BandKeyTaken
  <2>2. \A w \in Publishers : \A r \in Uncommitted(w)' : ~BandKeyTaken(r)'
    BY <1>2, <1>5, <2>1 DEF BandKeyTaken
  <2> QED BY <1>5, <2>2 DEF RatesInv, KeyInv
<1>7. WholeInv'
  <2>1. \A r \in rates' : r.at \in 0 .. MaxTime /\ IsBand(r)
    BY <1>1, <1>2 DEF RatesInv, WholeInv
  <2>2. \A r \in rates' : \E s \in rates' : s.at = r.at /\ s.fromDay = 0
    BY <1>1, <1>2 DEF RatesInv, WholeInv
  <2>3. \E r \in rates' : r.at = 0
    BY <1>2 DEF RatesInv, WholeInv
  <2>4. IsTable(Version(at)', Len(Version(at)')) /\ Tiles(Version(at)')
    <3> DEFINE rows == {r \in rates' : r.at = at}
    <3>1. Version(at)' = InOrder(SetToSeq(rows))
      BY DEF Version
    <3>2. rows = new
      BY <1>1, <1>2
    <3> HIDE DEF rows
    <3>3. Version(at)' = InOrder(SetToSeq(new))
      BY <3>1, <3>2, Zenon
    <3>4. IsTable(InOrder(SetToSeq(new)), Len(InOrder(SetToSeq(new)))) /\ Tiles(InOrder(SetToSeq(new)))
      BY CommitAdds
    <3> QED BY <3>3, <3>4, Zenon
  <2>5. ASSUME NEW r \in rates
        PROVE  Version(r.at)' = Version(r.at)
    <3> DEFINE rows == {s \in rates : s.at = r.at}
               rowsNext == {s \in rates' : s.at = r.at}
    <3>1. Version(r.at) = InOrder(SetToSeq(rows)) /\ Version(r.at)' = InOrder(SetToSeq(rowsNext))
      BY DEF Version
    <3>2. rowsNext = rows
      BY <1>1, <1>2
    <3> HIDE DEF rows, rowsNext
    <3> QED BY <3>1, <3>2, Zenon
  <2>6. ASSUME NEW r \in rates'
        PROVE  IsTable(Version(r.at)', Len(Version(r.at)')) /\ Tiles(Version(r.at)')
    <3>1. CASE r \in new
      <4>1. r.at = at
        BY <1>1, <3>1
      <4> QED BY <2>4, <4>1
    <3>2. CASE r \in rates
      <4>1. IsTable(Version(r.at), Len(Version(r.at))) /\ Tiles(Version(r.at))
        BY <3>2 DEF RatesInv, WholeInv
      <4> QED BY <2>5, <3>2, <4>1, Zenon
    <3> QED BY <1>2, <3>1, <3>2
  <2> QED BY <2>1, <2>2, <2>3, <2>6 DEF WholeInv
<1>8. ParcelInv'
  <2>1. ASSUME NEW p \in Parcels, storedAt[p] # None
        PROVE  posted[p] = FindBandsFor(storedAt[p])' \/ \E v \in late' : v <= storedAt[p]
    <3>0. PICK t : t = storedAt[p]
      OBVIOUS
    <3>1. t \in Nat /\ t <= now /\ now \in Nat /\ (posted[p] = FindBandsFor(t) \/ \E v \in late : v <= t)
      BY <2>1, <3>0 DEF RatesInv, ParcelInv
    <3>2. CASE at <= t
      <4>1. at <= now /\ at \in late'
        BY <1>1, <1>2, <3>1, <3>2
      <4> QED BY <3>0, <3>2, <4>1
    <3>3. CASE ~(at <= t)
      <4>1. \A r : r.at <= t => (r \in rates' <=> r \in rates)
        BY <1>1, <1>2, <3>3
      <4>2. \A r \in rates' : r.at \in Nat
        BY <1>7 DEF WholeInv
      <4>3. WholeInv
        BY DEF RatesInv
      <4>4. FindBandsFor(t)' = FindBandsFor(t)
        BY <3>1, <4>1, <4>2, <4>3, PastStays
      <4>5. late \subseteq late'
        BY <1>2
      <4>6. FindBandsFor(storedAt[p])' = FindBandsFor(t)'
        BY <1>2, <3>0 DEF FindBandsFor
      <4> QED BY <3>0, <3>1, <4>4, <4>5, <4>6
    <3> QED BY <3>2, <3>3
  <2> QED BY <1>2, <2>1 DEF RatesInv, ParcelInv
<1> QED BY <1>4, <1>6, <1>7, <1>8 DEF RatesInv

\* Steps that leave the table alone leave every version alone.
LEMMA SameRates ==
    ASSUME UNCHANGED rates, NEW t
    PROVE  Version(t)' = Version(t) /\ FindBandsFor(t)' = FindBandsFor(t)
BY DEF Version, FindBandsFor

\* The versions stay whole in them, too.
LEMMA SameWhole ==
    ASSUME WholeInv, UNCHANGED rates
    PROVE  WholeInv'
<1>1. \A r \in rates : Version(r.at)' = Version(r.at)
  BY SameRates
<1> QED BY <1>1 DEF WholeInv

\* And parcels nothing happens to keep their prices.
LEMMA SameParcels ==
    ASSUME ParcelInv, UNCHANGED <<now, rates, storedAt, posted, fee, late>>
    PROVE  ParcelInv'
<1>1. \A p \in Parcels : FindBandsFor(storedAt[p])' = FindBandsFor(storedAt[p])
  <2> TAKE p \in Parcels
  <2> DEFINE t == storedAt[p]
  <2>1. storedAt' = storedAt
    OBVIOUS
  <2> QED BY <2>1 DEF FindBandsFor, Version
<1> QED BY <1>1 DEF ParcelInv

\* Nothing happens to transactions.
LEMMA SameDrafts ==
    ASSUME RatesInv, UNCHANGED <<rates, draft>>
    PROVE  DraftInv' /\ KeyInv'
<1>1. DraftInv'
  BY DEF RatesInv, DraftInv
<1>2. \A o \in Publishers : Uncommitted(o)' = Uncommitted(o)
  BY DEF Uncommitted
<1> QED BY <1>1, <1>2 DEF RatesInv, KeyInv, BandKeyTaken

\* A drop remembers the prices of the moment.
LEMMA DropStep ==
    ASSUME RatesInv, NEW q \in Parcels, Drop(q)
    PROVE  ParcelInv'
<1>1. PICK n : n = now
  OBVIOUS
<1>2. /\ storedAt' = [storedAt EXCEPT ![q] = n]
      /\ posted' = [posted EXCEPT ![q] = FindBandsFor(n)]
      /\ UNCHANGED <<now, rates, fee, late>>
  BY <1>1 DEF Drop
<1>3. n \in 0 .. MaxTime /\ storedAt \in [Parcels -> (0 .. MaxTime) \cup {None}] /\ DOMAIN posted = Parcels
  BY <1>1 DEF RatesInv, ParcelInv
<1>4. storedAt' \in [Parcels -> (0 .. MaxTime) \cup {None}] /\ DOMAIN posted' = Parcels
  BY <1>2, <1>3
<1>5. ASSUME NEW p \in Parcels, storedAt'[p] # None
      PROVE  /\ storedAt'[p] <= now'
             /\ posted'[p] = FindBandsFor(storedAt[p])' \/ \E v \in late' : v <= storedAt'[p]
  <2>1. PICK t : t = storedAt'[p]
    OBVIOUS
  <2>2. FindBandsFor(storedAt[p])' = FindBandsFor(t)
    <3>1. FindBandsFor(storedAt[p])' = FindBandsFor(t)'
      BY <2>1 DEF FindBandsFor
    <3> QED BY <1>2, <3>1, SameRates
  <2>3. CASE p = q
    <3>1. t = n /\ posted'[p] = FindBandsFor(n)
      BY <1>2, <1>3, <2>1, <2>3
    <3> QED BY <1>1, <1>2, <1>3, <2>1, <2>2, <3>1
  <2>4. CASE p # q
    <3>1. t = storedAt[p] /\ posted'[p] = posted[p]
      BY <1>2, <1>3, <2>1, <2>4
    <3>2. t <= now /\ (posted[p] = FindBandsFor(t) \/ \E v \in late : v <= t)
      BY <1>5, <2>1, <3>1 DEF RatesInv, ParcelInv
    <3> QED BY <1>2, <2>1, <2>2, <3>1, <3>2
  <2> QED BY <2>3, <2>4
<1> QED BY <1>1, <1>2, <1>3, <1>4, <1>5 DEF RatesInv, ParcelInv

\* The fee of a stay so far, of a parcel that was dropped.
LEMMA FeeOfStay ==
    ASSUME RatesInv, NEW p \in Parcels, storedAt[p] # None
    PROVE  /\ Calculate(p) = DayByDay(FindBandsFor(storedAt[p]), now - storedAt[p])
           /\ Calculate(p) \in Nat
<1>1. PICK t, stay : t = storedAt[p] /\ stay = now - storedAt[p]
  OBVIOUS
<1>2. t \in Nat /\ stay \in Nat
  BY <1>1, FeeAssumption DEF RatesInv, ParcelInv
<1>3. PICK bands : bands = FindBandsFor(t)
  OBVIOUS
<1>4. IsTable(bands, Len(bands)) /\ Tiles(bands)
  BY <1>2, <1>3, BandsInForce DEF RatesInv
<1>5. bands # <<>>
  BY <1>4 DEF Tiles
<1>6. Calculate(p) = CalculateStorageFeeMinor(bands, stay)
  BY <1>1, <1>3, <1>5 DEF Calculate
<1>7. /\ CalculateStorageFeeMinor(bands, stay) = DayByDay(bands, stay)
      /\ CalculateStorageFeeMinor(bands, stay) \in Nat
  BY <1>2, <1>4, FeeOfTable
<1> QED BY <1>1, <1>3, <1>6, <1>7

\* A pickup writes the fee and nothing else.
LEMMA RetrieveStep ==
    ASSUME RatesInv, NEW q \in Parcels, Retrieve(q)
    PROVE  ParcelInv'
<1>1. storedAt[q] # None /\ fee' = [fee EXCEPT ![q] = Calculate(q)]
  BY DEF Retrieve
<1>2. Calculate(q) \in Nat
  BY <1>1, FeeOfStay
<1>3. fee' \in [Parcels -> Nat \cup {None}]
  BY <1>1, <1>2 DEF RatesInv, ParcelInv
<1>4. UNCHANGED <<now, rates, draft, storedAt, posted, late>>
  BY DEF Retrieve
<1>5. \A p \in Parcels : FindBandsFor(storedAt[p])' = FindBandsFor(storedAt[p])
  BY <1>4 DEF FindBandsFor, Version
<1> QED BY <1>3, <1>4, <1>5 DEF RatesInv, ParcelInv

\* Time passes.
LEMMA TickStep == RatesInv /\ Tick => ParcelInv'
<1> SUFFICES ASSUME RatesInv, Tick PROVE ParcelInv'
  OBVIOUS
<1>1. now' \in 0 .. MaxTime /\ now <= now' /\ now \in Nat /\ UNCHANGED <<rates, storedAt, posted, fee, late>>
  BY RatesAssumption DEF Tick, RatesInv, ParcelInv
<1>2. \A p \in Parcels : FindBandsFor(storedAt[p])' = FindBandsFor(storedAt[p])
  BY <1>1 DEF FindBandsFor, Version
<1>3. \A p \in Parcels : storedAt[p] # None => storedAt[p] <= now'
  BY <1>1 DEF RatesInv, ParcelInv
<1> QED BY <1>1, <1>2, <1>3 DEF RatesInv, ParcelInv

\* Every step.
LEMMA RatesStep == RatesInv /\ [Next]_vars => RatesInv'
<1> SUFFICES ASSUME RatesInv, [Next]_vars PROVE RatesInv'
  OBVIOUS
<1>1. ASSUME UNCHANGED <<now, rates, storedAt, posted, fee, late>>, DraftInv' /\ KeyInv'
      PROVE  RatesInv'
  BY <1>1, SameWhole, SameParcels DEF RatesInv
<1>2. ASSUME UNCHANGED <<rates, draft>>, ParcelInv'
      PROVE  RatesInv'
  BY <1>2, SameWhole, SameDrafts DEF RatesInv
<1>3. ASSUME NEW o \in Publishers, NEW at \in 1 .. MaxTime, NEW input \in Inputs, Publish(o, at, input)
      PROVE  RatesInv'
  BY <1>1, <1>3, PublishStep DEF Publish
<1>4. ASSUME NEW o \in Publishers, InsertBand(o)
      PROVE  RatesInv'
  BY <1>1, <1>4, InsertStep DEF InsertBand
<1>5. ASSUME NEW o \in Publishers, Commit(o)
      PROVE  RatesInv'
  BY <1>5, CommitStep
<1>6. ASSUME NEW o \in Publishers, PublishFails(o)
      PROVE  RatesInv'
  BY <1>1, <1>6, RollbackStep DEF PublishFails
<1>7. ASSUME NEW p \in Parcels, Drop(p)
      PROVE  RatesInv'
  BY <1>2, <1>7, DropStep DEF Drop
<1>8. ASSUME NEW p \in Parcels, Retrieve(p)
      PROVE  RatesInv'
  BY <1>2, <1>8, RetrieveStep DEF Retrieve
<1>9. CASE Tick
  BY <1>2, <1>9, TickStep DEF Tick
<1>10. CASE UNCHANGED vars
  BY <1>2, <1>10, SameParcels DEF vars, RatesInv
<1> QED BY <1>3, <1>4, <1>5, <1>6, <1>7, <1>8, <1>9, <1>10 DEF Next

\* The invariant holds in every reachable state.
THEOREM RatesInvariance == Spec => []RatesInv
BY RatesInit, RatesStep, PTL DEF Spec

-----------------------------------------------------------------------------
(* What it shows. *)

\* Only bands that StorageRateBand.of accepts reach the table, and every
\* schedule in a transaction has its insertion count in bounds.
THEOREM TypeCorrect == Spec => []TypeOK
BY RatesInvariance, RatesType, PTL

\* Publications interleaved INSERT by INSERT never mix: every version that
\* readers can see prices every day exactly once.
THEOREM VersionsAlwaysTile == Spec => []VersionsTile
<1>1. RatesInv => VersionsTile
  BY DEF RatesInv, WholeInv, VersionsTile
<1> QED BY <1>1, RatesInvariance, PTL

\* Whatever is published meanwhile, no pickup fails for want of a rate.
THEOREM EveryStayIsPriced == Spec => []EveryStayPriced
<1>1. ASSUME RatesInv PROVE EveryStayPriced
  <2> SUFFICES ASSUME NEW p \in Parcels, storedAt[p] # None PROVE Calculate(p) # Throws
    BY DEF EveryStayPriced
  <2> QED BY <1>1, FeeOfStay DEF Throws
<1> QED BY <1>1, RatesInvariance, PTL

\* Rates are forward-only: a customer pays, day by day, what was posted at the
\* drop, unless a version that was already in force then was committed late.
THEOREM CustomersPayPostedPrice == Spec => PostedPriceCharged
<1> DEFINE Charged == \A p \in Parcels : fee'[p] # fee[p] =>
                          \/ fee'[p] = DayByDay(posted[p], now - storedAt[p])
                          \/ \E v \in late : v <= storedAt[p]
<1>1. ASSUME RatesInv, [Next]_vars PROVE [Charged]_vars
  <2>1. ASSUME NEW q \in Parcels, Retrieve(q)
        PROVE  Charged
    <3> SUFFICES ASSUME NEW p \in Parcels, fee'[p] # fee[p]
                 PROVE  \/ fee'[p] = DayByDay(posted[p], now - storedAt[p])
                        \/ \E v \in late : v <= storedAt[p]
      OBVIOUS
    <3>1. p = q /\ storedAt[p] # None /\ fee'[p] = Calculate(p)
      BY <1>1, <2>1 DEF Retrieve, RatesInv, ParcelInv
    <3>2. Calculate(p) = DayByDay(FindBandsFor(storedAt[p]), now - storedAt[p])
      BY <1>1, <3>1, FeeOfStay
    <3>3. posted[p] = FindBandsFor(storedAt[p]) \/ \E v \in late : v <= storedAt[p]
      BY <1>1, <3>1 DEF RatesInv, ParcelInv
    <3> QED BY <3>1, <3>2, <3>3
  <2>2. CASE UNCHANGED fee
    BY <2>2
  <2> QED BY <1>1, <2>1, <2>2 DEF Next, Tick, Publish, InsertBand, Commit, PublishFails, Drop, vars
<1> QED BY <1>1, RatesInvariance, PTL DEF Spec, PostedPriceCharged
=============================================================================
