---------------------------- MODULE ListingProofs ----------------------------
(***************************************************************************)
(* Proofs about Listing: both ORDER BYs are total orders, and a walk over  *)
(* columns that never change misses nothing, for any number of rows, any   *)
(* writers, any limit, and whatever MySQL does with ties.                  *)
(***************************************************************************)
EXTENDS Listing, FiniteSetTheorems, TLAPS

-----------------------------------------------------------------------------
(* Ranks in a finite total order. *)

\* If some row has at least o + l rows before it, the places from o to o + l - 1
\* are all taken: a page that is not full is the last one.
LEMMA FullPage ==
    ASSUME NEW M, IsFiniteSet(M), NEW B \in [M -> SUBSET M],
           \A a \in M : a \notin B[a],
           \A a, b \in M : a # b => a \in B[b] \/ b \in B[a],
           \A a, b \in M : a \in B[b] => B[a] \subseteq B[b],
           NEW o \in Nat, NEW l \in Nat,
           NEW z \in M, Cardinality(B[z]) >= o + l,
           NEW all \in SUBSET M,
           \A a \in M : Cardinality(B[a]) \in o .. (o + l - 1) => a \in all
    PROVE  Cardinality(all) >= l
  <1> DEFINE n == Cardinality(B[z])
             f == [a \in B[z] |-> Cardinality(B[a])]
             W == {a \in B[z] : f[a] \in o .. (o + l - 1)}
             g == [a \in W |-> f[a]]
  <1>1. \A a \in M : IsFiniteSet(B[a]) /\ Cardinality(B[a]) \in Nat
    BY FS_Subset, FS_CardinalityType
  <1>2. ASSUME NEW a \in M, NEW b \in M, a \in B[b]
        PROVE  Cardinality(B[a]) < Cardinality(B[b])
    <2>1. B[a] \in SUBSET B[b] /\ B[a] # B[b]  BY <1>2
    <2>2. Cardinality(B[a]) <= Cardinality(B[b]) /\ Cardinality(B[a]) # Cardinality(B[b])
      BY <2>1, <1>1, FS_Subset
    <2> QED  BY <2>2, <1>1
  <1>3. f \in Injection(B[z], 0 .. (n - 1))
    <2>1. \A a \in B[z] : a \in M /\ f[a] \in 0 .. (n - 1)  BY <1>1, <1>2
    <2>2. ASSUME NEW a \in B[z], NEW b \in B[z], f[a] = f[b] PROVE a = b
      <3>1. a \in M /\ b \in M  OBVIOUS
      <3>2. a \notin B[b] /\ b \notin B[a]  BY <3>1, <2>2, <1>1, <1>2
      <3> QED  BY <3>1, <3>2
    <2>3. f \in [B[z] -> 0 .. (n - 1)]  BY <2>1
    <2>4. DOMAIN f = B[z]  OBVIOUS
    <2>5. \A a, b \in DOMAIN f : f[a] = f[b] => a = b
      <3> HIDE DEF f
      <3> QED  BY <2>2, <2>4
    <2> HIDE DEF f, n
    <2> QED  BY <2>3, <2>5 DEF Injection, IsInjective
  <1>4. IsFiniteSet(0 .. (n - 1)) /\ Cardinality(0 .. (n - 1)) = n
    <2>1. n \in Nat  BY <1>1
    <2> HIDE DEF n
    <2>2. 0 \in Int /\ n - 1 \in Int  BY <2>1
    <2>3. /\ IsFiniteSet(0 .. (n - 1))
          /\ Cardinality(0 .. (n - 1)) = IF 0 > n - 1 THEN 0 ELSE (n - 1) - 0 + 1
      BY <2>2, FS_Interval
    <2> QED  BY <2>1, <2>3
  <1>5. f \in Surjection(B[z], 0 .. (n - 1))
    <2> HIDE DEF f
    <2> QED  BY <1>3, <1>4, FS_Injection
  <1>6. g \in Surjection(W, o .. (o + l - 1))
    <2>1. g \in [W -> o .. (o + l - 1)]  OBVIOUS
    <2>2. ASSUME NEW t \in o .. (o + l - 1) PROVE \E a \in W : g[a] = t
      <3>1. t \in 0 .. (n - 1)  BY <1>1
      <3>2. PICK a \in B[z] : f[a] = t  BY <3>1, <1>5 DEF Surjection
      <3>3. a \in W  BY <3>2
      <3> QED  BY <3>2, <3>3
    <2> QED  BY <2>1, <2>2 DEF Surjection
  <1>7. IsFiniteSet(W) /\ Cardinality(W) \in Nat
    BY <1>1, FS_Subset, FS_CardinalityType
  <1>8. Cardinality(o .. (o + l - 1)) = l
    <2>1. o \in Int /\ o + l - 1 \in Int  OBVIOUS
    <2>2. Cardinality(o .. (o + l - 1)) = IF o > o + l - 1 THEN 0 ELSE (o + l - 1) - o + 1
      BY <2>1, FS_Interval
    <2> QED  BY <2>2
  <1>9. l <= Cardinality(W)
    <2> HIDE DEF g, W
    <2> QED  BY <1>6, <1>7, <1>8, FS_Surjection
  <1>10. W \in SUBSET all /\ IsFiniteSet(all)  BY FS_Subset
  <1>11. Cardinality(W) <= Cardinality(all) /\ Cardinality(all) \in Nat
    <2> HIDE DEF W
    <2> QED  BY <1>10, FS_Subset, FS_CardinalityType
  <1> QED  BY <1>7, <1>9, <1>11

-----------------------------------------------------------------------------
(* The order. *)

\* What the assumptions say of the numbers and columns.
LEMMA Numbers ==
    /\ Ids \subseteq Int /\ Stations \subseteq Int
    /\ Codes \subseteq Int /\ Times \subseteq Int
    /\ Times \cup {0} \subseteq Int /\ Stations \cup {0} \subseteq Int
  <1>1. Ids \subseteq Int  BY ListingAssumption
  <1>2. Stations \subseteq Int  BY ListingAssumption
  <1>3. Codes \subseteq Int  BY ListingAssumption
  <1>4. Times \subseteq Int  BY ListingAssumption
  <1>5. Times \cup {0} \subseteq Int  BY <1>4
  <1>6. Stations \cup {0} \subseteq Int  BY <1>2
  <1> QED  BY <1>1, <1>2, <1>3, <1>4, <1>5, <1>6

\* Every sort column holds numbers, NULL included.
LEMMA KeysAreNumbers ==
    ASSUME TypeOK, NEW q \in Query(table), NEW a \in Ids, rows[a] # None
    PROVE  FirstKey(q.sort, rows[a]) \in Int /\ SecondKey(rows[a]) \in Int
  <1>1. q.sort \in Sort(table)  BY DEF Query
  <1>2. CASE table = "package"
    <2>1. rows[a] \in PackageRow  BY <1>2 DEF TypeOK, Row
    <2>2. q.sort.field \in {"registeredAt", "storedAt", "retrievedAt", "station"}
      BY <1>1, <1>2 DEF Sort, SortFields
    <2>3. /\ rows[a].registeredAt \in Times /\ rows[a].storedAt \in Times \cup {0}
          /\ rows[a].retrievedAt \in Times \cup {0}
          /\ rows[a].station \in Stations \cup {0}
      BY <2>1 DEF PackageRow
    <2>4. rows[a].registeredAt \in Int  BY <2>3, Numbers
    <2>5. rows[a].storedAt \in Int  BY <2>3, Numbers
    <2>6. rows[a].retrievedAt \in Int  BY <2>3, Numbers
    <2>7. rows[a].station \in Int  BY <2>3, Numbers
    <2>8. rows[a][q.sort.field] \in Int  BY <2>2, <2>4, <2>5, <2>6, <2>7
    <2> QED  BY <1>2, <2>4, <2>8 DEF FirstKey, SecondKey
  <1>3. CASE table = "locker"
    <2>1. rows[a] \in LockerRow  BY <1>3 DEF TypeOK, Row
    <2>2. q.sort.field \in {"code", "station", "createdAt"}
      BY <1>1, <1>3 DEF Sort, SortFields
    <2>3. /\ rows[a].code \in Int /\ rows[a].station \in Int
          /\ rows[a].createdAt \in Int
      BY <2>1, Numbers DEF LockerRow
    <2>4. rows[a][q.sort.field] \in Int  BY <2>2, <2>3
    <2> QED  BY <1>3, <2>3, <2>4 DEF FirstKey, SecondKey
  <1> QED  BY <1>2, <1>3 DEF TypeOK, Tables

\* The rows of a listing, in an order without ties.
TotalOrder(q) ==
    \A a, b, c \in Matching(q) :
        /\ ~Ahead(q.sort, a, a)
        /\ a # b => Ahead(q.sort, a, b) \/ Ahead(q.sort, b, a)
        /\ Ahead(q.sort, a, b) => ~Ahead(q.sort, b, a)
        /\ Ahead(q.sort, a, b) /\ Ahead(q.sort, b, c) => Ahead(q.sort, a, c)

\* orderBy with its tiebreakers is a strict total order of the rows.
LEMMA OrderIsTotal ==
    ASSUME TypeOK, NEW q \in Query(table)
    PROVE  TotalOrder(q)
  <1> SUFFICES ASSUME NEW a \in Matching(q), NEW b \in Matching(q), NEW c \in Matching(q)
               PROVE  /\ ~Ahead(q.sort, a, a)
                      /\ a # b => Ahead(q.sort, a, b) \/ Ahead(q.sort, b, a)
                      /\ Ahead(q.sort, a, b) => ~Ahead(q.sort, b, a)
                      /\ Ahead(q.sort, a, b) /\ Ahead(q.sort, b, c) => Ahead(q.sort, a, c)
    BY DEF TotalOrder
  <1>1. /\ a \in Ids /\ b \in Ids /\ c \in Ids
        /\ rows[a] # None /\ rows[b] # None /\ rows[c] # None
    BY DEF Matching
  <1>2. a \in Int /\ b \in Int /\ c \in Int  BY <1>1, ListingAssumption
  <1>3. /\ FirstKey(q.sort, rows[a]) \in Int /\ SecondKey(rows[a]) \in Int
        /\ FirstKey(q.sort, rows[b]) \in Int /\ SecondKey(rows[b]) \in Int
        /\ FirstKey(q.sort, rows[c]) \in Int /\ SecondKey(rows[c]) \in Int
    BY <1>1, KeysAreNumbers
  <1> QED  BY <1>2, <1>3 DEF Ahead

\* The matching rows that come before a row.
Before(q, a) == {b \in Matching(q) : Ahead(q.sort, b, a)}
Place(q, a) == Cardinality(Before(q, a))

\* How the storage engine orders ties does not matter: there are none.
LEMMA RankIsPlace ==
    ASSUME TypeOK, NEW q \in Query(table), NEW tie \in TieOrders
    PROVE  \A a \in Matching(q) : Rank(q, tie, a) = Place(q, a)
  <1> SUFFICES ASSUME NEW a \in Matching(q)
               PROVE  {b \in Matching(q) : Precedes(q.sort, tie, b, a)} = Before(q, a)
    BY DEF Rank, Place
  <1>1. ASSUME NEW b \in Matching(q)
        PROVE  Precedes(q.sort, tie, b, a) <=> Ahead(q.sort, b, a)
    <2>1. CASE a = b
      <3>1. tie[a] \in Int  BY Numbers DEF TieOrders, Matching
      <3>2. ~(tie[b] < tie[a])  BY <2>1, <3>1
      <3> QED  BY <3>2 DEF Precedes
    <2>2. CASE a # b
      <3>1. Ahead(q.sort, a, b) \/ Ahead(q.sort, b, a)
        BY <2>2, OrderIsTotal DEF TotalOrder
      <3> QED  BY <3>1 DEF Precedes
    <2> QED  BY <2>1, <2>2
  <1> QED  BY <1>1 DEF Before

\* Places are counts.
LEMMA Places ==
    ASSUME TypeOK, NEW q
    PROVE  /\ IsFiniteSet(Matching(q))
           /\ Cardinality(Matching(q)) \in Nat
           /\ \A a : IsFiniteSet(Before(q, a)) /\ Place(q, a) \in Nat
  <1>1. Matching(q) \in SUBSET Ids /\ IsFiniteSet(Ids)
    BY ListingAssumption DEF Matching
  <1>2. IsFiniteSet(Matching(q))  BY <1>1, FS_Subset
  <1>3. \A a : Before(q, a) \in SUBSET Matching(q)  BY DEF Before
  <1>4. \A a : IsFiniteSet(Before(q, a))  BY <1>2, <1>3, FS_Subset
  <1> QED  BY <1>2, <1>4, FS_CardinalityType DEF Place

\* A page that is not full leaves nothing behind it.
LEMMA ShortPageIsLast ==
    ASSUME TypeOK, NEW q \in Query(table), NEW o \in Nat, NEW l \in Nat,
           NEW S \in SUBSET Matching(q), Cardinality(S) < l,
           \A a \in Matching(q) : Place(q, a) \in o .. (o + l - 1) => a \in S
    PROVE  \A z \in Matching(q) : Place(q, z) < o + l
  <1> DEFINE M == Matching(q)
             B == [a \in M |-> Before(q, a)]
  <1> SUFFICES ASSUME NEW z \in M, Place(q, z) >= o + l PROVE FALSE
    BY Places
  <1>1. IsFiniteSet(M) /\ B \in [M -> SUBSET M]  BY Places DEF Before
  <1>2. \A a \in M : B[a] = Before(q, a)  OBVIOUS
  <1>3. TotalOrder(q)  BY OrderIsTotal
  <1>4. /\ \A a \in M : a \notin B[a]
        /\ \A a, b \in M : a # b => a \in B[b] \/ b \in B[a]
        /\ \A a, b \in M : a \in B[b] => B[a] \subseteq B[b]
    BY <1>3 DEF TotalOrder, Before
  <1>5. \A a \in M : Cardinality(B[a]) \in o .. (o + l - 1) => a \in S
    BY DEF Place
  <1>6. Cardinality(B[z]) >= o + l  BY DEF Place
  <1>7. Cardinality(S) >= l
    <2> HIDE DEF M, B
    <2>1. S \in SUBSET M  BY DEF M
    <2> QED  BY <1>1, <1>4, <1>5, <1>6, <2>1, FullPage
  <1>8. Cardinality(S) \in Nat  BY <1>1, FS_Subset, FS_CardinalityType
  <1> QED  BY <1>7, <1>8

-----------------------------------------------------------------------------
(* The type invariant. *)

\* A request has a window of at least one row, and both queries before it.
LEMMA AskTypes ==
    ASSUME NEW q \in Query(table), NEW o \in Nat
    PROVE  ResolvePageRequest(q.limit, o) \in [limit : Nat \ {0}, offset : Nat]
  <1>1. q.limit = None \/ q.limit \in Int  BY DEF Query
  <1>2. DefaultLimit \in Nat \ {0}  BY ListingAssumption
  <1>3. MaxLimit \in Nat \ {0}  BY ListingAssumption
  <1> QED  BY <1>1, <1>2, <1>3 DEF ResolvePageRequest

\* A page starts where the last one ended.
LEMMA AskOffset ==
    ASSUME NEW q, NEW o \in Nat
    PROVE  ResolvePageRequest(q.limit, o).offset = o
  BY DEF ResolvePageRequest

\* What a client may ask for is a query of its table.
LEMMA RequestsAreQueries ==
    ASSUME table \in Tables PROVE Requests[table] \subseteq Query(table)
  BY ListingAssumption

\* The type invariant holds at the start.
LEMMA TypeInit ==
    ASSUME Init PROVE TypeOK
  <1>1. Window0 \in [limit : Nat \ {0}, offset : Nat]  BY DEF Window0
  <1> QED  BY <1>1 DEF Init, TypeOK

\* What a writer does to the types: it puts a row of the table in place.
LEMMA WriteTypes ==
    ASSUME TypeOK, NEW a \in Ids, NEW row \in Row[table], Write(a, row)
    PROVE  TypeOK'
  <1>1. rows' \in [Ids -> Row[table] \cup {None}]  BY DEF TypeOK, Write
  <1>2. (phase = "idle") \in BOOLEAN  OBVIOUS
  <1> QED  BY <1>1, <1>2 DEF TypeOK, Write, walkVars

\* The row every writer puts in place has the columns of the table; in the
\* package table, an existing row keeps its customer and its registration.
SameParcel(a, row) ==
    table = "package" /\ rows[a] # None =>
        row.customer = rows[a].customer /\ row.registeredAt = rows[a].registeredAt

\* Whatever a writer leaves is a row of the table.
LEMMA WritersWriteRows ==
    ASSUME TypeOK, Writers
    PROVE  \E a \in Ids : \E row \in Row[table] : Write(a, row) /\ SameParcel(a, row)
  <1> PICK a \in Ids :
        \/ \E c \in Customers, t \in Times : Register(a, c, t)
        \/ \E s \in Stations, t \in Times : Store(a, s, t)
        \/ \E t \in Times : Retrieve(a, t)
        \/ \E s \in Stations, c \in Codes, t \in Times : CreateLocker(a, s, c, t)
        \/ \E c \in Codes, st \in {"IN_SERVICE", "OUT_OF_SERVICE", "DECOMMISSIONED"} :
              EditLocker(a, c, st)
        \/ FillOrEmpty(a)
    BY DEF Writers
  <1>1. rows[a] # None => rows[a] \in Row[table]  BY DEF TypeOK
  <1>2. ASSUME NEW c \in Customers, NEW t \in Times, Register(a, c, t)
        PROVE  \E row \in Row[table] : Write(a, row) /\ SameParcel(a, row)
    <2> DEFINE row == [customer |-> c, status |-> "REGISTERED", registeredAt |-> t,
                       storedAt |-> 0, retrievedAt |-> 0, station |-> 0]
    <2>1. row \in Row[table]  BY <1>2 DEF Register, Row, PackageRow
    <2> QED  BY <1>2, <2>1 DEF Register, SameParcel
  <1>3. ASSUME NEW s \in Stations, NEW t \in Times, Store(a, s, t)
        PROVE  \E row \in Row[table] : Write(a, row) /\ SameParcel(a, row)
    <2> DEFINE row == [rows[a] EXCEPT !.status = "STORED", !.storedAt = t, !.station = s]
    <2>1. rows[a] \in PackageRow  BY <1>1, <1>3 DEF Store, Row
    <2>2. /\ row \in PackageRow
          /\ row.customer = rows[a].customer /\ row.registeredAt = rows[a].registeredAt
      BY <2>1 DEF PackageRow
    <2>3. Write(a, row) /\ table = "package"  BY <1>3 DEF Store
    <2>4. row \in Row[table] /\ SameParcel(a, row)  BY <2>2, <2>3 DEF Row, SameParcel
    <2> QED  BY <2>3, <2>4
  <1>4. ASSUME NEW t \in Times, Retrieve(a, t)
        PROVE  \E row \in Row[table] : Write(a, row) /\ SameParcel(a, row)
    <2> DEFINE row == [rows[a] EXCEPT !.status = "RETRIEVED", !.retrievedAt = t]
    <2>1. rows[a] \in PackageRow  BY <1>1, <1>4 DEF Retrieve, Row
    <2>2. /\ row \in PackageRow
          /\ row.customer = rows[a].customer /\ row.registeredAt = rows[a].registeredAt
      BY <2>1 DEF PackageRow
    <2>3. Write(a, row) /\ table = "package"  BY <1>4 DEF Retrieve
    <2>4. row \in Row[table] /\ SameParcel(a, row)  BY <2>2, <2>3 DEF Row, SameParcel
    <2> QED  BY <2>3, <2>4
  <1>5. ASSUME NEW s \in Stations, NEW c \in Codes, NEW t \in Times, CreateLocker(a, s, c, t)
        PROVE  \E row \in Row[table] : Write(a, row) /\ SameParcel(a, row)
    <2> DEFINE row == [station |-> s, code |-> c, createdAt |-> t,
                       status |-> "IN_SERVICE", occupied |-> FALSE]
    <2>1. row \in Row[table]  BY <1>5 DEF CreateLocker, Row, LockerRow
    <2> QED  BY <1>5, <2>1 DEF CreateLocker, SameParcel
  <1>6. ASSUME NEW c \in Codes, NEW st \in {"IN_SERVICE", "OUT_OF_SERVICE", "DECOMMISSIONED"},
               EditLocker(a, c, st)
        PROVE  \E row \in Row[table] : Write(a, row) /\ SameParcel(a, row)
    <2> DEFINE row == [rows[a] EXCEPT !.code = c, !.status = st]
    <2>1. rows[a] \in LockerRow  BY <1>1, <1>6 DEF EditLocker, Row
    <2>2. row \in LockerRow  BY <2>1 DEF LockerRow
    <2>3. Write(a, row) /\ table = "locker"  BY <1>6 DEF EditLocker
    <2>4. row \in Row[table] /\ SameParcel(a, row)  BY <2>2, <2>3 DEF Row, SameParcel
    <2> QED  BY <2>3, <2>4
  <1>7. ASSUME FillOrEmpty(a)
        PROVE  \E row \in Row[table] : Write(a, row) /\ SameParcel(a, row)
    <2> DEFINE row == [rows[a] EXCEPT !.occupied = ~@]
    <2>1. rows[a] \in LockerRow  BY <1>1, <1>7 DEF FillOrEmpty, Row
    <2>2. row \in LockerRow
      <3>1. (~rows[a].occupied) \in BOOLEAN  OBVIOUS
      <3> QED  BY <2>1, <3>1 DEF LockerRow
    <2>3. Write(a, row) /\ table = "locker"  BY <1>7 DEF FillOrEmpty
    <2>4. row \in Row[table] /\ SameParcel(a, row)  BY <2>2, <2>3 DEF Row, SameParcel
    <2> QED  BY <2>3, <2>4
  <1> QED  BY <1>2, <1>3, <1>4, <1>5, <1>6, <1>7

\* Every step keeps the type invariant.
LEMMA TypeStep ==
    ASSUME TypeOK, [Next]_vars PROVE TypeOK'
  <1>1. ASSUME NEW q \in Requests[table], StartWalk(q) PROVE TypeOK'
    <2>1. q \in Query(table)  BY RequestsAreQueries DEF TypeOK
    <2>2. page' \in [limit : Nat \ {0}, offset : Nat]
      BY <1>1, <2>1, AskTypes DEF StartWalk, Ask
    <2>3. Matching(q) \in SUBSET Ids  BY DEF Matching
    <2> QED  BY <1>1, <2>1, <2>2, <2>3 DEF TypeOK, StartWalk, Ask
  <1>2. ASSUME CountTotal PROVE TypeOK'
    <2>1. Cardinality(Matching(query)) \in Nat  BY Places
    <2> QED  BY <1>2, <2>1 DEF TypeOK, CountTotal
  <1>3. ASSUME NEW tie \in TieOrders, SelectPage(tie) PROVE TypeOK'
    <2>1. Window(query, tie, page) \in SUBSET Ids  BY DEF Window, Matching
    <2> QED  BY <1>3, <2>1 DEF TypeOK, SelectPage
  <1>4. ASSUME Answer PROVE TypeOK'
    <2> DEFINE answer == ToPage(items, total, page)
    <2>1. /\ answer.items = items /\ answer.limit = page.limit
          /\ answer.offset = page.offset
      BY DEF ToPage
    <2>2. seen' \in SUBSET Ids /\ repeated' \in SUBSET Ids
      BY <1>4, <2>1 DEF TypeOK, Answer
    <2>3. page.limit \in Nat /\ page.offset \in Nat  BY DEF TypeOK
    <2>4. CASE UNCHANGED <<page, pending, items>> /\ phase' = "done"
      BY <1>4, <2>2, <2>4 DEF TypeOK, Answer
    <2>5. CASE Ask(query, answer.offset + answer.limit) /\ UNCHANGED phase
      <3>1. query \in Query(table)  BY <1>4 DEF TypeOK, Answer
      <3>2. page' \in [limit : Nat \ {0}, offset : Nat]
        BY <2>1, <2>3, <2>5, <3>1, AskTypes DEF Ask
      <3> QED  BY <1>4, <2>2, <2>5, <3>1, <3>2 DEF TypeOK, Answer, Ask
    <2> QED  BY <1>4, <2>4, <2>5 DEF Answer
  <1>5. ASSUME Writers PROVE TypeOK'
    BY <1>5, WritersWriteRows, WriteTypes
  <1>6. ASSUME UNCHANGED vars PROVE TypeOK'
    BY <1>6 DEF TypeOK, vars, walkVars
  <1> QED  BY <1>1, <1>2, <1>3, <1>4, <1>5, <1>6 DEF Next, WalkStep

\* TypeOK is an invariant: rows, windows and answers stay within their types.
THEOREM TypeCorrect == Spec => []TypeOK
  <1> QED  BY TypeInit, TypeStep, PTL DEF Spec

-----------------------------------------------------------------------------
(* The walk. *)

\* While only settled columns matter: what is not seen yet lies ahead.
CoverInv ==
    /\ old \subseteq Matching(query)
    /\ "page" \in pending => \A a \in old \ seen : Place(query, a) >= page.offset
    /\ "page" \notin pending =>
        /\ \A a \in old \ (seen \cup items) : Place(query, a) >= page.offset + page.limit
        /\ Cardinality(items) < page.limit => old \subseteq seen \cup items

\* While nothing is written: the pages so far are the first places, once each.
ExactInv ==
    /\ old = Matching(query) /\ repeated = {}
    /\ \A a \in Ids : a \in seen <=> a \in old /\ Place(query, a) < page.offset
    /\ "page" \notin pending =>
        \A a \in Ids : a \in items <=>
            a \in old /\ Place(query, a) \in page.offset .. (page.offset + page.limit - 1)
    /\ "count" \notin pending => total = Cardinality(old)

WalkInv ==
    /\ phase = "idle" => seen = {} /\ repeated = {}
    /\ phase # "asking" => pending = {}
    /\ phase = "asking" /\ Settled(query) => CoverInv
    /\ phase = "asking" /\ quiet => ExactInv
    /\ NothingVanishes
    /\ QuietWalkIsExact

\* Places depend on the rows and the query only.
LEMMA SamePlaces ==
    ASSUME NEW q, UNCHANGED <<table, rows>>, query' = q
    PROVE  /\ Matching(query)' = Matching(q)
           /\ \A a : Place(query, a)' = Place(q, a)
           /\ Settled(query)' <=> Settled(q)
  <1>1. Matching(query)' = Matching(q)
    BY DEF Matching, Matches, MatchesPackage, MatchesLocker
  <1>2. \A a, b : Ahead(query.sort, b, a)' <=> Ahead(q.sort, b, a)
    BY DEF Ahead, FirstKey, SecondKey
  <1>3. \A a : Before(query, a)' = Before(q, a)  BY <1>1, <1>2 DEF Before
  <1> QED  BY <1>1, <1>3 DEF Place, Settled

\* Behind a settled query, a write only adds rows, and moves none of the others
\* forward.
LEMMA WriteGrows ==
    ASSUME TypeOK, query \in Query(table), Settled(query),
           NEW a \in Ids, NEW row \in Row[table], Write(a, row), SameParcel(a, row)
    PROVE  /\ Settled(query)'
           /\ Matching(query) \subseteq Matching(query)'
           /\ \A x \in Matching(query) : Place(query, x)' >= Place(query, x)
  <1>1. /\ table' = table /\ query' = query
        /\ rows' = [rows EXCEPT ![a] = row] /\ rows \in [Ids -> Row[table] \cup {None}]
    BY DEF Write, walkVars, TypeOK
  <1>2. /\ table = "package" /\ query.sort.field = "registeredAt"
        /\ query.filter.status = None /\ query.filter.station = None
    BY DEF Settled
  <1>3. row # None
    <2>1. row \in PackageRow  BY <1>2 DEF Row
    <2> QED  BY <2>1, ListingAssumption
  <1>4. \A x \in Ids : rows[x] # None =>
            /\ rows'[x] # None /\ rows'[x].customer = rows[x].customer
            /\ rows'[x].registeredAt = rows[x].registeredAt
    BY <1>1, <1>2, <1>3 DEF SameParcel
  <1>5. Matching(query) \subseteq Matching(query)'
    BY <1>1, <1>2, <1>4 DEF Matching, Matches, MatchesPackage
  <1>6. ASSUME NEW x \in Matching(query), NEW y \in Matching(query), Ahead(query.sort, y, x)
        PROVE  Ahead(query.sort, y, x)'
    <2>1. x \in Ids /\ y \in Ids /\ rows[x] # None /\ rows[y] # None  BY DEF Matching
    <2>2. /\ rows'[x].registeredAt = rows[x].registeredAt
          /\ rows'[y].registeredAt = rows[y].registeredAt
      BY <1>4, <2>1
    <2> QED  BY <1>1, <1>2, <1>6, <2>2 DEF Ahead, FirstKey, SecondKey
  <1>7. ASSUME NEW x \in Matching(query) PROVE Place(query, x)' >= Place(query, x)
    <2>1. Before(query, x) \in SUBSET Before(query, x)'  BY <1>5, <1>6 DEF Before
    <2>2. Before(query, x)' \in SUBSET Ids  BY DEF Before, Matching
    <2>3. IsFiniteSet(Before(query, x)')  BY <2>2, ListingAssumption, FS_Subset
    <2>4. /\ Cardinality(Before(query, x)') \in Nat /\ Cardinality(Before(query, x)) \in Nat
          /\ Cardinality(Before(query, x)) <= Cardinality(Before(query, x)')
      BY <2>1, <2>3, FS_Subset, FS_CardinalityType
    <2> QED  BY <2>4 DEF Place
  <1>8. Settled(query)'  BY <1>1, <1>2 DEF Settled
  <1> QED  BY <1>5, <1>7, <1>8

\* The walk's invariant holds at the start.
LEMMA WalkInit ==
    ASSUME Init PROVE WalkInv
  BY DEF Init, WalkInv, NothingVanishes, QuietWalkIsExact

\* The first request of a walk keeps its invariant.
LEMMA StartKeepsWalkInv ==
    ASSUME TypeOK, WalkInv, NEW q \in Requests[table], StartWalk(q)
    PROVE  WalkInv'
  <1>1. /\ Matching(query)' = Matching(q)
        /\ \A a : Place(query, a)' = Place(q, a)
    BY SamePlaces DEF StartWalk
  <1>2. \A a : Place(query, a)' \in Nat  BY <1>1, Places
  <1>3. page'.offset = 0  BY AskOffset DEF StartWalk, Ask
  <1>4. /\ phase' = "asking" /\ old' = Matching(q) /\ pending' = {"count", "page"}
        /\ seen' = {} /\ repeated' = {}
    BY DEF StartWalk, Ask, WalkInv
  <1>5. CoverInv'  BY <1>1, <1>2, <1>3, <1>4 DEF CoverInv
  <1>6. ExactInv'  BY <1>1, <1>2, <1>3, <1>4 DEF ExactInv
  <1> QED  BY <1>4, <1>5, <1>6 DEF WalkInv, NothingVanishes, QuietWalkIsExact

\* The COUNT keeps the walk's invariant.
LEMMA CountKeepsWalkInv ==
    ASSUME TypeOK, WalkInv, CountTotal
    PROVE  WalkInv'
  <1>1. UNCHANGED <<table, rows, phase, query, page, items, old, seen, repeated, quiet>>
    BY DEF CountTotal
  <1>2. /\ Matching(query)' = Matching(query)
        /\ \A a : Place(query, a)' = Place(query, a)
        /\ Settled(query)' <=> Settled(query)
    BY <1>1, SamePlaces
  <1>3. phase = "asking"  BY DEF WalkInv, CountTotal
  <1>4. /\ "page" \in pending' <=> "page" \in pending
        /\ total' = Cardinality(Matching(query))
    BY DEF CountTotal
  <1>5. CoverInv => CoverInv'  BY <1>1, <1>2, <1>4 DEF CoverInv
  <1>6. ExactInv => ExactInv'  BY <1>1, <1>2, <1>4 DEF ExactInv
  <1> QED  BY <1>1, <1>2, <1>3, <1>5, <1>6 DEF WalkInv, NothingVanishes, QuietWalkIsExact

\* The query of the window keeps the walk's invariant.
LEMMA SelectKeepsWalkInv ==
    ASSUME TypeOK, WalkInv, NEW tie \in TieOrders, SelectPage(tie)
    PROVE  WalkInv'
  <1>1. UNCHANGED <<table, rows, phase, query, page, total, old, seen, repeated, quiet>>
    BY DEF SelectPage
  <1>2. /\ Matching(query)' = Matching(query)
        /\ \A a : Place(query, a)' = Place(query, a)
        /\ Settled(query)' <=> Settled(query)
    BY <1>1, SamePlaces
  <1>3. phase = "asking" /\ "page" \in pending  BY DEF WalkInv, SelectPage
  <1>4. query \in Query(table) /\ page.offset \in Nat /\ page.limit \in Nat
    BY <1>3 DEF TypeOK
  <1>5. /\ "page" \notin pending'
        /\ "count" \in pending' <=> "count" \in pending
    BY DEF SelectPage
  <1>6. \A a : a \in items' <=>
            /\ a \in Matching(query)
            /\ Place(query, a) \in page.offset .. (page.offset + page.limit - 1)
    BY <1>4, RankIsPlace DEF SelectPage, Window
  <1>7. \A a : Place(query, a) \in Nat  BY Places
  <1>8. ASSUME CoverInv PROVE CoverInv'
    <2>1. \A a \in old \ (seen \cup items') : Place(query, a) >= page.offset + page.limit
      BY <1>3, <1>4, <1>6, <1>7, <1>8 DEF CoverInv
    <2>2. ASSUME Cardinality(items') < page.limit PROVE old \subseteq seen \cup items'
      <3>1. items' \in SUBSET Matching(query)  BY <1>6
      <3>2. \A z \in Matching(query) : Place(query, z) < page.offset + page.limit
        BY <1>4, <1>6, <2>2, <3>1, ShortPageIsLast
      <3> QED  BY <1>4, <1>7, <1>8, <2>1, <3>2 DEF CoverInv
    <2> QED  BY <1>1, <1>2, <1>5, <1>8, <2>1, <2>2 DEF CoverInv
  <1>9. ASSUME ExactInv PROVE ExactInv'
    BY <1>1, <1>2, <1>5, <1>6, <1>9 DEF ExactInv
  <1> QED  BY <1>1, <1>2, <1>3, <1>8, <1>9 DEF WalkInv, NothingVanishes, QuietWalkIsExact

\* An answer, and the request that may follow it, keep the walk's invariant.
LEMMA AnswerKeepsWalkInv ==
    ASSUME TypeOK, WalkInv, Answer
    PROVE  WalkInv'
  <1> DEFINE answer == ToPage(items, total, page)
  <1>1. /\ UNCHANGED <<table, rows, query, total, old, quiet>>
        /\ phase = "asking" /\ pending = {}
    BY DEF Answer
  <1>2. /\ Matching(query)' = Matching(query)
        /\ \A a : Place(query, a)' = Place(query, a)
        /\ Settled(query)' <=> Settled(query)
    BY <1>1, SamePlaces
  <1>3. answer.items = items /\ answer.limit = page.limit /\ answer.offset = page.offset
    BY DEF ToPage
  <1>4. seen' = seen \cup items /\ repeated' = repeated \cup (seen \cap items)
    BY <1>3 DEF Answer
  <1>5. /\ query \in Query(table) /\ page.offset \in Nat /\ page.limit \in Nat
        /\ items \in SUBSET Ids /\ seen \in SUBSET Ids /\ old \in SUBSET Ids
    BY <1>1 DEF TypeOK
  <1>6. \A a : Place(query, a) \in Nat  BY Places
  <1>7. ASSUME ExactInv
        PROVE  /\ repeated' = {}
               /\ \A a \in Ids : a \in seen' <=>
                      a \in old /\ Place(query, a) < page.offset + page.limit
    BY <1>1, <1>4, <1>5, <1>6, <1>7 DEF ExactInv
  <1>8. CASE Cardinality(items) < page.limit /\ phase' = "done"
             /\ UNCHANGED <<page, pending, items>>
    <2>1. ASSUME ExactInv PROVE seen' = old
      <3>1. items \in SUBSET Matching(query)  BY <1>1, <1>5, <2>1 DEF ExactInv
      <3>2. \A a \in Matching(query) :
                Place(query, a) \in page.offset .. (page.offset + page.limit - 1) => a \in items
        BY <1>1, <2>1 DEF ExactInv, Matching
      <3>3. \A z \in Matching(query) : Place(query, z) < page.offset + page.limit
        BY <1>5, <1>8, <3>1, <3>2, ShortPageIsLast
      <3>4. seen' \in SUBSET Ids  BY <1>4, <1>5
      <3> QED  BY <1>5, <1>7, <2>1, <3>3, <3>4 DEF ExactInv
    <2>2. NothingVanishes'
      BY <1>1, <1>2, <1>4, <1>8 DEF WalkInv, CoverInv, NothingVanishes
    <2>3. QuietWalkIsExact'
      BY <1>1, <1>7, <2>1 DEF WalkInv, ExactInv, QuietWalkIsExact
    <2> QED  BY <1>1, <1>8, <2>2, <2>3 DEF WalkInv
  <1>9. CASE Ask(query, answer.offset + answer.limit) /\ UNCHANGED phase
    <2>1. page'.offset = page.offset + page.limit
      <3>1. answer.offset + answer.limit = page.offset + page.limit  BY <1>3
      <3>2. page' = ResolvePageRequest(query.limit, answer.offset + answer.limit)
        BY <1>9 DEF Ask
      <3>3. page.offset + page.limit \in Nat  BY <1>5
      <3> HIDE DEF answer
      <3> QED  BY <3>1, <3>2, <3>3, AskOffset
    <2>2. pending' = {"count", "page"}  BY <1>9 DEF Ask
    <2>3. CoverInv => CoverInv'
      BY <1>1, <1>2, <1>4, <2>1, <2>2 DEF CoverInv
    <2>4. ExactInv => ExactInv'
      BY <1>1, <1>2, <1>7, <2>1, <2>2 DEF ExactInv
    <2> QED  BY <1>1, <1>2, <1>9, <2>3, <2>4 DEF WalkInv, NothingVanishes, QuietWalkIsExact
  <1> QED  BY <1>3, <1>8, <1>9 DEF Answer

\* The writers keep the walk's invariant.
LEMMA WritersKeepWalkInv ==
    ASSUME TypeOK, WalkInv, Writers
    PROVE  WalkInv'
  <1>1. PICK a \in Ids : \E row \in Row[table] : Write(a, row) /\ SameParcel(a, row)
    BY WritersWriteRows
  <1>2. PICK row \in Row[table] : Write(a, row) /\ SameParcel(a, row)  BY <1>1
  <1>3. /\ UNCHANGED <<table, phase, query, page, pending, items, total, old, seen, repeated>>
        /\ phase # "done" /\ quiet' = (phase = "idle")
    BY <1>2 DEF Write, walkVars
  <1>4. ASSUME phase = "asking", Settled(query)' PROVE CoverInv'
    <2>1. Settled(query)  BY <1>3, <1>4 DEF Settled
    <2>2. query \in Query(table) /\ page.offset \in Nat /\ page.limit \in Nat
      BY <1>4 DEF TypeOK
    <2>3. /\ Matching(query) \subseteq Matching(query)'
          /\ \A x \in Matching(query) : Place(query, x)' >= Place(query, x)
      BY <1>2, <2>1, <2>2, WriteGrows
    <2>4. CoverInv  BY <1>4, <2>1 DEF WalkInv
    <2>5. \A x \in Matching(query) : Place(query, x) \in Nat  BY Places
    <2>6. \A x \in Matching(query) : Place(query, x)' \in Nat
      <3>1. \A x : Before(query, x)' \in SUBSET Ids  BY DEF Before, Matching
      <3> QED  BY <3>1, ListingAssumption, FS_Subset, FS_CardinalityType DEF Place
    <2>7. \A x \in old, n \in Nat : Place(query, x) >= n => Place(query, x)' >= n
      BY <2>3, <2>4, <2>5, <2>6 DEF CoverInv
    <2>8. page.offset + page.limit \in Nat  BY <2>2
    <2>9. old' \subseteq Matching(query)'  BY <1>3, <2>3, <2>4 DEF CoverInv
    <2> QED  BY <1>3, <2>2, <2>4, <2>7, <2>8, <2>9 DEF CoverInv
  <1> QED  BY <1>3, <1>4 DEF WalkInv, NothingVanishes, QuietWalkIsExact

\* Every step keeps the walk's invariant.
LEMMA WalkStepKeeps ==
    ASSUME TypeOK, WalkInv, [Next]_vars
    PROVE  WalkInv'
  <1>1. ASSUME UNCHANGED vars PROVE WalkInv'
    <2>1. UNCHANGED <<table, rows, phase, query, page, pending, items, total, old,
                      seen, repeated, quiet>>
      BY <1>1 DEF vars, walkVars
    <2>2. /\ Matching(query)' = Matching(query)
          /\ \A a : Place(query, a)' = Place(query, a)
          /\ Settled(query)' <=> Settled(query)
      BY <2>1, SamePlaces
    <2>3. CoverInv => CoverInv'  BY <2>1, <2>2 DEF CoverInv
    <2>4. ExactInv => ExactInv'  BY <2>1, <2>2 DEF ExactInv
    <2> QED  BY <2>1, <2>2, <2>3, <2>4 DEF WalkInv, NothingVanishes, QuietWalkIsExact
  <1> QED
    BY <1>1, StartKeepsWalkInv, CountKeepsWalkInv, SelectKeepsWalkInv,
       AnswerKeepsWalkInv, WritersKeepWalkInv DEF Next, WalkStep

\* In every state the pages so far cover what the walk has passed: exactly when
\* nothing was written, and without a gap when the query is settled.
THEOREM WalkInvariance == Spec => [](TypeOK /\ WalkInv)
  <1> QED  BY TypeInit, TypeStep, WalkInit, WalkStepKeeps, PTL DEF Spec

\* QuietWalkIsExact for any number of rows, any page size and any tie-breaking
\* of the database: both ORDER BYs leave no tie, so the pages of a listing nobody
\* writes to show every row once.
THEOREM QuietWalkIsExactHolds == Spec => []QuietWalkIsExact
  <1>1. WalkInv => QuietWalkIsExact  BY DEF WalkInv
  <1> QED  BY <1>1, WalkInvariance, PTL

\* NothingVanishes for any number of writers between two pages: a row that is
\* not seen yet never moves to a place before the next page.
THEOREM NothingVanishesHolds == Spec => []NothingVanishes
  <1>1. WalkInv => NothingVanishes  BY DEF WalkInv
  <1> QED  BY <1>1, WalkInvariance, PTL
=============================================================================
