------------------------------ MODULE Listing ------------------------------
(***************************************************************************)
(* The paged listings (GET /packages, GET /packages/mine, GET /lockers): a *)
(* client walks through all pages of one query while others write to the   *)
(* table.  Every page is two queries on two pool connections, the COUNT    *)
(* and the window, which run in either order and see different moments.    *)
(* MySQL is free to return rows that tie in the ORDER BY in any order, a   *)
(* new one for every query.  The client goes on until a page comes back    *)
(* short; it advances by the limit the answer names.                       *)
(***************************************************************************)
EXTENDS Integers, FiniteSets

CONSTANTS
    Ids,          \* primary keys, ordered as the database orders them
    Customers, Stations, Codes, Times,   \* column values, ordered; 0 is NULL
    Requests,     \* the queries a client may walk through, by table, with the limit the
                  \* service is called with: the DTO's bounds hold for HTTP callers only
    DefaultLimit, \* DEFAULT_PAGE_LIMIT
    MaxLimit,     \* MAX_PAGE_LIMIT
    MaxWrites,    \* bound: how many rows of each table are written before and during the walk
    None          \* no row; a parameter that is left out

Tables == {"package", "locker"}
SortFields ==
    [package |-> {"registeredAt", "storedAt", "retrievedAt", "station"},
     locker |-> {"code", "station", "createdAt"}]

PackageRow ==
    [customer : Customers, status : {"REGISTERED", "STORED", "RETRIEVED"},
     registeredAt : Times, storedAt : Times \cup {0}, retrievedAt : Times \cup {0},
     station : Stations \cup {0}]
LockerRow ==
    [station : Stations, code : Codes, createdAt : Times,
     status : {"IN_SERVICE", "OUT_OF_SERVICE", "DECOMMISSIONED"}, occupied : BOOLEAN]
Row == [package |-> PackageRow, locker |-> LockerRow]

(* A query: WHERE, ORDER BY and the limit the client asks for. *)
PackageFilter ==
    [customer : Customers \cup {None}, station : Stations \cup {None},
     status : {"REGISTERED", "STORED", "RETRIEVED", None}]
LockerFilter ==
    [station : Stations \cup {None}, availability : {"FREE", "OCCUPIED", None},
     status : {"IN_SERVICE", "OUT_OF_SERVICE", "DECOMMISSIONED", None},
     includeDecommissioned : BOOLEAN]
Filter == [package |-> PackageFilter, locker |-> LockerFilter]
Sort(t) == [field : SortFields[t], direction : {"asc", "desc"}]
Query(t) == [filter : Filter[t], sort : Sort(t), limit : Int \cup {None}]

ASSUME ListingAssumption ==
    /\ IsFiniteSet(Ids) /\ Ids \subseteq Nat
    /\ Customers \subseteq Nat /\ Stations \subseteq Nat \ {0}
    /\ Codes \subseteq Nat \ {0} /\ Times \subseteq Nat \ {0}
    /\ DefaultLimit \in Nat \ {0} /\ MaxLimit \in Nat \ {0} /\ MaxWrites \in [Tables -> Nat]
    /\ None \notin Int
    /\ None \notin PackageRow \cup LockerRow
    /\ \A t \in Tables : Requests[t] \subseteq Query(t)

VARIABLES
    table,      \* the table that is listed
    rows,       \* its rows
    phase,      \* the client: "idle" before, "asking" during, "done" after its walk
    query,      \* what it asks for
    page,       \* the window of the request in flight, as resolvePageRequest has it
    pending,    \* the queries of that request that have not run
    items,      \* the ids its window query returned
    total,      \* what its COUNT returned
    old,        \* history: ids that matched when the walk began
    seen,       \* ids on the pages so far
    repeated,   \* history: ids that were on two pages
    quiet,      \* history: nothing was written since the walk began
    writes      \* how many rows were written

walkVars == <<phase, query, page, pending, items, total, old, seen, repeated>>
vars == <<table, rows, walkVars, quiet, writes>>

-----------------------------------------------------------------------------
(* The two listing queries. *)

MatchesPackage(f, r) ==
    /\ f.customer = None \/ r.customer = f.customer
    /\ f.status = None \/ r.status = f.status
    /\ f.station = None \/ r.station = f.station

\* Retired lockers are hidden unless asked for by the flag or by a status.
MatchesLocker(f, r) ==
    /\ f.station = None \/ r.station = f.station
    /\ f.status = None \/ r.status = f.status
    /\ \/ f.availability = None
       \/ f.availability = "FREE" /\ ~r.occupied
       \/ f.availability = "OCCUPIED" /\ r.occupied
    /\ f.includeDecommissioned \/ f.status # None \/ r.status # "DECOMMISSIONED"

Matches(f, r) ==
    IF table = "package" THEN MatchesPackage(f, r) ELSE MatchesLocker(f, r)

\* The rows of COUNT(*), which are the rows the window is taken from.
Matching(q) == {a \in Ids : rows[a] # None /\ Matches(q.filter, rows[a])}

\* The chosen column; NULL is below every value.
FirstKey(s, r) == IF s.direction = "desc" THEN -r[s.field] ELSE r[s.field]

\* The tiebreaker: p.created_at DESC, or l.code ASC.
SecondKey(r) == IF table = "package" THEN -r.registeredAt ELSE r.code

\* Mutant: the id is missing from the ORDER BY.
AheadWithoutId(s, a, b) ==
    \/ FirstKey(s, rows[a]) < FirstKey(s, rows[b])
    \/ /\ FirstKey(s, rows[a]) = FirstKey(s, rows[b])
       /\ SecondKey(rows[a]) < SecondKey(rows[b])

\* orderBy of both repositories.
Ahead(s, a, b) ==
    \/ FirstKey(s, rows[a]) < FirstKey(s, rows[b])
    \/ /\ FirstKey(s, rows[a]) = FirstKey(s, rows[b])
       /\ \/ SecondKey(rows[a]) < SecondKey(rows[b])
          \/ SecondKey(rows[a]) = SecondKey(rows[b]) /\ a < b

\* Rows the ORDER BY does not tell apart come as the storage engine meets them.
TieOrders == {f \in [Ids -> Ids] : \A a, b \in Ids : f[a] = f[b] => a = b}
Precedes(s, tie, a, b) ==
    Ahead(s, a, b) \/ (~Ahead(s, b, a) /\ tie[a] < tie[b])

\* How many matching rows come before a row.
Rank(q, tie, a) == Cardinality({b \in Matching(q) : Precedes(q.sort, tie, b, a)})

Window(q, tie, p) ==
    {a \in Matching(q) : Rank(q, tie, a) \in p.offset .. (p.offset + p.limit - 1)}

\* Mutant: the limit is capped but not raised to one.
ResolvePageRequestNoFloor(limit, offset) ==
    LET whole == IF limit = None THEN DefaultLimit ELSE limit
    IN  [limit |-> IF whole > MaxLimit THEN MaxLimit ELSE whole,
         offset |-> IF offset < 0 THEN 0 ELSE offset]

ResolvePageRequest(limit, offset) ==
    LET whole == IF limit = None THEN DefaultLimit ELSE limit
        floored == IF whole < 1 THEN 1 ELSE whole
    IN  [limit |-> IF floored > MaxLimit THEN MaxLimit ELSE floored,
         offset |-> IF offset < 0 THEN 0 ELSE offset]

\* Mutant: the answer repeats the limit that was asked for.
ToPageEchoes(found, count, p) ==
    [items |-> found, total |-> count, offset |-> p.offset,
     limit |-> IF query.limit = None THEN DefaultLimit ELSE query.limit]

\* toPage: the answer names the window that was used.
ToPage(found, count, p) ==
    [items |-> found, total |-> count, offset |-> p.offset, limit |-> p.limit]

-----------------------------------------------------------------------------
(* The type invariant, and the start. *)

Window0 == [limit |-> 1, offset |-> 0]

\* The type invariant.
TypeOK ==
    /\ table \in Tables
    /\ rows \in [Ids -> Row[table] \cup {None}]
    /\ phase \in {"idle", "asking", "done"}
    /\ query \in Query(table) \cup {None}
    /\ phase # "idle" => query \in Query(table)
    /\ page \in [limit : Nat \ {0}, offset : Nat]
    /\ pending \in SUBSET {"count", "page"}
    /\ items \in SUBSET Ids /\ old \in SUBSET Ids
    /\ seen \in SUBSET Ids /\ repeated \in SUBSET Ids
    /\ total \in Nat
    /\ quiet \in BOOLEAN /\ writes \in Nat

Init ==
    /\ table \in Tables
    /\ rows = [a \in Ids |-> None]
    /\ phase = "idle" /\ query = None /\ page = Window0
    /\ pending = {} /\ items = {} /\ total = 0
    /\ old = {} /\ seen = {} /\ repeated = {}
    /\ quiet = TRUE /\ writes = 0

-----------------------------------------------------------------------------
(* The walk. *)

\* list of a repository: both queries are sent at once.
Ask(q, offset) ==
    /\ page' = ResolvePageRequest(q.limit, offset)
    /\ pending' = {"count", "page"}
    /\ items' = {}

\* GET /packages, /packages/mine or /lockers for the first page.
StartWalk(q) ==
    /\ phase = "idle"
    /\ phase' = "asking"
    /\ query' = q
    /\ old' = Matching(q)
    /\ Ask(q, 0)
    /\ UNCHANGED <<table, rows, total, seen, repeated, quiet, writes>>

\* SELECT COUNT(*) on one connection.
CountTotal ==
    /\ "count" \in pending
    /\ total' = Cardinality(Matching(query))
    /\ pending' = pending \ {"count"}
    /\ UNCHANGED <<table, rows, phase, query, page, items, old, seen, repeated, quiet, writes>>

\* SELECT ... ORDER BY ... LIMIT ... OFFSET on another.
SelectPage(tie) ==
    /\ "page" \in pending
    /\ items' = Window(query, tie, page)
    /\ pending' = pending \ {"page"}
    /\ UNCHANGED <<table, rows, phase, query, page, total, old, seen, repeated, quiet, writes>>

\* Both have returned.  A short page is the last, after a full one the client
\* asks for the next.
Answer ==
    LET answer == ToPage(items, total, page) IN
    /\ phase = "asking" /\ pending = {}
    /\ seen' = seen \cup answer.items
    /\ repeated' = repeated \cup (seen \cap answer.items)
    /\ \/ /\ Cardinality(answer.items) < answer.limit
          /\ phase' = "done"
          /\ UNCHANGED <<page, pending, items>>
       \/ /\ Cardinality(answer.items) >= answer.limit
          /\ Ask(query, answer.offset + answer.limit)
          /\ UNCHANGED phase
    /\ UNCHANGED <<table, rows, query, total, old, quiet, writes>>

-----------------------------------------------------------------------------
(* The writers: everything that changes a column a listing reads. *)

\* What happens after the walk is of no interest.
Write(a, row) ==
    /\ phase # "done" /\ writes < MaxWrites[table]
    /\ writes' = writes + 1
    /\ rows' = [rows EXCEPT ![a] = row]
    /\ quiet' = (phase = "idle")
    /\ UNCHANGED <<table, walkVars>>

\* The clock is read before the INSERT, so rows may appear out of order.
Register(a, c, t) ==
    /\ table = "package" /\ rows[a] = None
    /\ Write(a, [customer |-> c, status |-> "REGISTERED", registeredAt |-> t,
                 storedAt |-> 0, retrievedAt |-> 0, station |-> 0])

Store(a, s, t) ==
    /\ table = "package" /\ rows[a] # None /\ rows[a].status = "REGISTERED"
    /\ Write(a, [rows[a] EXCEPT !.status = "STORED", !.storedAt = t, !.station = s])

Retrieve(a, t) ==
    /\ table = "package" /\ rows[a] # None /\ rows[a].status = "STORED"
    /\ t >= rows[a].storedAt
    /\ Write(a, [rows[a] EXCEPT !.status = "RETRIEVED", !.retrievedAt = t])

\* uq_locker_code_per_station.
CodeFree(a, s, c) ==
    \A b \in Ids \ {a} : rows[b] # None => ~(rows[b].station = s /\ rows[b].code = c)

CreateLocker(a, s, c, t) ==
    /\ table = "locker" /\ rows[a] = None /\ CodeFree(a, s, c)
    /\ Write(a, [station |-> s, code |-> c, createdAt |-> t,
                 status |-> "IN_SERVICE", occupied |-> FALSE])

\* An edit or the retirement of a locker.
EditLocker(a, c, st) ==
    /\ table = "locker" /\ rows[a] # None /\ rows[a].status # "DECOMMISSIONED"
    /\ st = "DECOMMISSIONED" => ~rows[a].occupied /\ c = rows[a].code
    /\ CodeFree(a, rows[a].station, c)
    /\ Write(a, [rows[a] EXCEPT !.code = c, !.status = st])

\* A drop into the locker or a collection from it.
FillOrEmpty(a) ==
    /\ table = "locker" /\ rows[a] # None
    /\ rows[a].status = "IN_SERVICE" \/ rows[a].occupied
    /\ Write(a, [rows[a] EXCEPT !.occupied = ~@])

Writers ==
    \E a \in Ids :
        \/ \E c \in Customers, t \in Times : Register(a, c, t)
        \/ \E s \in Stations, t \in Times : Store(a, s, t)
        \/ \E t \in Times : Retrieve(a, t)
        \/ \E s \in Stations, c \in Codes, t \in Times : CreateLocker(a, s, c, t)
        \/ \E c \in Codes, st \in {"IN_SERVICE", "OUT_OF_SERVICE", "DECOMMISSIONED"} :
              EditLocker(a, c, st)
        \/ FillOrEmpty(a)

WalkStep == CountTotal \/ (\E tie \in TieOrders : SelectPage(tie)) \/ Answer

Next == (\E q \in Requests[table] : StartWalk(q)) \/ WalkStep \/ Writers

Spec == Init /\ [][Next]_vars

\* The database answers, and the client goes on asking.
FairSpec == Spec /\ WF_vars(WalkStep)

-----------------------------------------------------------------------------
(* Properties. *)

\* The tiebreakers "make the order total" (both orderBy functions): when nothing
\* is written meanwhile, the pages together show every matching row exactly once,
\* and every total is their number.
QuietWalkIsExact ==
    phase = "done" /\ quiet =>
        seen = old /\ repeated = {} /\ total = Cardinality(old)

\* The query selects and orders by columns that never change.
Settled(q) ==
    table = "package" /\ q.sort.field = "registeredAt"
        /\ q.filter.status = None /\ q.filter.station = None

\* Registrations, drops and collections between two pages of the default package
\* listing may show a parcel twice, but no parcel that was there at the start is
\* missed.
NothingVanishes == phase = "done" /\ Settled(query) => old \subseteq seen

\* Every walk comes to an end, whatever limit the client asks for.
WalkEnds == phase = "asking" ~> phase = "done"
=============================================================================
