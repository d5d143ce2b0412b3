# Smart package locker: TLA+ specifications

TLA+ models of the locker service, the TLC runs that check them on small
instances, and TLAPS proofs for instances of any size. `PROJECT.json` lists the
components, the runs, the mutants that show each property can fail, the source
lines every definition stands for, the hazards, the findings and the theorems.

Run a check with `tlc -workers 2 -config StorePackage.cfg MCBestFit`, and a proof
with `tlapm StorePackageProofs.tla`.

## The system

A NestJS service in front of one MySQL database and one Redis. Agents register
parcels and drop them at a station; the service picks the smallest free locker
that fits and hands out a six-digit pickup code. Somebody types locker and code
at the station's keypad and the parcel is handed out for a storage fee. A
customer who lost the code asks for a new one. Operators manage stations,
lockers and rates.

| Component | State | Operations | Hard because | Correct when |
|---|---|---|---|---|
| Allocation (`store-package.service`, `reserveLockerAndStore`) | `package.status`, `locker_assignment`, the row locks and snapshot of a transaction, the retry counter | store | concurrent transactions under `FOR UPDATE SKIP LOCKED`, a snapshot older than the locked row, two unique keys, retries, deadlock, ten connections | no locker shared, no parcel stored twice, status and rows agree, smallest fit, every request answered |
| Registration | `package` | register | – | part of the above |
| Collection (`retrieve-package.service`) | `locker_assignment`, the door's counter | retrieve | check, verify, fee, save and clear are separate awaits; several people at one door; Redis may be down | handed out once, guesses bounded |
| Re-issue (`reissue-pickup-code.service`) | `pickup_code_hash`, the parcel's counter | reissue | races with retrieval and with itself | no code for an emptied locker, the stored code is known to somebody, a lost one can be replaced |
| Limiters (`attempt-counter.scripts`, two Redis limiters) | two counters with an expiry | check, count, clear | check-then-count; failing open | overshoot bounded, blocks lift |
| Lockers and stations | `locker`, `locker_station` | create, edit, decommission | every handler reads a copy, decides on it and writes it back unconditionally | codes unique, retirement terminal, retired stations and lockers empty |
| Rates and fees | `storage_rate` | publish; fee at pickup | publications interleave with each other and with parcels already stored; day boundaries; no database constraint against gaps | every day priced once, posted price charged |
| Transactions, pool, error mapping | – | `withTransaction` | lost acknowledgements, rollback | part of the above |
| Listings (`mysql-package-listing.repository`, `listWithOccupancy`, `page`, `sort`) | none; a client's walk through the pages | list | count and page are two queries, pages are separate requests, ties have no order, rows are written meanwhile | an undisturbed walk is exact, the default one misses nothing, every walk ends |
| Migrator (`migrator`, `migrations/*.sql`) | the schema, `schema_migrations` | run at start | statements commit one by one, instances start together, a process dies in between | nobody listens on a half-migrated schema, nothing is applied twice, all come up |
| Health, auth, config, HTTP | – | reads, guards, start-up | see the end | not modelled |

The components meet in the database: a store, a retrieval, a re-issue and an
operator's edit touch the same rows and know of each other only through row
locks, unique keys and conditional updates. Retrieval and re-issue also share
the door's Redis counter.

## The modules

| Module | Models | Instance |
|---|---|---|
| `LockerBank` | the promise: a parcel is registered, put once into one empty locker large enough, taken out once | – |
| `StorePackage` | allocation and all that touches its rows; implements `LockerBank` | `MCStorePackage` |
| `BestFit` | `StorePackage` with a history variable for what was available during the whole walk | `MCBestFit` |
| `FanOut` | `StorePackage` restricted to N stores at once | `MCFanOut` |
| `PickupDoor` | retrieval, re-issue, both counters | `MCPickupDoor` |
| `LockerRegistry` | operators' requests on lockers and stations | `MCLockerRegistry` |
| `StorageFee` | bands, the tiling rule, the fee arithmetic, and their day-by-day meaning | – |
| `StorageRateTable` | all rate versions MySQL would accept | `MCStorageRates` |
| `StorageRates` | publications, drops and pickups over time | `MCStorageRates` |
| `Listing` | the paged listings and a client walking through one | `MCListing` |
| `Migrator` | `runMigrations` by instances that start together and crash | `MCMigrator`, which has the five files |
| `StorePackageProofs` | the proofs about `StorePackage`, `BestFit` and `FanOut` | – |
| `StorageFeeProofs`, `StorageRateTableProofs`, `StorageRatesProofs` | the proofs about fees, tables and versions; the last two rest on the first | – |
| `PickupDoorProofs`, `LockerRegistryProofs`, `ListingProofs`, `MigratorProofs` | the proofs about the module they are named after | – |

**Granularity.** One action is one await: one statement to MySQL, one Redis
script. That is where requests interleave in Node. What a handler computes
between two awaits belongs to one action.

**`StorePackage`.** `pc[a]` is the await at which request `a` stands. `ScanRow` is
one step of the allocation SELECT along `ix_locker_allocation`: it skips a row
another transaction has locked and otherwise locks it and judges it. Occupancy
is judged by `view[a]`, the snapshot of REPEATABLE READ taken at the first row,
while the locker row itself is read in its newest version; this is the gap
through which a locker just taken is chosen, and why the retry exists. `Insert`
first needs a shared lock on the package row (the foreign key), then meets the
committed rows through `LockerKeyTaken` and `PackageKeyTaken` and waits for
uncommitted ones (`UncommittedClash`). `UpdatePackage` needs the package row
exclusively, so two stores of one parcel can deadlock; `DeadlockVictim` is
InnoDB's choice, either of the two. `Fail` is any await rejecting and
`CommitAckLost` a commit whose answer is lost. InnoDB's behaviour is not in the
repository; it is modelled from how the queries use it and marked external.
The snapshot of a transaction is reduced to the one thing read from it, the
occupied lockers. Retrieval is two steps here (read the open row, close it
conditionally), and operators write any status at any time, so nothing in this
module relies on `LockerRegistry`.

**`PickupDoor`.** `dpc` and `cpc` are the awaits of a retrieval and a re-issue. A
drop is one action, as `StorePackage`'s refinement of `LockerBank` justifies. An
assignment is named by its package, which has at most one. A hash is the pair of
code and parcel: an HMAC salted with the assignment does not collide. A failed
Redis command may have been executed or not (`FailOpen` is the one case, the
normal effect the other). Looking up the locker row is merged with the lookup of
the parcel: locker rows are never erased. A request may die between any two
awaits, the two UPDATEs of `savePickupCode` included; the code it had stored is
then in `lost`. The rest is history, which no action reads: `claims`, `voided`,
`delivered`, `lost`; `guesses` and `issued`, the wrong codes really tried at a
door and the codes really stored for a parcel since its counter was last gone;
and `slippedDoors` and `slippedParcels`, where since then the counter missed one
(Redis lost the command, or the request died before it) or a check that Redis did
not answer let a blocked request pass.

**`LockerRegistry`.** `request[o]` is the copy of the row an operator's request
holds between its queries, and the await it is at. A drop is what it does to
occupancy: it finds its station active (`CheckStation`) and later takes a free
locker that is in service (`Store`), without another look at the station.
`overlap` and `raced` are history variables: two operator requests have run at
once, and the lockers filled between the occupancy check and the UPDATE of their
retirement.

**`Listing`.** The client asks for page after page until one comes back short, and
advances by the limit the answer names. A page is `CountTotal` and `SelectPage`
in either order, each on the table as it then is. `Precedes` is the ORDER BY with
its ties broken by a permutation chosen anew for every query, which is all that
MySQL promises. NULL is 0, below every value. `resolvePageRequest` is called with
any integer: the DTO's `@Min` and `@Max` bind only callers that came through the
HTTP pipe, as `page.ts:27` says. A station's name is its number, so renaming one
is not followed.

**`Migrator`.** A statement is the set of objects (tables, columns, keys, seeded
rows) it makes and drops, and whether it can be run again (`IF NOT EXISTS`,
`INSERT IGNORE`, an `UPDATE` of what is still NULL, a `MODIFY`). One action is one
statement, since the server commits each on its own although the file is sent as
one query. What the server goes on executing after its client has died is what
another instance executes. An error ends `runMigrations` and with it the process.

**`StorageRates`.** Time is a bounded clock. A publication validates against the
clock (`Publish`), inserts band by band (`InsertBand`, which waits for an
uncommitted row of the same key and rolls back on a committed one) and commits.
`posted` and `late` are history variables. One locker size is modelled; every
query filters on the size.

## The runs

| Run | Instance | Shows |
|---|---|---|
| `StorePackage` | 2 stores, 1 retrieval, an operator on the large locker; 2 lockers of 2 sizes, 3 parcels; faults; 2 attempts, 2 connections | exclusivity, single storage, status and history, true answers, allocation in service, smallest fit, refusal only when full, refinement |
| `StoreAnswered` | 3 stores of 3 parcels, two of them for one parcel only; 3 lockers of 2 sizes; 2 attempts, 2 connections, faults, an operator on the station | every store is answered |
| `FanOut` | 4 stores, 3 lockers of 2 sizes, the 3 attempts of the code, no faults | README.md's untested fan-out property: when all are answered, whoever was refused finds every suitable locker filled, and nobody has run out of attempts, since that takes more lockers than attempts |
| `PickupDoor` | 2 retrievals at 1 door with 2 parcels, 2 re-issues of one of them, caps of 1; faults of Redis and requests | handed out once, no code after pickup; wrong codes tried and codes stored exceed the caps by at most the concurrent requests less one |
| `PickupLimits` | 2 retrievals, 2 re-issues, 1 parcel; caps of 1, expiries of two ticks; requests fail | code known or lost, a lost code replaced, blocks lift |
| `LockerRegistry` | 2 operators, drops and collections; 2 stations, 2 lockers, 2 codes | what survives stale writes, what holds until requests overlap, when a retired locker holds a parcel |
| `StorageRates` | 2 publishers, 1 parcel, 4 half-day ticks, 5 inputs of which 3 must be rejected; and all versions of up to 4 bands, edges up to day 3, rates up to 2 | versions do not mix, stays can be priced, posted price charged; the tiling rule is exact, fees are day by day |
| `Migrator` | 3 instances, the five files, 1 crash | listens only when migrated, nothing takes effect twice, all come up |
| `Listing` | 3 rows, up to 4 writes to packages or 3 to lockers, four queries with limits 0, none and 9 against a cap of 2 | an undisturbed walk is exact, the default one misses nothing, walks end |
| `RaceVoidedCodeOpensNothing`, `RaceLockerRetirementIsTerminal` | violations | findings 1 and 2 below |
| `RaceSomeCapKept` | violation; the caps of 5 and 3 of the default configuration, two requests of each kind, no faults | findings 3 and 4 below |

**Why the bounds are enough.** Two stores suffice for every pairwise race, and
with two sizes a request can lose, skip or outgrow a locker; a third store is
added where queues matter (`StoreAnswered`) and a fourth where they must all end
(`FanOut`). Two attempts exercise both a retry and giving up. To lose a race a
request must choose a locker that was filled after its snapshot, which is taken at
the first row of the walk and locks that row; so the locker is a later one, and
to give up a request must lose two of them, hence the three lockers and parcels
of `StoreAnswered`. There one request asks for any parcel, so that it fills lockers
behind the others, and two ask for the same one, so that they meet at its row and
at both keys. Requests for other parcels and station writes inside a transaction are
left out by `FewerRequests`: nobody is obliged to make them, and the `StorePackage`
run has the former. `PickupDoor` leaves out re-issues of the second parcel in the same
way. The caps of the
limiters need only be reached and overshot, and the lockout of two ticks can be
refreshed halfway; counters and tallies saturate at `CountBound`, which lies
beyond every bound that is checked or proved, so that saturation hides no
excess. A fee is constant per day beyond
the last finite edge, so stays up to two days past it cover all. `MaxTime` lets a
version be published, come into force and be followed by another while a parcel
lies in its locker, past the end of its first day; one parcel is enough, since
parcels only read the rates and do not meet. Three rows with pages of at most two make a walk of up to three
pages, with a row moving across a page boundary in either direction; three
instances let one crash while two others trip over each other. What the bounds
cannot show is what the proofs are for.

Symmetry is used for requests, ids, codes and parcels where they are
interchangeable, never in a run that checks liveness. The runs of `MCPickupDoor`
except `RaceVoidedCodeOpensNothing` use a VIEW that leaves out the history variables,
and the locals not read again, of which the run's properties say nothing beyond
their type; since no action depends on them, states that differ only there have the
same futures. `StoreAnswered` leaves out in the same way the ids of assignment rows,
the answers given and what finished requests were about. The tables of
`StorageRateTable` are built beside `StorageRates` from its initial state only: the two
share the operators of `StorageFee` and no variable. `CHECK_DEADLOCK FALSE` is
set where the model ends by design: every store made (`FanOut`), time over or the
table full (`StorageRates`), the walk finished (`Listing`),
all instances up (`Migrator`).

**Fairness.** `EveryStoreIsAnswered` assumes strong fairness of a store request's
own steps: Node runs the continuation of every settled promise, InnoDB's lock
queues and the pool's wait queue are served in order, so a step that becomes
possible again and again is taken. `BlockLifts` assumes that time passes and
that requests in flight are run (weak fairness). Nobody is obliged to start a
request, to fail, or to stop failing; `LostCodeRecovered` therefore has its
premise in the property, `KeepsAsking`: strong fairness of a re-issue passing its
check, and an end to failing requests. A rejected ask leaves no trace, so strong
fairness says that the customer asks often enough to be let in if the cap lifts
again and again. It does not say that the cap lifts: were it to stay for good, the
premise would hold and the property fail. `WalkEnds`
assumes that the database answers and the client goes on. `EveryInstanceComesUp`
assumes that an instance that stopped is started again; nothing in the
repository does that (`docker-compose.yml` has no restart policy), it is what an
operator or an orchestrator does.

## What the checks say about the documentation

Four sentences of the repository are not what the code does. Each has a run
that finds the behaviour; the last two share one, whose property `SomeCapKept`
fails only when both caps are broken.

1. *A re-issue "makes the old code worthless the moment this returns"*
   (`package.entity.ts:130`). A retrieval that verified the old code before the
   re-issue answers can save after it: `saveRetrieval` is conditional on the
   assignment being open, not on the hash that was verified.
2. *"Terminal: a retired locker never returns to service."*
   (`locker.entity.ts:94`). An edit that read the row before the retirement writes
   the old status back. The same race breaks the rules that a retired station
   never reopens (`locker-station.entity.ts:82`) and has no live lockers
   (`stations/domain/errors.ts:30`) and that an omitted field is kept
   (`locker.entity.ts:78`), which is why `StationStaysRetired`,
   `RetiredStationIsEmpty` and `OmittedFieldKept` end where two operator requests
   have overlapped.
3. *The pickup code is "capped at five wrong guesses per door"*
   (`retrieve-package.service.ts:48`, README.md:36). `check` and `recordFailure`
   are two awaits: two retrievals that pass the check at four counted failures both
   get their guess, and six wrong codes have been tried. `GuessesBounded` says how
   far this goes.
4. *"Three codes per parcel per hour"* (README.md:193). A re-issue is counted after
   its code is stored, so two that pass the check at two counted store a third and
   a fourth code. `ReissuesBounded` says how far this goes.

Also visible, and allowed for in the properties: when Redis does not answer, or
a request dies before it counts, neither cap holds (the limiters fail open on
purpose, `redis-pickup-attempt-limiter.ts:52`); a locker can be retired while a
concurrent store fills it (README.md:374), and the parcel can still be
collected (`RetiredHoldsNoParcel` shows that this window is the only one); a version whose transaction commits after its `effectiveFrom`
reprices the parcels dropped since (`PostedPriceCharged` has it as its one
exception); a store that skipped a locker held by a request that then fails is
refused although the locker stays empty. `storage-fee-calculator.ts:12` says that
a gap "throws rather than silently undercharging", but the guard compares totals,
so an overlap makes up for a gap: bands [0,2) and [1,2) price three days as three,
although day 2 has no rate. Only `publish` keeps such tables out, which is what
`TilesMeansOneRatePerDay` is about. `migrator.ts:18` asks that statements be
`IF NOT EXISTS`; those of 003, 004 and 005 cannot be, and an instance that dies
inside one of them leaves a file that fails on every later start (`torn`, the
exception in `EveryInstanceComesUp`). 004:25 claims "no half-applied state"
between its two locker indexes, which is right, but its second statement makes
one. A client that stops paging when offset plus limit reaches `total` may miss a
row, because the count may be older than the page; one that stops at a short page
does not. The locker listing has no `NothingVanishes`: its sort columns can be
edited and retired lockers drop out, so a row may move to a page already seen.

## The proofs

All theorems hold for every value of the constants, under the named assumptions
of the modules. These say that the constants have their types, that `None` is
none of the values it stands beside (no row, locker, set of lockers, code or
number), that two lockers of a station have different codes (their unique key),
how migration files are written (`ScriptAssumption`), and that the rates the
migrations seed tile (`RatesAssumption`). Theorems that count assume in addition
that what is counted is finite, and say so.

**`StorePackageProofs`.** Neither exclusivity nor single storage is inductive: a
row becomes visible at the commit, two steps after the INSERT that was checked.
The invariant `IInv` adds `PendingInv`, an uncommitted row clashes with no
committed and no other uncommitted row; `RequestInv`, what a request past a given
await knows (its locker is locked by it, in service and large enough); and
`DoorInv`, a retrieval holds the id of an existing row. `PendingInv` is
established by the unique keys and the wait for uncommitted rows alone, so
exclusivity does not depend on the row locks, as README.md claims; the row locks
are needed only for `NeverOutOfService`. `Refinement` maps a parcel to the locker
of its assignment: commits are `Store` steps, closing updates `Retrieve`, all
else stutters.

`SmallestFitHolds` and `RefusedOnlyWhenFullHolds` need two facts about a walk.
`AttemptInv`: an attempt begins without the locks, snapshot and cursor of the
one before. `SteadyInv`: a locker that was available all the time is still ahead
of the cursor, and the snapshot does not show it as occupied. A step of the walk
keeps this because it takes the next row of a total order (`BeforeIsTotal`, from
the distinct codes), and a steady row is neither skipped nor rejected.

`NobodyRefusedForNothing` is about stores alone. Its argument is that of `Covered`:
a locker is covered when it is filled or when some request has chosen it, and a
covered locker stays covered (`CoveredStays`), because the only way to lose a
chosen locker is to find it filled: no parcel is asked for twice (`JobsInv`), so
no other key is in the way, and nobody deadlocks. A walk passes covered lockers
only (`PassedInv`), since a row it finds locked is one that the holder has chosen or
that is filled (`LocksInv`). So a walk that ends empty has covered lockers on all
sides, and once everybody is answered covered means filled. `RaceInv` counts
attempts: each race is lost to a locker that the snapshot did not show and the
next snapshot does, so n lost attempts mean more than n filled lockers. This needs
finitely many lockers.

**`PickupDoorProofs`.** `HandedOutOnce` is inductive with the facts about what a
request past its lookup holds. `GuessesAreBounded` is about the wrong codes
tried, which the code keeps nowhere, and needs two facts at every door that has
not slipped (`GuessInv`): the counter plus the requests that passed the check and
have not counted is at most `MaxAttempts - 1 + |Doors|`, and the tally of wrong
codes is at most the counter plus the requests about to count. The check adds a
request only below the cap; a wrong code raises the tally and the requests about
to count alike; a count moves its request into the counter; an expiry or a clear
takes the tally away with the counter. A door that slipped is excepted until then. The theorem
assumes finitely many doors and that `CountBound` lies beyond the bound it states,
so that the tally is exact. `ReissuesAreBounded` is the same argument with one more
await between the check and the tally (`IssueInv`).
`CodesAreKnown` strengthens "a running request holds the code" to "a request past
its UPDATE holds it", which each later step hands on to `delivered` or `lost`.

**`LockerRegistryProofs`.** For any number of operators, uniqueness of codes and
`LockerStaysPut`. Until `overlap`, four more rules: `FreshInv` says that a copy
held by a request still agrees with its row, which is exactly what a second
request destroys. `RetiredLockersHoldNoParcel` rests on `ParcelInv`: an occupied
locker that is not in `raced` is neither retired nor about to be. It survives
overlapping edits because a drop only takes a locker in service, and it is
combined with `RetiredStationIsEmpty` for the part about stations.

**`ListingProofs`.** The order is total (`OrderIsTotal`), so a row's rank is its
place whatever the ties (`RankIsPlace`), and a short page is the last
(`ShortPageIsLast`). `ExactInv` says that the pages so far are exactly the rows
placed before the offset, as long as nothing was written; `CoverInv` says that for
a settled query no old row before the offset is unseen, because a write only adds
rows and moves no other one forward (`WriteGrows`). Nothing is assumed of the size
of the table but that it is finite.

**`MigratorProofs`.** From `ScriptAssumption` (how the files are written: every
statement leaves a trace that stays, no two make the same object, only unguarded
ones drop something), which TLC evaluates on the five files. The invariant says
that the schema is what the executed statements make of it, that a recorded file
was executed to its end, and that an instance at statement k has seen those before
it executed, by itself or by another.

**`StorageFeeProofs`.** What the calculator charges, for every day length, every
table and every stay (`FeeOfTable`). The library's induction theorems take an
operator and cannot be used here, but a property of numbers is also a set of
numbers, and that the naturals are well-founded is a plain fact (`NatLessThanWellFounded`,
`WFMin`): `LeastNatural` and `Induction` are stated for sets, and every induction
below is over the set of numbers that have the property. The folds of the
community modules choose a function by an equation; `FoldExists` shows that there
is one, `FoldIsSum` that the order in which it takes the elements is of no
consequence. So the meaning `DayByDay` is the sum of the rates of the days
(`DayByDayIsSum`), and the calculator's two loops are sums over the bands (`CoveredIsSum`,
`TotalIsSum`). On a table that tiles the bands lie one after the other (`TilesAscend`),
each day belongs to one (`TilesPriceOnce`), and the days before the end of band k are
worth what the first k bands add (`PartialSums`, `RunOfDays`, `BandReach`). In particular
the covered days add up to the charged ones, so that the calculator does not throw.
`RowsTile` says that a schedule that tiles still does after its rows went through
the table and came back in any order: `InOrder` is a stable sort (`SortExists`,
`InOrderSorts`).

**`StorageRateTableProofs`.** Rows come in `fromDay` order; with that,
`TilingIsExact` has `TilesPriceOnce` for one direction and `PricedOnceTiles` for the
other: a table with a gap, an overlap, a late start or no open end prices some
day up to one after the last edge not exactly once. `FeeIsExact` is `FeeOfTable`.

**`StorageRatesProofs`.** `VersionsTile` is not inductive: a commit adds all rows of a
schedule at once, and nothing in it says that the instant had no rows before.
`RatesInv` supplies that. A schedule in a transaction has passed `publish`
(`DraftInv`); an inserted row clashes with no committed and no other inserted row
(`KeyInv`, kept by the unique key and the wait for uncommitted rows); every version
has a first day (`WholeInv`). Since a schedule that tiles has a first day as well,
a transaction that could insert all its rows found no version of its instant: the
row of day 0 alone keeps versions from mixing (`CommitAdds`). For the price,
`ParcelInv`: what was posted at a drop is still what `findBandsFor` gives for that
instant, unless a version came late; a commit of a later instant changes nothing
at or before the drop (`PastStays`). `EveryStayIsPriced` and
`CustomersPayPostedPrice` then follow with `FeeOfTable`.

**Only model-checked:** liveness (`EveryStoreIsAnswered`, `BlockLifts`,
`LostCodeRecovered`, `WalkEnds`, `EveryInstanceComesUp`), which the prover does not
do. Every invariant and every action property of a passing run has its theorem.

## Not modelled

Authentication and roles are guards that decide on the token alone and keep
nothing; a request in these models is one that was let in. Health reads two
connections. Configuration is read once at start; its limits are constants here.
Routing, DTO shapes, status codes and views of the HTTP layer, timestamps other
than those of storage fees and listings, tracking references, names, locations
and wording carry no rule. Reads of one row (`GET /lockers/:id`,
`GET /stations`) change nothing and promise nothing beyond the row. Notification
and door hardware are placeholders in the source.

## Plan

Done, in the order of importance: allocation; its abstract specification and
refinement; collection and limiters, with failing requests; the registry, with
drops against retirement; rates and fees; the migrator; listings; the proofs
above.

Left: a re-issue cap and an attempt cap followed per parcel across two parcels
behind one door, if the code comes to promise one; the parts listed above as not
modelled, should they come to keep state.
