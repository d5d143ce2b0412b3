--------------------------- MODULE LockerRegistry ---------------------------
(***************************************************************************)
(* The operator's side: create, edit and decommission stations and         *)
(* lockers, by any number of concurrent operator requests.  Each handler   *)
(* reads a row into an entity, decides on that copy, and writes all the    *)
(* entity's columns back with an UPDATE that carries no condition; one     *)
(* action is one of these queries.  Drops and collections appear as what   *)
(* they do to a locker's occupancy (StorePackage is their model): a drop   *)
(* checks its station first and takes a locker later.                      *)
(***************************************************************************)
EXTENDS Naturals, FiniteSets

CONSTANTS
    Operators,   \* concurrently running operator requests
    Stations,    \* ids a station can have
    Lockers,     \* ids a locker can have
    Codes,       \* locker labels
    None         \* no row, no request

LockerStatus == {"IN_SERVICE", "OUT_OF_SERVICE", "DECOMMISSIONED"}
LockerRow == [station : Stations, code : Codes, status : LockerStatus]

ASSUME RegistryAssumption ==
    None \notin LockerRow /\ None \notin Codes /\ None \notin LockerStatus

VARIABLES
    station,     \* locker_station.status by id, "NONE" when there is no row
    locker,      \* the locker rows by id
    occupied,    \* the lockers with an active assignment
    request,     \* what each operator request holds in memory
    dropping,    \* stations where drops are past their check of the station
    overlap,     \* history: two operator requests have run at the same time
    raced        \* history: lockers filled while they were being retired

drops == <<dropping, raced>>
vars == <<station, locker, occupied, request, overlap, drops>>

StationStatus == {"NONE", "ACTIVE", "DECOMMISSIONED"}

LiveStatus == {"IN_SERVICE", "OUT_OF_SERVICE"}

(* A request in flight: the await it is at, the row image it will write, and *)
(* the columns its input left out, which "omitting a field keeps".           *)
StationRequestType ==
    [at : {"writeStation", "countLockers"}, id : Stations, image : StationStatus]
LockerRequestType ==
    [at : {"checkNewCode", "checkCode", "insertLocker", "writeLocker"},
     id : Lockers, image : LockerRow, omitted : SUBSET {"code", "status"}]
Request == StationRequestType \cup LockerRequestType

\* The type invariant.
TypeOK ==
    /\ station \in [Stations -> StationStatus]
    /\ locker \in [Lockers -> LockerRow \cup {None}]
    /\ occupied \in SUBSET Lockers
    /\ request \in [Operators -> Request \cup {None}]
    /\ dropping \in SUBSET Stations /\ raced \in SUBSET Lockers
    /\ overlap \in BOOLEAN

Init ==
    /\ station = [s \in Stations |-> "NONE"]
    /\ locker = [l \in Lockers |-> None]
    /\ occupied = {}
    /\ request = [o \in Operators |-> None]
    /\ dropping = {} /\ raced = {}
    /\ overlap = FALSE

-----------------------------------------------------------------------------

\* An operator sends a request, perhaps while another one is in flight.
Begin(o) ==
    /\ request[o] = None
    /\ overlap' = (overlap \/ \E x \in Operators : request[x] # None)

At(o, where) == request[o] # None /\ request[o].at = where

HoldStation(o, where, s, status) ==
    request' = [request EXCEPT ![o] = [at |-> where, id |-> s, image |-> status]]

HoldLocker(o, where, l, row, omits) ==
    request' = [request EXCEPT ![o] =
        [at |-> where, id |-> l, image |-> row, omitted |-> omits]]

\* The locker request goes on to its next await.
GoOn(o, where) == request' = [request EXCEPT ![o].at = where]

\* The request is answered, with a result or with an error (locker_code_taken,
\* locker_decommissioned, locker_occupied, station_not_empty ...).
Done(o) == request' = [request EXCEPT ![o] = None]

SameCode(m, row) ==
    locker[m] # None /\ locker[m].station = row.station /\ locker[m].code = row.code

ExistsByStationAndCode(row) == \E m \in Lockers : SameCode(m, row)

\* Mutant: the unique key (station_id, code) is missing.
NoCodeKey(l, row) == FALSE

\* uq_locker_code_per_station rejects the row: another locker has its code.
CodeKeyTaken(l, row) == \E m \in Lockers \ {l} : SameCode(m, row)

LiveLockers(s) ==
    {l \in Lockers :
        locker[l] # None /\ locker[l].station = s /\ locker[l].status # "DECOMMISSIONED"}

-----------------------------------------------------------------------------
(* Stations *)

\* createStation: one INSERT under a fresh id.
CreateStation(s) ==
    /\ station[s] = "NONE"
    /\ station' = [station EXCEPT ![s] = "ACTIVE"]
    /\ UNCHANGED <<locker, occupied, request, overlap, drops>>

\* Mutant: update() accepts a retired station and sets it ACTIVE.
UpdateStationReopens(o, s) ==
    /\ Begin(o)
    /\ station[s] # "NONE"
    /\ HoldStation(o, "writeStation", s, "ACTIVE")
    /\ UNCHANGED <<station, locker, occupied, drops>>

\* updateStation reads the row; a retired one is refused by the entity.
UpdateStation(o, s) ==
    /\ Begin(o)
    /\ station[s] = "ACTIVE"
    /\ HoldStation(o, "writeStation", s, station[s])
    /\ UNCHANGED <<station, locker, occupied, drops>>

\* decommissionStation reads the row.
DecommissionStation(o, s) ==
    /\ Begin(o)
    /\ station[s] # "NONE"
    /\ HoldStation(o, "countLockers", s, station[s])
    /\ UNCHANGED <<station, locker, occupied, drops>>

\* Mutant: countLiveLockers counts IN_SERVICE lockers only.
CountServiceableLockers(o) ==
    /\ At(o, "countLockers")
    /\ IF request[o].image = "ACTIVE"
            /\ \A l \in LiveLockers(request[o].id) : locker[l].status # "IN_SERVICE"
       THEN HoldStation(o, "writeStation", request[o].id, "DECOMMISSIONED")
       ELSE Done(o)
    /\ UNCHANGED <<station, locker, occupied, overlap, drops>>

\* countLiveLockers, then decommission() on the copy read before.
CountLiveLockers(o) ==
    /\ At(o, "countLockers")
    /\ IF LiveLockers(request[o].id) = {} /\ request[o].image = "ACTIVE"
       THEN HoldStation(o, "writeStation", request[o].id, "DECOMMISSIONED")
       ELSE Done(o)
    /\ UNCHANGED <<station, locker, occupied, overlap, drops>>

\* stations.update writes the whole entity.
WriteStation(o) ==
    /\ At(o, "writeStation")
    /\ station' = [station EXCEPT ![request[o].id] = request[o].image]
    /\ Done(o)
    /\ UNCHANGED <<locker, occupied, overlap, drops>>

-----------------------------------------------------------------------------
(* Lockers *)

\* createLocker reads the station, which must be active.
CreateLocker(o, l, s, c) ==
    /\ Begin(o)
    /\ locker[l] = None
    /\ \A x \in Operators : request[x] # None => request[x].id # l
    /\ station[s] = "ACTIVE"
    /\ HoldLocker(o, "checkNewCode", l,
                  [station |-> s, code |-> c, status |-> "IN_SERVICE"], {})
    /\ UNCHANGED <<station, locker, occupied, drops>>

\* existsByStationAndCode in createLocker.
CheckNewCode(o) ==
    /\ At(o, "checkNewCode")
    /\ IF ExistsByStationAndCode(request[o].image) THEN Done(o) ELSE GoOn(o, "insertLocker")
    /\ UNCHANGED <<station, locker, occupied, overlap, drops>>

\* Mutant: the status written back is IN_SERVICE unless the input has one.
EditedDefaults(row, c, st) ==
    [row EXCEPT !.code = IF c = None THEN @ ELSE c,
                !.status = IF st = None THEN "IN_SERVICE" ELSE st]

\* Mutant: the omitted columns are written back as NULL.
EditedNulls(row, c, st) == [row EXCEPT !.code = c, !.status = st]

\* Locker.update: every column of the entity, the omitted ones as they were read.
Edited(row, c, st) ==
    [row EXCEPT !.code = IF c = None THEN @ ELSE c,
                !.status = IF st = None THEN @ ELSE st]

Omitted(c, st) ==
    (IF c = None THEN {"code"} ELSE {}) \cup (IF st = None THEN {"status"} ELSE {})

\* Mutant: update() without requireLive().
UpdateLockerAnyStatus(o, l, c, st) ==
    /\ Begin(o)
    /\ locker[l] # None
    /\ HoldLocker(o, IF c \in {None, locker[l].code} THEN "writeLocker" ELSE "checkCode",
                  l, Edited(locker[l], c, st), Omitted(c, st))
    /\ UNCHANGED <<station, locker, occupied, drops>>

\* Mutant: the PATCH may name another station.
UpdateLockerMoves(o, l, c, st) ==
    /\ Begin(o)
    /\ locker[l] # None
    /\ locker[l].status # "DECOMMISSIONED"
    /\ \E s \in Stations :
        HoldLocker(o, "checkCode", l, [Edited(locker[l], c, st) EXCEPT !.station = s],
                   Omitted(c, st))
    /\ UNCHANGED <<station, locker, occupied, drops>>

\* updateLocker reads the row; a code that differs from it is looked up next.  A
\* retired row is refused by the entity, whatever the lookup says.
UpdateLocker(o, l, c, st) ==
    /\ Begin(o)
    /\ locker[l] # None
    /\ locker[l].status # "DECOMMISSIONED"
    /\ HoldLocker(o, IF c \in {None, locker[l].code} THEN "writeLocker" ELSE "checkCode",
                  l, Edited(locker[l], c, st), Omitted(c, st))
    /\ UNCHANGED <<station, locker, occupied, drops>>

\* existsByStationAndCode in updateLocker.
CheckCode(o) ==
    /\ At(o, "checkCode")
    /\ IF ExistsByStationAndCode(request[o].image) THEN Done(o) ELSE GoOn(o, "writeLocker")
    /\ UNCHANGED <<station, locker, occupied, overlap, drops>>

\* Mutant: the occupancy is not looked at.
DecommissionLockerBlind(o, l) ==
    /\ Begin(o)
    /\ locker[l] # None
    /\ locker[l].status # "DECOMMISSIONED"
    /\ HoldLocker(o, "writeLocker", l, [locker[l] EXCEPT !.status = "DECOMMISSIONED"], {"code"})
    /\ UNCHANGED <<station, locker, occupied, drops>>

\* decommissionLocker reads the row with its occupancy and refuses an occupied
\* or a retired one.
DecommissionLocker(o, l) ==
    /\ Begin(o)
    /\ locker[l] # None
    /\ l \notin occupied
    /\ locker[l].status # "DECOMMISSIONED"
    /\ HoldLocker(o, "writeLocker", l, [locker[l] EXCEPT !.status = "DECOMMISSIONED"], {"code"})
    /\ UNCHANGED <<station, locker, occupied, drops>>

\* lockers.save and lockers.update: the unique key may still reject the code.
WriteLocker(o) ==
    /\ At(o, "insertLocker") \/ At(o, "writeLocker")
    /\ \/ /\ ~CodeKeyTaken(request[o].id, request[o].image)
          /\ locker' = [locker EXCEPT ![request[o].id] = request[o].image]
       \/ /\ CodeKeyTaken(request[o].id, request[o].image)
          /\ UNCHANGED locker
    /\ Done(o)
    /\ UNCHANGED <<station, occupied, overlap, drops>>

\* Any await rejects before the write.
Fail(o) ==
    /\ request[o] # None
    /\ Done(o)
    /\ UNCHANGED <<station, locker, occupied, overlap, drops>>

-----------------------------------------------------------------------------
(* Drops and collections *)

\* store finds the station active; unknown and retired ones are refused.
CheckStation(s) ==
    /\ station[s] = "ACTIVE"
    /\ dropping' = dropping \cup {s}
    /\ UNCHANGED <<station, locker, occupied, request, overlap, raced>>

BeingRetired(l) ==
    \E o \in Operators :
        /\ At(o, "writeLocker")
        /\ request[o].id = l /\ request[o].image.status = "DECOMMISSIONED"

\* reserveLockerAndStore, as one step: a free IN_SERVICE locker of the station,
\* whose own status is not read again.  Other drops there may go on.
Store(l) ==
    /\ locker[l] # None
    /\ locker[l].station \in dropping
    /\ locker[l].status = "IN_SERVICE"
    /\ l \notin occupied
    /\ occupied' = occupied \cup {l}
    /\ dropping' \in {dropping, dropping \ {locker[l].station}}
    /\ raced' = IF BeingRetired(l) THEN raced \cup {l} ELSE raced
    /\ UNCHANGED <<station, locker, request, overlap>>

\* no_suitable_locker, or the drop fails.
StoreFails(s) ==
    /\ s \in dropping
    /\ dropping' = dropping \ {s}
    /\ UNCHANGED <<station, locker, occupied, request, overlap, raced>>

Retrieve(l) ==
    /\ l \in occupied
    /\ occupied' = occupied \ {l}
    /\ raced' = raced \ {l}
    /\ UNCHANGED <<station, locker, request, overlap, dropping>>

-----------------------------------------------------------------------------

StationRequest(o) ==
    \/ \E s \in Stations : UpdateStation(o, s) \/ DecommissionStation(o, s)
    \/ CountLiveLockers(o)
    \/ WriteStation(o)

LockerRequest(o) ==
    \/ \E l \in Lockers, s \in Stations, c \in Codes : CreateLocker(o, l, s, c)
    \/ \E l \in Lockers, c \in Codes \cup {None}, st \in LiveStatus \cup {None} :
          UpdateLocker(o, l, c, st)
    \/ \E l \in Lockers : DecommissionLocker(o, l)
    \/ CheckNewCode(o)
    \/ CheckCode(o)
    \/ WriteLocker(o)

Next ==
    \/ \E s \in Stations : CreateStation(s) \/ CheckStation(s) \/ StoreFails(s)
    \/ \E o \in Operators : StationRequest(o) \/ LockerRequest(o) \/ Fail(o)
    \/ \E l \in Lockers : Store(l) \/ Retrieve(l)

Spec == Init /\ [][Next]_vars

-----------------------------------------------------------------------------
(* Properties. *)

\* Two lockers of a station never share a code, although every handler that
\* sets one looks first and writes later.
CodesUniquePerStation ==
    \A l, m \in Lockers :
        locker[l] # None /\ locker[m] # None /\ locker[l].station = locker[m].station
            /\ locker[l].code = locker[m].code => l = m

\* README.md: a locker's stationId is not editable, and a row is never erased,
\* so that the assignment history keeps its referent; updates from stale copies
\* included.
LockerStaysPut ==
    [][\A l \in Lockers :
          locker[l] # None => locker'[l] # None /\ locker'[l].station = locker[l].station]_vars

\* locker.entity.ts: "Terminal: a retired locker never returns to service."
LockerRetirementIsTerminal ==
    [][\A l \in Lockers :
          locker[l] # None /\ locker[l].status = "DECOMMISSIONED" =>
              locker'[l].status = "DECOMMISSIONED"]_vars

\* The same, as long as no two operator requests have overlapped: whatever
\* drops, collections and failures come in between, a retired locker never
\* returns to service.
LockerStaysRetired ==
    [][\A l \in Lockers :
          ~overlap /\ locker[l] # None /\ locker[l].status = "DECOMMISSIONED" =>
              locker'[l].status = "DECOMMISSIONED"]_vars

\* locker-station.entity.ts: "Terminal: a retired station never reopens", under
\* the same condition.
StationStaysRetired ==
    [][\A s \in Stations :
          ~overlap /\ station[s] = "DECOMMISSIONED" => station'[s] = "DECOMMISSIONED"]_vars

\* stations/domain/errors.ts: "A station can only be retired once its lockers
\* are", and no locker is added to it later, under the same condition.
RetiredStationIsEmpty ==
    ~overlap =>
        \A s \in Stations : station[s] = "DECOMMISSIONED" => LiveLockers(s) = {}

\* locker.entity.ts: "omitting a field keeps it".  An edit that names only the
\* code leaves the status, and one that names only the status leaves the code,
\* under the same condition.
OmittedFieldKept ==
    [][\A o \in Operators :
          ~overlap /\ WriteLocker(o) /\ At(o, "writeLocker") =>
              LET l == request[o].id IN
              /\ "code" \in request[o].omitted => locker'[l].code = locker[l].code
              /\ "status" \in request[o].omitted => locker'[l].status = locker[l].status]_vars

\* The occupancy check of decommissionLocker and the station check of store both
\* grow stale before they are acted upon.  Even so, a retired locker holds a
\* parcel only if the drop came between the check and the UPDATE of its very
\* retirement; and unless operator requests overlapped, no parcel is in a
\* locker that is in service at a retired station.
RetiredHoldsNoParcel ==
    \A l \in occupied :
        \/ l \in raced
        \/ /\ locker[l].status # "DECOMMISSIONED"
           /\ overlap \/ station[locker[l].station] # "DECOMMISSIONED"
=============================================================================
