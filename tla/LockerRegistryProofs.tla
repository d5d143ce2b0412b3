------------------------ MODULE LockerRegistryProofs ------------------------
(***************************************************************************)
(* Proofs about LockerRegistry, for any number of stations, lockers and    *)
(* codes.  The first part holds for any number of concurrent operators;    *)
(* the second part needs that no two of their requests have overlapped,    *)
(* because each handler of the source writes back what it read without a   *)
(* condition.                                                              *)
(***************************************************************************)
EXTENDS LockerRegistry, TLAPS

\* A request that will insert the row, and one that will overwrite it.
Creating(o) == At(o, "checkNewCode") \/ At(o, "insertLocker")
Editing(o) == At(o, "checkCode") \/ At(o, "writeLocker")

\* What a request may rely on although others run: the id it creates is its own,
\* and the row it edits exists and stands where it stood.
RequestInv ==
    \A o \in Operators :
        /\ Creating(o) =>
              /\ locker[request[o].id] = None
              /\ \A x \in Operators :
                    Creating(x) /\ request[x].id = request[o].id => x = o
        /\ Editing(o) =>
              /\ locker[request[o].id] # None
              /\ locker[request[o].id].station = request[o].image.station

IInv == TypeOK /\ RequestInv /\ CodesUniquePerStation

-----------------------------------------------------------------------------

\* A request at one of the locker awaits is a locker request.
LEMMA LockerAwait ==
    ASSUME TypeOK, NEW o \in Operators, Creating(o) \/ Editing(o)
    PROVE  request[o] \in LockerRequestType
BY DEF TypeOK, Request, StationRequestType, LockerRequestType, Creating, Editing, At

\* A request at one of the station awaits is a station request.
LEMMA StationAwait ==
    ASSUME TypeOK, NEW o \in Operators, At(o, "countLockers") \/ At(o, "writeStation")
    PROVE  request[o] \in StationRequestType
BY DEF TypeOK, Request, StationRequestType, LockerRequestType, At

\* What an edit writes back is a locker row at the same station.
LEMMA EditedRow ==
    ASSUME NEW row \in LockerRow,
           NEW c \in Codes \cup {None}, NEW st \in LiveStatus \cup {None}
    PROVE  /\ Edited(row, c, st) \in LockerRow
           /\ Edited(row, c, st).station = row.station
           /\ c = None => Edited(row, c, st).code = row.code
           /\ st = None => Edited(row, c, st).status = row.status
           /\ st # None => Edited(row, c, st).status = st
BY DEF Edited, LockerRow, LockerStatus, LiveStatus

\* An overlap is never forgotten, and only the begin of a request makes one.
LEMMA OverlapStep ==
    ASSUME TypeOK, [Next]_vars
    PROVE  overlap' \in BOOLEAN /\ (overlap => overlap')
<1>1. UNCHANGED overlap \/ \E o \in Operators : Begin(o)
  BY DEF Next, vars, CreateStation, CheckStation, StoreFails, StationRequest, UpdateStation,
         DecommissionStation, CountLiveLockers, WriteStation, LockerRequest, CreateLocker,
         UpdateLocker, DecommissionLocker, CheckNewCode, CheckCode, WriteLocker, Fail, Store,
         Retrieve
<1> QED
  BY <1>1 DEF TypeOK, Begin

\* Every step of an operator's request keeps the types.
LEMMA TypeStep ==
    ASSUME TypeOK, [Next]_vars
    PROVE  TypeOK'
<1> overlap' \in BOOLEAN
  BY OverlapStep
<1> USE DEF TypeOK
<1>1. CASE UNCHANGED vars
  BY <1>1 DEF vars, drops
<1>2. ASSUME NEW s \in Stations, CreateStation(s) \/ CheckStation(s) \/ StoreFails(s)
      PROVE  TypeOK'
  BY <1>2 DEF CreateStation, CheckStation, StoreFails, StationStatus, drops
<1>3. ASSUME NEW o \in Operators, StationRequest(o) PROVE TypeOK'
  <2>1. ASSUME NEW s \in Stations, UpdateStation(o, s) PROVE TypeOK'
    BY <2>1 DEF drops, UpdateStation, HoldStation, Request, StationRequestType
  <2>2. ASSUME NEW s \in Stations, DecommissionStation(o, s) PROVE TypeOK'
    BY <2>2 DEF drops, DecommissionStation, HoldStation, Request, StationRequestType
  <2>3. CASE CountLiveLockers(o)
    <3>1. request[o] \in StationRequestType
      BY <2>3, StationAwait DEF CountLiveLockers
    <3> QED
      BY <2>3, <3>1 DEF drops, CountLiveLockers, HoldStation, Done, Request, StationRequestType,
                        StationStatus
  <2>4. CASE WriteStation(o)
    <3>1. request[o] \in StationRequestType
      BY <2>4, StationAwait DEF WriteStation
    <3> QED
      BY <2>4, <3>1 DEF drops, WriteStation, Done, StationRequestType
  <2> QED
    BY <1>3, <2>1, <2>2, <2>3, <2>4 DEF StationRequest
<1>4. ASSUME NEW o \in Operators, LockerRequest(o) PROVE TypeOK'
  <2>1. ASSUME NEW l \in Lockers, NEW s \in Stations, NEW c \in Codes,
               CreateLocker(o, l, s, c)
        PROVE  TypeOK'
    BY <2>1 DEF drops, CreateLocker, HoldLocker, Request, LockerRequestType, LockerRow, LockerStatus
  <2>2. ASSUME NEW l \in Lockers, NEW c \in Codes \cup {None}, NEW st \in LiveStatus \cup {None},
               UpdateLocker(o, l, c, st)
        PROVE  TypeOK'
    <3>1. locker[l] \in LockerRow
      BY <2>2 DEF UpdateLocker
    <3>2. Edited(locker[l], c, st) \in LockerRow
      BY <3>1, EditedRow
    <3>3. Omitted(c, st) \in SUBSET {"code", "status"}
      BY DEF Omitted
    <3> QED
      BY <2>2, <3>2, <3>3 DEF drops, UpdateLocker, HoldLocker, Request, LockerRequestType
  <2>3. ASSUME NEW l \in Lockers, DecommissionLocker(o, l) PROVE TypeOK'
    BY <2>3 DEF drops, DecommissionLocker, HoldLocker, Request, LockerRequestType, LockerRow,
                LockerStatus
  <2>4. CASE CheckNewCode(o)
    <3>1. request[o] \in LockerRequestType
      BY <2>4, LockerAwait DEF CheckNewCode, Creating
    <3> QED
      BY <2>4, <3>1 DEF drops, CheckNewCode, GoOn, Done, Request, LockerRequestType
  <2>5. CASE CheckCode(o)
    <3>1. request[o] \in LockerRequestType
      BY <2>5, LockerAwait DEF CheckCode, Editing
    <3> QED
      BY <2>5, <3>1 DEF drops, CheckCode, GoOn, Done, Request, LockerRequestType
  <2>6. CASE WriteLocker(o)
    <3>1. request[o] \in LockerRequestType
      BY <2>6, LockerAwait DEF WriteLocker, Creating, Editing
    <3> QED
      BY <2>6, <3>1 DEF drops, WriteLocker, Done, LockerRequestType
  <2> QED
    BY <1>4, <2>1, <2>2, <2>3, <2>4, <2>5, <2>6 DEF LockerRequest
<1>5. ASSUME NEW o \in Operators, Fail(o) PROVE TypeOK'
  BY <1>5 DEF drops, Fail, Done
<1>6. ASSUME NEW l \in Lockers, Store(l) \/ Retrieve(l) PROVE TypeOK'
  <2>1. CASE Store(l)
    <3>1. locker[l] \in LockerRow
      BY <2>1 DEF Store
    <3>2. dropping' \in SUBSET Stations /\ raced' \in SUBSET Lockers
      BY <2>1, <3>1 DEF Store
    <3> QED
      BY <2>1, <3>2 DEF Store
  <2>2. CASE Retrieve(l)
    BY <2>2 DEF Retrieve
  <2> QED
    BY <1>6, <2>1, <2>2
<1> QED
  BY <1>1, <1>2, <1>3, <1>4, <1>5, <1>6 DEF Next

-----------------------------------------------------------------------------
(* Any number of operators. *)

\* A step that leaves the locker rows alone and changes at most o's request
\* keeps RequestInv, if it does so for o.
LEMMA RequestStep ==
    ASSUME TypeOK, RequestInv, NEW o \in Operators, UNCHANGED locker,
           \A x \in Operators \ {o} : request'[x] = request[x],
           Creating(o)' =>
              /\ locker[request'[o].id] = None
              /\ \A x \in Operators \ {o} : Creating(x) => request[x].id # request'[o].id,
           Editing(o)' =>
              /\ locker[request'[o].id] # None
              /\ locker[request'[o].id].station = request'[o].image.station
    PROVE  RequestInv'
BY DEF RequestInv, Creating, Editing, At

\* Every step keeps the inductive invariant.
LEMMA InvStep ==
    ASSUME IInv, [Next]_vars
    PROVE  IInv'
<1> USE DEF IInv
<1>0. TypeOK'
  BY TypeStep
<1>1. CASE UNCHANGED vars
  BY <1>0, <1>1 DEF vars, RequestInv, CodesUniquePerStation, Creating, Editing, At
<1>2. ASSUME NEW s \in Stations, CreateStation(s) \/ CheckStation(s) \/ StoreFails(s)
      PROVE  IInv'
  BY <1>0, <1>2 DEF CreateStation, CheckStation, StoreFails, RequestInv, CodesUniquePerStation, Creating, Editing, At
<1>3. ASSUME NEW o \in Operators, StationRequest(o) PROVE IInv'
  <2>1. /\ UNCHANGED locker
        /\ \A x \in Operators \ {o} : request'[x] = request[x]
        /\ request'[o] = None \/ request'[o].at \in {"writeStation", "countLockers"}
    <3>1. ASSUME NEW s \in Stations, UpdateStation(o, s) \/ DecommissionStation(o, s)
          PROVE  <2>1!1 /\ <2>1!2 /\ <2>1!3
      BY <3>1 DEF UpdateStation, DecommissionStation, HoldStation, TypeOK
    <3>2. CASE CountLiveLockers(o)
      BY <3>2 DEF CountLiveLockers, HoldStation, Done, TypeOK
    <3>3. CASE WriteStation(o)
      BY <3>3 DEF WriteStation, Done, TypeOK
    <3> QED
      BY <1>3, <3>1, <3>2, <3>3 DEF StationRequest
  <2>2. ~Creating(o)' /\ ~Editing(o)'
    BY <2>1 DEF Creating, Editing, At
  <2>3. RequestInv'
    BY <2>1, <2>2, RequestStep
  <2> QED
    BY <1>0, <2>1, <2>3 DEF CodesUniquePerStation
<1>4. ASSUME NEW o \in Operators, LockerRequest(o) PROVE IInv'
  <2>1. ASSUME NEW l \in Lockers, NEW s \in Stations, NEW c \in Codes,
               CreateLocker(o, l, s, c)
        PROVE  IInv'
    <3>1. /\ UNCHANGED locker
          /\ \A x \in Operators \ {o} : request'[x] = request[x]
          /\ request'[o].at = "checkNewCode" /\ request'[o].id = l
          /\ locker[l] = None
      BY <2>1 DEF CreateLocker, HoldLocker, TypeOK
    <3>2. \A x \in Operators \ {o} : Creating(x) => request[x].id # l
      BY <2>1 DEF CreateLocker, Creating, At
    <3>3. RequestInv'
      BY <3>1, <3>2, RequestStep DEF Editing, At
    <3> QED
      BY <1>0, <3>1, <3>3 DEF CodesUniquePerStation
  <2>2. ASSUME NEW l \in Lockers, NEW c \in Codes \cup {None}, NEW st \in LiveStatus \cup {None},
               UpdateLocker(o, l, c, st)
        PROVE  IInv'
    <3>1. /\ UNCHANGED locker
          /\ \A x \in Operators \ {o} : request'[x] = request[x]
          /\ request'[o].at \in {"checkCode", "writeLocker"} /\ request'[o].id = l
          /\ request'[o].image = Edited(locker[l], c, st)
          /\ locker[l] # None
      BY <2>2 DEF UpdateLocker, HoldLocker, TypeOK
    <3>2. Edited(locker[l], c, st).station = locker[l].station
      BY <3>1, EditedRow DEF TypeOK
    <3>3. RequestInv'
      BY <3>1, <3>2, RequestStep DEF Creating, At
    <3> QED
      BY <1>0, <3>1, <3>3 DEF CodesUniquePerStation
  <2>3. ASSUME NEW l \in Lockers, DecommissionLocker(o, l) PROVE IInv'
    <3>1. /\ UNCHANGED locker
          /\ \A x \in Operators \ {o} : request'[x] = request[x]
          /\ request'[o].at = "writeLocker" /\ request'[o].id = l
          /\ request'[o].image = [locker[l] EXCEPT !.status = "DECOMMISSIONED"]
          /\ locker[l] # None
      BY <2>3 DEF DecommissionLocker, HoldLocker, TypeOK
    <3>2. [locker[l] EXCEPT !.status = "DECOMMISSIONED"].station = locker[l].station
      BY <3>1 DEF TypeOK, LockerRow
    <3>3. RequestInv'
      BY <3>1, <3>2, RequestStep DEF Creating, At
    <3> QED
      BY <1>0, <3>1, <3>3 DEF CodesUniquePerStation
  <2>4. CASE CheckNewCode(o) \/ CheckCode(o)
    <3>1. request[o] \in LockerRequestType
      BY <2>4, LockerAwait DEF CheckNewCode, CheckCode, Creating, Editing
    <3>2. /\ UNCHANGED locker
          /\ \A x \in Operators \ {o} : request'[x] = request[x]
      BY <2>4 DEF CheckNewCode, CheckCode, GoOn, Done, TypeOK
    <3>3. \/ request'[o] = None
          \/ /\ request'[o].id = request[o].id /\ request'[o].image = request[o].image
             /\ \/ request[o].at = "checkNewCode" /\ request'[o].at = "insertLocker"
                \/ request[o].at = "checkCode" /\ request'[o].at = "writeLocker"
      BY <2>4, <3>1 DEF CheckNewCode, CheckCode, GoOn, Done, TypeOK, LockerRequestType, At
    <3>4. request[o] # None
      BY <2>4 DEF CheckNewCode, CheckCode, At
    <3>5. Creating(o)' => Creating(o) /\ request'[o].id = request[o].id
      BY <3>3, <3>4 DEF Creating, At
    <3>6. Editing(o)' =>
             Editing(o) /\ request'[o].id = request[o].id /\ request'[o].image = request[o].image
      BY <3>3, <3>4 DEF Editing, At
    <3>7. RequestInv'
      BY <3>2, <3>5, <3>6, RequestStep DEF RequestInv
    <3> QED
      BY <1>0, <3>2, <3>7 DEF CodesUniquePerStation
  <2>5. CASE WriteLocker(o)
    <3>1. request[o] \in LockerRequestType /\ (Creating(o) \/ Editing(o))
      BY <2>5, LockerAwait DEF WriteLocker, Creating, Editing
    <3> DEFINE l == request[o].id
               row == request[o].image
    <3>2. l \in Lockers /\ row \in LockerRow /\ row # None
      BY <3>1, RegistryAssumption DEF LockerRequestType
    <3>3. /\ \A x \in Operators \ {o} : request'[x] = request[x]
          /\ request'[o] = None
      BY <2>5 DEF WriteLocker, Done, TypeOK
    <3>4. CASE UNCHANGED locker
      BY <1>0, <3>3, <3>4, RequestStep DEF CodesUniquePerStation, Creating, Editing, At
    <3>5. CASE /\ ~CodeKeyTaken(l, row)
               /\ locker' = [locker EXCEPT ![l] = row]
      <4>1. locker'[l] = row /\ \A m \in Lockers \ {l} : locker'[m] = locker[m]
        BY <3>2, <3>5 DEF TypeOK
      <4>2. ~Creating(o)' /\ ~Editing(o)'
        BY <3>3 DEF Creating, Editing, At
      <4>3. \A x \in Operators \ {o} :
               /\ Creating(x)' <=> Creating(x)
               /\ Editing(x)' <=> Editing(x)
               /\ Creating(x) \/ Editing(x) => request[x].id \in Lockers
        BY <3>3, LockerAwait DEF Creating, Editing, At, LockerRequestType
      <4>4. \A x \in Operators \ {o} : Creating(x) => request[x].id # l
        <5>1. CASE Creating(o)
          BY <5>1 DEF RequestInv
        <5>2. CASE Editing(o)
          BY <5>2 DEF RequestInv
        <5> QED
          BY <3>1, <5>1, <5>2
      <4>5. ASSUME NEW x \in Operators \ {o}, Editing(x), request[x].id = l
            PROVE  row.station = request[x].image.station
        <5>1. locker[l] # None /\ locker[l].station = request[x].image.station
          BY <4>5 DEF RequestInv
        <5>2. ~Creating(o)
          BY <5>1 DEF RequestInv
        <5> QED
          BY <3>1, <5>1, <5>2 DEF RequestInv
      <4>6. RequestInv'
        BY <3>2, <3>3, <4>1, <4>2, <4>3, <4>4, <4>5 DEF RequestInv
      <4>7. CodesUniquePerStation'
        BY <3>2, <3>5, <4>1 DEF CodesUniquePerStation, CodeKeyTaken, SameCode
      <4> QED
        BY <1>0, <4>6, <4>7
    <3> QED
      BY <2>5, <3>4, <3>5 DEF WriteLocker
  <2> QED
    BY <1>4, <2>1, <2>2, <2>3, <2>4, <2>5 DEF LockerRequest
<1>5. ASSUME NEW o \in Operators, Fail(o) PROVE IInv'
  <2>1. /\ UNCHANGED locker
        /\ \A x \in Operators \ {o} : request'[x] = request[x]
        /\ request'[o] = None
    BY <1>5 DEF Fail, Done, TypeOK
  <2>2. RequestInv'
    BY <2>1, RequestStep DEF Creating, Editing, At
  <2> QED
    BY <1>0, <2>1, <2>2 DEF CodesUniquePerStation
<1>6. ASSUME NEW l \in Lockers, Store(l) \/ Retrieve(l) PROVE IInv'
  BY <1>0, <1>6 DEF Store, Retrieve, RequestInv, CodesUniquePerStation, Creating, Editing, At
<1> QED
  BY <1>1, <1>2, <1>3, <1>4, <1>5, <1>6 DEF Next

\* The inductive invariant holds in every state.
THEOREM Invariance == Spec => []IInv
<1>1. Init => IInv
  BY RegistryAssumption
     DEF Init, IInv, TypeOK, RequestInv, CodesUniquePerStation, Creating, Editing, At, StationStatus
<1>2. IInv /\ [Next]_vars => IInv'
  BY InvStep
<1> QED
  BY <1>1, <1>2, PTL DEF Spec

\* Every row and every request holds values of its domain.
THEOREM TypeCorrect == Spec => []TypeOK
BY Invariance, PTL DEF IInv

\* However many operators look for a code first and write it later, two lockers
\* of a station never share one: uq_locker_code_per_station decides.
THEOREM CodesAreUnique == Spec => []CodesUniquePerStation
BY Invariance, PTL DEF IInv

\* Only WriteLocker changes a locker row, and only the one of its request.
LEMMA RowsChange ==
    ASSUME TypeOK, [Next]_vars, NEW l \in Lockers, locker'[l] # locker[l]
    PROVE  \E o \in Operators :
              /\ WriteLocker(o)
              /\ request[o].id = l
              /\ locker'[l] = request[o].image
<1>1. \E o \in Operators : WriteLocker(o)
  BY DEF Next, vars, CreateStation, StationRequest, UpdateStation, DecommissionStation,
         CountLiveLockers, WriteStation, LockerRequest, CreateLocker, UpdateLocker,
         DecommissionLocker, CheckNewCode, CheckCode, Fail, CheckStation, StoreFails, Store,
         Retrieve
<1>2. PICK o \in Operators : WriteLocker(o)
  BY <1>1
<1>3. request[o] \in LockerRequestType
  BY <1>2, LockerAwait DEF WriteLocker, Creating, Editing
<1> QED
  BY <1>2, <1>3 DEF WriteLocker, LockerRequestType, TypeOK

\* A stale copy may overwrite a locker's label and status, but it never moves or
\* erases the row.
THEOREM RowStaysPut == Spec => LockerStaysPut
<1> DEFINE Stays == \A l \in Lockers :
        locker[l] # None => locker'[l] # None /\ locker'[l].station = locker[l].station
<1>1. IInv /\ [Next]_vars => [Stays]_vars
  <2> SUFFICES ASSUME IInv, [Next]_vars, NEW l \in Lockers, locker[l] # None,
                      locker'[l] # locker[l]
               PROVE  locker'[l] # None /\ locker'[l].station = locker[l].station
    BY DEF vars
  <2>1. PICK o \in Operators :
            WriteLocker(o) /\ request[o].id = l /\ locker'[l] = request[o].image
    BY RowsChange DEF IInv
  <2>2. request[o] \in LockerRequestType /\ (Creating(o) \/ Editing(o))
    BY <2>1, LockerAwait DEF WriteLocker, Creating, Editing, IInv
  <2>3. Editing(o)
    BY <2>1, <2>2 DEF RequestInv, IInv
  <2> QED
    BY <2>1, <2>2, <2>3, RegistryAssumption DEF RequestInv, LockerRequestType, IInv
<1> QED
  BY <1>1, Invariance, PTL DEF Spec, LockerStaysPut

-----------------------------------------------------------------------------
(* One operator request at a time. *)

\* Until requests overlap, the row a request has read is still the row in the
\* table.
FreshInv ==
    /\ \A o, x \in Operators : request[o] # None /\ request[x] # None => o = x
    /\ \A o \in Operators :
        /\ Creating(o) => station[request[o].image.station] = "ACTIVE"
        /\ Editing(o) =>
              /\ locker[request[o].id].status # "DECOMMISSIONED"
              /\ "code" \in request[o].omitted =>
                    request[o].image.code = locker[request[o].id].code
              /\ "status" \in request[o].omitted =>
                    request[o].image.status = locker[request[o].id].status
        /\ At(o, "countLockers") =>
              /\ station[request[o].id] # "NONE"
              /\ request[o].image = station[request[o].id]
        /\ At(o, "writeStation") =>
              /\ station[request[o].id] = "ACTIVE"
              /\ request[o].image = "DECOMMISSIONED" => LiveLockers(request[o].id) = {}
    /\ \A s \in Stations : station[s] = "DECOMMISSIONED" => LiveLockers(s) = {}

SerialInv == IInv /\ (~overlap => FreshInv)

\* A step that changes no row keeps FreshInv if the one request is well founded.
LEMMA FreshRead ==
    ASSUME TypeOK, FreshInv, NEW o \in Operators, UNCHANGED <<station, locker>>,
           \A x \in Operators \ {o} : request'[x] = None,
           Creating(o)' => station[request'[o].image.station] = "ACTIVE",
           Editing(o)' =>
              /\ locker[request'[o].id].status # "DECOMMISSIONED"
              /\ "code" \in request'[o].omitted =>
                    request'[o].image.code = locker[request'[o].id].code
              /\ "status" \in request'[o].omitted =>
                    request'[o].image.status = locker[request'[o].id].status,
           At(o, "countLockers")' =>
              /\ station[request'[o].id] # "NONE"
              /\ request'[o].image = station[request'[o].id],
           At(o, "writeStation")' =>
              /\ station[request'[o].id] = "ACTIVE"
              /\ request'[o].image = "DECOMMISSIONED" => LiveLockers(request'[o].id) = {}
    PROVE  FreshInv'
<1>1. \A s : LiveLockers(s)' = LiveLockers(s)
  BY DEF LiveLockers
<1> QED
  BY <1>1 DEF FreshInv, Creating, Editing, At

\* Without an overlap, all but the operator who takes a step are idle.
LEMMA OthersIdle ==
    ASSUME TypeOK, FreshInv, ~overlap', NEW o \in Operators,
           StationRequest(o) \/ LockerRequest(o) \/ Fail(o)
    PROVE  \A x \in Operators \ {o} : request'[x] = None
<1>1. request[o] # None \/ Begin(o)
  BY DEF StationRequest, UpdateStation, DecommissionStation, CountLiveLockers, WriteStation,
         LockerRequest, CreateLocker, UpdateLocker, DecommissionLocker, CheckNewCode,
         CheckCode, WriteLocker, Fail, At
<1>2. \A x \in Operators \ {o} : request[x] = None
  BY <1>1 DEF Begin, FreshInv
<1>3. \A x \in Operators \ {o} : request'[x] = request[x]
  BY DEF StationRequest, UpdateStation, DecommissionStation, CountLiveLockers, WriteStation,
         LockerRequest, CreateLocker, UpdateLocker, DecommissionLocker, CheckNewCode,
         CheckCode, WriteLocker, Fail, HoldStation, HoldLocker, GoOn, Done, TypeOK
<1> QED
  BY <1>2, <1>3

\* Every step of the one operator, and every drop and collection, keeps it.
LEMMA SerialStep ==
    ASSUME SerialInv, [Next]_vars
    PROVE  SerialInv'
<1>0. IInv' /\ IInv
  BY InvStep DEF SerialInv
<1> SUFFICES ASSUME ~overlap' PROVE FreshInv'
  BY <1>0 DEF SerialInv
<1> TypeOK /\ RequestInv
  BY <1>0 DEF IInv
<1> FreshInv
  BY OverlapStep DEF SerialInv
<1>1. CASE UNCHANGED vars
  BY <1>1 DEF vars, FreshInv, Creating, Editing, At, LiveLockers
<1>7. ASSUME NEW s \in Stations, CheckStation(s) \/ StoreFails(s) PROVE FreshInv'
  BY <1>7 DEF CheckStation, StoreFails, FreshInv, Creating, Editing, At, LiveLockers
<1>2. ASSUME NEW s \in Stations, CreateStation(s) PROVE FreshInv'
  <2>1. /\ UNCHANGED <<locker, request>>
        /\ station[s] = "NONE" /\ station'[s] = "ACTIVE"
        /\ \A r \in Stations \ {s} : station'[r] = station[r]
    BY <1>2 DEF CreateStation, TypeOK
  <2>2. \A r : LiveLockers(r)' = LiveLockers(r)
    BY <2>1 DEF LiveLockers
  <2>3. \A o \in Operators :
           /\ Creating(o) => request[o].image.station \in Stations
           /\ At(o, "countLockers") \/ At(o, "writeStation") => request[o].id \in Stations
    BY LockerAwait, StationAwait DEF LockerRequestType, StationRequestType, LockerRow
  <2> QED
    BY <2>1, <2>2, <2>3 DEF FreshInv, Creating, Editing, At
<1>3. ASSUME NEW o \in Operators, StationRequest(o) PROVE FreshInv'
  <2> \A x \in Operators \ {o} : request'[x] = None
    BY <1>3, OthersIdle
  <2>1. ASSUME NEW s \in Stations, UpdateStation(o, s) PROVE FreshInv'
    <3>1. /\ UNCHANGED <<station, locker>>
          /\ request'[o] = [at |-> "writeStation", id |-> s, image |-> "ACTIVE"]
          /\ station[s] = "ACTIVE"
      BY <2>1 DEF UpdateStation, HoldStation, TypeOK
    <3> QED
      BY <3>1, FreshRead DEF Creating, Editing, At
  <2>2. ASSUME NEW s \in Stations, DecommissionStation(o, s) PROVE FreshInv'
    <3>1. /\ UNCHANGED <<station, locker>>
          /\ request'[o] = [at |-> "countLockers", id |-> s, image |-> station[s]]
          /\ station[s] # "NONE"
      BY <2>2 DEF DecommissionStation, HoldStation, TypeOK
    <3> QED
      BY <3>1, FreshRead DEF Creating, Editing, At
  <2>3. CASE CountLiveLockers(o)
    <3>1. UNCHANGED <<station, locker>> /\ At(o, "countLockers")
      BY <2>3 DEF CountLiveLockers
    <3>2. request[o].image = station[request[o].id]
      BY <3>1 DEF FreshInv
    <3>3. CASE request'[o] = None
      BY <3>1, <3>3, FreshRead DEF Creating, Editing, At
    <3>4. CASE /\ LiveLockers(request[o].id) = {} /\ request[o].image = "ACTIVE"
               /\ request'[o] = [at |-> "writeStation", id |-> request[o].id,
                                 image |-> "DECOMMISSIONED"]
      <4>1. ~Creating(o)' /\ ~Editing(o)' /\ ~At(o, "countLockers")'
        BY <3>4 DEF Creating, Editing, At
      <4>5. request'[o].id = request[o].id
        BY <3>4
      <4>2. station[request'[o].id] = "ACTIVE"
        BY <3>2, <3>4, <4>5
      <4>3. LiveLockers(request'[o].id) = {}
        BY <3>4, <4>5 DEF LiveLockers
      <4>4. UNCHANGED <<station, locker>>
        BY <3>1
      <4> QED
        BY <4>1, <4>2, <4>3, <4>4, FreshRead
    <3> QED
      BY <2>3, <3>3, <3>4 DEF CountLiveLockers, HoldStation, Done, TypeOK
  <2>4. CASE WriteStation(o)
    <3> DEFINE s == request[o].id
    <3>1. request[o] \in StationRequestType /\ At(o, "writeStation")
      BY <2>4, StationAwait DEF WriteStation
    <3>2. /\ UNCHANGED locker /\ request'[o] = None
          /\ s \in Stations /\ station'[s] = request[o].image
          /\ \A r \in Stations \ {s} : station'[r] = station[r]
      BY <2>4, <3>1 DEF WriteStation, Done, StationRequestType, TypeOK
    <3>3. \A r : LiveLockers(r)' = LiveLockers(r)
      BY <3>2 DEF LiveLockers
    <3>4. request[o].image = "DECOMMISSIONED" => LiveLockers(s) = {}
      BY <3>1 DEF FreshInv
    <3>5. \A r \in Stations : station'[r] = "DECOMMISSIONED" => LiveLockers(r)' = {}
      BY <3>2, <3>3, <3>4 DEF FreshInv
    <3> QED
      BY <3>2, <3>5 DEF FreshInv, Creating, Editing, At
  <2> QED
    BY <1>3, <2>1, <2>2, <2>3, <2>4 DEF StationRequest
<1>4. ASSUME NEW o \in Operators, LockerRequest(o) PROVE FreshInv'
  <2> \A x \in Operators \ {o} : request'[x] = None
    BY <1>4, OthersIdle
  <2>1. ASSUME NEW l \in Lockers, NEW s \in Stations, NEW c \in Codes,
               CreateLocker(o, l, s, c)
        PROVE  FreshInv'
    <3>1. /\ UNCHANGED <<station, locker>>
          /\ request'[o].at = "checkNewCode" /\ request'[o].image.station = s
          /\ station[s] = "ACTIVE"
      BY <2>1 DEF CreateLocker, HoldLocker, TypeOK
    <3> QED
      BY <3>1, FreshRead DEF Creating, Editing, At
  <2>2. ASSUME NEW l \in Lockers, NEW c \in Codes \cup {None}, NEW st \in LiveStatus \cup {None},
               UpdateLocker(o, l, c, st)
        PROVE  FreshInv'
    <3>1. /\ UNCHANGED <<station, locker>>
          /\ request'[o].at \in {"checkCode", "writeLocker"} /\ request'[o].id = l
          /\ request'[o].image = Edited(locker[l], c, st)
          /\ request'[o].omitted = Omitted(c, st)
          /\ locker[l] # None /\ locker[l].status # "DECOMMISSIONED"
      BY <2>2 DEF UpdateLocker, HoldLocker, TypeOK
    <3>2. /\ "code" \in Omitted(c, st) => c = None
          /\ "status" \in Omitted(c, st) => st = None
      BY DEF Omitted
    <3>3. /\ "code" \in Omitted(c, st) => Edited(locker[l], c, st).code = locker[l].code
          /\ "status" \in Omitted(c, st) => Edited(locker[l], c, st).status = locker[l].status
      BY <3>1, <3>2, EditedRow DEF TypeOK
    <3> QED
      BY <3>1, <3>3, FreshRead DEF Creating, Editing, At
  <2>3. ASSUME NEW l \in Lockers, DecommissionLocker(o, l) PROVE FreshInv'
    <3>1. /\ UNCHANGED <<station, locker>>
          /\ request'[o].at = "writeLocker" /\ request'[o].id = l
          /\ request'[o].image = [locker[l] EXCEPT !.status = "DECOMMISSIONED"]
          /\ request'[o].omitted = {"code"}
          /\ locker[l] \in LockerRow /\ locker[l].status # "DECOMMISSIONED"
      BY <2>3 DEF DecommissionLocker, HoldLocker, TypeOK
    <3>2. [locker[l] EXCEPT !.status = "DECOMMISSIONED"].code = locker[l].code
      BY <3>1 DEF LockerRow
    <3> QED
      BY <3>1, <3>2, FreshRead DEF Creating, Editing, At
  <2>4. CASE CheckNewCode(o) \/ CheckCode(o)
    <3>1. request[o] \in LockerRequestType
      BY <2>4, LockerAwait DEF CheckNewCode, CheckCode, Creating, Editing
    <3>2. /\ UNCHANGED <<station, locker>> /\ request[o] # None
          /\ \/ request'[o] = None
             \/ /\ request'[o].id = request[o].id /\ request'[o].image = request[o].image
                /\ request'[o].omitted = request[o].omitted
                /\ \/ request[o].at = "checkNewCode" /\ request'[o].at = "insertLocker"
                   \/ request[o].at = "checkCode" /\ request'[o].at = "writeLocker"
      BY <2>4, <3>1 DEF CheckNewCode, CheckCode, GoOn, Done, TypeOK, LockerRequestType, At
    <3>3. /\ Creating(o)' => Creating(o) /\ request'[o].image = request[o].image
          /\ Editing(o)' =>
                /\ Editing(o) /\ request'[o].id = request[o].id
                /\ request'[o].image = request[o].image
                /\ request'[o].omitted = request[o].omitted
          /\ ~At(o, "countLockers")' /\ ~At(o, "writeStation")'
      BY <3>2 DEF Creating, Editing, At
    <3>4. UNCHANGED <<station, locker>>
      BY <3>2
    <3> QED
      BY <3>3, <3>4, FreshRead DEF FreshInv
  <2>5. CASE WriteLocker(o)
    <3> DEFINE l == request[o].id
               row == request[o].image
    <3>1. request[o] \in LockerRequestType /\ (Creating(o) \/ Editing(o))
      BY <2>5, LockerAwait DEF WriteLocker, Creating, Editing
    <3>2. /\ l \in Lockers /\ row \in LockerRow /\ row.station \in Stations
          /\ UNCHANGED station /\ request'[o] = None
      BY <2>5, <3>1 DEF WriteLocker, Done, LockerRequestType, LockerRow, TypeOK
    <3>3. CASE UNCHANGED locker
      BY <3>2, <3>3, FreshRead DEF Creating, Editing, At
    <3>4. CASE locker' = [locker EXCEPT ![l] = row]
      <4>1. locker'[l] = row /\ \A m \in Lockers \ {l} : locker'[m] = locker[m]
        BY <3>2, <3>4 DEF TypeOK
      <4>2. station[row.station] # "DECOMMISSIONED"
        <5>1. CASE Creating(o)
          BY <5>1 DEF FreshInv
        <5>2. CASE Editing(o)
          <6>1. l \in LiveLockers(row.station)
            BY <3>2, <5>2 DEF RequestInv, FreshInv, LiveLockers
          <6> QED
            BY <3>2, <6>1 DEF FreshInv
        <5> QED
          BY <3>1, <5>1, <5>2
      <4>3. ASSUME NEW s \in Stations, station[s] = "DECOMMISSIONED"
            PROVE  LiveLockers(s)' = {}
        <5>1. LiveLockers(s) = {} /\ row.station # s
          BY <4>2, <4>3 DEF FreshInv
        <5> QED
          BY <4>1, <5>1 DEF LiveLockers
      <4> QED
        BY <3>2, <4>3 DEF FreshInv, Creating, Editing, At
    <3> QED
      BY <2>5, <3>3, <3>4 DEF WriteLocker
  <2> QED
    BY <1>4, <2>1, <2>2, <2>3, <2>4, <2>5 DEF LockerRequest
<1>5. ASSUME NEW o \in Operators, Fail(o) PROVE FreshInv'
  <2>1. UNCHANGED <<station, locker>> /\ request'[o] = None
    BY <1>5 DEF Fail, Done, TypeOK
  <2>2. \A x \in Operators \ {o} : request'[x] = None
    BY <1>5, OthersIdle
  <2> QED
    BY <2>1, <2>2, FreshRead DEF Creating, Editing, At
<1>6. ASSUME NEW l \in Lockers, Store(l) \/ Retrieve(l) PROVE FreshInv'
  BY <1>6 DEF Store, Retrieve, FreshInv, Creating, Editing, At, LiveLockers
<1> QED
  BY <1>1, <1>2, <1>3, <1>4, <1>5, <1>6, <1>7 DEF Next

\* Until requests overlap, what a request read is what is still there.
THEOREM SerialInvariance == Spec => []SerialInv
<1>1. Init => SerialInv
  BY RegistryAssumption
     DEF Init, SerialInv, IInv, FreshInv, TypeOK, RequestInv, CodesUniquePerStation, Creating,
         Editing, At, StationStatus
<1>2. SerialInv /\ [Next]_vars => SerialInv'
  BY SerialStep
<1> QED
  BY <1>1, <1>2, PTL DEF Spec

\* Until requests overlap, a station is retired only when its lockers are, and no
\* locker is added to it afterwards.
THEOREM RetiredStationsAreEmpty == Spec => []RetiredStationIsEmpty
<1>1. SerialInv => RetiredStationIsEmpty
  BY DEF SerialInv, FreshInv, RetiredStationIsEmpty
<1> QED
  BY <1>1, SerialInvariance, PTL

\* Until requests overlap, a retired locker never returns to service.
THEOREM LockersStayRetired == Spec => LockerStaysRetired
<1> DEFINE Terminal == \A l \in Lockers :
        ~overlap /\ locker[l] # None /\ locker[l].status = "DECOMMISSIONED" =>
            locker'[l].status = "DECOMMISSIONED"
<1>1. SerialInv /\ [Next]_vars => [Terminal]_vars
  <2> SUFFICES ASSUME SerialInv, [Next]_vars, NEW l \in Lockers, ~overlap, locker[l] # None,
                      locker[l].status = "DECOMMISSIONED", locker'[l] # locker[l]
               PROVE  FALSE
    BY DEF vars
  <2>1. PICK o \in Operators : WriteLocker(o) /\ request[o].id = l
    BY RowsChange DEF SerialInv, IInv
  <2>2. Creating(o) \/ Editing(o)
    BY <2>1 DEF WriteLocker, Creating, Editing
  <2> QED
    BY <2>1, <2>2 DEF SerialInv, IInv, RequestInv, FreshInv
<1> QED
  BY <1>1, SerialInvariance, PTL DEF Spec, LockerStaysRetired

\* Until requests overlap, an edit leaves the columns its input does not name.
THEOREM OmittedColumnsKept == Spec => OmittedFieldKept
<1> DEFINE Kept == \A o \in Operators :
        ~overlap /\ WriteLocker(o) /\ At(o, "writeLocker") =>
            LET l == request[o].id IN
            /\ "code" \in request[o].omitted => locker'[l].code = locker[l].code
            /\ "status" \in request[o].omitted => locker'[l].status = locker[l].status
<1>1. SerialInv /\ [Next]_vars => [Kept]_vars
  <2> SUFFICES ASSUME SerialInv, NEW o \in Operators, ~overlap, WriteLocker(o), At(o, "writeLocker")
               PROVE  LET l == request[o].id IN
                      /\ "code" \in request[o].omitted => locker'[l].code = locker[l].code
                      /\ "status" \in request[o].omitted => locker'[l].status = locker[l].status
    OBVIOUS
  <2>1. Editing(o)
    BY DEF Editing
  <2>2. request[o] \in LockerRequestType
    BY <2>1, LockerAwait DEF SerialInv, IInv
  <2>3. locker'[request[o].id] \in {locker[request[o].id], request[o].image}
    BY <2>2 DEF WriteLocker, LockerRequestType, SerialInv, IInv, TypeOK
  <2> QED
    BY <2>1, <2>3 DEF SerialInv, FreshInv
<1> QED
  BY <1>1, SerialInvariance, PTL DEF Spec, OmittedFieldKept

\* Until requests overlap, a retired station never reopens.
THEOREM StationsStayRetired == Spec => StationStaysRetired
<1> DEFINE Terminal == \A s \in Stations :
        ~overlap /\ station[s] = "DECOMMISSIONED" => station'[s] = "DECOMMISSIONED"
<1>1. SerialInv /\ [Next]_vars => [Terminal]_vars
  <2> SUFFICES ASSUME SerialInv, [Next]_vars, NEW s \in Stations, ~overlap,
                      station[s] = "DECOMMISSIONED", station'[s] # "DECOMMISSIONED"
               PROVE  FALSE
    BY DEF vars
  <2>1. CASE \E r \in Stations : CreateStation(r)
    BY <2>1 DEF CreateStation, SerialInv, IInv, TypeOK
  <2>2. ASSUME NEW o \in Operators, WriteStation(o) PROVE FALSE
    <3>1. request[o] \in StationRequestType
      BY <2>2, StationAwait DEF WriteStation, SerialInv, IInv
    <3>2. request[o].id = s
      BY <2>2, <3>1 DEF WriteStation, SerialInv, IInv, TypeOK, StationRequestType
    <3>3. station[request[o].id] = "ACTIVE"
      BY <2>2 DEF WriteStation, SerialInv, FreshInv
    <3> QED
      BY <3>2, <3>3
  <2> QED
    BY <2>1, <2>2
       DEF Next, vars, StationRequest, UpdateStation, DecommissionStation, CountLiveLockers,
           LockerRequest, CreateLocker, UpdateLocker, DecommissionLocker, CheckNewCode,
           CheckCode, WriteLocker, Fail, CheckStation, StoreFails, Store, Retrieve
<1> QED
  BY <1>1, SerialInvariance, PTL DEF Spec, StationStaysRetired

-----------------------------------------------------------------------------
(* Parcels in retired lockers. *)

\* Only decommissionLocker carries a retired image, and it goes straight to its
\* write; a parcel behind such an image, or in a retired locker, came in between.
ParcelInv ==
    /\ \A o \in Operators :
        At(o, "checkNewCode") \/ At(o, "insertLocker") \/ At(o, "checkCode") =>
            request[o].image.status # "DECOMMISSIONED"
    /\ \A l \in occupied :
        /\ locker[l] # None
        /\ l \in raced \/ (locker[l].status # "DECOMMISSIONED" /\ ~BeingRetired(l))

\* A step that leaves rows and parcels alone and changes at most o's request
\* keeps ParcelInv, if o's request retires no occupied locker anew.
LEMMA ParcelRequest ==
    ASSUME TypeOK, ParcelInv, NEW o \in Operators, UNCHANGED <<locker, occupied, raced>>,
           \A x \in Operators \ {o} : request'[x] = request[x],
           At(o, "checkNewCode")' \/ At(o, "insertLocker")' \/ At(o, "checkCode")' =>
              request'[o].image.status # "DECOMMISSIONED",
           At(o, "writeLocker")' /\ request'[o].image.status = "DECOMMISSIONED" =>
              request'[o].id \notin occupied
    PROVE  ParcelInv'
<1>1. \A l \in occupied : BeingRetired(l)' => BeingRetired(l)
  BY DEF BeingRetired, At
<1> QED
  BY <1>1 DEF ParcelInv, At

\* Every step keeps the invariant about parcels and retirement.
LEMMA ParcelStep ==
    ASSUME IInv, ParcelInv, [Next]_vars
    PROVE  ParcelInv'
<1> TypeOK
  BY DEF IInv
<1>1. CASE UNCHANGED vars
  BY <1>1 DEF vars, drops, ParcelInv, BeingRetired, At
<1>2. ASSUME NEW s \in Stations, CreateStation(s) \/ CheckStation(s) \/ StoreFails(s)
      PROVE  ParcelInv'
  BY <1>2 DEF CreateStation, CheckStation, StoreFails, drops, ParcelInv, BeingRetired, At
<1>3. ASSUME NEW o \in Operators, StationRequest(o) PROVE ParcelInv'
  <2>1. /\ UNCHANGED <<locker, occupied, raced>>
        /\ \A x \in Operators \ {o} : request'[x] = request[x]
        /\ request'[o] = None \/ request'[o].at \in {"writeStation", "countLockers"}
    <3>1. ASSUME NEW s \in Stations, UpdateStation(o, s) \/ DecommissionStation(o, s)
          PROVE  <2>1!1 /\ <2>1!2 /\ <2>1!3
      BY <3>1 DEF UpdateStation, DecommissionStation, HoldStation, TypeOK, drops
    <3>2. CASE CountLiveLockers(o)
      BY <3>2 DEF CountLiveLockers, HoldStation, Done, TypeOK, drops
    <3>3. CASE WriteStation(o)
      BY <3>3 DEF WriteStation, Done, TypeOK, drops
    <3> QED
      BY <1>3, <3>1, <3>2, <3>3 DEF StationRequest
  <2> QED
    BY <2>1, ParcelRequest DEF At
<1>4. ASSUME NEW o \in Operators, LockerRequest(o) PROVE ParcelInv'
  <2>1. ASSUME NEW l \in Lockers, NEW s \in Stations, NEW c \in Codes,
               CreateLocker(o, l, s, c)
        PROVE  ParcelInv'
    <3>1. /\ UNCHANGED <<locker, occupied, raced>>
          /\ \A x \in Operators \ {o} : request'[x] = request[x]
          /\ request'[o].at = "checkNewCode" /\ request'[o].image.status = "IN_SERVICE"
      BY <2>1 DEF CreateLocker, HoldLocker, TypeOK, drops
    <3> QED
      BY <3>1, ParcelRequest DEF At
  <2>2. ASSUME NEW l \in Lockers, NEW c \in Codes \cup {None}, NEW st \in LiveStatus \cup {None},
               UpdateLocker(o, l, c, st)
        PROVE  ParcelInv'
    <3>1. /\ UNCHANGED <<locker, occupied, raced>>
          /\ \A x \in Operators \ {o} : request'[x] = request[x]
          /\ request'[o].image = Edited(locker[l], c, st)
          /\ locker[l] \in LockerRow /\ locker[l].status # "DECOMMISSIONED"
      BY <2>2 DEF UpdateLocker, HoldLocker, TypeOK, drops
    <3>2. Edited(locker[l], c, st).status # "DECOMMISSIONED"
      BY <3>1, EditedRow DEF LiveStatus
    <3> QED
      BY <3>1, <3>2, ParcelRequest
  <2>3. ASSUME NEW l \in Lockers, DecommissionLocker(o, l) PROVE ParcelInv'
    <3>1. /\ UNCHANGED <<locker, occupied, raced>>
          /\ \A x \in Operators \ {o} : request'[x] = request[x]
          /\ request'[o].at = "writeLocker" /\ request'[o].id = l /\ l \notin occupied
      BY <2>3 DEF DecommissionLocker, HoldLocker, TypeOK, drops
    <3> QED
      BY <3>1, ParcelRequest DEF At
  <2>4. CASE CheckNewCode(o) \/ CheckCode(o)
    <3>1. request[o] \in LockerRequestType /\ (At(o, "checkNewCode") \/ At(o, "checkCode"))
      BY <2>4, LockerAwait DEF CheckNewCode, CheckCode, Creating, Editing
    <3>2. /\ UNCHANGED <<locker, occupied, raced>>
          /\ \A x \in Operators \ {o} : request'[x] = request[x]
          /\ request'[o] = None \/ request'[o].image = request[o].image
      BY <2>4, <3>1 DEF CheckNewCode, CheckCode, GoOn, Done, TypeOK, LockerRequestType, drops
    <3>3. request[o].image.status # "DECOMMISSIONED"
      BY <3>1 DEF ParcelInv
    <3> QED
      BY <3>2, <3>3, ParcelRequest DEF At
  <2>5. CASE WriteLocker(o)
    <3> DEFINE l == request[o].id
               row == request[o].image
    <3>1. request[o] \in LockerRequestType
      BY <2>5, LockerAwait DEF WriteLocker, Creating, Editing
    <3>2. l \in Lockers /\ row \in LockerRow /\ row # None
      BY <3>1, RegistryAssumption DEF LockerRequestType
    <3>3. /\ UNCHANGED <<occupied, raced>>
          /\ \A x \in Operators \ {o} : request'[x] = request[x]
          /\ request'[o] = None
      BY <2>5 DEF WriteLocker, Done, TypeOK, drops
    <3>4. CASE UNCHANGED locker
      BY <3>3, <3>4, ParcelRequest DEF At
    <3>5. CASE locker' = [locker EXCEPT ![l] = row]
      <4>1. locker'[l] = row /\ \A m \in Lockers \ {l} : locker'[m] = locker[m]
        BY <3>2, <3>5 DEF TypeOK
      <4>2. \A m : BeingRetired(m)' => BeingRetired(m)
        BY <3>3 DEF BeingRetired, At
      <4>3. row.status = "DECOMMISSIONED" => BeingRetired(l)
        BY <2>5 DEF WriteLocker, ParcelInv, BeingRetired
      <4>4. occupied \subseteq Lockers
        BY DEF TypeOK
      <4>5. \A m \in occupied :
               /\ locker'[m] # None
               /\ m \in raced \/ (locker'[m].status # "DECOMMISSIONED" /\ ~BeingRetired(m)')
        BY <3>2, <4>1, <4>2, <4>3, <4>4 DEF ParcelInv
      <4> QED
        BY <3>3, <4>5 DEF ParcelInv, At
    <3> QED
      BY <2>5, <3>4, <3>5 DEF WriteLocker
  <2> QED
    BY <1>4, <2>1, <2>2, <2>3, <2>4, <2>5 DEF LockerRequest
<1>5. ASSUME NEW o \in Operators, Fail(o) PROVE ParcelInv'
  <2>1. /\ UNCHANGED <<locker, occupied, raced>>
        /\ \A x \in Operators \ {o} : request'[x] = request[x]
        /\ request'[o] = None
    BY <1>5 DEF Fail, Done, TypeOK, drops
  <2> QED
    BY <2>1, ParcelRequest DEF At
<1>6. ASSUME NEW l \in Lockers, Store(l) PROVE ParcelInv'
  <2>1. \A m : BeingRetired(m)' <=> BeingRetired(m)
    BY <1>6 DEF Store, BeingRetired, At
  <2>2. /\ UNCHANGED <<locker, request>> /\ occupied' = occupied \cup {l}
        /\ raced \subseteq raced'
        /\ BeingRetired(l) => l \in raced'
        /\ locker[l] # None /\ locker[l].status = "IN_SERVICE"
    BY <1>6 DEF Store
  <2> QED
    BY <2>1, <2>2 DEF ParcelInv, At
<1>7. ASSUME NEW l \in Lockers, Retrieve(l) PROVE ParcelInv'
  BY <1>7 DEF Retrieve, ParcelInv, BeingRetired, At
<1> QED
  BY <1>1, <1>2, <1>3, <1>4, <1>5, <1>6, <1>7 DEF Next

\* However stale the occupancy and the station a handler looked at, a retired
\* locker or a retired station holds no parcel but one that was dropped between
\* the check and the write of its locker's retirement.
THEOREM RetiredLockersHoldNoParcel == Spec => []RetiredHoldsNoParcel
<1>1. Init => ParcelInv
  BY DEF Init, ParcelInv, At
<1>2. SerialInv /\ ParcelInv /\ [Next]_vars => ParcelInv'
  BY ParcelStep DEF SerialInv
<1>3. SerialInv /\ ParcelInv => RetiredHoldsNoParcel
  <2> SUFFICES ASSUME SerialInv, ParcelInv, NEW l \in occupied, l \notin raced
               PROVE  /\ locker[l].status # "DECOMMISSIONED"
                      /\ overlap \/ station[locker[l].station] # "DECOMMISSIONED"
    BY DEF RetiredHoldsNoParcel
  <2>1. locker[l] # None /\ locker[l].status # "DECOMMISSIONED"
    BY DEF ParcelInv
  <2>2. l \in Lockers /\ locker[l].station \in Stations
    BY <2>1 DEF SerialInv, IInv, TypeOK, LockerRow
  <2>3. ~overlap => station[locker[l].station] # "DECOMMISSIONED"
    BY <2>1, <2>2 DEF SerialInv, FreshInv, LiveLockers
  <2> QED
    BY <2>1, <2>3
<1> QED
  BY <1>1, <1>2, <1>3, SerialInvariance, PTL DEF Spec
=============================================================================
