------------------------------- MODULE FanOut -------------------------------
(***************************************************************************)
(* The scenario README.md ("Concurrency") leaves untested: more concurrent *)
(* stores than lockers, every request for a parcel of its own, no faults,  *)
(* no collections and no operator in between.  Every request is made once. *)
(***************************************************************************)
EXTENDS StorePackage

\* A request not made yet, for a parcel no other request is about.
FirstRequest(a) ==
    /\ job[a] = None
    /\ \E p \in Packages, s \in Stations :
          /\ \A b \in Agents : job[b] # None => job[b].package # p
          /\ FindPackage(a, p, s)

\* Every parcel was registered before the agents arrived.
FanOutInit ==
    /\ Init
    /\ stationStatus = [s \in Stations |-> "ACTIVE"]

FanOutNext ==
    \/ \E p \in Packages : Register(p)
    \/ /\ \A p \in Packages : package[p] # "NONE"
       /\ \E a \in Agents : FirstRequest(a) \/ StoreStep(a)

FanOutSpec == FanOutInit /\ [][FanOutNext]_vars

AllAnswered == \A a \in Agents : job[a] # None /\ pc[a] = "idle"

-----------------------------------------------------------------------------

\* Fan-out under M lockers and N > M stores (README.md, "Concurrency"): once
\* everybody has an answer, a request that was told no_suitable_locker finds every
\* locker it could have had filled, so that no refusal came from standing behind
\* a peer; and a request gave up its retries only if more lockers than it had
\* attempts were filled under its eyes.
NoSpuriousRefusal ==
    AllAnswered =>
        \A a \in Agents :
            reply[a] # "stored" =>
                \/ /\ reply[a] = "no_suitable_locker"
                   /\ \A l \in Lockers : Suitable(a, l) => l \in OccupiedLockers
                \/ /\ reply[a] = "locker_just_taken"
                   /\ Cardinality(OccupiedLockers) > MAX_ATTEMPTS
=============================================================================
