----------------------------- MODULE LockerBank -----------------------------
(***************************************************************************)
(* What the locker service promises about parcels, with no requests, no    *)
(* transactions and no races: a parcel is registered, put once into one    *)
(* locker that is empty and large enough, and taken out once.  The         *)
(* detailed specification of the code (StorePackage) implements this one.  *)
(***************************************************************************)
EXTENDS Naturals

CONSTANTS
    Packages,     \* the parcels the service will ever be told about
    Lockers,      \* the lockers of every station
    LockerRank,   \* LockerSize.rank of each locker
    PackageRank,  \* LockerSize.rank each parcel needs
    None          \* the place of a parcel that was never stored

VARIABLES
    status,       \* package.status, "NONE" before the row exists
    place         \* the one locker a parcel was put in

bankVars == <<status, place>>

\* LockerSize.fits: an exact match or anything larger.
Fits(l, p) == LockerRank[l] >= PackageRank[p]

Occupied(l) == \E p \in Packages : status[p] = "STORED" /\ place[p] = l

Init ==
    /\ status = [p \in Packages |-> "NONE"]
    /\ place = [p \in Packages |-> None]

Register(p) ==
    /\ status[p] = "NONE"
    /\ status' = [status EXCEPT ![p] = "REGISTERED"]
    /\ UNCHANGED place

Store(p, l) ==
    /\ status[p] = "REGISTERED"
    /\ Fits(l, p)
    /\ ~Occupied(l)
    /\ status' = [status EXCEPT ![p] = "STORED"]
    /\ place' = [place EXCEPT ![p] = l]

Retrieve(p) ==
    /\ status[p] = "STORED"
    /\ status' = [status EXCEPT ![p] = "RETRIEVED"]
    /\ UNCHANGED place

Next ==
    \E p \in Packages :
        \/ Register(p)
        \/ Retrieve(p)
        \/ \E l \in Lockers : Store(p, l)

Spec == Init /\ [][Next]_bankVars
=============================================================================
