------------------------------- MODULE BestFit -------------------------------
(***************************************************************************)
(* StorePackage with a history variable: the lockers a request could have  *)
(* had throughout its current allocation attempt.  A locker is steady for  *)
(* a request if ever since the transaction began it has been suitable,     *)
(* empty and not locked by another transaction.  Lockers that come and go  *)
(* while the index walk passes are excused; a steady one is not.           *)
(***************************************************************************)
EXTENDS StorePackage

VARIABLE steady

fitVars == <<vars, steady>>

\* What a request that began its walk now would find available.
Available(a) ==
    {l \in Lockers : Suitable(a, l) /\ l \notin OccupiedLockers /\ ~LockedByOther(a, l)}

\* A walk starts with everything available and only loses lockers.
TrackSteady ==
    steady' = [a \in Agents |->
        CASE pc'[a] = "scan" /\ pc[a] = "begin" -> Available(a)'
          [] pc[a] = "scan" -> steady[a] \cap Available(a)
          [] OTHER -> {}]

FitInit == Init /\ steady = [a \in Agents |-> {}]

FitNext == Next /\ TrackSteady

FitSpec == FitInit /\ [][FitNext]_fitVars

-----------------------------------------------------------------------------

\* The allocator gives the smallest locker that fits: a walk that stops at a
\* locker has passed no steady one that comes earlier in (size_rank, code).
SmallestFit ==
    [][\A a \in Agents :
          pc[a] = "scan" /\ pc'[a] = "insert" =>
              \A m \in steady[a] \cap Available(a) : ~Before(m, cursor'[a])]_fitVars

\* no_suitable_locker is never answered while one locker stood free, in service
\* and unlocked for the whole attempt.
RefusedOnlyWhenFull ==
    [][\A a \in Agents :
          pc[a] = "scan" /\ reply'[a] = "no_suitable_locker" =>
              steady[a] \cap Available(a) = {}]_fitVars
=============================================================================
