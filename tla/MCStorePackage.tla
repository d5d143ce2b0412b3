--------------------------- MODULE MCStorePackage ---------------------------
(* Small instances of StorePackage.  Lockers and packages are numbers: locker *)
(* l has code l; lockers and packages are small or a size larger.             *)
EXTENDS StorePackage, TLC

CONSTANTS
    SmallLockers,    \* the lockers of size rank 10; the others have rank 20
    SmallPackages,   \* the packages that need rank 10; the others need rank 20
    TheStation,      \* the station every locker stands at
    Repeaters,       \* bound: requests that are only ever made for RepeatedPackages
    RepeatedPackages

MCLockerStation == [l \in Lockers |-> TheStation]
MCLockerRank == [l \in Lockers |-> IF l \in SmallLockers THEN 10 ELSE 20]
MCLockerCode == [l \in Lockers |-> l]
MCPackageRank == [p \in Packages |-> IF p \in SmallPackages THEN 10 ELSE 20]

\* Nobody is obliged to make a request.  In this instance they begin when all
\* packages are registered, the repeaters ask for the repeated packages only, and
\* stations are written before anybody's transaction.
FewerRequests ==
    /\ \A a \in Agents :
          pc[a] = "idle" /\ pc'[a] # "idle" =>
              /\ \A p \in Packages : package[p] # "NONE"
              /\ a \in Repeaters => job'[a].package \in RepeatedPackages
    /\ stationStatus' # stationStatus => \A a \in Agents : pc[a] \in {"idle", "findStation"}

AnsweredSpec == Init /\ [][Next /\ FewerRequests]_vars /\ Fairness

Symmetry == Permutations(Agents) \cup Permutations(Doors) \cup Permutations(AssignmentIds)

\* States that differ in nothing but the ids of rows, in answers given and in what
\* finished requests were about are one state to a run that asks whether requests
\* end: no action reads these.
WithoutAnswers ==
    <<package, {assignment[i] : i \in AssignmentIds}, stationStatus, lockerStatus,
      pc, [a \in Agents |-> IF pc[a] = "idle" THEN None ELSE job[a]], walkVars, doorRow>>
=============================================================================
