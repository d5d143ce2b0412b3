----------------------------- MODULE MCFanOut -----------------------------
(* A small instance of FanOut; the constants are those of MCStorePackage. *)
EXTENDS FanOut, TLC

CONSTANTS SmallLockers, SmallPackages, TheStation

MCLockerStation == [l \in Lockers |-> TheStation]
MCLockerRank == [l \in Lockers |-> IF l \in SmallLockers THEN 10 ELSE 20]
MCLockerCode == [l \in Lockers |-> l]
MCPackageRank == [p \in Packages |-> IF p \in SmallPackages THEN 10 ELSE 20]

Symmetry == Permutations(Agents) \cup Permutations(Doors) \cup Permutations(AssignmentIds)
=============================================================================
