-------------------------- MODULE MCLockerRegistry --------------------------
(* Small instances of LockerRegistry. *)
EXTENDS LockerRegistry, TLC

Symmetry ==
    Permutations(Operators) \cup Permutations(Stations) \cup Permutations(Lockers)
        \cup Permutations(Codes)
=============================================================================
