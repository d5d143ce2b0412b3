------------------------------ MODULE MCListing ------------------------------
(***************************************************************************)
(* Listing with the orders that differ in kind (a column that never        *)
(* changes, one that is NULL at first, one that can be edited), unfiltered *)
(* and filtered, and limits below, within and above the cap.               *)
(***************************************************************************)
EXTENDS Listing

AllPackages == [customer |-> None, station |-> None, status |-> None]
AllLockers ==
    [station |-> None, availability |-> None, status |-> None,
     includeDecommissioned |-> FALSE]

By(field, direction) == [field |-> field, direction |-> direction]

QueryOf(filter, sort, limit) == [filter |-> filter, sort |-> sort, limit |-> limit]

PackageQueries ==
    {QueryOf(AllPackages, By("registeredAt", "desc"), 9),
     QueryOf([AllPackages EXCEPT !.status = "STORED"], By("registeredAt", "asc"), 0),
     QueryOf(AllPackages, By("storedAt", "asc"), None)}

LockerQueries ==
    {QueryOf([AllLockers EXCEPT !.availability = "FREE"], By("code", "asc"), None)}

MCMaxWrites == [package |-> 4, locker |-> 3]

MCRequests == [package |-> PackageQueries, locker |-> LockerQueries]
=============================================================================
