-------------------------- MODULE PickupDoorProofs --------------------------
(***************************************************************************)
(* Proofs about PickupDoor, for any number of lockers, parcels, codes and  *)
(* concurrent requests, with and without failures of Redis and of the      *)
(* requests.                                                               *)
(***************************************************************************)
EXTENDS PickupDoor, FiniteSetTheorems, TLAPS

\* A retrieval past its check has an input, and past its lookup a parcel.
DoorInv ==
    \A d \in Doors :
        /\ dpc[d] # "idle" => visit[d] \in Visit
        /\ dpc[d] \in {"count", "save", "clear"} => found[d] \in Packages

\* A re-issue has a parcel, then the hash it read, then the hash it minted.
CustomerInv ==
    \A c \in Customers :
        /\ cpc[c] # "idle" => asked[c] \in Packages
        /\ cpc[c] \in {"save", "count", "clear"} => old[c] \in Hashes
        /\ cpc[c] \in {"count", "clear"} => fresh[c] \in Hashes

\* A parcel behind a door has a code.
StoredInv == \A p \in Packages : status[p] = "STORED" => hash[p] \in Hashes

IInv == TypeOK /\ DoorInv /\ CustomerInv /\ StoredInv /\ HandedOutOnce

-----------------------------------------------------------------------------

\* What the two scripts and the passing of time leave is a counter.
LEMMA CounterOps ==
    ASSUME NEW k \in Counter, NEW ttl \in {Lockout, Window}
    PROVE  /\ NoKey \in Counter
           /\ Age(k) \in Counter
           /\ CountFailure(k, ttl) \in Counter
BY DoorAssumption DEF Counter, NoKey, Age, CountFailure, OneMore

\* The history of counted events is followed up to the bound.
LEMMA OneMoreType ==
    ASSUME NEW n \in 0 .. CountBound PROVE OneMore(n) \in 0 .. CountBound
BY DoorAssumption DEF OneMore

\* A code hashes to one of the hashes.
LEMMA HashType ==
    ASSUME NEW c \in Codes, NEW p \in Packages
    PROVE  Hash(c, p) \in Hashes
BY DEF Hash, Hashes

\* A drop keeps the invariant.
LEMMA DropStep ==
    ASSUME IInv, NEW p \in Packages, NEW l \in Lockers, NEW c \in Codes, Drop(p, l, c)
    PROVE  IInv'
<1>1. Hash(c, p) \in Hashes
  BY HashType
<1>2. TypeOK'
  BY <1>1 DEF IInv, TypeOK, Drop, doorVars, customerVars, guessVars, issueVars
<1>3. DoorInv' /\ CustomerInv'
  BY DEF IInv, DoorInv, CustomerInv, Drop, doorVars, customerVars
<1>4. StoredInv' /\ HandedOutOnce'
  BY <1>1 DEF IInv, TypeOK, StoredInv, HandedOutOnce, Drop
<1> QED
  BY <1>2, <1>3, <1>4 DEF IInv

\* The passing of a tick keeps the invariant.
LEMMA TickStep ==
    ASSUME IInv, Tick
    PROVE  IInv'
<1>1. /\ attempts' \in [Lockers -> Counter]
      /\ issues' \in [Packages -> Counter]
  BY CounterOps DEF IInv, TypeOK, Tick
<1>2. TypeOK'
  BY <1>1, DoorAssumption DEF IInv, TypeOK, Tick, rowVars, told, doorVars, customerVars
<1> QED
  BY <1>2 DEF IInv, DoorInv, CustomerInv, StoredInv, HandedOutOnce, Tick, rowVars, doorVars,
              customerVars

\* The steps of a retrieval keep the invariant.
LEMMA DoorStepKeeps ==
    ASSUME IInv, NEW d \in Doors,
           \/ \E l \in Lockers, code \in Codes : CheckAttempts(d, l, code)
           \/ DoorStep(d)
           \/ DoorFails(d)
    PROVE  IInv'
<1> USE DEF IInv
<1>1. ASSUME NEW l \in Lockers, NEW code \in Codes, CheckAttempts(d, l, code) PROVE IInv'
  <2>1. TypeOK'
    BY <1>1 DEF TypeOK, CheckAttempts, Visit, rowVars, told, customerVars, issueVars
  <2>2. DoorInv'
    BY <1>1 DEF TypeOK, DoorInv, CheckAttempts, Visit
  <2> QED
    BY <1>1, <2>1, <2>2 DEF CustomerInv, StoredInv, HandedOutOnce, CheckAttempts, rowVars,
                            customerVars
<1>2. CASE FindActiveByLocker(d)
  <2>1. TypeOK' /\ DoorInv'
    <3>1. CASE DoorIdle(d) /\ UNCHANGED guesses
      BY <1>2, <3>1 DEF TypeOK, DoorInv, FindActiveByLocker, DoorIdle, rowVars, told, customerVars,
                        issueVars
    <3>2. ASSUME NEW p \in Packages, NEW next \in {"save", "count"},
                 found' = [found EXCEPT ![d] = p],
                 dpc' = [dpc EXCEPT ![d] = next],
                 UNCHANGED visit,
                 \/ UNCHANGED guesses
                 \/ guesses' = [guesses EXCEPT ![visit[d].locker] = OneMore(@)]
          PROVE  TypeOK' /\ DoorInv'
      <4>1. /\ dpc'[d] \in {"save", "count"} /\ found'[d] = p /\ visit[d] \in Visit
            /\ \A e \in Doors \ {d} : dpc'[e] = dpc[e] /\ found'[e] = found[e]
        BY <1>2, <3>2 DEF FindActiveByLocker, TypeOK, DoorInv
      <4>2. DoorInv'
        BY <3>2, <4>1 DEF DoorInv
      <4>3. guesses' \in [Lockers -> 0 .. CountBound]
        <5>1. visit[d].locker \in Lockers
          BY <4>1 DEF Visit
        <5>2. OneMore(guesses[visit[d].locker]) \in 0 .. CountBound
          BY <5>1, OneMoreType DEF TypeOK
        <5> QED
          BY <3>2, <5>2 DEF TypeOK
      <4>4. TypeOK'
        BY <1>2, <3>2, <4>3 DEF FindActiveByLocker, TypeOK, rowVars, told, customerVars, issueVars
      <4> QED
        BY <4>2, <4>4
    <3> QED
      BY <1>2, <3>1, <3>2 DEF FindActiveByLocker
  <2> QED
    BY <1>2, <2>1 DEF FindActiveByLocker, CustomerInv, StoredInv, HandedOutOnce, rowVars,
                      customerVars
<1>3. CASE RecordFailure(d) \/ ClearAfterPickup(d)
  <2>1. visit[d].locker \in Lockers
    BY <1>3 DEF RecordFailure, ClearAfterPickup, DoorInv, Visit
  <2>2. attempts' \in [Lockers -> Counter]
    <3> DEFINE l == visit[d].locker
    <3>1. attempts[l] \in Counter /\ attempts \in [Lockers -> Counter]
      BY <2>1 DEF TypeOK
    <3>2. NoKey \in Counter /\ CountFailure(attempts[l], Lockout) \in Counter
      BY <3>1, CounterOps
    <3>3. \/ attempts' = [attempts EXCEPT ![l] = CountFailure(attempts[l], Lockout)]
          \/ attempts' = [attempts EXCEPT ![l] = NoKey]
          \/ attempts' = attempts
      BY <1>3 DEF RecordFailure, ClearAfterPickup, ClearAttempts, FailOpen
    <3> QED
      BY <3>1, <3>2, <3>3
  <2>3. DoorIdle(d) /\ UNCHANGED <<rowVars, told, issues, customerVars, issueVars>>
    BY <1>3 DEF RecordFailure, ClearAfterPickup
  <2>4. guesses' \in [Lockers -> 0 .. CountBound] /\ slippedDoors' \in SUBSET Lockers
    BY <1>3, <2>1, DoorAssumption
       DEF RecordFailure, ClearAfterPickup, ClearAttempts, FailOpen, guessVars, TypeOK
  <2>5. TypeOK' /\ DoorInv'
    BY <2>2, <2>3, <2>4 DEF TypeOK, DoorInv, DoorIdle, rowVars, told, customerVars, issueVars
  <2> QED
    BY <2>3, <2>5 DEF CustomerInv, StoredInv, HandedOutOnce, rowVars, customerVars
<1>4. CASE SaveRetrieval(d)
  <2>1. found[d] \in Packages /\ visit[d] \in Visit
    BY <1>4 DEF SaveRetrieval, DoorInv
  <2>2. CASE DoorIdle(d) /\ UNCHANGED <<status, claims>>
    BY <1>4, <2>2 DEF SaveRetrieval, TypeOK, DoorInv, CustomerInv, StoredInv, HandedOutOnce,
                      DoorIdle, told, customerVars, guessVars, issueVars
  <2>3. CASE /\ status[found[d]] = "STORED"
             /\ status' = [status EXCEPT ![found[d]] = "RETRIEVED"]
             /\ claims' = [claims EXCEPT ![found[d]] = @ + 1]
             /\ dpc' = [dpc EXCEPT ![d] = "clear"]
             /\ UNCHANGED <<visit, found>>
    <3>1. TypeOK'
      BY <1>4, <2>1, <2>3 DEF SaveRetrieval, TypeOK, told, customerVars, guessVars, issueVars
    <3>2. DoorInv' /\ StoredInv' /\ HandedOutOnce'
      BY <1>4, <2>1, <2>3 DEF SaveRetrieval, TypeOK, DoorInv, StoredInv, HandedOutOnce
    <3> QED
      BY <1>4, <3>1, <3>2 DEF SaveRetrieval, CustomerInv, customerVars
  <2> QED
    BY <1>4, <2>2, <2>3 DEF SaveRetrieval
<1>5. CASE DoorFails(d)
  <2>1. slippedDoors' \in SUBSET Lockers
    BY <1>5 DEF DoorFails, DoorInv, TypeOK, Visit
  <2> QED
    BY <1>5, <2>1 DEF DoorFails, DoorIdle, TypeOK, DoorInv, CustomerInv, StoredInv, HandedOutOnce,
                      rowVars, told, customerVars, issueVars
<1> QED
  BY <1>1, <1>2, <1>3, <1>4, <1>5 DEF DoorStep

\* The steps of a re-issue keep the invariant.
LEMMA CustomerStepKeeps ==
    ASSUME IInv, NEW c \in Customers,
           \/ \E p \in Packages : CheckReissues(c, p)
           \/ CustomerStep(c)
           \/ CustomerFails(c)
    PROVE  IInv'
<1> USE DEF IInv
<1>1. ASSUME NEW p \in Packages, CheckReissues(c, p) PROVE IInv'
  BY <1>1 DEF CheckReissues, TypeOK, DoorInv, CustomerInv, StoredInv, HandedOutOnce, rowVars,
              told, doorVars, guessVars
<1>2. CASE FindPackage(c)
  <2>1. CASE CustomerIdle(c)
    BY <1>2, <2>1 DEF FindPackage, CustomerIdle, TypeOK, DoorInv, CustomerInv, StoredInv,
                      HandedOutOnce, rowVars, told, doorVars, guessVars, issueVars
  <2>2. CASE /\ status[asked[c]] = "STORED"
             /\ cpc' = [cpc EXCEPT ![c] = "save"]
             /\ old' = [old EXCEPT ![c] = hash[asked[c]]]
             /\ UNCHANGED <<asked, fresh>>
    <3>1. asked[c] \in Packages /\ hash[asked[c]] \in Hashes
      BY <1>2, <2>2 DEF FindPackage, CustomerInv, StoredInv
    <3>2. TypeOK' /\ CustomerInv'
      BY <1>2, <2>2, <3>1 DEF FindPackage, TypeOK, CustomerInv, rowVars, told, doorVars,
                              guessVars, issueVars
    <3> QED
      BY <1>2, <3>2 DEF FindPackage, DoorInv, StoredInv, HandedOutOnce, rowVars, doorVars
  <2> QED
    BY <1>2, <2>1, <2>2 DEF FindPackage
<1>3. ASSUME NEW code \in Codes, SavePickupCode(c, code) PROVE IInv'
  <2>1. asked[c] \in Packages /\ old[c] \in Hashes
    BY <1>3 DEF SavePickupCode, CustomerInv
  <2>2. Hash(code, asked[c]) \in Hashes
    BY <2>1, HashType
  <2>3. CASE CustomerIdle(c) /\ UNCHANGED <<hash, issued>>
    BY <1>3, <2>3 DEF SavePickupCode, CustomerIdle, TypeOK, DoorInv, CustomerInv, StoredInv,
                      HandedOutOnce, told, doorVars, guessVars
  <2>4. CASE /\ hash' = [hash EXCEPT ![asked[c]] = Hash(code, asked[c])]
             /\ fresh' = [fresh EXCEPT ![c] = Hash(code, asked[c])]
             /\ cpc' = [cpc EXCEPT ![c] = "count"]
             /\ issued' = [issued EXCEPT ![asked[c]] = OneMore(@)]
             /\ UNCHANGED <<asked, old>>
    <3>0. issued' \in [Packages -> 0 .. CountBound]
      BY <2>1, <2>4, OneMoreType DEF TypeOK
    <3>1. TypeOK' /\ CustomerInv'
      BY <1>3, <2>1, <2>2, <2>4, <3>0
         DEF SavePickupCode, TypeOK, CustomerInv, told, doorVars, guessVars
    <3>2. StoredInv'
      BY <1>3, <2>1, <2>2, <2>4 DEF SavePickupCode, TypeOK, StoredInv
    <3> QED
      BY <1>3, <3>1, <3>2 DEF SavePickupCode, DoorInv, HandedOutOnce, doorVars
  <2> QED
    BY <1>3, <2>3, <2>4 DEF SavePickupCode
<1>4. CASE RecordIssue(c)
  <2>1. issues' \in [Packages -> Counter]
    BY <1>4, CounterOps DEF RecordIssue, CustomerInv, FailOpen, TypeOK
  <2>2. TypeOK' /\ CustomerInv'
    BY <1>4, <2>1 DEF RecordIssue, TypeOK, CustomerInv, rowVars, told, doorVars, guessVars
  <2> QED
    BY <1>4, <2>2 DEF RecordIssue, DoorInv, StoredInv, HandedOutOnce, rowVars, doorVars
<1>5. CASE ClearAfterReissue(c)
  <2>1. attempts' \in [Lockers -> Counter]
    BY <1>5, CounterOps DEF ClearAfterReissue, ClearAttempts, FailOpen, TypeOK
  <2>2. voided' \in SUBSET Hashes /\ delivered' \in SUBSET Hashes
    BY <1>5 DEF ClearAfterReissue, CustomerInv, TypeOK
  <2>3. CustomerIdle(c) /\ UNCHANGED <<rowVars, lost, issues, doorVars, issueVars>>
    BY <1>5 DEF ClearAfterReissue
  <2>4. guesses' \in [Lockers -> 0 .. CountBound] /\ slippedDoors' \in SUBSET Lockers
    BY <1>5, DoorAssumption DEF ClearAfterReissue, ClearAttempts, FailOpen, guessVars, TypeOK
  <2>5. TypeOK' /\ CustomerInv'
    BY <2>1, <2>2, <2>3, <2>4 DEF TypeOK, CustomerInv, CustomerIdle, rowVars, doorVars, issueVars
  <2> QED
    BY <2>3, <2>5 DEF DoorInv, StoredInv, HandedOutOnce, rowVars, doorVars
<1>6. CASE CustomerFails(c)
  <2>1. lost' \in SUBSET Hashes /\ slippedParcels' \in SUBSET Packages
    BY <1>6 DEF CustomerFails, CustomerInv, TypeOK
  <2> QED
    BY <1>6, <2>1 DEF CustomerFails, CustomerIdle, TypeOK, DoorInv, CustomerInv, StoredInv,
                      HandedOutOnce, rowVars, doorVars, guessVars
<1> QED
  BY <1>1, <1>2, <1>3, <1>4, <1>5, <1>6 DEF CustomerStep

\* The inductive invariant holds in every state.
THEOREM Invariance == Spec => []IInv
<1>1. Init => IInv
  <2> SUFFICES ASSUME Init PROVE IInv
    OBVIOUS
  <2>1. NoKey \in Counter
    BY DoorAssumption DEF NoKey, Counter
  <2> QED
    BY <2>1, DoorAssumption DEF Init, IInv, TypeOK, DoorInv, CustomerInv, StoredInv, HandedOutOnce
<1>2. IInv /\ [Next]_vars => IInv'
  <2> SUFFICES ASSUME IInv, [Next]_vars PROVE IInv'
    OBVIOUS
  <2>1. CASE UNCHANGED vars
    BY <2>1 DEF vars, IInv, TypeOK, DoorInv, CustomerInv, StoredInv, HandedOutOnce, rowVars,
                told, doorVars, customerVars, guessVars, issueVars
  <2>2. CASE Next
    BY <2>2, TickStep, DropStep, DoorStepKeeps, CustomerStepKeeps DEF Next
  <2> QED
    BY <2>1, <2>2
<1> QED
  BY <1>1, <1>2, PTL DEF Spec

\* Every row, counter and request holds values of its domain.
THEOREM TypeCorrect == Spec => []TypeOK
BY Invariance, PTL DEF IInv

\* However many retrievals verify a parcel's code at once, exactly one of them
\* closes its assignment.
THEOREM ParcelHandedOutOnce == Spec => []HandedOutOnce
BY Invariance, PTL DEF IInv

\* A new code is never minted for a parcel that has been collected.
THEOREM NoCodeAfterPickup == Spec => NoCodeForEmptyLocker
<1> DEFINE Kept == \A p \in Packages : status[p] = "RETRIEVED" => hash'[p] = hash[p]
<1>1. IInv /\ [Next]_vars => [Kept]_vars
  <2> SUFFICES ASSUME IInv, [Next]_vars, NEW p \in Packages, status[p] = "RETRIEVED"
               PROVE  hash'[p] = hash[p]
    BY DEF vars
  <2>1. ASSUME NEW q \in Packages, NEW l \in Lockers, NEW code \in Codes, Drop(q, l, code)
        PROVE  hash'[p] = hash[p]
    BY <2>1 DEF Drop, IInv, TypeOK
  <2>2. ASSUME NEW c \in Customers, NEW code \in Codes, SavePickupCode(c, code)
        PROVE  hash'[p] = hash[p]
    BY <2>2 DEF SavePickupCode, IInv, TypeOK, CustomerInv
  <2> QED
    BY <2>1, <2>2
       DEF Next, vars, rowVars, Tick, DoorStep, CheckAttempts, FindActiveByLocker, RecordFailure,
           SaveRetrieval, ClearAfterPickup, DoorFails, CustomerStep, CheckReissues, FindPackage,
           RecordIssue, ClearAfterReissue, CustomerFails
<1> QED
  BY <1>1, Invariance, PTL DEF Spec, NoCodeForEmptyLocker

-----------------------------------------------------------------------------
(***************************************************************************)
(* How far the caps can be overshot.  The check and the count of a request *)
(* are two awaits, and the wrong code lies between them.  What is          *)
(* invariant is the counter together with the requests that passed the     *)
(* check and have still to count, and that the wrong codes tried are those *)
(* counted and those about to be.  A door that lost a count, or let a      *)
(* request pass its block, is out of it until its counter is gone.         *)
(***************************************************************************)

\* The retrievals that may still try a wrong code at a door, and those that have.
Guessing(l) == {d \in Doors : dpc[d] \in {"find", "count"} /\ visit[d].locker = l}
Counting(l) == {d \in Doors : dpc[d] = "count" /\ visit[d].locker = l}

\* A counter that has counted something has not expired.
LiveKeys == \A l \in Lockers : attempts[l].ttl = 0 => attempts[l].count = 0

Bounded(l) ==
    l \notin slippedDoors =>
        /\ attempts[l].count + Cardinality(Guessing(l)) <= MaxAttempts - 1 + Cardinality(Doors)
        /\ guesses[l] <= attempts[l].count + Cardinality(Counting(l))

GuessInv == IInv /\ LiveKeys /\ \A l \in Lockers : Bounded(l)

\* Both sets are finite, and the second is part of the first.
LEMMA DoorSets ==
    ASSUME IsFiniteSet(Doors), NEW l
    PROVE  /\ IsFiniteSet(Guessing(l)) /\ Cardinality(Guessing(l)) \in Nat
           /\ IsFiniteSet(Counting(l)) /\ Cardinality(Counting(l)) \in Nat
           /\ Cardinality(Doors) \in Nat
           /\ Cardinality(Guessing(l)) <= Cardinality(Doors)
           /\ Cardinality(Counting(l)) <= Cardinality(Guessing(l))
<1>1. Guessing(l) \subseteq Doors /\ Counting(l) \subseteq Guessing(l)
  BY DEF Guessing, Counting
<1> QED
  BY <1>1, FS_Subset, FS_CardinalityType

\* The same after a step.
LEMMA DoorSetsPrimed ==
    ASSUME IsFiniteSet(Doors), NEW l
    PROVE  /\ IsFiniteSet(Guessing(l)') /\ Cardinality(Guessing(l)') \in Nat
           /\ IsFiniteSet(Counting(l)') /\ Cardinality(Counting(l)') \in Nat
           /\ Cardinality(Guessing(l)') <= Cardinality(Doors)
<1>1. Guessing(l)' \subseteq Doors /\ Counting(l)' \subseteq Doors
  BY DEF Guessing, Counting
<1> QED
  BY <1>1, FS_Subset, FS_CardinalityType

\* The numbers the bound is about.
LEMMA GuessNumbers ==
    ASSUME IInv, NEW l \in Lockers
    PROVE  /\ attempts[l] \in Counter /\ attempts[l].count \in Nat /\ attempts[l].ttl \in Nat
           /\ attempts[l].count <= CountBound /\ guesses[l] \in Nat
           /\ MaxAttempts \in Nat \ {0} /\ CountBound \in Nat
BY DoorAssumption DEF IInv, TypeOK, Counter

\* What a counter is once its time is up, and until then.
LEMMA LiveCounters ==
    ASSUME NEW k \in Counter, k.ttl = 0 => k.count = 0, NEW ttl \in {Lockout, Window}
    PROVE  /\ Age(k).ttl = 0 => Age(k).count = 0
           /\ Expires(k) => Age(k).count = 0
           /\ ~Expires(k) => Age(k).count = k.count
           /\ CountFailure(k, ttl).ttl # 0
           /\ NoKey.count = 0 /\ NoKey.ttl = 0
BY DoorAssumption DEF Counter, Age, Expires, CountFailure, NoKey

\* A door whose counter is gone starts anew.
LEMMA StartedAnew ==
    ASSUME IsFiniteSet(Doors), NEW l \in Lockers, attempts'[l].count = 0, guesses'[l] = 0
    PROVE  Bounded(l)'
<1> DEFINE g == Cardinality(Guessing(l)')
           n == Cardinality(Counting(l)')
           k == Cardinality(Doors)
<1>1. g \in Nat /\ n \in Nat /\ k \in Nat /\ g <= k
  BY DoorSets, DoorSetsPrimed
<1> HIDE DEF g, n, k
<1>2. 0 + g <= MaxAttempts - 1 + k /\ 0 <= 0 + n
  BY <1>1, DoorAssumption
<1> QED
  BY <1>2 DEF Bounded, g, n, k

\* A step that neither lets a retrieval in nor touches the counter or the tally
\* keeps the bound, unless a retrieval leaves without having counted.
LEMMA NothingTried ==
    ASSUME IsFiniteSet(Doors), GuessInv, NEW l \in Lockers,
           attempts'[l].count = attempts[l].count, guesses'[l] = guesses[l],
           l \notin slippedDoors' =>
              /\ l \notin slippedDoors
              /\ Guessing(l)' \subseteq Guessing(l) /\ Counting(l) \subseteq Counting(l)'
    PROVE  Bounded(l)'
<1> SUFFICES ASSUME l \notin slippedDoors'
             PROVE  /\ attempts'[l].count + Cardinality(Guessing(l)')
                          <= MaxAttempts - 1 + Cardinality(Doors)
                    /\ guesses'[l] <= attempts'[l].count + Cardinality(Counting(l)')
  BY DEF Bounded
<1> DEFINE g == Cardinality(Guessing(l))
           h == Cardinality(Guessing(l)')
           n == Cardinality(Counting(l))
           m == Cardinality(Counting(l)')
           k == Cardinality(Doors)
<1>1. g \in Nat /\ h \in Nat /\ n \in Nat /\ m \in Nat /\ k \in Nat
  BY DoorSets, DoorSetsPrimed
<1>2. h <= g /\ n <= m
  BY DoorSets, DoorSetsPrimed, FS_Subset
<1>3. attempts[l].count + g <= MaxAttempts - 1 + k /\ guesses[l] <= attempts[l].count + n
  BY DEF GuessInv, Bounded
<1>4. attempts[l].count \in Nat /\ guesses[l] \in Nat /\ MaxAttempts \in Nat
  BY GuessNumbers DEF GuessInv
<1> HIDE DEF g, h, n, m, k
<1>5. attempts[l].count + h <= MaxAttempts - 1 + k /\ guesses[l] <= attempts[l].count + m
  BY <1>1, <1>2, <1>3, <1>4
<1> QED
  BY <1>5 DEF h, m, k

\* A retrieval that passes its check finds the counter below the cap, so that the
\* bound holds even with every door guessing.
LEMMA PassedCheck ==
    ASSUME IsFiniteSet(Doors), GuessInv,
           NEW d \in Doors, NEW l \in Lockers, NEW code \in Codes, CheckAttempts(d, l, code)
    PROVE  Bounded(l)'
<1> SUFFICES ASSUME l \notin slippedDoors'
             PROVE  /\ attempts'[l].count + Cardinality(Guessing(l)')
                          <= MaxAttempts - 1 + Cardinality(Doors)
                    /\ guesses'[l] <= attempts'[l].count + Cardinality(Counting(l)')
  BY DEF Bounded
<1>1. /\ ~Blocked(attempts[l], MaxAttempts) /\ l \notin slippedDoors
      /\ UNCHANGED <<attempts, guesses>>
  BY DEF CheckAttempts
<1>2. Counting(l)' = Counting(l)
  BY DEF CheckAttempts, Counting, GuessInv, IInv, TypeOK
<1>3. /\ attempts[l].count \in Nat /\ attempts[l].ttl \in Nat /\ guesses[l] \in Nat
      /\ MaxAttempts \in Nat \ {0}
  BY GuessNumbers DEF GuessInv
<1>4. attempts[l].count < MaxAttempts
  BY <1>1, <1>3 DEF Blocked, GuessInv, LiveKeys
<1> DEFINE h == Cardinality(Guessing(l)')
           k == Cardinality(Doors)
<1>5. h \in Nat /\ k \in Nat /\ h <= k
  BY DoorSets, DoorSetsPrimed
<1> HIDE DEF h, k
<1>6. attempts[l].count + h <= MaxAttempts - 1 + k
  BY <1>3, <1>4, <1>5
<1>7. guesses[l] <= attempts[l].count + Cardinality(Counting(l))
  BY <1>1 DEF GuessInv, Bounded
<1> QED
  BY <1>1, <1>2, <1>6, <1>7 DEF h, k

\* A wrong code is one more guess and one more retrieval about to count.
LEMMA WrongCode ==
    ASSUME IsFiniteSet(Doors), GuessInv, NEW d \in Doors, NEW l \in Lockers,
           dpc[d] = "find", visit[d].locker = l,
           dpc' = [dpc EXCEPT ![d] = "count"], UNCHANGED <<visit, attempts, slippedDoors>>,
           guesses' = [guesses EXCEPT ![l] = OneMore(@)]
    PROVE  Bounded(l)'
<1> SUFFICES ASSUME l \notin slippedDoors
             PROVE  /\ attempts[l].count + Cardinality(Guessing(l)')
                          <= MaxAttempts - 1 + Cardinality(Doors)
                    /\ guesses'[l] <= attempts[l].count + Cardinality(Counting(l)')
  BY DEF Bounded
<1>1. Guessing(l)' = Guessing(l)
  BY DEF Guessing, GuessInv, IInv, TypeOK
<1>2. Counting(l)' = Counting(l) \cup {d} /\ d \notin Counting(l)
  BY DEF Counting, GuessInv, IInv, TypeOK
<1>3. /\ attempts[l].count \in Nat /\ guesses[l] \in Nat /\ CountBound \in Nat
      /\ guesses[l] <= CountBound
  BY GuessNumbers DEF GuessInv, IInv, TypeOK
<1>4. guesses'[l] \in Nat /\ guesses'[l] <= guesses[l] + 1
  BY <1>3 DEF OneMore, GuessInv, IInv, TypeOK
<1> DEFINE n == Cardinality(Counting(l))
           m == Cardinality(Counting(l)')
<1>5. n \in Nat /\ m = n + 1
  <2>1. Cardinality(Counting(l) \cup {d}) = Cardinality(Counting(l)) + 1
    BY <1>2, DoorSets, FS_AddElement
  <2> QED
    BY <1>2, <2>1, DoorSets
<1>6. guesses[l] <= attempts[l].count + n
  BY DEF GuessInv, Bounded
<1> HIDE DEF n, m
<1>7. guesses'[l] <= attempts[l].count + m
  BY <1>3, <1>4, <1>5, <1>6
<1>8. attempts[l].count + Cardinality(Guessing(l)) <= MaxAttempts - 1 + Cardinality(Doors)
  BY DEF GuessInv, Bounded
<1> QED
  BY <1>1, <1>7, <1>8 DEF m

\* A retrieval that counts leaves both sets, and its guess is in the counter.
LEMMA CountedGuess ==
    ASSUME IsFiniteSet(Doors), CountBound > MaxAttempts - 1 + Cardinality(Doors),
           GuessInv, NEW d \in Doors, NEW l \in Lockers, RecordFailure(d), visit[d].locker = l
    PROVE  Bounded(l)'
<1> SUFFICES ASSUME l \notin slippedDoors'
             PROVE  /\ attempts'[l].count + Cardinality(Guessing(l)')
                          <= MaxAttempts - 1 + Cardinality(Doors)
                    /\ guesses'[l] <= attempts'[l].count + Cardinality(Counting(l)')
  BY DEF Bounded
<1>1. l \notin slippedDoors /\ attempts' = [attempts EXCEPT ![l] = CountFailure(@, Lockout)]
  BY DEF RecordFailure
<1>2. UNCHANGED guesses
  BY DEF RecordFailure
<1>3. /\ Guessing(l)' = Guessing(l) \ {d} /\ d \in Guessing(l)
      /\ Counting(l)' = Counting(l) \ {d} /\ d \in Counting(l)
  BY DEF RecordFailure, DoorIdle, Guessing, Counting, GuessInv, IInv, TypeOK
<1>4. /\ attempts[l].count \in Nat /\ guesses[l] \in Nat /\ MaxAttempts \in Nat
      /\ CountBound \in Nat
  BY GuessNumbers DEF GuessInv
<1> DEFINE g == Cardinality(Guessing(l))
           h == Cardinality(Guessing(l)')
           n == Cardinality(Counting(l))
           m == Cardinality(Counting(l)')
           k == Cardinality(Doors)
<1>5. g \in Nat /\ n \in Nat /\ m \in Nat /\ h \in Nat /\ k \in Nat
  BY DoorSets, DoorSetsPrimed
<1>6. h = g - 1 /\ m = n - 1
  <2>1. IsFiniteSet(Guessing(l)) /\ IsFiniteSet(Counting(l))
    BY DoorSets
  <2>2. Cardinality(Guessing(l) \ {d}) = Cardinality(Guessing(l)) - 1
    BY <1>3, <2>1, FS_RemoveElement
  <2>3. Cardinality(Counting(l) \ {d}) = Cardinality(Counting(l)) - 1
    BY <1>3, <2>1, FS_RemoveElement
  <2> QED
    BY <1>3, <2>2, <2>3
<1>7. attempts[l].count + g <= MaxAttempts - 1 + k /\ guesses[l] <= attempts[l].count + n
  BY <1>1 DEF GuessInv, Bounded
<1>8. CountBound > MaxAttempts - 1 + k
  OBVIOUS
<1> HIDE DEF g, h, n, m, k
<1>9. attempts[l].count < CountBound
  BY <1>4, <1>5, <1>6, <1>7, <1>8
<1>10. attempts'[l].count = attempts[l].count + 1
  BY <1>1, <1>4, <1>9 DEF CountFailure, OneMore, GuessInv, IInv, TypeOK
<1>11. /\ attempts[l].count + 1 + h <= MaxAttempts - 1 + k
       /\ guesses[l] <= attempts[l].count + 1 + m
  BY <1>4, <1>5, <1>6, <1>7
<1> QED
  BY <1>2, <1>10, <1>11 DEF h, m, k

\* Every step keeps the counters alive and the bound.
LEMMA GuessStep ==
    ASSUME IsFiniteSet(Doors), CountBound > MaxAttempts - 1 + Cardinality(Doors),
           GuessInv, [Next]_vars, IInv'
    PROVE  GuessInv'
<1> DEFINE Kept == LiveKeys' /\ \A l \in Lockers : Bounded(l)'
           Same(l) == attempts'[l] = attempts[l] /\ guesses'[l] = guesses[l]
           Fewer(l) == l \notin slippedDoors' =>
              /\ l \notin slippedDoors
              /\ Guessing(l)' \subseteq Guessing(l) /\ Counting(l) \subseteq Counting(l)'
<1> IInv /\ LiveKeys
  BY DEF GuessInv
<1>1. SUFFICES Kept
  BY DEF GuessInv
<1>2. \A l \in Lockers : attempts[l] \in Counter
  BY GuessNumbers
<1>3. ASSUME NEW l \in Lockers, Same(l), Fewer(l) PROVE Bounded(l)'
  BY <1>3, NothingTried
<1>4. CASE UNCHANGED <<dpc, visit, attempts, guessVars>>
  <2>1. \A l \in Lockers : Same(l) /\ Fewer(l)
    BY <1>4 DEF Guessing, Counting, guessVars
  <2> QED
    BY <1>3, <1>4, <2>1 DEF LiveKeys
<1>5. CASE Tick
  <2>1. \A l \in Lockers : Expires(attempts[l]) \/ Fewer(l)
    BY <1>5 DEF Tick, doorVars, Guessing, Counting
  <2>2. \A l \in Lockers : attempts'[l] = Age(attempts[l])
    BY <1>5 DEF Tick
  <2>3. LiveKeys'
    BY <1>2, <2>2, LiveCounters DEF LiveKeys
  <2>4. ASSUME NEW l \in Lockers PROVE Bounded(l)'
    <3>1. CASE Expires(attempts[l])
      <4>1. attempts'[l].count = 0 /\ guesses'[l] = 0
        BY <1>2, <1>5, <2>2, <3>1, LiveCounters DEF LiveKeys, Tick
      <4> QED
        BY <4>1, StartedAnew
    <3>2. CASE ~Expires(attempts[l])
      <4>1. attempts'[l].count = attempts[l].count /\ guesses'[l] = guesses[l]
        BY <1>2, <1>5, <2>2, <3>2, LiveCounters DEF LiveKeys, Tick
      <4> QED
        BY <2>1, <3>2, <4>1, NothingTried
    <3> QED
      BY <3>1, <3>2
  <2> QED
    BY <2>3, <2>4
<1>6. ASSUME NEW d \in Doors, NEW l \in Lockers, NEW code \in Codes, CheckAttempts(d, l, code)
      PROVE  Kept
  <2>1. UNCHANGED <<attempts, guesses>>
    BY <1>6 DEF CheckAttempts
  <2>2. ASSUME NEW m \in Lockers, m # l PROVE Same(m) /\ Fewer(m)
    BY <1>6, <2>1, <2>2 DEF CheckAttempts, Guessing, Counting, IInv, TypeOK
  <2> QED
    BY <1>3, <1>6, <2>1, <2>2, PassedCheck DEF LiveKeys
<1>7. ASSUME NEW d \in Doors, FindActiveByLocker(d) PROVE Kept
  <2>0. PICK l \in Lockers : visit[d].locker = l
    BY <1>7 DEF FindActiveByLocker, IInv, DoorInv, Visit
  <2>1. dpc[d] = "find" /\ UNCHANGED <<attempts, slippedDoors>>
    BY <1>7 DEF FindActiveByLocker, IInv, DoorInv, Visit
  <2>2. CASE UNCHANGED guesses /\ dpc'[d] \in {"idle", "save"}
    <3>1. \A e \in Doors \ {d} : dpc'[e] = dpc[e] /\ visit'[e] = visit[e]
      BY <1>7 DEF FindActiveByLocker, DoorIdle, IInv, TypeOK
    <3>2. \A m \in Lockers : Same(m) /\ Fewer(m)
      BY <2>1, <2>2, <3>1 DEF Guessing, Counting
    <3> QED
      BY <1>3, <2>1, <3>2 DEF LiveKeys
  <2>3. CASE /\ dpc' = [dpc EXCEPT ![d] = "count"] /\ UNCHANGED visit
             /\ guesses' = [guesses EXCEPT ![l] = OneMore(@)]
    <3>1. Bounded(l)'
      BY <2>0, <2>1, <2>3, WrongCode
    <3>2. ASSUME NEW m \in Lockers, m # l PROVE Same(m) /\ Fewer(m)
      BY <2>0, <2>1, <2>3, <3>2 DEF Guessing, Counting, IInv, TypeOK
    <3>3. \A m \in Lockers : Bounded(m)'
      BY <1>3, <3>1, <3>2
    <3> QED
      BY <2>1, <3>3 DEF LiveKeys
  <2> QED
    BY <1>7, <2>0, <2>2, <2>3 DEF FindActiveByLocker, DoorIdle, IInv, TypeOK
<1>8. ASSUME NEW d \in Doors, RecordFailure(d) PROVE Kept
  <2>1. PICK l \in Lockers : visit[d].locker = l
    BY <1>8 DEF RecordFailure, IInv, DoorInv, Visit
  <2>2. /\ attempts'[l] \in {CountFailure(attempts[l], Lockout), attempts[l]}
        /\ \A m \in Lockers \ {l} : Same(m) /\ (m \in slippedDoors' <=> m \in slippedDoors)
    BY <1>8, <2>1 DEF RecordFailure, FailOpen, IInv, TypeOK
  <2>3. LiveKeys'
    BY <1>2, <2>1, <2>2, LiveCounters DEF LiveKeys
  <2>4. ASSUME NEW m \in Lockers, m # l PROVE Fewer(m)
    <3>1. /\ \A e \in Doors \ {d} : dpc'[e] = dpc[e] /\ visit'[e] = visit[e]
          /\ dpc'[d] = "idle"
      BY <1>8 DEF RecordFailure, DoorIdle, IInv, TypeOK
    <3> QED
      BY <2>1, <2>2, <2>4, <3>1 DEF Guessing, Counting
  <2> QED
    BY <1>3, <1>8, <2>1, <2>2, <2>3, <2>4, CountedGuess
<1>9. ASSUME NEW d \in Doors, SaveRetrieval(d) \/ DoorFails(d) PROVE Kept
  <2>1. UNCHANGED <<attempts, guesses>>
    BY <1>9 DEF SaveRetrieval, DoorFails, guessVars
  <2>2. /\ \A e \in Doors \ {d} : dpc'[e] = dpc[e] /\ visit'[e] = visit[e]
        /\ dpc'[d] \in {"idle", "clear"}
        /\ slippedDoors \subseteq slippedDoors'
        /\ dpc[d] = "count" => visit[d].locker \in slippedDoors'
    BY <1>9 DEF SaveRetrieval, DoorFails, DoorIdle, guessVars, IInv, TypeOK
  <2>3. \A m \in Lockers : Same(m) /\ Fewer(m)
    BY <2>1, <2>2 DEF Guessing, Counting
  <2> QED
    BY <1>3, <2>1, <2>3 DEF LiveKeys
<1>10. ASSUME NEW l, ClearAttempts(l) \/ FailOpen(<<attempts, guessVars>>),
              \A m \in Lockers :
                 Guessing(m)' \subseteq Guessing(m) /\ Counting(m) \subseteq Counting(m)'
       PROVE  Kept
  <2>1. ASSUME NEW m \in Lockers
        PROVE  \/ attempts'[m] = NoKey /\ guesses'[m] = 0
               \/ Same(m) /\ (m \in slippedDoors' <=> m \in slippedDoors)
    BY <1>10 DEF ClearAttempts, FailOpen, guessVars, IInv, TypeOK
  <2>2. LiveKeys'
    BY <1>2, <2>1, LiveCounters DEF LiveKeys
  <2>3. ASSUME NEW m \in Lockers PROVE Bounded(m)'
    <3>1. CASE attempts'[m] = NoKey /\ guesses'[m] = 0
      BY <3>1, StartedAnew DEF NoKey
    <3>2. CASE Same(m) /\ (m \in slippedDoors' <=> m \in slippedDoors)
      BY <1>3, <1>10, <3>2
    <3> QED
      BY <2>1, <3>1, <3>2
  <2> QED
    BY <2>2, <2>3
<1>11. ASSUME NEW d \in Doors, ClearAfterPickup(d) PROVE Kept
  <2>1. \A m \in Lockers :
            Guessing(m)' \subseteq Guessing(m) /\ Counting(m) \subseteq Counting(m)'
    BY <1>11 DEF ClearAfterPickup, DoorIdle, Guessing, Counting, IInv, TypeOK
  <2> QED
    BY <1>10, <1>11, <2>1 DEF ClearAfterPickup
<1>12. ASSUME NEW c \in Customers, ClearAfterReissue(c) PROVE Kept
  <2>1. \A m \in Lockers :
            Guessing(m)' \subseteq Guessing(m) /\ Counting(m) \subseteq Counting(m)'
    BY <1>12 DEF ClearAfterReissue, doorVars, Guessing, Counting
  <2> QED
    BY <1>10, <1>12, <2>1 DEF ClearAfterReissue
<1> QED
  BY <1>4, <1>5, <1>6, <1>7, <1>8, <1>9, <1>11, <1>12
     DEF Next, vars, doorVars, DoorStep, CustomerStep, Drop, CheckReissues, FindPackage,
         SavePickupCode, RecordIssue, CustomerFails

\* The wrong codes tried at a door in the life of its counter exceed the cap by at
\* most the retrievals that run at once, less one, unless a count was lost there or
\* a block passed.  CountBound, to which the tally is followed, lies beyond that.
THEOREM GuessesAreBounded ==
    ASSUME IsFiniteSet(Doors), CountBound > MaxAttempts - 1 + Cardinality(Doors)
    PROVE  Spec => []GuessesBounded
<1>1. Init /\ IInv => GuessInv
  <2> SUFFICES ASSUME Init, IInv PROVE GuessInv
    OBVIOUS
  <2>1. \A l \in Lockers : attempts[l].count = 0 /\ attempts[l].ttl = 0 /\ guesses[l] = 0
    BY DEF Init, NoKey
  <2> DEFINE k == Cardinality(Doors)
  <2>2. /\ \A l : Cardinality(Guessing(l)) \in Nat /\ Cardinality(Counting(l)) \in Nat
                  /\ Cardinality(Guessing(l)) <= k
        /\ k \in Nat /\ MaxAttempts \in Nat \ {0}
    BY DoorSets, FS_CardinalityType, DoorAssumption
  <2> HIDE DEF k
  <2>3. ASSUME NEW l \in Lockers PROVE Bounded(l)
    <3> DEFINE g == Cardinality(Guessing(l))
               n == Cardinality(Counting(l))
    <3>1. g \in Nat /\ n \in Nat /\ g <= k
      BY <2>2
    <3> HIDE DEF g, n
    <3>2. 0 + g <= MaxAttempts - 1 + k /\ 0 <= 0 + n
      BY <2>2, <3>1
    <3> QED
      BY <2>1, <3>2 DEF Bounded, g, n, k
  <2> QED
    BY <2>1, <2>3 DEF GuessInv, LiveKeys
<1>2. GuessInv /\ [Next]_vars /\ IInv' => GuessInv'
  BY GuessStep
<1>3. GuessInv => GuessesBounded
  <2> SUFFICES ASSUME GuessInv, NEW l \in Lockers, l \notin slippedDoors
               PROVE  guesses[l] <= MaxAttempts - 1 + Cardinality(Doors)
    BY DEF GuessesBounded
  <2> DEFINE g == Cardinality(Guessing(l))
             n == Cardinality(Counting(l))
             k == Cardinality(Doors)
  <2>1. g \in Nat /\ n \in Nat /\ k \in Nat /\ n <= g
    BY DoorSets
  <2>2. attempts[l].count + g <= MaxAttempts - 1 + k /\ guesses[l] <= attempts[l].count + n
    BY DEF GuessInv, Bounded
  <2>3. attempts[l].count \in Nat /\ guesses[l] \in Nat /\ MaxAttempts \in Nat
    BY GuessNumbers DEF GuessInv
  <2> HIDE DEF g, n, k
  <2>4. guesses[l] <= MaxAttempts - 1 + k
    BY <2>1, <2>2, <2>3
  <2> QED
    BY <2>4 DEF k
<1> QED
  BY <1>1, <1>2, <1>3, Invariance, PTL DEF Spec

-----------------------------------------------------------------------------
(* The same argument for the codes stored for a parcel. *)

\* The re-issues that may still store a code for a parcel, and those that have.
Reissuing(p) == {c \in Customers : cpc[c] \in {"find", "save", "count"} /\ asked[c] = p}
Unrecorded(p) == {c \in Customers : cpc[c] = "count" /\ asked[c] = p}

\* A counter of issued codes that has counted something has not expired.
LiveIssues == \A p \in Packages : issues[p].ttl = 0 => issues[p].count = 0

IssuesBounded(p) ==
    p \notin slippedParcels =>
        /\ issues[p].count + Cardinality(Reissuing(p)) <= MaxReissues - 1 + Cardinality(Customers)
        /\ issued[p] <= issues[p].count + Cardinality(Unrecorded(p))

IssueInv == IInv /\ LiveIssues /\ \A p \in Packages : IssuesBounded(p)

\* Both sets are finite, and the second is part of the first.
LEMMA CustomerSets ==
    ASSUME IsFiniteSet(Customers), NEW p
    PROVE  /\ IsFiniteSet(Reissuing(p)) /\ Cardinality(Reissuing(p)) \in Nat
           /\ IsFiniteSet(Unrecorded(p)) /\ Cardinality(Unrecorded(p)) \in Nat
           /\ Cardinality(Customers) \in Nat
           /\ Cardinality(Reissuing(p)) <= Cardinality(Customers)
           /\ Cardinality(Unrecorded(p)) <= Cardinality(Reissuing(p))
<1>1. Reissuing(p) \subseteq Customers /\ Unrecorded(p) \subseteq Reissuing(p)
  BY DEF Reissuing, Unrecorded
<1> QED
  BY <1>1, FS_Subset, FS_CardinalityType

\* The same after a step.
LEMMA CustomerSetsPrimed ==
    ASSUME IsFiniteSet(Customers), NEW p
    PROVE  /\ IsFiniteSet(Reissuing(p)') /\ Cardinality(Reissuing(p)') \in Nat
           /\ IsFiniteSet(Unrecorded(p)') /\ Cardinality(Unrecorded(p)') \in Nat
           /\ Cardinality(Reissuing(p)') <= Cardinality(Customers)
<1>1. Reissuing(p)' \subseteq Customers /\ Unrecorded(p)' \subseteq Customers
  BY DEF Reissuing, Unrecorded
<1> QED
  BY <1>1, FS_Subset, FS_CardinalityType

\* The numbers the bound is about.
LEMMA IssueNumbers ==
    ASSUME IInv, NEW p \in Packages
    PROVE  /\ issues[p] \in Counter /\ issues[p].count \in Nat /\ issues[p].ttl \in Nat
           /\ issues[p].count <= CountBound /\ issued[p] \in Nat
           /\ MaxReissues \in Nat \ {0} /\ CountBound \in Nat
BY DoorAssumption DEF IInv, TypeOK, Counter

\* A parcel whose counter is gone starts anew.
LEMMA IssuesStartedAnew ==
    ASSUME IsFiniteSet(Customers), NEW p \in Packages, issues'[p].count = 0, issued'[p] = 0
    PROVE  IssuesBounded(p)'
<1> DEFINE g == Cardinality(Reissuing(p)')
           n == Cardinality(Unrecorded(p)')
           k == Cardinality(Customers)
<1>1. g \in Nat /\ n \in Nat /\ k \in Nat /\ g <= k
  BY CustomerSets, CustomerSetsPrimed
<1> HIDE DEF g, n, k
<1>2. 0 + g <= MaxReissues - 1 + k /\ 0 <= 0 + n
  BY <1>1, DoorAssumption
<1> QED
  BY <1>2 DEF IssuesBounded, g, n, k

\* A step that neither lets a re-issue in nor touches the counter or the tally
\* keeps the bound, unless a re-issue leaves without having counted.
LEMMA NothingIssued ==
    ASSUME IsFiniteSet(Customers), IssueInv, NEW p \in Packages,
           issues'[p].count = issues[p].count, issued'[p] = issued[p],
           p \notin slippedParcels' =>
              /\ p \notin slippedParcels
              /\ Reissuing(p)' \subseteq Reissuing(p) /\ Unrecorded(p) \subseteq Unrecorded(p)'
    PROVE  IssuesBounded(p)'
<1> SUFFICES ASSUME p \notin slippedParcels'
             PROVE  /\ issues'[p].count + Cardinality(Reissuing(p)')
                          <= MaxReissues - 1 + Cardinality(Customers)
                    /\ issued'[p] <= issues'[p].count + Cardinality(Unrecorded(p)')
  BY DEF IssuesBounded
<1> DEFINE g == Cardinality(Reissuing(p))
           h == Cardinality(Reissuing(p)')
           n == Cardinality(Unrecorded(p))
           m == Cardinality(Unrecorded(p)')
           k == Cardinality(Customers)
<1>1. g \in Nat /\ h \in Nat /\ n \in Nat /\ m \in Nat /\ k \in Nat
  BY CustomerSets, CustomerSetsPrimed
<1>2. h <= g /\ n <= m
  BY CustomerSets, CustomerSetsPrimed, FS_Subset
<1>3. issues[p].count + g <= MaxReissues - 1 + k /\ issued[p] <= issues[p].count + n
  BY DEF IssueInv, IssuesBounded
<1>4. issues[p].count \in Nat /\ issued[p] \in Nat /\ MaxReissues \in Nat
  BY IssueNumbers DEF IssueInv
<1> HIDE DEF g, h, n, m, k
<1>5. issues[p].count + h <= MaxReissues - 1 + k /\ issued[p] <= issues[p].count + m
  BY <1>1, <1>2, <1>3, <1>4
<1> QED
  BY <1>5 DEF h, m, k

\* A re-issue that passes its check finds the counter below the cap, so that the
\* bound holds even with every customer asking for this parcel.
LEMMA PassedReissueCheck ==
    ASSUME IsFiniteSet(Customers), IssueInv,
           NEW c \in Customers, NEW p \in Packages, CheckReissues(c, p)
    PROVE  IssuesBounded(p)'
<1> SUFFICES ASSUME p \notin slippedParcels'
             PROVE  /\ issues'[p].count + Cardinality(Reissuing(p)')
                          <= MaxReissues - 1 + Cardinality(Customers)
                    /\ issued'[p] <= issues'[p].count + Cardinality(Unrecorded(p)')
  BY DEF IssuesBounded
<1>1. /\ ~Blocked(issues[p], MaxReissues) /\ p \notin slippedParcels
      /\ UNCHANGED <<issues, issued>>
  BY DEF CheckReissues
<1>2. Unrecorded(p)' = Unrecorded(p)
  BY DEF CheckReissues, Unrecorded, IssueInv, IInv, TypeOK
<1>3. /\ issues[p].count \in Nat /\ issues[p].ttl \in Nat /\ issued[p] \in Nat
      /\ MaxReissues \in Nat \ {0}
  BY IssueNumbers DEF IssueInv
<1>4. issues[p].count < MaxReissues
  BY <1>1, <1>3 DEF Blocked, IssueInv, LiveIssues
<1> DEFINE h == Cardinality(Reissuing(p)')
           k == Cardinality(Customers)
<1>5. h \in Nat /\ k \in Nat /\ h <= k
  BY CustomerSets, CustomerSetsPrimed
<1> HIDE DEF h, k
<1>6. issues[p].count + h <= MaxReissues - 1 + k
  BY <1>3, <1>4, <1>5
<1>7. issued[p] <= issues[p].count + Cardinality(Unrecorded(p))
  BY <1>1 DEF IssueInv, IssuesBounded
<1> QED
  BY <1>1, <1>2, <1>6, <1>7 DEF h, k

\* A stored code is one more code and one more re-issue about to count.
LEMMA CodeStored ==
    ASSUME IsFiniteSet(Customers), IssueInv, NEW c \in Customers, NEW p \in Packages,
           cpc[c] = "save", asked[c] = p,
           cpc' = [cpc EXCEPT ![c] = "count"], UNCHANGED <<asked, issues, slippedParcels>>,
           issued' = [issued EXCEPT ![p] = OneMore(@)]
    PROVE  IssuesBounded(p)'
<1> SUFFICES ASSUME p \notin slippedParcels
             PROVE  /\ issues[p].count + Cardinality(Reissuing(p)')
                          <= MaxReissues - 1 + Cardinality(Customers)
                    /\ issued'[p] <= issues[p].count + Cardinality(Unrecorded(p)')
  BY DEF IssuesBounded
<1>1. Reissuing(p)' = Reissuing(p)
  BY DEF Reissuing, IssueInv, IInv, TypeOK
<1>2. Unrecorded(p)' = Unrecorded(p) \cup {c} /\ c \notin Unrecorded(p)
  BY DEF Unrecorded, IssueInv, IInv, TypeOK
<1>3. /\ issues[p].count \in Nat /\ issued[p] \in Nat /\ CountBound \in Nat
      /\ issued[p] <= CountBound
  BY IssueNumbers DEF IssueInv, IInv, TypeOK
<1>4. issued'[p] \in Nat /\ issued'[p] <= issued[p] + 1
  BY <1>3 DEF OneMore, IssueInv, IInv, TypeOK
<1> DEFINE n == Cardinality(Unrecorded(p))
           m == Cardinality(Unrecorded(p)')
<1>5. n \in Nat /\ m = n + 1
  <2>1. Cardinality(Unrecorded(p) \cup {c}) = Cardinality(Unrecorded(p)) + 1
    BY <1>2, CustomerSets, FS_AddElement
  <2> QED
    BY <1>2, <2>1, CustomerSets
<1>6. issued[p] <= issues[p].count + n
  BY DEF IssueInv, IssuesBounded
<1> HIDE DEF n, m
<1>7. issued'[p] <= issues[p].count + m
  BY <1>3, <1>4, <1>5, <1>6
<1>8. issues[p].count + Cardinality(Reissuing(p)) <= MaxReissues - 1 + Cardinality(Customers)
  BY DEF IssueInv, IssuesBounded
<1> QED
  BY <1>1, <1>7, <1>8 DEF m

\* A re-issue that counts leaves both sets, and its code is in the counter.
LEMMA CountedIssue ==
    ASSUME IsFiniteSet(Customers), CountBound > MaxReissues - 1 + Cardinality(Customers),
           IssueInv, NEW c \in Customers, NEW p \in Packages, RecordIssue(c), asked[c] = p
    PROVE  IssuesBounded(p)'
<1> SUFFICES ASSUME p \notin slippedParcels'
             PROVE  /\ issues'[p].count + Cardinality(Reissuing(p)')
                          <= MaxReissues - 1 + Cardinality(Customers)
                    /\ issued'[p] <= issues'[p].count + Cardinality(Unrecorded(p)')
  BY DEF IssuesBounded
<1>1. p \notin slippedParcels /\ issues' = [issues EXCEPT ![p] = CountFailure(@, Window)]
  BY DEF RecordIssue
<1>2. UNCHANGED issued
  BY DEF RecordIssue
<1>3. /\ Reissuing(p)' = Reissuing(p) \ {c} /\ c \in Reissuing(p)
      /\ Unrecorded(p)' = Unrecorded(p) \ {c} /\ c \in Unrecorded(p)
  BY DEF RecordIssue, CustomerIdle, Reissuing, Unrecorded, IssueInv, IInv, TypeOK
<1>4. /\ issues[p].count \in Nat /\ issued[p] \in Nat /\ MaxReissues \in Nat
      /\ CountBound \in Nat
  BY IssueNumbers DEF IssueInv
<1> DEFINE g == Cardinality(Reissuing(p))
           h == Cardinality(Reissuing(p)')
           n == Cardinality(Unrecorded(p))
           m == Cardinality(Unrecorded(p)')
           k == Cardinality(Customers)
<1>5. g \in Nat /\ n \in Nat /\ m \in Nat /\ h \in Nat /\ k \in Nat
  BY CustomerSets, CustomerSetsPrimed
<1>6. h = g - 1 /\ m = n - 1
  <2>1. IsFiniteSet(Reissuing(p)) /\ IsFiniteSet(Unrecorded(p))
    BY CustomerSets
  <2>2. Cardinality(Reissuing(p) \ {c}) = Cardinality(Reissuing(p)) - 1
    BY <1>3, <2>1, FS_RemoveElement
  <2>3. Cardinality(Unrecorded(p) \ {c}) = Cardinality(Unrecorded(p)) - 1
    BY <1>3, <2>1, FS_RemoveElement
  <2> QED
    BY <1>3, <2>2, <2>3
<1>7. issues[p].count + g <= MaxReissues - 1 + k /\ issued[p] <= issues[p].count + n
  BY <1>1 DEF IssueInv, IssuesBounded
<1>8. CountBound > MaxReissues - 1 + k
  OBVIOUS
<1> HIDE DEF g, h, n, m, k
<1>9. issues[p].count < CountBound
  BY <1>4, <1>5, <1>6, <1>7, <1>8
<1>10. issues'[p].count = issues[p].count + 1
  BY <1>1, <1>4, <1>9 DEF CountFailure, OneMore, IssueInv, IInv, TypeOK
<1>11. /\ issues[p].count + 1 + h <= MaxReissues - 1 + k
       /\ issued[p] <= issues[p].count + 1 + m
  BY <1>4, <1>5, <1>6, <1>7
<1> QED
  BY <1>2, <1>10, <1>11 DEF h, m, k

\* Every step keeps the counters alive and the bound.
LEMMA IssueStep ==
    ASSUME IsFiniteSet(Customers), CountBound > MaxReissues - 1 + Cardinality(Customers),
           IssueInv, [Next]_vars, IInv'
    PROVE  IssueInv'
<1> DEFINE Kept == LiveIssues' /\ \A p \in Packages : IssuesBounded(p)'
           Same(p) == issues'[p] = issues[p] /\ issued'[p] = issued[p]
           Fewer(p) == p \notin slippedParcels' =>
              /\ p \notin slippedParcels
              /\ Reissuing(p)' \subseteq Reissuing(p) /\ Unrecorded(p) \subseteq Unrecorded(p)'
<1> IInv /\ LiveIssues
  BY DEF IssueInv
<1>1. SUFFICES Kept
  BY DEF IssueInv
<1>2. \A p \in Packages : issues[p] \in Counter
  BY IssueNumbers
<1>3. ASSUME NEW p \in Packages, Same(p), Fewer(p) PROVE IssuesBounded(p)'
  BY <1>3, NothingIssued
<1>4. CASE UNCHANGED <<cpc, asked, issues, issueVars>>
  <2>1. \A p \in Packages : Same(p) /\ Fewer(p)
    BY <1>4 DEF Reissuing, Unrecorded, issueVars
  <2> QED
    BY <1>3, <1>4, <2>1 DEF LiveIssues
<1>5. CASE Tick
  <2>1. \A p \in Packages : Expires(issues[p]) \/ Fewer(p)
    BY <1>5 DEF Tick, customerVars, Reissuing, Unrecorded
  <2>2. \A p \in Packages : issues'[p] = Age(issues[p])
    BY <1>5 DEF Tick
  <2>3. LiveIssues'
    BY <1>2, <2>2, LiveCounters DEF LiveIssues
  <2>4. ASSUME NEW p \in Packages PROVE IssuesBounded(p)'
    <3>1. CASE Expires(issues[p])
      <4>1. issues'[p].count = 0 /\ issued'[p] = 0
        BY <1>2, <1>5, <2>2, <3>1, LiveCounters DEF LiveIssues, Tick
      <4> QED
        BY <4>1, IssuesStartedAnew
    <3>2. CASE ~Expires(issues[p])
      <4>1. issues'[p].count = issues[p].count /\ issued'[p] = issued[p]
        BY <1>2, <1>5, <2>2, <3>2, LiveCounters DEF LiveIssues, Tick
      <4> QED
        BY <2>1, <3>2, <4>1, NothingIssued
    <3> QED
      BY <3>1, <3>2
  <2> QED
    BY <2>3, <2>4
<1>6. ASSUME NEW c \in Customers, NEW p \in Packages, CheckReissues(c, p) PROVE Kept
  <2>1. UNCHANGED <<issues, issued>>
    BY <1>6 DEF CheckReissues
  <2>2. ASSUME NEW q \in Packages, q # p PROVE Same(q) /\ Fewer(q)
    BY <1>6, <2>1, <2>2 DEF CheckReissues, Reissuing, Unrecorded, IInv, TypeOK
  <2> QED
    BY <1>3, <1>6, <2>1, <2>2, PassedReissueCheck DEF LiveIssues
<1>7. ASSUME NEW c \in Customers, NEW code \in Codes, SavePickupCode(c, code) PROVE Kept
  <2>0. PICK p \in Packages : asked[c] = p
    BY <1>7 DEF SavePickupCode, IInv, CustomerInv
  <2>1. cpc[c] = "save" /\ UNCHANGED <<issues, slippedParcels>>
    BY <1>7 DEF SavePickupCode
  <2>2. CASE UNCHANGED issued /\ CustomerIdle(c)
    <3>1. /\ \A e \in Customers \ {c} : cpc'[e] = cpc[e] /\ asked'[e] = asked[e]
          /\ cpc'[c] = "idle"
      BY <2>2 DEF CustomerIdle, IInv, TypeOK
    <3>2. \A q \in Packages : Same(q) /\ Fewer(q)
      BY <2>1, <2>2, <3>1 DEF Reissuing, Unrecorded
    <3> QED
      BY <1>3, <2>1, <3>2 DEF LiveIssues
  <2>3. CASE /\ cpc' = [cpc EXCEPT ![c] = "count"] /\ UNCHANGED asked
             /\ issued' = [issued EXCEPT ![p] = OneMore(@)]
    <3>1. IssuesBounded(p)'
      BY <2>0, <2>1, <2>3, CodeStored
    <3>2. ASSUME NEW q \in Packages, q # p PROVE Same(q) /\ Fewer(q)
      BY <2>0, <2>1, <2>3, <3>2 DEF Reissuing, Unrecorded, IInv, TypeOK
    <3>3. \A q \in Packages : IssuesBounded(q)'
      BY <1>3, <3>1, <3>2
    <3> QED
      BY <2>1, <3>3 DEF LiveIssues
  <2> QED
    BY <1>7, <2>0, <2>2, <2>3 DEF SavePickupCode
<1>8. ASSUME NEW c \in Customers, RecordIssue(c) PROVE Kept
  <2>1. PICK p \in Packages : asked[c] = p
    BY <1>8 DEF RecordIssue, IInv, CustomerInv
  <2>2. /\ issues'[p] \in {CountFailure(issues[p], Window), issues[p]}
        /\ \A q \in Packages \ {p} : Same(q) /\ (q \in slippedParcels' <=> q \in slippedParcels)
    BY <1>8, <2>1 DEF RecordIssue, FailOpen, IInv, TypeOK
  <2>3. LiveIssues'
    BY <1>2, <2>1, <2>2, LiveCounters DEF LiveIssues
  <2>4. ASSUME NEW q \in Packages, q # p PROVE Fewer(q)
    <3>1. /\ \A e \in Customers \ {c} : cpc'[e] = cpc[e]
          /\ cpc'[c] = "clear" /\ UNCHANGED asked
      BY <1>8 DEF RecordIssue, IInv, TypeOK
    <3> QED
      BY <2>1, <2>2, <2>4, <3>1 DEF Reissuing, Unrecorded
  <2> QED
    BY <1>3, <1>8, <2>1, <2>2, <2>3, <2>4, CountedIssue
<1>9. ASSUME NEW c \in Customers, FindPackage(c) \/ ClearAfterReissue(c) \/ CustomerFails(c)
      PROVE  Kept
  <2>1. UNCHANGED <<issues, issued>>
    BY <1>9 DEF FindPackage, ClearAfterReissue, CustomerFails, issueVars
  <2>2. /\ \A e \in Customers \ {c} : cpc'[e] = cpc[e] /\ asked'[e] = asked[e]
        /\ \/ cpc'[c] = "idle"
           \/ cpc[c] = "find" /\ cpc'[c] = "save" /\ asked'[c] = asked[c]
        /\ slippedParcels \subseteq slippedParcels'
        /\ cpc[c] = "count" => asked[c] \in slippedParcels'
    BY <1>9 DEF FindPackage, ClearAfterReissue, CustomerFails, CustomerIdle, issueVars, IInv,
                TypeOK
  <2>3. \A q \in Packages : Same(q) /\ Fewer(q)
    BY <2>1, <2>2 DEF Reissuing, Unrecorded
  <2> QED
    BY <1>3, <2>1, <2>3 DEF LiveIssues
<1> QED
  BY <1>4, <1>5, <1>6, <1>7, <1>8, <1>9
     DEF Next, vars, customerVars, DoorStep, CustomerStep, Drop, CheckAttempts, FindActiveByLocker,
         RecordFailure, SaveRetrieval, ClearAfterPickup, DoorFails

\* The codes stored for a parcel in the life of its counter exceed the cap by at
\* most the re-issues that run at once, less one, unless a count was lost for it or
\* a block passed.  CountBound, to which the tally is followed, lies beyond that.
THEOREM ReissuesAreBounded ==
    ASSUME IsFiniteSet(Customers), CountBound > MaxReissues - 1 + Cardinality(Customers)
    PROVE  Spec => []ReissuesBounded
<1>1. Init /\ IInv => IssueInv
  <2> SUFFICES ASSUME Init, IInv PROVE IssueInv
    OBVIOUS
  <2>1. \A p \in Packages : issues[p].count = 0 /\ issues[p].ttl = 0 /\ issued[p] = 0
    BY DEF Init, NoKey
  <2> DEFINE k == Cardinality(Customers)
  <2>2. /\ \A p : Cardinality(Reissuing(p)) \in Nat /\ Cardinality(Unrecorded(p)) \in Nat
                  /\ Cardinality(Reissuing(p)) <= k
        /\ k \in Nat /\ MaxReissues \in Nat \ {0}
    BY CustomerSets, FS_CardinalityType, DoorAssumption
  <2> HIDE DEF k
  <2>3. ASSUME NEW p \in Packages PROVE IssuesBounded(p)
    <3> DEFINE g == Cardinality(Reissuing(p))
               n == Cardinality(Unrecorded(p))
    <3>1. g \in Nat /\ n \in Nat /\ g <= k
      BY <2>2
    <3> HIDE DEF g, n
    <3>2. 0 + g <= MaxReissues - 1 + k /\ 0 <= 0 + n
      BY <2>2, <3>1
    <3> QED
      BY <2>1, <3>2 DEF IssuesBounded, g, n, k
  <2> QED
    BY <2>1, <2>3 DEF IssueInv, LiveIssues
<1>2. IssueInv /\ [Next]_vars /\ IInv' => IssueInv'
  BY IssueStep
<1>3. IssueInv => ReissuesBounded
  <2> SUFFICES ASSUME IssueInv, NEW p \in Packages, p \notin slippedParcels
               PROVE  issued[p] <= MaxReissues - 1 + Cardinality(Customers)
    BY DEF ReissuesBounded
  <2> DEFINE g == Cardinality(Reissuing(p))
             n == Cardinality(Unrecorded(p))
             k == Cardinality(Customers)
  <2>1. g \in Nat /\ n \in Nat /\ k \in Nat /\ n <= g
    BY CustomerSets
  <2>2. issues[p].count + g <= MaxReissues - 1 + k /\ issued[p] <= issues[p].count + n
    BY DEF IssueInv, IssuesBounded
  <2>3. issues[p].count \in Nat /\ issued[p] \in Nat /\ MaxReissues \in Nat
    BY IssueNumbers DEF IssueInv
  <2> HIDE DEF g, n, k
  <2>4. issued[p] <= MaxReissues - 1 + k
    BY <2>1, <2>2, <2>3
  <2> QED
    BY <2>4 DEF k
<1> QED
  BY <1>1, <1>2, <1>3, Invariance, PTL DEF Spec

-----------------------------------------------------------------------------
(* Who knows the code that opens a door. *)

\* The code in the row was told, or lost with the request that stored it, or is
\* still held by the request that stored it.
KnownInv ==
    \A p \in Packages :
        status[p] = "STORED" =>
            \/ hash[p] \in delivered
            \/ hash[p] \in lost
            \/ \E c \in Customers : cpc[c] \in {"count", "clear"} /\ asked[c] = p /\ fresh[c] = hash[p]

\* A step that leaves the rows' hashes alone, stores no parcel, forgets no code
\* and ends no re-issue that holds one keeps the codes known.
LEMMA StaysKnown ==
    ASSUME KnownInv, UNCHANGED hash,
           \A p \in Packages : status'[p] = "STORED" => status[p] = "STORED",
           delivered \subseteq delivered', lost \subseteq lost',
           \A c \in Customers : cpc[c] \in {"count", "clear"} =>
              \/ cpc'[c] \in {"count", "clear"} /\ asked'[c] = asked[c] /\ fresh'[c] = fresh[c]
              \/ fresh[c] \in delivered' \cup lost'
    PROVE  KnownInv'
BY DEF KnownInv

\* Every step keeps the codes known.
LEMMA KnownStep ==
    ASSUME IInv, KnownInv, [Next]_vars
    PROVE  KnownInv'
<1> USE DEF IInv
<1>1. ASSUME NEW p \in Packages, NEW l \in Lockers, NEW code \in Codes, Drop(p, l, code)
      PROVE  KnownInv'
  <2>1. hash'[p] \in delivered' /\ delivered \subseteq delivered'
    BY <1>1 DEF Drop, TypeOK
  <2>2. \A q \in Packages \ {p} : status'[q] = status[q] /\ hash'[q] = hash[q]
    BY <1>1 DEF Drop, TypeOK
  <2>3. UNCHANGED <<lost, cpc, asked, fresh>>
    BY <1>1 DEF Drop, customerVars
  <2> QED
    BY <2>1, <2>2, <2>3 DEF KnownInv
<1>2. ASSUME NEW c \in Customers, NEW code \in Codes, SavePickupCode(c, code)
      PROVE  KnownInv'
  <2>1. cpc[c] = "save" /\ asked[c] \in Packages
    BY <1>2 DEF SavePickupCode, CustomerInv
  <2>2. UNCHANGED <<status, delivered, lost>>
    BY <1>2 DEF SavePickupCode, told
  <2>3. \A e \in Customers \ {c} : cpc'[e] = cpc[e] /\ asked'[e] = asked[e] /\ fresh'[e] = fresh[e]
    BY <1>2 DEF SavePickupCode, CustomerIdle, TypeOK
  <2>4. CASE UNCHANGED hash
    BY <2>1, <2>2, <2>3, <2>4, StaysKnown
  <2>5. CASE /\ hash' = [hash EXCEPT ![asked[c]] = Hash(code, asked[c])]
             /\ fresh' = [fresh EXCEPT ![c] = Hash(code, asked[c])]
             /\ cpc' = [cpc EXCEPT ![c] = "count"]
             /\ UNCHANGED asked
    <3>1. cpc'[c] = "count" /\ asked'[c] = asked[c] /\ fresh'[c] = hash'[asked[c]]
      BY <2>1, <2>5 DEF TypeOK
    <3>2. \A q \in Packages \ {asked[c]} : hash'[q] = hash[q]
      BY <2>5 DEF TypeOK
    <3> QED
      BY <2>1, <2>2, <2>3, <3>1, <3>2 DEF KnownInv
  <2> QED
    BY <1>2, <2>4, <2>5 DEF SavePickupCode
<1>3. ASSUME NEW c \in Customers, ClearAfterReissue(c) \/ CustomerFails(c)
      PROVE  KnownInv'
  <2>1. /\ UNCHANGED <<status, hash>>
        /\ delivered \subseteq delivered' /\ lost \subseteq lost'
    BY <1>3 DEF ClearAfterReissue, CustomerFails, rowVars
  <2>2. cpc[c] \in {"count", "clear"} => fresh[c] \in delivered' \cup lost'
    BY <1>3 DEF ClearAfterReissue, CustomerFails
  <2>3. \A e \in Customers \ {c} : cpc'[e] = cpc[e] /\ asked'[e] = asked[e] /\ fresh'[e] = fresh[e]
    BY <1>3 DEF ClearAfterReissue, CustomerFails, CustomerIdle, TypeOK
  <2> QED
    BY <2>1, <2>2, <2>3, StaysKnown
<1>4. ASSUME NEW c \in Customers,
             (\E p \in Packages : CheckReissues(c, p)) \/ FindPackage(c) \/ RecordIssue(c)
      PROVE  KnownInv'
  <2>1. UNCHANGED <<status, hash, delivered, lost>>
    BY <1>4 DEF CheckReissues, FindPackage, RecordIssue, rowVars, told
  <2>2. \A e \in Customers \ {c} : cpc'[e] = cpc[e] /\ asked'[e] = asked[e] /\ fresh'[e] = fresh[e]
    BY <1>4 DEF CheckReissues, FindPackage, RecordIssue, CustomerIdle, TypeOK
  <2>3. cpc[c] \in {"count", "clear"} =>
            cpc'[c] \in {"count", "clear"} /\ asked'[c] = asked[c] /\ fresh'[c] = fresh[c]
    BY <1>4 DEF CheckReissues, FindPackage, RecordIssue, TypeOK
  <2> QED
    BY <2>1, <2>2, <2>3, StaysKnown
<1>5. ASSUME NEW d \in Doors,
             \/ \E l \in Lockers, code \in Codes : CheckAttempts(d, l, code)
             \/ DoorStep(d)
             \/ DoorFails(d)
      PROVE  KnownInv'
  <2>1. UNCHANGED <<hash, delivered, lost, cpc, asked, fresh>>
    BY <1>5 DEF DoorStep, CheckAttempts, FindActiveByLocker, RecordFailure, SaveRetrieval,
                ClearAfterPickup, DoorFails, rowVars, told, customerVars
  <2>2. \A p \in Packages : status'[p] = "STORED" => status[p] = "STORED"
    BY <1>5 DEF DoorStep, CheckAttempts, FindActiveByLocker, RecordFailure, SaveRetrieval,
                ClearAfterPickup, DoorFails, rowVars, TypeOK
  <2> QED
    BY <2>1, <2>2, StaysKnown
<1>6. CASE Tick \/ UNCHANGED vars
  <2>1. UNCHANGED <<status, hash, delivered, lost, cpc, asked, fresh>>
    BY <1>6 DEF Tick, vars, rowVars, told, customerVars
  <2> QED
    BY <2>1, StaysKnown
<1> QED
  BY <1>1, <1>2, <1>3, <1>4, <1>5, <1>6 DEF Next, CustomerStep

\* Whatever re-issues race each other, the code that opens a parcel's door was
\* told to somebody, unless its request is still running or failed.
THEOREM CodesAreKnown == Spec => []CodeIsKnown
<1>1. Init => KnownInv
  BY DEF Init, KnownInv
<1>2. IInv /\ KnownInv /\ [Next]_vars => KnownInv'
  BY KnownStep
<1>3. KnownInv => CodeIsKnown
  BY DEF KnownInv, CodeIsKnown
<1> QED
  BY <1>1, <1>2, <1>3, Invariance, PTL DEF Spec
=============================================================================
