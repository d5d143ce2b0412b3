----------------------------- MODULE PickupDoor -----------------------------
(***************************************************************************)
(* Collection at the locker door: RetrievePackageService.retrieve,         *)
(* ReissuePickupCodeService.reissue, and the two Redis counters they share *)
(* (wrong codes per door, codes issued per parcel), run by any number of   *)
(* concurrent requests.                                                    *)
(*                                                                         *)
(* One action is one await: a Redis script, a query, a transaction.  A     *)
(* drop is one action, which StorePackage shows it is for anyone looking   *)
(* at parcels; an assignment is named by its package, of which it is the   *)
(* only one.  A counter's TTL is counted in ticks.                         *)
(***************************************************************************)
EXTENDS Naturals, FiniteSets

CONSTANTS
    Doors,          \* concurrently running retrieval requests
    Customers,      \* concurrently running re-issue requests
    Lockers,
    Packages,
    Codes,          \* what PickupCodeGenerator.generate can return
    MaxAttempts,    \* retrievalLimit.maxAttempts
    Lockout,        \* retrievalLimit.lockoutSeconds, in ticks
    MaxReissues,    \* pickupCodeReissue.maxPerWindow
    Window,         \* pickupCodeReissue.windowSeconds, in ticks
    CountBound,     \* bound: a counter is not followed beyond this value
    RedisMayFail,   \* whether Redis commands may be lost
    RequestsMayFail,\* whether a request may die between two awaits
    None

ASSUME DoorAssumption ==
    /\ MaxAttempts \in Nat \ {0} /\ MaxReissues \in Nat \ {0}
    /\ Lockout \in Nat \ {0} /\ Window \in Nat \ {0}
    /\ CountBound \in Nat /\ CountBound > MaxAttempts /\ CountBound > MaxReissues
    /\ RedisMayFail \in BOOLEAN /\ RequestsMayFail \in BOOLEAN
    /\ None \notin Lockers /\ None \notin Packages /\ None \notin Codes \X Packages

VARIABLES
    status,     \* package.status of a registered package
    place,      \* locker_assignment.locker_id of its assignment
    hash,       \* locker_assignment.pickup_code_hash
    claims,     \* history: how many retrievals closed the assignment
    voided,     \* history: hashes whose replacement a customer was told of
    delivered,  \* history: hashes whose code an agent or a customer was told
    lost,       \* history: hashes whose request failed after it had stored them
    attempts,   \* retrieval:attempts:<locker>
    issues,     \* pickup-code:reissues:<package>
    guesses,        \* history: wrong codes tried at a door since its counter was last gone
    slippedDoors,   \* history: doors where since then one was not counted or passed a block
    issued,         \* history: codes stored for a parcel since its counter was last gone
    slippedParcels, \* history: parcels where since then one was not counted or passed a block
    dpc, visit, found,      \* a retrieval: its await, its input, the package it found
    cpc, asked, old, fresh  \* a re-issue: its await, its package, the hash it read and minted

rowVars == <<status, place, hash, claims>>
doorVars == <<dpc, visit, found>>
told == <<voided, delivered, lost>>
customerVars == <<cpc, asked, old, fresh>>
guessVars == <<guesses, slippedDoors>>
issueVars == <<issued, slippedParcels>>
vars == <<rowVars, told, attempts, issues, guessVars, issueVars, doorVars, customerVars>>

Hashes == Codes \X Packages

\* PickupCodeHasher.hash: keyed and salted with the assignment, so two codes, or
\* one code at two parcels, do not collide.
Hash(c, p) == <<c, p>>

Counter == [count : 0 .. CountBound, ttl : 0 .. (Lockout + Window)]
NoKey == [count |-> 0, ttl |-> 0]
Visit == [locker : Lockers, code : Codes]

\* The type invariant.
TypeOK ==
    /\ status \in [Packages -> {"REGISTERED", "STORED", "RETRIEVED"}]
    /\ place \in [Packages -> Lockers \cup {None}]
    /\ hash \in [Packages -> Hashes \cup {None}]
    /\ claims \in [Packages -> Nat]
    /\ voided \in SUBSET Hashes /\ delivered \in SUBSET Hashes /\ lost \in SUBSET Hashes
    /\ attempts \in [Lockers -> Counter]
    /\ issues \in [Packages -> Counter]
    /\ guesses \in [Lockers -> 0 .. CountBound] /\ slippedDoors \in SUBSET Lockers
    /\ issued \in [Packages -> 0 .. CountBound] /\ slippedParcels \in SUBSET Packages
    /\ dpc \in [Doors -> {"idle", "find", "count", "save", "clear"}]
    /\ visit \in [Doors -> Visit \cup {None}]
    /\ found \in [Doors -> Packages \cup {None}]
    /\ cpc \in [Customers -> {"idle", "find", "save", "count", "clear"}]
    /\ asked \in [Customers -> Packages \cup {None}]
    /\ old \in [Customers -> Hashes \cup {None}]
    /\ fresh \in [Customers -> Hashes \cup {None}]

Init ==
    /\ status = [p \in Packages |-> "REGISTERED"]
    /\ place = [p \in Packages |-> None]
    /\ hash = [p \in Packages |-> None]
    /\ claims = [p \in Packages |-> 0]
    /\ voided = {} /\ delivered = {} /\ lost = {}
    /\ attempts = [l \in Lockers |-> NoKey]
    /\ issues = [p \in Packages |-> NoKey]
    /\ guesses = [l \in Lockers |-> 0] /\ slippedDoors = {}
    /\ issued = [p \in Packages |-> 0] /\ slippedParcels = {}
    /\ dpc = [d \in Doors |-> "idle"]
    /\ visit = [d \in Doors |-> None]
    /\ found = [d \in Doors |-> None]
    /\ cpc = [c \in Customers |-> "idle"]
    /\ asked = [c \in Customers |-> None]
    /\ old = [c \in Customers |-> None]
    /\ fresh = [c \in Customers |-> None]

-----------------------------------------------------------------------------
(* The attempt counter in Redis. *)

\* Mutant: the block starts one count too late.
BlockedLate(counter, max) == counter.count > max /\ counter.ttl > 0

\* check of both limiters, on READ_BLOCK's answer: the cap is reached and the key lives.
Blocked(counter, max) == counter.count >= max /\ counter.ttl > 0

\* One more, up to the bound.
OneMore(n) == IF n < CountBound THEN n + 1 ELSE CountBound

\* Mutant: the milliseconds are converted a second time.
CountFailureWrongUnit(counter, ttl) == [count |-> OneMore(counter.count), ttl |-> 1000 * ttl]

\* COUNT_FAILURE: INCR and PEXPIRE in one script.
CountFailure(counter, ttl) == [count |-> OneMore(counter.count), ttl |-> ttl]

\* A key loses a tick, and is gone with its last one.
Age(counter) ==
    IF counter.ttl <= 1 THEN NoKey ELSE [counter EXCEPT !.ttl = @ - 1]

Expires(counter) == counter # NoKey /\ Age(counter) = NoKey

\* run() of both limiters: a command that fails is logged and ignored.  It may
\* have been executed all the same.
FailOpen(variable) == RedisMayFail /\ UNCHANGED variable

\* What a check lets through: the keys below their cap, and every key when it
\* cannot be read.
Pass(counter, max) == ~Blocked(counter, max) \/ RedisMayFail

Tick ==
    /\ \/ \E l \in Lockers : attempts[l] # NoKey
       \/ \E p \in Packages : issues[p] # NoKey
    /\ attempts' = [l \in Lockers |-> Age(attempts[l])]
    /\ issues' = [p \in Packages |-> Age(issues[p])]
    /\ guesses' = [l \in Lockers |-> IF Expires(attempts[l]) THEN 0 ELSE guesses[l]]
    /\ slippedDoors' = {l \in slippedDoors : ~Expires(attempts[l])}
    /\ issued' = [p \in Packages |-> IF Expires(issues[p]) THEN 0 ELSE issued[p]]
    /\ slippedParcels' = {p \in slippedParcels : ~Expires(issues[p])}
    /\ UNCHANGED <<rowVars, told, doorVars, customerVars>>

-----------------------------------------------------------------------------
(* A drop, as the abstract locker bank has it, with a code of its own. *)

Holds(l, p) == status[p] = "STORED" /\ place[p] = l

Drop(p, l, c) ==
    /\ status[p] = "REGISTERED"
    /\ \A q \in Packages : ~Holds(l, q)
    /\ status' = [status EXCEPT ![p] = "STORED"]
    /\ place' = [place EXCEPT ![p] = l]
    /\ hash' = [hash EXCEPT ![p] = Hash(c, p)]
    /\ delivered' = delivered \cup {Hash(c, p)}
    /\ UNCHANGED <<claims, voided, lost, attempts, issues, doorVars, customerVars, guessVars, issueVars>>

-----------------------------------------------------------------------------
(* retrieve() *)

\* The retrieval is answered: opened, or with one of its errors, which leave the
\* same state behind.
DoorIdle(d) ==
    /\ dpc' = [dpc EXCEPT ![d] = "idle"]
    /\ visit' = [visit EXCEPT ![d] = None]
    /\ found' = [found EXCEPT ![d] = None]

\* attempts.clear: DEL of the key.  Counting starts anew.
ClearAttempts(l) ==
    /\ attempts' = [attempts EXCEPT ![l] = NoKey]
    /\ guesses' = [guesses EXCEPT ![l] = 0]
    /\ slippedDoors' = slippedDoors \ {l}

\* Mutant: a rejected attempt is counted too, and keeps its own block alive.
CheckAttemptsCounts(d, l, c) ==
    /\ dpc[d] = "idle"
    /\ \/ /\ ~Blocked(attempts[l], MaxAttempts)
          /\ dpc' = [dpc EXCEPT ![d] = "find"]
          /\ visit' = [visit EXCEPT ![d] = [locker |-> l, code |-> c]]
          /\ UNCHANGED attempts
       \/ /\ Blocked(attempts[l], MaxAttempts)
          /\ attempts' = [attempts EXCEPT ![l] = CountFailure(@, Lockout)]
          /\ UNCHANGED <<dpc, visit>>
    /\ UNCHANGED <<rowVars, told, issues, found, customerVars, guessVars, issueVars>>

\* attempts.check.  A blocked door (429) and an input that is not a code (400)
\* are answered here and leave no trace.
CheckAttempts(d, l, c) ==
    /\ dpc[d] = "idle"
    /\ Pass(attempts[l], MaxAttempts)
    /\ slippedDoors' = slippedDoors \cup {k \in {l} : Blocked(attempts[k], MaxAttempts)}
    /\ dpc' = [dpc EXCEPT ![d] = "find"]
    /\ visit' = [visit EXCEPT ![d] = [locker |-> l, code |-> c]]
    /\ UNCHANGED <<rowVars, told, attempts, issues, found, customerVars, guesses, issueVars>>

\* findActiveByLocker and verify.  An empty door answers retrieval_failed.
FindActiveByLocker(d) ==
    /\ dpc[d] = "find"
    /\ \/ /\ \A p \in Packages : ~Holds(visit[d].locker, p)
          /\ DoorIdle(d)
          /\ UNCHANGED guesses
       \/ \E p \in Packages :
          /\ Holds(visit[d].locker, p)
          /\ found' = [found EXCEPT ![d] = p]
          /\ UNCHANGED visit
          /\ \/ /\ Hash(visit[d].code, p) = hash[p]
                /\ dpc' = [dpc EXCEPT ![d] = "save"]
                /\ UNCHANGED guesses
             \/ /\ Hash(visit[d].code, p) # hash[p]
                /\ dpc' = [dpc EXCEPT ![d] = "count"]
                /\ guesses' = [guesses EXCEPT ![visit[d].locker] = OneMore(@)]
    /\ UNCHANGED <<rowVars, told, attempts, issues, customerVars, slippedDoors, issueVars>>

\* recordFailure, then retrieval_failed.
RecordFailure(d) ==
    /\ dpc[d] = "count"
    /\ \/ /\ attempts' = [attempts EXCEPT ![visit[d].locker] = CountFailure(@, Lockout)]
          /\ UNCHANGED slippedDoors
       \/ /\ FailOpen(attempts)
          /\ slippedDoors' = slippedDoors \cup {visit[d].locker}
    /\ DoorIdle(d)
    /\ UNCHANGED <<rowVars, told, issues, customerVars, guesses, issueVars>>

\* Mutant: the UPDATE without "AND retrieved_at IS NULL".
SaveRetrievalUnconditional(d) ==
    /\ dpc[d] = "save"
    /\ status' = [status EXCEPT ![found[d]] = "RETRIEVED"]
    /\ claims' = [claims EXCEPT ![found[d]] = @ + 1]
    /\ dpc' = [dpc EXCEPT ![d] = "clear"]
    /\ UNCHANGED <<visit, found, place, hash, told, attempts, issues, customerVars, guessVars, issueVars>>

\* saveRetrieval: the conditional UPDATE decides who collects the parcel.
SaveRetrieval(d) ==
    /\ dpc[d] = "save"
    /\ \/ /\ status[found[d]] = "STORED"
          /\ status' = [status EXCEPT ![found[d]] = "RETRIEVED"]
          /\ claims' = [claims EXCEPT ![found[d]] = @ + 1]
          /\ dpc' = [dpc EXCEPT ![d] = "clear"]
          /\ UNCHANGED <<visit, found>>
       \/ /\ status[found[d]] # "STORED"
          /\ DoorIdle(d)
          /\ UNCHANGED <<status, claims>>
    /\ UNCHANGED <<place, hash, told, attempts, issues, customerVars, guessVars, issueVars>>

\* attempts.clear, then the answer opened: true.
ClearAfterPickup(d) ==
    /\ dpc[d] = "clear"
    /\ ClearAttempts(visit[d].locker) \/ FailOpen(<<attempts, guessVars>>)
    /\ DoorIdle(d)
    /\ UNCHANGED <<rowVars, told, issues, customerVars, issueVars>>

\* Any await of the retrieval rejects, or the process dies.
DoorFails(d) ==
    /\ RequestsMayFail
    /\ dpc[d] # "idle"
    /\ slippedDoors' = IF dpc[d] = "count" THEN slippedDoors \cup {visit[d].locker}
                                           ELSE slippedDoors
    /\ DoorIdle(d)
    /\ UNCHANGED <<rowVars, told, attempts, issues, customerVars, guesses, issueVars>>

-----------------------------------------------------------------------------
(* reissue() *)

\* The re-issue is answered, with a code or with one of its errors.
CustomerIdle(c) ==
    /\ cpc' = [cpc EXCEPT ![c] = "idle"]
    /\ asked' = [asked EXCEPT ![c] = None]
    /\ old' = [old EXCEPT ![c] = None]
    /\ fresh' = [fresh EXCEPT ![c] = None]

\* Mutant: a rejected re-issue is counted too, and keeps its own block alive.
CheckReissuesCounts(c, p) ==
    /\ cpc[c] = "idle"
    /\ \/ /\ ~Blocked(issues[p], MaxReissues)
          /\ cpc' = [cpc EXCEPT ![c] = "find"]
          /\ asked' = [asked EXCEPT ![c] = p]
          /\ UNCHANGED issues
       \/ /\ Blocked(issues[p], MaxReissues)
          /\ issues' = [issues EXCEPT ![p] = CountFailure(@, Window)]
          /\ UNCHANGED <<cpc, asked>>
    /\ UNCHANGED <<rowVars, told, attempts, old, fresh, doorVars, guessVars, issueVars>>

\* reissues.check, 429 too_many_pickup_code_reissues.
CheckReissues(c, p) ==
    /\ cpc[c] = "idle"
    /\ Pass(issues[p], MaxReissues)
    /\ slippedParcels' = slippedParcels \cup {q \in {p} : Blocked(issues[q], MaxReissues)}
    /\ cpc' = [cpc EXCEPT ![c] = "find"]
    /\ asked' = [asked EXCEPT ![c] = p]
    /\ UNCHANGED <<rowVars, told, attempts, issues, old, fresh, doorVars, guessVars, issued>>

\* findById: a parcel that is not in a locker gets no code.
FindPackage(c) ==
    /\ cpc[c] = "find"
    /\ \/ /\ status[asked[c]] # "STORED"
          /\ CustomerIdle(c)
       \/ /\ status[asked[c]] = "STORED"
          /\ cpc' = [cpc EXCEPT ![c] = "save"]
          /\ old' = [old EXCEPT ![c] = hash[asked[c]]]
          /\ UNCHANGED <<asked, fresh>>
    /\ UNCHANGED <<rowVars, told, attempts, issues, doorVars, guessVars, issueVars>>

\* Mutant: the UPDATE without "AND retrieved_at IS NULL".
SavePickupCodeUnconditional(c, code) ==
    /\ cpc[c] = "save"
    /\ hash' = [hash EXCEPT ![asked[c]] = Hash(code, asked[c])]
    /\ fresh' = [fresh EXCEPT ![c] = Hash(code, asked[c])]
    /\ cpc' = [cpc EXCEPT ![c] = "count"]
    /\ issued' = [issued EXCEPT ![asked[c]] = OneMore(@)]
    /\ UNCHANGED <<asked, old, status, place, claims, told, attempts, issues, doorVars, guessVars>>
    /\ UNCHANGED slippedParcels

\* Mutant: the answer carries a code generated for it, not the stored one.
SavePickupCodeAnswersAnother(c, code) ==
    /\ cpc[c] = "save"
    /\ \/ /\ status[asked[c]] = "STORED"
          /\ hash' = [hash EXCEPT ![asked[c]] = Hash(code, asked[c])]
          /\ \E other \in Codes : fresh' = [fresh EXCEPT ![c] = Hash(other, asked[c])]
          /\ cpc' = [cpc EXCEPT ![c] = "count"]
          /\ issued' = [issued EXCEPT ![asked[c]] = OneMore(@)]
          /\ UNCHANGED <<asked, old>>
       \/ /\ status[asked[c]] # "STORED"
          /\ CustomerIdle(c)
          /\ UNCHANGED <<hash, issued>>
    /\ UNCHANGED <<status, place, claims, told, attempts, issues, doorVars, guessVars>>
    /\ UNCHANGED slippedParcels

\* savePickupCode: the conditional UPDATE of the hash; zero rows is a 409.
SavePickupCode(c, code) ==
    /\ cpc[c] = "save"
    /\ \/ /\ status[asked[c]] = "STORED"
          /\ hash' = [hash EXCEPT ![asked[c]] = Hash(code, asked[c])]
          /\ fresh' = [fresh EXCEPT ![c] = Hash(code, asked[c])]
          /\ cpc' = [cpc EXCEPT ![c] = "count"]
          /\ issued' = [issued EXCEPT ![asked[c]] = OneMore(@)]
          /\ UNCHANGED <<asked, old>>
       \/ /\ status[asked[c]] # "STORED"
          /\ CustomerIdle(c)
          /\ UNCHANGED <<hash, issued>>
    /\ UNCHANGED <<status, place, claims, told, attempts, issues, doorVars, guessVars>>
    /\ UNCHANGED slippedParcels

\* recordIssue: only now does the re-issue count.
RecordIssue(c) ==
    /\ cpc[c] = "count"
    /\ \/ /\ issues' = [issues EXCEPT ![asked[c]] = CountFailure(@, Window)]
          /\ UNCHANGED slippedParcels
       \/ /\ FailOpen(issues)
          /\ slippedParcels' = slippedParcels \cup {asked[c]}
    /\ cpc' = [cpc EXCEPT ![c] = "clear"]
    /\ UNCHANGED <<rowVars, told, attempts, asked, old, fresh, doorVars, guessVars, issued>>

\* attempts.clear of the parcel's door, then the answer with the new code.
ClearAfterReissue(c) ==
    /\ cpc[c] = "clear"
    /\ ClearAttempts(place[asked[c]]) \/ FailOpen(<<attempts, guessVars>>)
    /\ voided' = (voided \cup {old[c]}) \ {fresh[c]}
    /\ delivered' = delivered \cup {fresh[c]}
    /\ CustomerIdle(c)
    /\ UNCHANGED <<rowVars, lost, issues, doorVars, issueVars>>

\* Any await of the re-issue rejects (the second, separate UPDATE of
\* savePickupCode included), or the process dies.
CustomerFails(c) ==
    /\ RequestsMayFail
    /\ cpc[c] # "idle"
    /\ lost' = IF cpc[c] \in {"count", "clear"} THEN lost \cup {fresh[c]} ELSE lost
    /\ slippedParcels' = IF cpc[c] = "count" THEN slippedParcels \cup {asked[c]}
                                             ELSE slippedParcels
    /\ CustomerIdle(c)
    /\ UNCHANGED <<rowVars, voided, delivered, attempts, issues, doorVars, guessVars, issued>>

-----------------------------------------------------------------------------

DoorStep(d) ==
    FindActiveByLocker(d) \/ RecordFailure(d) \/ SaveRetrieval(d) \/ ClearAfterPickup(d)

CustomerStep(c) ==
    \/ FindPackage(c) \/ RecordIssue(c) \/ ClearAfterReissue(c)
    \/ \E code \in Codes : SavePickupCode(c, code)

Next ==
    \/ Tick
    \/ \E p \in Packages, l \in Lockers, code \in Codes : Drop(p, l, code)
    \/ \E d \in Doors :
        \/ \E l \in Lockers, code \in Codes : CheckAttempts(d, l, code)
        \/ DoorStep(d)
        \/ DoorFails(d)
    \/ \E c \in Customers :
        \/ \E p \in Packages : CheckReissues(c, p)
        \/ CustomerStep(c)
        \/ CustomerFails(c)

Spec == Init /\ [][Next]_vars

\* Time passes, and the requests in flight are run: Redis and MySQL answer or
\* reject every command.  Nobody is obliged to start a request.
FairSpec ==
    /\ Spec
    /\ WF_vars(Tick)
    /\ \A d \in Doors : WF_vars(DoorStep(d))
    /\ \A c \in Customers : WF_vars(CustomerStep(c))

-----------------------------------------------------------------------------
(* Properties. *)

\* A parcel is handed out once: of all retrievals that verified its code, one
\* closes the assignment (saveRetrieval settles the race), and nothing but that
\* makes it RETRIEVED.
HandedOutOnce ==
    \A p \in Packages : claims[p] = (IF status[p] = "RETRIEVED" THEN 1 ELSE 0)

\* README.md: "a new code can never be minted into a locker that was just
\* emptied": the hash of a collected parcel never changes again.
NoCodeForEmptyLocker ==
    [][\A p \in Packages : status[p] = "RETRIEVED" => hash'[p] = hash[p]]_vars

\* Whatever re-issues race each other, the code that opens a parcel's door was
\* told to somebody, unless the request that minted it has still to answer or
\* failed before it could.
CodeIsKnown ==
    \A p \in Packages :
        status[p] = "STORED" =>
            \/ hash[p] \in delivered
            \/ hash[p] \in lost
            \/ \E c \in Customers : cpc[c] # "idle" /\ asked[c] = p /\ fresh[c] = hash[p]

\* Wrong codes really tried at a door, until its counter expires or is cleared.
\* The check and the count are two awaits, so the cap can be overshot, but by no
\* more than the requests that passed the check together; unless a count was lost
\* (Redis did not execute it, or the request died before it) or a check that Redis
\* did not answer let a request pass a block.
GuessesBounded ==
    \A l \in Lockers \ slippedDoors : guesses[l] <= MaxAttempts - 1 + Cardinality(Doors)

\* The same for the codes really stored for one parcel in one window, although
\* savePickupCode comes two awaits after the check and one before the count.
ReissuesBounded ==
    \A p \in Packages \ slippedParcels :
        issued[p] <= MaxReissues - 1 + Cardinality(Customers)

\* What README.md and retrieve-package.service.ts say of the pickup code: it is
\* "capped at five wrong guesses per door".
GuessesCapped == \A l \in Lockers : guesses[l] <= MaxAttempts

\* What README.md says of re-issues: "Three codes per parcel per hour".
CodesCapped == \A p \in Packages : issued[p] <= MaxReissues

\* Of the two caps, which the documentation promises both, at least one is kept:
\* a behaviour that violates this breaks both.
SomeCapKept == GuessesCapped \/ CodesCapped

\* A block always lifts: it is not kept alive by the requests it rejects, and
\* the requests already past the check can prolong it only so often.
BlockLifts ==
    \A l \in Lockers : Blocked(attempts[l], MaxAttempts) ~> ~Blocked(attempts[l], MaxAttempts)

\* A customer asks for a new code again and again, often enough to be let in if
\* the cap is lifted again and again (a rejected request leaves no trace), and at
\* some point requests stop failing.
KeepsAsking(p) ==
    /\ SF_vars(\E c \in Customers : CheckReissues(c, p))
    /\ <>[][\A c \in Customers : ~CustomerFails(c)]_vars

\* A code that was stored by a request that failed (savePickupCode is two UPDATEs
\* without a transaction) is not the end: neither the cap on re-issues nor the
\* requests still in flight keep the customer from getting a code that opens the
\* door.
LostCodeRecovered ==
    \A p \in Packages :
        KeepsAsking(p) =>
            (status[p] = "STORED" ~> status[p] # "STORED" \/ hash[p] \in delivered)

\* What package.entity.ts says of a re-issue: it "makes the old code worthless
\* the moment this returns".
VoidedCodeOpensNothing ==
    [][\A d \in Doors :
          dpc[d] = "save" /\ dpc'[d] = "clear" => Hash(visit[d].code, found[d]) \notin voided]_vars
=============================================================================
