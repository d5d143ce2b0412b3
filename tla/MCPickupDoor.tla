---------------------------- MODULE MCPickupDoor ----------------------------
(* Small instances of PickupDoor. *)
EXTENDS PickupDoor, TLC

CONSTANT AskedFor  \* bound: the packages re-issues are asked for

\* Nobody is obliged to make a request.
FewerRequests == \A c \in Customers : asked'[c] \in AskedFor \cup {None}

PickupSpec == Init /\ [][Next /\ FewerRequests]_vars

Symmetry ==
    Permutations(Doors) \cup Permutations(Customers) \cup Permutations(Codes)
        \cup Permutations(AskedFor)

\* Of a retrieval: what it still reads.
StillRead(d) ==
    <<dpc[d], IF dpc[d] = "idle" THEN None ELSE visit[d].locker,
      IF dpc[d] = "find" THEN visit[d].code ELSE None,
      IF dpc[d] = "save" THEN found[d] ELSE None>>

\* States that differ only in what people were told or are about to be told, and in
\* locals that are not read again, are one state to a run that asks nothing about
\* them: no guard and no other variable depends on told, old, fresh or those.
WithTallies ==
    <<rowVars, attempts, issues, [d \in Doors |-> StillRead(d)], cpc, asked,
      guessVars, issueVars>>

\* The same for a run that asks who knows the current code, but not which code a
\* re-issue replaced.
WithoutVoided ==
    <<rowVars, delivered, lost, attempts, issues, doorVars, cpc, asked, fresh>>
=============================================================================
