--------------------------- MODULE MCStorageRates ---------------------------
(* An instance of StorageRates, and of StorageRateTable beside it.  The two     *)
(* share the arithmetic of StorageFee and no variable.                         *)
EXTENDS StorageRates, StorageRateTable

Band(from, to, rate) == [fromDay |-> from, toDay |-> to, rate |-> rate]

\* One band, and two that arrive out of order; then inputs to be rejected: an
\* empty band, no open end, no first day.
MCInputs ==
    { <<Band(0, None, 4)>>,
      <<Band(1, None, 7), Band(0, 1, 5)>>,
      <<Band(0, 0, 1), Band(0, None, 6)>>,
      <<Band(0, 1, 2)>>,
      <<Band(1, None, 3)>> }

MCSeed == <<Band(0, 1, 1), Band(1, None, 2)>>

\* Nothing has been published or dropped yet.
AtStart ==
    /\ now = 0
    /\ rates = {Row(0, Seed[i]) : i \in DOMAIN Seed}
    /\ \A o \in Publishers : draft[o] = None
    /\ \A p \in Parcels : storedAt[p] = None

\* Tables are built from the initial state alone, so that the run explores the
\* publications and the tables, and not their product.
RatesNext ==
    \/ Next /\ table = <<>> /\ UNCHANGED table
    \/ AtStart /\ TableNext /\ UNCHANGED vars

RatesInit == Init /\ TableInit

RatesSpec == RatesInit /\ [][RatesNext]_<<vars, table>>

Symmetry == Permutations(Publishers) \cup Permutations(Parcels)
=============================================================================
