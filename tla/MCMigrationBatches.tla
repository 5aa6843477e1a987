------------------------- MODULE MCMigrationBatches -------------------------
(* Two packages for TLC: exports of the same state, or of different ones.   *)
EXTENDS MigrationBatches, TLC

CONSTANTS b1, b2, c1, c2

MCExports == {b1 :> c1 @@ b2 :> c1, b1 :> c1 @@ b2 :> c2}

\* The more packages have still to be read, the less else happens: nothing when both
\* have, one mishap or one choice when b2 has, one of each when none has.
MCStart ==
    /\ status[b1] = "uploaded" => status[b2] = "uploaded"
    /\ mishaps + choices = Cardinality({b \in Batches : status[b] = "uploaded"})

MCInit == Init /\ MCStart
MCSpec == MCInit /\ [][Next]_vars /\ Fairness
=============================================================================
