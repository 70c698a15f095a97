----------------------------- MODULE MCItemIngest -----------------------------
(***************************************************************************)
(* Instances of ItemIngest for TLC: two managers ask for one item, or one  *)
(* manager for two.                                                        *)
(***************************************************************************)
EXTENDS ItemIngest

CONSTANTS i1, i2, m1, m2

MCInit ==
    /\ Init /\ staged \notin {{}, {i2}} /\ staged \cap ingested = {}
    /\ asked[m1].pc = "ask" /\ i1 \notin ingested
    /\ asked[m2].pc = "ask" <=> i2 \in ingested

MCSpec == MCInit /\ [][Next]_vars /\ Fairness
================================================================================
