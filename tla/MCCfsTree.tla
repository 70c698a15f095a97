------------------------------- MODULE MCCfsTree -------------------------------
(***************************************************************************)
(* Instances of CfsTree for TLC: a root directory with a file, and one     *)
(* subdirectory with another.                                              *)
(***************************************************************************)
EXTENDS CfsTree, TLC

CONSTANTS root, sub, f, g, i1, i2, i3

MCPaths      == {root, sub}
MCParentPath == sub :> root
MCFiles      == {f, g}
MCFolder     == f :> root @@ g :> sub
MCIds        == {i1, i2, i3}

(***************************************************************************)
(* The records say nothing, or what was true when both files were stored;  *)
(* the file of the subdirectory is still to come.  Two of the accrual, a   *)
(* request and a single file interleave at a time: the accrual with a      *)
(* file, a request with a file, the accrual with a request.                *)
(***************************************************************************)
MCInit ==
    /\ \/ Start({}, TRUE, {f})
       \/ Start(Requests, FALSE, {g})
       \/ Start(Requests, TRUE, {}) /\ stored[f] # None /\ tree.files = {}
    /\ stored[g] = None
    /\ IF tree.files = {} THEN tree.dirs[i2] = None /\ tree.dirs[i3] = None
       ELSE Cardinality(tree.files) = 2 /\ \A r \in tree.files : r.size # None

MCSpec == MCInit /\ [][Next]_vars /\ Fairness
================================================================================
