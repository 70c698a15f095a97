----------------------------- MODULE MCAccrualJob -----------------------------
(***************************************************************************)
(* Instances of AccrualJob for TLC.  Rows and requests are interchangeable *)
(* everywhere; so are two keys of the same kind.                           *)
(***************************************************************************)
EXTENDS AccrualJob, TLC

RowSymmetry == Permutations(Rows) \cup Permutations(Requests)

(***************************************************************************)
(* The states right after an administrator's approval, where nothing has   *)
(* gone wrong yet: what liveness is about starts there, and the requests   *)
(* left are those that come too late.                                      *)
(***************************************************************************)
ApprovedInit ==
    /\ \E d \in Rows : rows = [e \in Rows |-> IF e = d THEN Fresh ELSE Absent]
    /\ run = [d \in Rows |-> Idle]
    /\ state \in CopyPaths
    /\ submitted \in [overwrite : BOOLEAN, excluded : {FALSE}]
    /\ target \in [Keys -> {"absent", "old"}] /\ ~Refusable
    /\ keys = Keys /\ conflicts = Duplicates
    /\ transfer = [k \in Keys |-> "none"]
    /\ fixity = [k \in Keys |-> IF target[k] = "old" THEN "old" ELSE "none"]
    /\ element = [k \in Keys |-> "none"]
    /\ dirJob = FALSE /\ polls = 0
    /\ req = [r \in Requests |-> Unused]
    /\ archived = {} /\ refused = FALSE /\ deposited = FALSE
    /\ approved = {[path |-> state, role |-> "admin"]}
    /\ torn = FALSE /\ faults = 0

ApprovedFairSpec == ApprovedInit /\ [][Next]_vars /\ Fairness
==============================================================================
