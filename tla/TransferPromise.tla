--------------------------- MODULE TransferPromise ---------------------------
(***************************************************************************)
(* What an accrual relies on when it hands its keys to the Globus          *)
(* transfers: a key it is told is copied has content at its destination, a *)
(* key it is told has failed was failed by Globus, and a key once reported *)
(* as copied is never taken up again.  GlobusTransfers shows how the       *)
(* scheduled tasks keep this promise; AccrualJob uses it                   *)
(* (TransferArrives, TransferSeenCopied, TransferFails).                   *)
(***************************************************************************)
CONSTANT Keys       \* the keys of an accrual

VARIABLES
    target,     \* content at the destination of each key
    given,      \* keys whose transfer Globus has given up at least once
    fate        \* what the accrual knows of each key

vars == <<target, given, fate>>

TypeOK ==
    /\ target \in [Keys -> {"absent", "present"}]
    /\ given \subseteq Keys
    /\ fate \in [Keys -> {"waiting", "copied", "failed"}]

Init ==
    /\ target \in [Keys -> {"absent", "present"}]
    /\ given = {}
    /\ fate = [k \in Keys |-> "waiting"]

\* Globus puts the content in place, now or once more.
Deliver(k) ==
    /\ target' = [target EXCEPT ![k] = "present"]
    /\ UNCHANGED <<given, fate>>

\* Globus gives a transfer of the key up.
GiveUp(k) ==
    /\ given' = given \cup {k}
    /\ UNCHANGED <<target, fate>>

\* The accrual is told that the key is copied.
Confirm(k) ==
    /\ fate[k] = "waiting" /\ target[k] = "present"
    /\ fate' = [fate EXCEPT ![k] = "copied"]
    /\ UNCHANGED <<target, given>>

\* The accrual is told that the key has failed.
Blame(k) ==
    /\ fate[k] = "waiting" /\ k \in given
    /\ fate' = [fate EXCEPT ![k] = "failed"]
    /\ UNCHANGED <<target, given>>

\* An operator has the failed keys tried again.
Retry ==
    /\ fate' = [k \in Keys |-> IF fate[k] = "failed" THEN "waiting" ELSE fate[k]]
    /\ UNCHANGED <<target, given>>

Next == Retry \/ \E k \in Keys : Deliver(k) \/ GiveUp(k) \/ Confirm(k) \/ Blame(k)

Spec == Init /\ [][Next]_vars
==============================================================================
