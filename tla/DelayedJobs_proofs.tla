-------------------------- MODULE DelayedJobs_proofs --------------------------
(***************************************************************************)
(* Facts about rows of the queue, for any number of rows and attempts.     *)
(***************************************************************************)
EXTENDS DelayedJobs, TLAPS

\* The rows the queue itself makes are rows.
LEMMA RowConstants == Absent \in Row /\ Fresh \in Row /\ AfterDeserializationError \in Row
BY MaxAttemptsAssumption DEF Absent, Fresh, AfterDeserializationError, Row, RowStatus

\* Every operation on a row of the queue yields a row.
LEMMA RowSteps ==
    ASSUME NEW row \in Row
    PROVE  /\ Locked(row) \in Row /\ AfterCrash(row) \in Row /\ Destroyed(row) \in Row
           /\ AfterRaise(row) \in Row
BY RowConstants, MaxAttemptsAssumption
DEF Locked, AfterCrash, Destroyed, AfterRaise, Row, RowStatus, Absent

\* What the statuses come to, without the attempts.
LEMMA StatusSteps ==
    ASSUME NEW row \in Row
    PROVE  /\ Absent.status = "absent" /\ Fresh.status = "queued"
           /\ AfterDeserializationError.status = "failed"
           /\ Locked(row).status = "running"
           /\ row.status = "orphan" =>
                AfterRaise(row).status = "absent" /\ AfterCrash(row).status = "absent"
           /\ AfterRaise(row).status \in {"absent", "queued", "failed"}
           /\ row.status # "orphan" => AfterCrash(row).status = "queued"
           /\ Destroyed(row).status =
                IF row.status \in {"running", "orphan"} THEN "orphan" ELSE "absent"
BY DEF Locked, AfterCrash, Destroyed, AfterRaise, Row, RowStatus, Absent, Fresh,
       AfterDeserializationError
==============================================================================
