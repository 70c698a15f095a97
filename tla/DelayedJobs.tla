----------------------------- MODULE DelayedJobs -----------------------------
(***************************************************************************)
(* The delayed_jobs table as the registry uses it.  Every workflow record  *)
(* (accrual, file group deletion, item ingest) is driven by rows of this   *)
(* table: put_in_queue inserts a row whose handler is the record, a worker *)
(* locks the row, loads the record afresh, calls perform and then the      *)
(* success hook, and deletes the row; a raise puts the row back for a      *)
(* later attempt until the attempts are used up, and the row is then kept  *)
(* as failed (destroy_failed_jobs is false).                               *)
(*                                                                         *)
(* Nothing ties a record to one row: several rows may name the same record *)
(* and several workers may run them at once.                               *)
(***************************************************************************)
EXTENDS Naturals

CONSTANTS
    Rows,          \* identities of rows: a bound on the rows alive at once
    MaxAttempts    \* Delayed::Worker.max_attempts

ASSUME RowsAssumption == Rows # {}
ASSUME MaxAttemptsAssumption == MaxAttempts \in Nat \ {0}

VARIABLE rows      \* [Rows -> Row]

(***************************************************************************)
(* "orphan": the row was deleted (destroy_queued_jobs) while a worker was  *)
(* still performing it; the worker does not notice.                        *)
(***************************************************************************)
RowStatus == {"absent", "queued", "running", "orphan", "failed"}
Row       == [status : RowStatus, attempts : 0 .. MaxAttempts]

Absent == [status |-> "absent", attempts |-> 0]
Fresh  == [status |-> "queued", attempts |-> 0]

FreeRows     == {d \in Rows : rows[d].status = "absent"}
BeingWorked  == {d \in Rows : rows[d].status \in {"running", "orphan"}}
FailedRows   == {d \in Rows : rows[d].status = "failed"}

\* The worker takes the row's lock.
Locked(row) == [row EXCEPT !.status = "running"]

\* Mutant: the row is put back for ever, whatever its attempts.
AfterRaiseUnbounded(row) ==
    CASE row.status = "orphan" -> Absent
      [] OTHER -> [status |-> "queued", attempts |-> row.attempts + 1]

\* The perform raised: one attempt is used; the last one marks the row failed.
AfterRaise(row) ==
    CASE row.status = "orphan" -> Absent
      [] row.status # "orphan" /\ row.attempts + 1 < MaxAttempts ->
            [status |-> "queued", attempts |-> row.attempts + 1]
      [] OTHER -> [status |-> "failed", attempts |-> MaxAttempts]

\* The worker process died: the lock expires and no attempt is counted.
AfterCrash(row) ==
    IF row.status = "orphan" THEN Absent ELSE [row EXCEPT !.status = "queued"]

\* The record's row can no longer be loaded: failed at once, never retried.
AfterDeserializationError == [status |-> "failed", attempts |-> MaxAttempts]

\* Job::Base#destroy_queued_jobs deletes every row of the record, the one
\* being performed included.
Destroyed(row) ==
    IF row.status \in {"running", "orphan"} THEN [row EXCEPT !.status = "orphan"]
    ELSE Absent
==============================================================================
