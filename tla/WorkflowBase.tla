---------------------------- MODULE WorkflowBase ----------------------------
(***************************************************************************)
(* Workflow::Base: a record with a state column, performed by the workers  *)
(* of the delayed-job table.  perform runs the method named after the      *)
(* state the record had when the worker loaded it; the state in memory and *)
(* the column drift apart as soon as anyone else writes the column.        *)
(***************************************************************************)
EXTENDS DelayedJobs

VARIABLES
    run,        \* [Rows -> what the worker of a row holds]: loaded state, place, batch
    state       \* the state column, or "gone" once the record is destroyed

\* A worker that performs nothing.  The batch is work read and not yet done.
Idle == [mem |-> "start", pc |-> "idle", batch |-> {}]

\* save! of a record whose row is gone updates nothing and reports success.
BeInState(s) == state' = IF state = "gone" THEN "gone" ELSE s

PutInQueue == \E n \in FreeRows : rows' = [rows EXCEPT ![n] = Fresh]

At(d, s, pc) == d \in BeingWorked /\ run[d].mem = s /\ run[d].pc = pc

Move(d, pc) == run' = [run EXCEPT ![d].pc = pc]

\* be_in_state_and_requeue from inside a perform, which goes on at pc.
BeInStateAndRequeue(d, s, pc) ==
    /\ BeInState(s)
    /\ PutInQueue
    /\ run' = [run EXCEPT ![d].mem = s, ![d].pc = pc]

\* The perform raises: the worker drops what it holds.
Raise(d) ==
    /\ rows' = [rows EXCEPT ![d] = AfterRaise(@)]
    /\ run' = [run EXCEPT ![d] = Idle]

\* A worker locks a row and loads the record: perform runs the state the
\* record is in now, not the one it was in when the row was queued.
Load(d) ==
    /\ rows[d].status = "queued" /\ state # "gone"
    /\ rows' = [rows EXCEPT ![d] = Locked(@)]
    /\ run' = [run EXCEPT ![d] = [mem |-> state, pc |-> "begin", batch |-> {}]]

\* The row's record no longer exists.
LoadGone(d) ==
    /\ rows[d].status = "queued" /\ state = "gone"
    /\ rows' = [rows EXCEPT ![d] = AfterDeserializationError]
    /\ UNCHANGED run

\* perform returned and the record is not at 'end': the row is deleted.
Complete(d) ==
    /\ d \in BeingWorked /\ run[d].pc = "done" /\ run[d].mem # "end"
    /\ rows' = [rows EXCEPT ![d] = Absent]
    /\ run' = [run EXCEPT ![d] = Idle]
==============================================================================
