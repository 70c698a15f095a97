--------------------------- MODULE GlobusTransfers ---------------------------
(***************************************************************************)
(* The Globus transfers of one accrual: the accrual writes a transfer row  *)
(* for each key and later reads the row's state; the scheduled task        *)
(* globus:process_transfers submits the rows to Globus and polls them.     *)
(* The task is started every hour and works for 58 minutes and then until  *)
(* its batch is done, so two of them can run at once; nothing locks a row. *)
(*                                                                         *)
(* A submission is an external call and two commits (the row's SENT, the   *)
(* key's copy_requested); a task may die between any two of them.          *)
(*                                                                         *)
(* Not modelled: the rate manager's counting (too_soon? is a choice, see   *)
(* Skip), and a key that send_copy_messages finds under the staging prefix *)
(* on the main root, which no storage configuration of the source has.     *)
(***************************************************************************)
EXTENDS Naturals, FiniteSets

CONSTANTS
    Keys,           \* the accrual's keys
    Transfers,      \* identities of Workflow::GlobusTransfer rows: a bound
    GlobusTasks,    \* identities of tasks at Globus: a bound
    Rakes,          \* runs of globus:process_transfers at work at once: a bound
    NoTransfer, NoTask,
    MaxFaults,      \* bound on deaths, failed calls and given-up transfers
    MaxRetries      \* bound on retry_failed_copies

ASSUME NoneAssumption == NoTransfer \notin Transfers /\ NoTask \notin GlobusTasks
ASSUME BoundsAssumption == MaxFaults \in Nat /\ MaxRetries \in Nat
ASSUME SizesAssumption == Keys # {} /\ IsFiniteSet(Transfers)

VARIABLES
    key,        \* workflow_accrual_keys: present, with an error, or destroyed (copied)
    requested,  \* copy_requested of each key
    accrual,    \* the accrual's state and, while it sends, the keys still to send
    row,        \* [Transfers -> its key, state (nil is "new") and task_id]
    task,       \* [GlobusTasks -> the key it copies and its status at Globus]
    target,     \* content at the destination
    rake,       \* what each process_transfers run holds
    cut,        \* history: keys whose run died between SENT and copy_requested
    overlapped, \* history: two runs of the scheduled task were at work at once
    retries, faults

table   == <<key, requested, row>>
history == <<cut, overlapped>>
bounds  == <<retries, faults>>
vars    == <<table, accrual, task, target, rake, history, bounds>>

RowStates  == {"unused", "destroyed", "new", "SENT", "ACTIVE", "SUCCEEDED", "FAILED", "INACTIVE", "ERROR"}
TaskStates == {"none", "ACTIVE", "SUCCEEDED", "FAILED", "INACTIVE"}
Places     == {"off", "reap", "loop", "submit", "posted", "saved", "poll"}

Row == [key : Keys, state : RowStates, task : GlobusTasks \cup {NoTask}]

\* batch: the rows loaded and not yet processed, with the task_id they had then;
\* in "reap" all were SENT, in "submit" nil, in "poll" SENT or ACTIVE.
Loaded == [row : Transfers, id : GlobusTasks \cup {NoTask}]
Run == [pc : Places, batch : SUBSET Loaded, cur : Transfers \cup {NoTransfer},
        held : GlobusTasks \cup {NoTask}, looks : 0 .. Cardinality(Transfers)]

Off == [pc |-> "off", batch |-> {}, cur |-> NoTransfer, held |-> NoTask, looks |-> 0]
Idle == [Off EXCEPT !.pc = "loop"]

TypeOK ==
    /\ key \in [Keys -> {"present", "error", "done"}]
    /\ requested \in [Keys -> BOOLEAN]
    /\ accrual \in [state : {"send", "await"}, left : SUBSET Keys]
    /\ row \in [Transfers -> Row]
    /\ task \in [GlobusTasks -> [key : Keys, state : TaskStates]]
    /\ target \in [Keys -> {"absent", "present"}]
    /\ rake \in [Rakes -> Run]
    /\ cut \subseteq Keys /\ overlapped \in BOOLEAN
    /\ retries \in 0 .. MaxRetries /\ faults \in 0 .. MaxFaults

Gone(t)      == row[t].state \in {"unused", "destroyed"}
RowsOf(k)    == {t \in Transfers : ~Gone(t) /\ row[t].key = k}
InState(s)   == {t \in Transfers : row[t].state \in s}
Unrequested  == {k \in Keys : key[k] # "done" /\ ~requested[k]}

AnyKey == CHOOSE k \in Keys : TRUE

\* The accrual has its keys and enters send_copy_messages; where overwriting is
\* asked for there is content at the destination already.
Init ==
    /\ key = [k \in Keys |-> "present"]
    /\ requested = [k \in Keys |-> FALSE]
    /\ accrual = [state |-> "send", left |-> Keys]
    /\ row = [t \in Transfers |-> [key |-> AnyKey, state |-> "unused", task |-> NoTask]]
    /\ task = [g \in GlobusTasks |-> [key |-> AnyKey, state |-> "none"]]
    /\ target \in [Keys -> {"absent", "present"}]
    /\ rake = [r \in Rakes |-> Off]
    /\ cut = {} /\ overlapped = FALSE
    /\ retries = 0 /\ faults = 0

------------------------------------------------------------------------------
(* The accrual *)

\* One row for one key that has no copy requested; a commit per key.
SendKey(k) ==
    /\ accrual.state = "send" /\ k \in accrual.left
    /\ \E t \in InState({"unused"}) :
          row' = [row EXCEPT ![t] = [key |-> k, state |-> "new", task |-> NoTask]]
    /\ accrual' = [accrual EXCEPT !.left = @ \ {k}]
    /\ UNCHANGED <<key, requested, task, target, rake, history, bounds>>

SendDone ==
    /\ accrual.state = "send" /\ accrual.left = {}
    /\ accrual' = [accrual EXCEPT !.state = "await"]
    /\ UNCHANGED <<table, task, target, rake, history, bounds>>

\* The perform dies or raises and is run again: it starts from the keys that
\* have no copy requested, whether they have a row already or not.
SendAgain ==
    /\ accrual.state = "send" /\ faults < MaxFaults
    /\ accrual' = [accrual EXCEPT !.left = Unrequested]
    /\ faults' = faults + 1
    /\ UNCHANGED <<table, task, target, rake, history, retries>>

\* A poll reads the one row has_one gives it, any of them when there are more.
\* A copied key is destroyed with that row.
AwaitCopied(k) ==
    /\ accrual.state = "await" /\ key[k] = "present" /\ requested[k]
    /\ \E t \in RowsOf(k) :
          /\ row[t].state = "SUCCEEDED"
          /\ row' = [row EXCEPT ![t].state = "destroyed"]
    /\ key' = [key EXCEPT ![k] = "done"]
    /\ UNCHANGED <<requested, accrual, task, target, rake, history, bounds>>

\* A failed one is marked, and the poll then raises.
AwaitFailed(k) ==
    /\ accrual.state = "await" /\ key[k] = "present" /\ requested[k]
    /\ \E t \in RowsOf(k) : row[t].state \in {"FAILED", "INACTIVE"}
    /\ key' = [key EXCEPT ![k] = "error"]
    /\ requested' = [requested EXCEPT ![k] = FALSE]
    /\ UNCHANGED <<accrual, row, task, target, rake, history, bounds>>

\* retry_failed_copies, from a console.  cancel assigns a column the table does
\* not have, so its rescue leaves the row as it was; every key that has no copy
\* requested is sent, with or without an earlier row.
RetryFailedCopies ==
    LET failed == {k \in Keys : key[k] = "error"} IN
    /\ accrual.state = "await" /\ failed # {} /\ retries < MaxRetries
    /\ key' = [k \in Keys |-> IF k \in failed THEN "present" ELSE key[k]]
    /\ requested' = [k \in Keys |-> requested[k] /\ k \notin failed]
    /\ accrual' = [state |-> "send", left |-> failed \cup Unrequested]
    /\ retries' = retries + 1
    /\ UNCHANGED <<row, task, target, rake, history, faults>>

------------------------------------------------------------------------------
(* globus:process_transfers *)

Working(r) == rake[r].pc # "off"

\* The task starts: remove_orphans drops rows whose key is gone, then the SENT
\* rows are counted.
Start(r) ==
    /\ rake[r].pc = "off"
    /\ row' = [t \in Transfers |-> IF ~Gone(t) /\ key[row[t].key] = "done"
                                   THEN [row[t] EXCEPT !.state = "destroyed"] ELSE row[t]]
    /\ rake' = [rake EXCEPT ![r] = [Off EXCEPT !.pc = "reap",
                   !.looks = Cardinality({t \in Transfers : row'[t].state = "SENT"})]]
    /\ overlapped' = (overlapped \/ \E s \in Rakes : Working(s))
    /\ UNCHANGED <<key, requested, accrual, task, target, cut, bounds>>

Load(ts) == {[row |-> t, id |-> row[t].task] : t \in ts}

\* process_completed_transfers reads the SENT rows until it has looked as often
\* as there were any; with none left to read it reads for ever.
ReapRead(r) ==
    /\ rake[r].pc = "reap" /\ rake[r].batch = {} /\ rake[r].looks > 0
    /\ InState({"SENT"}) # {}
    /\ rake' = [rake EXCEPT ![r].batch = Load(InState({"SENT"}))]
    /\ UNCHANGED <<table, accrual, task, target, history, bounds>>

\* Mutant: a row is taken for done without a look at its destination.
ReapLookBlind(r) ==
    /\ rake[r].pc = "reap"
    /\ \E e \in rake[r].batch :
          /\ row' = [row EXCEPT ![e.row].state = IF Gone(e.row) THEN @ ELSE "SUCCEEDED"]
          /\ rake' = [rake EXCEPT ![r].batch = @ \ {e},
                                  ![r].looks = IF @ = 0 THEN 0 ELSE @ - 1]
    /\ UNCHANGED <<key, requested, accrual, task, target, history, bounds>>

\* Mutant: the looks are counted down past zero.
ReapLookUncounted(r) ==
    /\ rake[r].pc = "reap"
    /\ \E e \in rake[r].batch : rake' = [rake EXCEPT ![r].batch = @ \ {e},
                                                   ![r].looks = @ - 1]
    /\ UNCHANGED <<table, accrual, task, target, history, bounds>>

\* object_copied?: anything at the destination counts, whatever the row's state
\* has become since it was read.
ReapLook(r) ==
    /\ rake[r].pc = "reap"
    /\ \E e \in rake[r].batch :
          /\ row' = [row EXCEPT ![e.row].state =
                        IF ~Gone(e.row) /\ target[row[e.row].key] = "present" THEN "SUCCEEDED"
                        ELSE @]
          /\ rake' = [rake EXCEPT ![r].batch = @ \ {e},
                                  ![r].looks = IF @ = 0 THEN 0 ELSE @ - 1]
    /\ UNCHANGED <<key, requested, accrual, task, target, history, bounds>>

ReapDone(r) ==
    /\ rake[r].pc = "reap" /\ rake[r].batch = {} /\ rake[r].looks = 0
    /\ rake' = [rake EXCEPT ![r] = Idle]
    /\ UNCHANGED <<table, accrual, task, target, history, bounds>>

\* New rows come first; only when there is none are the submitted ones polled.
TakeBatch(r) ==
    LET new == InState({"new"})  sent == InState({"SENT", "ACTIVE"}) IN
    /\ rake[r].pc = "loop" /\ new \cup sent # {}
    /\ rake' = [rake EXCEPT ![r] = [Off EXCEPT
                   !.pc = IF new # {} THEN "submit" ELSE "poll",
                   !.batch = Load(IF new # {} THEN new ELSE sent)]]
    /\ UNCHANGED <<table, accrual, task, target, history, bounds>>

\* The 58 minutes are over.
Finish(r) ==
    /\ rake[r].pc = "loop"
    /\ rake' = [rake EXCEPT ![r] = Off]
    /\ UNCHANGED <<table, accrual, task, target, history, bounds>>

\* The batch goes on without e, or is done.
Without(run, e) ==
    IF run.batch = {e} THEN Idle ELSE [run EXCEPT !.batch = @ \ {e}]

\* process of a row whose key is gone answers false, and the batch ends there.
SubmitOrphan(r) ==
    /\ rake[r].pc = "submit"
    /\ \E e \in rake[r].batch : key[row[e.row].key] = "done"
    /\ rake' = [rake EXCEPT ![r] = Idle]
    /\ UNCHANGED <<table, accrual, task, target, history, bounds>>

NewTask(g, k) == task' = [task EXCEPT ![g] = [key |-> k, state |-> "ACTIVE"]]
FreeTasks == {g \in GlobusTasks : task[g].state = "none"}

\* submit: Globus accepts the transfer; its task id is in memory only.
Post(r) ==
    /\ rake[r].pc = "submit"
    /\ \E e \in rake[r].batch, g \in FreeTasks :
          /\ key[row[e.row].key] # "done"
          /\ NewTask(g, row[e.row].key)
          /\ rake' = [rake EXCEPT ![r].pc = "posted", ![r].batch = @ \ {e},
                                  ![r].cur = e.row, ![r].held = g]
    /\ UNCHANGED <<table, accrual, target, history, bounds>>

\* Mutant: the answer of submit is not looked at.
SubmitFailsUnnoticed(r) ==
    /\ rake[r].pc = "submit" /\ faults < MaxFaults
    /\ \E e \in rake[r].batch :
          rake' = [rake EXCEPT ![r].pc = "posted", ![r].batch = @ \ {e}, ![r].cur = e.row]
    /\ faults' = faults + 1
    /\ UNCHANGED <<table, accrual, task, target, history, retries>>

\* submit answers false: Globus refused, or accepted and the answer was lost.
\* The batch ends, and the next one begins with the same row.
SubmitFails(r) ==
    /\ rake[r].pc = "submit" /\ faults < MaxFaults
    /\ \E e \in rake[r].batch :
          /\ key[row[e.row].key] # "done"
          /\ \/ UNCHANGED task
             \/ \E g \in FreeTasks : NewTask(g, row[e.row].key)
    /\ rake' = [rake EXCEPT ![r] = Idle]
    /\ faults' = faults + 1
    /\ UNCHANGED <<table, accrual, target, history, retries>>

\* Mutant: the row keeps its nil state.
SaveSentForgotten(r) ==
    /\ rake[r].pc = "posted"
    /\ row' = [row EXCEPT ![rake[r].cur].task = rake[r].held]
    /\ rake' = [rake EXCEPT ![r].pc = "saved"]
    /\ UNCHANGED <<key, requested, accrual, task, target, history, bounds>>

\* SENT and the task's id, in one commit, whatever the row's state is by now.
SaveSent(r) ==
    LET t == rake[r].cur IN
    /\ rake[r].pc = "posted"
    /\ row' = [row EXCEPT ![t] = IF Gone(t) THEN @
                                 ELSE [@ EXCEPT !.state = "SENT", !.task = rake[r].held]]
    /\ rake' = [rake EXCEPT ![r].pc = "saved"]
    /\ UNCHANGED <<key, requested, accrual, task, target, history, bounds>>

NextSubmit(run) ==
    IF run.batch = {} THEN Idle
    ELSE [run EXCEPT !.pc = "submit", !.cur = NoTransfer, !.held = NoTask]

\* Mutant: the accrual's key is never told.
MarkForgotten(r) ==
    /\ rake[r].pc = "saved"
    /\ rake' = [rake EXCEPT ![r] = NextSubmit(@)]
    /\ UNCHANGED <<table, accrual, task, target, history, bounds>>

\* copy_requested of the key, in a second commit.
MarkRequested(r) ==
    LET k == row[rake[r].cur].key IN
    /\ rake[r].pc = "saved"
    /\ requested' = [requested EXCEPT ![k] = @ \/ key[k] # "done"]
    /\ rake' = [rake EXCEPT ![r] = NextSubmit(@)]
    /\ UNCHANGED <<key, row, accrual, task, target, history, bounds>>

\* status of a SENT or ACTIVE row: what Globus says of its task, ACTIVE on a
\* conflict, ERROR when the call fails; written over whatever is there now.
Poll(r) ==
    /\ rake[r].pc = "poll"
    /\ \E e \in rake[r].batch, s \in RowStates :
          /\ \/ s = task[e.id].state /\ UNCHANGED faults
             \/ s \in {"ERROR", "ACTIVE"} /\ faults < MaxFaults /\ faults' = faults + 1
          /\ row' = [row EXCEPT ![e.row].state = IF Gone(e.row) THEN @ ELSE s]
          /\ rake' = [rake EXCEPT ![r] = Without(@, e)]
    /\ UNCHANGED <<key, requested, accrual, task, target, history, retries>>

\* too_soon?: the row is passed over until a later batch.
Skip(r) ==
    /\ rake[r].pc \in {"submit", "poll"} /\ faults < MaxFaults
    /\ \E e \in rake[r].batch : rake' = [rake EXCEPT ![r] = Without(@, e)]
    /\ faults' = faults + 1
    /\ UNCHANGED <<table, accrual, task, target, history, retries>>

\* The process dies; what it held in memory is lost.
Die(r) ==
    /\ Working(r) /\ faults < MaxFaults
    /\ rake' = [rake EXCEPT ![r] = Off]
    /\ cut' = IF rake[r].pc = "saved" THEN cut \cup {row[rake[r].cur].key} ELSE cut
    /\ faults' = faults + 1
    /\ UNCHANGED <<table, accrual, task, target, overlapped, retries>>

------------------------------------------------------------------------------
(* Globus *)

Deliver(g) ==
    /\ task[g].state = "ACTIVE"
    /\ task' = [task EXCEPT ![g].state = "SUCCEEDED"]
    /\ target' = [target EXCEPT ![task[g].key] = "present"]
    /\ UNCHANGED <<table, accrual, rake, history, bounds>>

GiveUp(g) ==
    /\ task[g].state = "ACTIVE" /\ faults < MaxFaults
    /\ \E s \in {"FAILED", "INACTIVE"} : task' = [task EXCEPT ![g].state = s]
    /\ faults' = faults + 1
    /\ UNCHANGED <<table, accrual, target, rake, history, retries>>

------------------------------------------------------------------------------
(* Specification *)

RakeStep(r) ==
    \/ ReapRead(r) \/ ReapLook(r) \/ ReapDone(r) \/ TakeBatch(r)
    \/ SubmitOrphan(r) \/ Post(r) \/ SaveSent(r) \/ MarkRequested(r) \/ Poll(r)

Next ==
    \/ \E k \in Keys : SendKey(k) \/ AwaitCopied(k) \/ AwaitFailed(k)
    \/ SendDone \/ SendAgain \/ RetryFailedCopies
    \/ \E r \in Rakes : \/ Start(r) \/ RakeStep(r) \/ Finish(r)
                        \/ SubmitFails(r) \/ Skip(r) \/ Die(r)
    \/ \E g \in GlobusTasks : Deliver(g) \/ GiveUp(g)

Spec == Init /\ [][Next]_vars

(***************************************************************************)
(* cron starts the task every hour and a run goes on until its hour is     *)
(* over; the accrual's job polls every half hour; a task at Globus ends.   *)
(* TakeBatch and Finish are strongly fair: the loop comes back to its test *)
(* of the clock again and again, and does not always find its hour over.   *)
(* Nothing makes a failed call or an operator's retry happen.              *)
(***************************************************************************)
Fairness ==
    /\ \A r \in Rakes : /\ WF_vars(Start(r)) /\ WF_vars(RakeStep(r))
                        /\ SF_vars(TakeBatch(r)) /\ SF_vars(Finish(r))
    /\ \A k \in Keys : /\ WF_vars(SendKey(k))
                       /\ WF_vars(AwaitCopied(k) \/ AwaitFailed(k))
    /\ WF_vars(SendDone)
    /\ \A g \in GlobusTasks : WF_vars(Deliver(g))

FairSpec == Spec /\ Fairness

------------------------------------------------------------------------------
(* Properties *)

\* The tasks at Globus that copy k, or did.
TasksOf(k) == {g \in GlobusTasks : task[g].state # "none" /\ task[g].key = k}

(***************************************************************************)
(* A key that counts as requested has been submitted: the accrual waits    *)
(* for nothing that was never asked of Globus, whichever run died or was   *)
(* refused in between.                                                     *)
(***************************************************************************)
RequestedIsSubmitted == \A k \in Keys : requested[k] => TasksOf(k) # {}

(***************************************************************************)
(* What the missing lock can cost: a key is copied by two tasks only when  *)
(* two runs of the scheduled task were at work at once, a run or a call    *)
(* failed, or an operator had the failed keys sent again.                  *)
(***************************************************************************)
CopiedTwiceOnlyIfDisturbed ==
    ~overlapped /\ faults = 0 /\ retries = 0 =>
        \A k \in Keys : Cardinality(TasksOf(k)) <= 1

\* The refinement mapping: the keys Globus gave up, and what the accrual knows.
GivenUp == {k \in Keys : \E g \in TasksOf(k) : task[g].state \in {"FAILED", "INACTIVE"}}

Fate == [k \in Keys |-> CASE key[k] = "present" -> "waiting"
                         [] key[k] = "done"    -> "copied"
                         [] key[k] = "error"   -> "failed"]

Promise == INSTANCE TransferPromise WITH given <- GivenUp, fate <- Fate

(***************************************************************************)
(* The accrual's view implements TransferPromise: it drops a key as copied *)
(* only with content at its destination, marks one as failed only if       *)
(* Globus gave one of its tasks up, and never takes up a copied key again, *)
(* with overlapping runs, stale batches, lost answers and dead processes.  *)
(***************************************************************************)
ImplementsPromise == Promise!Spec

\* All runs wait in process_completed_transfers for rows that others took.
AllSpin == \A r \in Rakes : /\ rake[r].pc = "reap" /\ rake[r].batch = {}
                            /\ rake[r].looks > 0 /\ InState({"SENT"}) = {}

(***************************************************************************)
(* A key with a transfer is settled, copied or failed.  The exceptions are *)
(* what the code gives up on: a row in ERROR is never polled again, a key  *)
(* that was not told of its submission is never looked at, and a run whose *)
(* counted rows were taken by another reads for ever.  The last two        *)
(* disjuncts are the bounds on tasks and rows.                             *)
(***************************************************************************)
KeySettles ==
    \A k \in Keys : RowsOf(k) # {} ~>
        \/ key[k] # "present"
        \/ \E t \in RowsOf(k) : row[t].state = "ERROR"
        \/ k \in cut \/ AllSpin
        \/ FreeTasks = {} /\ \E r \in Rakes : rake[r].pc = "submit"
        \/ accrual.state = "send" /\ InState({"unused"}) = {}
==============================================================================
