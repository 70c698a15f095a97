------------------------------ MODULE AccrualJob ------------------------------
(***************************************************************************)
(* One accrual (Workflow::AccrualJob) from its submission to its removal:  *)
(* the state column, the delayed-job rows that drive it, the content keys  *)
(* still to be copied, the content and the checksums at the destination,   *)
(* the requests that approve or abort it, and the failures in between.     *)
(*                                                                         *)
(* A perform is cut at every commit and every effect outside the database; *)
(* a worker may raise or die between any two of these steps, and the steps *)
(* of other workers and of web requests interleave with them.              *)
(***************************************************************************)
EXTENDS WorkflowBase

CONSTANTS
    Keys,           \* the accrual's keys: its top-level files and its directories
    DirKeys,        \* the keys that are directories
    Requests,       \* proceed and abort requests: a bound on their number
    CopyPaths,      \* the copying path(s) configuration allows
    MaxFaults,      \* bound on raises and crashes injected from outside
    MaxAssessments  \* assessment_attempt_count_max

ASSUME KeysAssumption == DirKeys \subseteq Keys
ASSUME CopyPathsAssumption == CopyPaths \subseteq {"copying", "send_copy_messages"}
ASSUME BoundsAssumption == MaxFaults \in Nat /\ MaxAssessments \in Nat

VARIABLES
    submitted,  \* what was asked for: may overwrite, has excluded files in a directory
    keys,       \* workflow_accrual_keys: keys not yet known to be copied
    conflicts,  \* workflow_accrual_conflicts: keys that were there at the check
    transfer,   \* state of the Globus transfer of a key
    target,     \* content at the destination
    fixity,     \* which content the stored checksum and FITS describe
    element,    \* Assessor::TaskElement of the file
    dirJob,     \* a Job::CfsInitialDirectoryAssessment of the directory is pending
    polls,      \* assessment_attempt_count
    req,        \* the web requests
    archived,   \* completion states of the ArchivedAccrualJob records
    refused,    \* the check mailed a refusal
    deposited,  \* a deposit_completed event was recorded
    approved,   \* history: the copying paths started, and by whom
    torn,       \* history: a teardown was cut between its two halves
    faults      \* injected failures so far

table   == <<rows, run>>
staged  == <<submitted, keys, conflicts, transfer>>
content == <<target, fixity, element, dirJob>>
outcome == <<archived, refused, deposited>>
history == <<approved, torn, faults>>
vars    == <<table, state, staged, content, polls, req, outcome, history>>

States == {"start", "check_sync", "check", "initial_approval", "admin_approval",
           "copying", "send_copy_messages", "await_copy_messages", "assessing",
           "await_assessment", "final_validation", "final_validation_failed",
           "email_done", "aborting", "end"}

TransferStates == {"none", "active", "succeeded", "failed", "error"}
Places == {"idle", "begin", "mail", "copy", "overwrite", "reset", "event", "send",
           "jobs", "retry", "retry_jobs", "requeue", "done", "destroy_self"}

\* What a worker holds, and what a web request holds.
Run     == [mem : States, pc : Places, batch : SUBSET Keys]
Request == [kind : {"unused", "closed", "proceed", "abort"},
            role : {"manager", "admin"}, seen : States]

Unused == [kind |-> "unused", role |-> "admin", seen |-> "start"]
Closed == [kind |-> "closed", role |-> "admin", seen |-> "start"]

TypeOK ==
    /\ rows \in [Rows -> Row]
    /\ run \in [Rows -> Run]
    /\ state \in States \cup {"gone"}
    /\ submitted \in [overwrite : BOOLEAN, excluded : BOOLEAN]
    /\ keys \subseteq Keys /\ conflicts \subseteq Keys
    /\ transfer \in [Keys -> TransferStates]
    /\ target \in [Keys -> {"absent", "old", "new"}]
    /\ fixity \in [Keys -> {"none", "pending", "old", "new"}]
    /\ element \in [Keys -> {"none", "open", "complete"}]
    /\ dirJob \in BOOLEAN
    /\ polls \in 0 .. MaxAssessments + 1
    /\ req \in [Requests -> Request]
    /\ archived \subseteq {"completed", "aborted"}
    /\ refused \in BOOLEAN /\ deposited \in BOOLEAN /\ torn \in BOOLEAN
    /\ approved \subseteq [path : CopyPaths, role : {"manager", "admin"}]
    /\ faults \in 0 .. MaxFaults

(***************************************************************************)
(* create_for: the record in state 'start' and its first row, in one       *)
(* transaction.  Any part of the content may already be at the destination *)
(* with a known checksum.                                                  *)
(***************************************************************************)
Init ==
    /\ \E d \in Rows : rows = [e \in Rows |-> IF e = d THEN Fresh ELSE Absent]
    /\ run = [d \in Rows |-> Idle]
    /\ state = "start"
    /\ submitted \in [overwrite : BOOLEAN, excluded : BOOLEAN]
    /\ keys = {} /\ conflicts = {}
    /\ transfer = [k \in Keys |-> "none"]
    /\ target \in [Keys -> {"absent", "old"}]
    /\ fixity = [k \in Keys |-> IF target[k] = "old" THEN "old" ELSE "none"]
    /\ element = [k \in Keys |-> "none"]
    /\ dirJob = FALSE
    /\ polls = 0
    /\ req = [r \in Requests |-> Unused]
    /\ archived = {} /\ refused = FALSE /\ deposited = FALSE
    /\ approved = {} /\ torn = FALSE /\ faults = 0

------------------------------------------------------------------------------
(* The worker around a perform *)

\* A worker takes a row and loads the accrual.
Reserve(d) ==
    /\ Load(d)
    /\ UNCHANGED <<state, staged, content, polls, req, outcome, history>>

\* The row's record no longer exists.
ReserveGone(d) ==
    /\ LoadGone(d)
    /\ UNCHANGED <<state, staged, content, polls, req, outcome, history>>

\* perform returned and the record is not at 'end': the row is deleted.
Finish(d) ==
    /\ Complete(d)
    /\ UNCHANGED <<state, staged, content, polls, req, outcome, history>>

\* The success hook of a perform that left the record at 'end' first deletes
\* every row of the record ...
DestroyQueuedJobs(d) ==
    /\ At(d, "end", "done")
    /\ rows' = [e \in Rows |-> Destroyed(rows[e])]
    /\ Move(d, "destroy_self")
    /\ UNCHANGED <<state, staged, content, polls, req, outcome, history>>

\* ... and then the record, whose keys and conflicts go with it.
DestroySelf(d) ==
    /\ At(d, "end", "destroy_self")
    /\ state' = "gone" /\ keys' = {} /\ conflicts' = {}
    /\ rows' = [rows EXCEPT ![d] = Absent]
    /\ run' = [run EXCEPT ![d] = Idle]
    /\ UNCHANGED <<submitted, transfer, content, polls, req, outcome, history>>

\* Anything a perform calls may raise (mail, storage, database), and the
\* worker process may die.
Interrupt(d) ==
    /\ d \in BeingWorked /\ faults < MaxFaults
    /\ \E row \in {AfterRaise(rows[d]), AfterCrash(rows[d])} :
         rows' = [rows EXCEPT ![d] = row]
    /\ run' = [run EXCEPT ![d] = Idle]
    /\ faults' = faults + 1
    /\ torn' = (torn \/ run[d].pc = "destroy_self")
    /\ UNCHANGED <<state, staged, content, polls, req, outcome, approved>>

------------------------------------------------------------------------------
(* Up to the approvals *)

PerformStart(d) ==
    /\ At(d, "start", "begin")
    /\ BeInStateAndRequeue(d, "check_sync", "done")
    /\ UNCHANGED <<staged, content, polls, req, outcome, history>>

PerformCheckSync(d) ==
    /\ At(d, "check_sync", "begin")
    /\ BeInStateAndRequeue(d, "check", "done")
    /\ UNCHANGED <<staged, content, polls, req, outcome, history>>

Stored == {k \in Keys : target[k] # "absent"}

\* The names of files and directories are looked up among the files that are
\* at the destination, so a directory that is there never counts.
Duplicates == Stored \ DirKeys

\* Mutant: whether overwriting is allowed is never asked.
RefusableOnlyForExcluded == submitted.excluded

Refusable == (Duplicates # {} /\ ~submitted.overwrite) \/ submitted.excluded

\* Something is in the way: the requester is told and the accrual ends.
PerformCheckRefuse(d) ==
    /\ At(d, "check", "begin") /\ Refusable /\ state # "gone"
    /\ conflicts' = conflicts \cup Duplicates
    /\ refused' = TRUE
    /\ BeInStateAndRequeue(d, "end", "done")
    /\ UNCHANGED <<submitted, keys, transfer, content, polls, req, archived,
                   deposited, history>>

\* Otherwise the keys are (re)created and the accrual waits, with no row.
PerformCheckAccept(d) ==
    /\ At(d, "check", "begin") /\ ~Refusable /\ state # "gone"
    /\ conflicts' = conflicts \cup Duplicates
    /\ keys' = Keys
    /\ BeInState("initial_approval")
    /\ run' = [run EXCEPT ![d].mem = "initial_approval", ![d].pc = "mail"]
    /\ UNCHANGED <<rows, submitted, transfer, content, polls, req, outcome, history>>

\* The approval mail goes out after the state was committed.
MailApproval(d) ==
    /\ At(d, "initial_approval", "mail")
    /\ Move(d, "done")
    /\ UNCHANGED <<rows, state, staged, content, polls, req, outcome, history>>

\* Neither keys nor conflicts can be created for a record that is gone.
PerformCheckGone(d) ==
    /\ At(d, "check", "begin") /\ state = "gone"
    /\ Raise(d)
    /\ UNCHANGED <<state, staged, content, polls, req, outcome, history>>

\* A row that finds the accrual waiting for people raises.
PerformUnrunnable(d) ==
    /\ \E s \in {"initial_approval", "admin_approval", "final_validation_failed"} :
         At(d, s, "begin")
    /\ Raise(d)
    /\ UNCHANGED <<state, staged, content, polls, req, outcome, history>>

------------------------------------------------------------------------------
(* Copying by the registry itself *)

\* Mutant: the event is recorded first, then the content is copied.
PerformCopyingEventFirst(d) ==
    /\ At(d, "copying", "begin")
    /\ deposited' = TRUE
    /\ run' = [run EXCEPT ![d].batch = keys,
                          ![d].pc = IF conflicts = {} THEN "copy" ELSE "overwrite"]
    /\ UNCHANGED <<rows, state, staged, content, polls, req, archived, refused, history>>

\* The keys are loaded as a batch; content is overwritten when there are conflicts.
PerformCopying(d) ==
    /\ At(d, "copying", "begin")
    /\ run' = [run EXCEPT ![d].batch = keys,
                          ![d].pc = IF conflicts = {} THEN "copy" ELSE "overwrite"]
    /\ UNCHANGED <<rows, state, staged, content, polls, req, outcome, history>>

\* Mutant: the overwrite flag is lost on the way to the copy.
CopiedKeepingOld(d, k) ==
    [target EXCEPT ![k] = IF @ = "absent" THEN "new" ELSE @]

\* Destination content after key k was copied.
Copied(d, k) ==
    [target EXCEPT ![k] = IF run[d].pc = "overwrite" \/ @ = "absent" THEN "new" ELSE @]

\* One key of the batch: copy its content, then destroy the key.
CopyKey(d, k) ==
    /\ d \in BeingWorked /\ run[d].pc \in {"copy", "overwrite"} /\ k \in run[d].batch
    /\ target' = Copied(d, k)
    /\ keys' = keys \ {k}
    /\ run' = [run EXCEPT ![d].batch = @ \ {k}]
    /\ UNCHANGED <<rows, state, submitted, conflicts, transfer, fixity, element, dirJob,
                   polls, req, outcome, history>>

\* A failure between the copy and the key's destruction.
CopyInterrupted(d, k) ==
    /\ d \in BeingWorked /\ run[d].pc \in {"copy", "overwrite"} /\ k \in run[d].batch
    /\ faults < MaxFaults
    /\ target' = Copied(d, k)
    /\ Raise(d)
    /\ faults' = faults + 1
    /\ UNCHANGED <<state, staged, fixity, element, dirJob, polls, req, outcome,
                   approved, torn>>

\* No key left: the assessment is queued, and only then are the conflicting
\* files reset and the event recorded.
CopyingDone(d) ==
    /\ d \in BeingWorked /\ run[d].pc \in {"copy", "overwrite"}
    /\ run[d].batch = {} /\ keys = {}
    /\ BeInStateAndRequeue(d, "assessing",
                           IF run[d].pc = "overwrite" THEN "reset" ELSE "event")
    /\ UNCHANGED <<staged, content, polls, req, outcome, history>>

\* Keys that appeared since the batches were loaded: raise.
CopyingLeftover(d) ==
    /\ d \in BeingWorked /\ run[d].pc \in {"copy", "overwrite"}
    /\ run[d].batch = {} /\ keys # {}
    /\ Raise(d)
    /\ UNCHANGED <<state, staged, content, polls, req, outcome, history>>

\* reset_conflict_fixities_and_fits: the stored checksum and FITS of every
\* conflicting file are dropped.  Both copying paths call it.
ResetConflicts(d) ==
    /\ d \in BeingWorked /\ run[d].pc = "reset"
    /\ fixity' = [k \in Keys |-> IF k \in conflicts /\ fixity[k] # "none"
                                 THEN "pending" ELSE fixity[k]]
    /\ Move(d, IF run[d].mem = "send_copy_messages" THEN "send" ELSE "event")
    /\ UNCHANGED <<rows, state, staged, target, element, dirJob, polls, req, outcome,
                   history>>

\* The deposit_completed event on the destination directory.
RecordDeposit(d) ==
    /\ d \in BeingWorked /\ run[d].pc = "event"
    /\ deposited' = TRUE
    /\ Move(d, IF run[d].mem = "await_copy_messages" THEN "requeue" ELSE "done")
    /\ UNCHANGED <<rows, state, staged, content, polls, req, archived, refused, history>>

------------------------------------------------------------------------------
(* Copying through Globus; GlobusTransfers models the transfers one by one *)

PerformSend(d) ==
    /\ At(d, "send_copy_messages", "begin")
    /\ Move(d, IF conflicts # {} THEN "reset" ELSE "send")
    /\ UNCHANGED <<rows, state, staged, content, polls, req, outcome, history>>

\* A transfer for every key that has none, then the accrual waits for them.
SendCopyMessages(d) ==
    /\ At(d, "send_copy_messages", "send")
    /\ transfer' = [k \in Keys |-> IF k \in keys /\ transfer[k] = "none" THEN "active"
                                   ELSE transfer[k]]
    /\ BeInStateAndRequeue(d, "await_copy_messages", "done")
    /\ UNCHANGED <<submitted, keys, conflicts, content, polls, req, outcome, history>>

\* Environment: a submitted transfer delivers its content.
TransferArrives(k) ==
    /\ transfer[k] \notin {"none", "failed"} /\ target[k] # "new"
    /\ target' = [target EXCEPT ![k] = "new"]
    /\ UNCHANGED <<table, state, staged, fixity, element, dirJob, polls, req, outcome,
                   history>>

\* The scheduled task takes a transfer for done as soon as anything is at its
\* destination.
TransferSeenCopied(k) ==
    /\ k \in keys /\ transfer[k] = "active" /\ target[k] # "absent"
    /\ transfer' = [transfer EXCEPT ![k] = "succeeded"]
    /\ UNCHANGED <<table, state, submitted, keys, conflicts, content, polls, req, outcome,
                   history>>

\* Globus reports that the transfer failed, or the status call itself fails:
\* the scheduled task never asks again about a transfer in state ERROR.
TransferFails(k) ==
    /\ k \in keys /\ transfer[k] = "active" /\ faults < MaxFaults
    /\ \E s \in {"failed", "error"} : transfer' = [transfer EXCEPT ![k] = s]
    /\ faults' = faults + 1
    /\ UNCHANGED <<table, state, submitted, keys, conflicts, content, polls, req, outcome,
                   approved, torn>>

Copying == {k \in keys : transfer[k] # "succeeded"}

\* A poll that finds a failed transfer raises, now and at every later attempt.
AwaitCopyFailed(d) ==
    /\ At(d, "await_copy_messages", "begin")
    /\ \E k \in keys : transfer[k] = "failed"
    /\ keys' = Copying
    /\ Raise(d)
    /\ UNCHANGED <<state, submitted, conflicts, transfer, content, polls, req, outcome,
                   history>>

\* Mutant: the poll ends without queueing the next one.
AwaitCopyForgotten(d) ==
    /\ At(d, "await_copy_messages", "begin")
    /\ \A k \in keys : transfer[k] # "failed"
    /\ keys' = Copying
    /\ Move(d, IF Copying = {} THEN "event" ELSE "done")
    /\ UNCHANGED <<rows, state, submitted, conflicts, transfer, content, polls, req,
                   outcome, history>>

\* Otherwise the keys that arrived are destroyed; with keys left, the next
\* poll is queued.
AwaitCopy(d) ==
    /\ At(d, "await_copy_messages", "begin")
    /\ \A k \in keys : transfer[k] # "failed"
    /\ keys' = Copying
    /\ \/ Copying = {} /\ Move(d, "event") /\ UNCHANGED rows
       \/ Copying # {} /\ Move(d, "done") /\ PutInQueue
    /\ UNCHANGED <<state, submitted, conflicts, transfer, content, polls, req, outcome,
                   history>>

------------------------------------------------------------------------------
(* Assessment *)

\* Assessing twice at once is refused by raising.
PerformAssessingTwice(d) ==
    /\ At(d, "assessing", "begin")
    /\ dirJob \/ \E k \in Keys : element[k] # "none"
    /\ Raise(d)
    /\ UNCHANGED <<state, staged, content, polls, req, outcome, history>>

\* make_and_assess_tree schedules the directory's assessment job.
PerformAssessing(d) ==
    /\ At(d, "assessing", "begin")
    /\ ~dirJob /\ \A k \in Keys : element[k] = "none"
    /\ dirJob' = TRUE
    /\ polls' = 1
    /\ Move(d, "requeue")
    /\ UNCHANGED <<rows, state, staged, target, fixity, element, req, outcome, history>>

\* The directory's assessment job: entries follow storage; a file with no
\* FITS, or whose size changed, is sent to the assessor.
AssessDirectory ==
    /\ dirJob
    /\ \E resized \in SUBSET {k \in Keys : target[k] = "new" /\ fixity[k] = "old"} :
         LET assessed == {k \in Stored : fixity[k] \in {"none", "pending"}} \cup resized IN
         /\ fixity' = [k \in Keys |-> IF k \in assessed THEN "pending"
                                      ELSE IF k \in Stored THEN fixity[k] ELSE "none"]
         /\ element' = [k \in Keys |-> IF k \in assessed THEN "open" ELSE element[k]]
    /\ dirJob' = FALSE
    /\ UNCHANGED <<table, state, staged, target, polls, req, outcome, history>>

\* Environment: the assessor's answers for a file have been handled.
AssessorAnswers(k) ==
    /\ element[k] = "open"
    /\ element' = [element EXCEPT ![k] = "complete"]
    /\ fixity' = [fixity EXCEPT ![k] = IF target[k] = "absent" THEN @ ELSE target[k]]
    /\ UNCHANGED <<table, state, staged, target, dirJob, polls, req, outcome, history>>

WithoutComplete == [k \in Keys |-> IF element[k] = "complete" THEN "none" ELSE element[k]]

\* The scheduled task that removes completed elements.
DestroyCompleteElements ==
    /\ \E k \in Keys : element[k] = "complete"
    /\ element' = WithoutComplete
    /\ UNCHANGED <<table, state, staged, target, fixity, dirJob, polls, req, outcome,
                   history>>

FilesPending == \E k \in Keys : fixity[k] = "pending" \/ element[k] = "open"

\* A poll looks at the files first ...
AwaitAssessmentFiles(d) ==
    /\ At(d, "await_assessment", "begin")
    /\ ~FilesPending
    /\ element' = WithoutComplete
    /\ Move(d, "jobs")
    /\ UNCHANGED <<rows, state, staged, target, fixity, dirJob, polls, req, outcome, history>>

\* ... and then, in a later read, at the directory jobs.
AwaitAssessmentDone(d) ==
    /\ d \in BeingWorked /\ run[d].pc \in {"jobs", "retry_jobs"}
    /\ ~dirJob
    /\ BeInStateAndRequeue(d, "final_validation", "done")
    /\ UNCHANGED <<staged, content, polls, req, outcome, history>>

AwaitAssessmentPending(d) ==
    \/ At(d, "await_assessment", "begin") /\ FilesPending /\ element' = WithoutComplete
    \/ At(d, "await_assessment", "jobs") /\ dirJob /\ UNCHANGED element

\* Something is pending after too many polls: raise.
AwaitAssessmentGivesUp(d) ==
    /\ AwaitAssessmentPending(d) /\ polls > MaxAssessments
    /\ Raise(d)
    /\ UNCHANGED <<state, staged, target, fixity, dirJob, polls, req, outcome, history>>

\* Otherwise the worker handles the assessor's answers itself (AssessorAnswers)
\* and looks again, the files and then the jobs.
AwaitAssessmentRetries(d) ==
    /\ AwaitAssessmentPending(d) /\ polls <= MaxAssessments
    /\ Move(d, "retry")
    /\ UNCHANGED <<rows, state, staged, target, fixity, dirJob, polls, req, outcome, history>>

RetryFiles(d) ==
    /\ At(d, "await_assessment", "retry")
    /\ ~FilesPending
    /\ element' = WithoutComplete
    /\ Move(d, "retry_jobs")
    /\ UNCHANGED <<rows, state, staged, target, fixity, dirJob, polls, req, outcome, history>>

\* Still pending, or anything raised on the way: count (no further than makes
\* a difference), and poll again later.
PollLater(d) ==
    /\ \/ At(d, "await_assessment", "retry") /\ FilesPending /\ UNCHANGED faults
       \/ At(d, "await_assessment", "retry_jobs") /\ dirJob /\ UNCHANGED faults
       \/ /\ d \in BeingWorked /\ run[d].pc \in {"retry", "retry_jobs"}
          /\ faults < MaxFaults /\ faults' = faults + 1
    /\ polls' = IF polls > MaxAssessments THEN polls ELSE polls + 1
    /\ PutInQueue
    /\ Move(d, "done")
    /\ UNCHANGED <<state, staged, content, req, outcome, approved, torn>>

------------------------------------------------------------------------------
(* The end of an accrual *)

\* The gate's checks: everything is at the destination, has a file record
\* (both trivially so for a record that is gone), and is assessed.
Validated ==
    /\ state = "gone" \/ \A k \in Keys : target[k] # "absent" /\ fixity[k] # "none"
    /\ ~FilesPending /\ ~dirJob

PerformFinalValidation(d) ==
    /\ At(d, "final_validation", "begin") /\ Validated
    /\ BeInStateAndRequeue(d, "email_done", "done")
    /\ UNCHANGED <<staged, content, polls, req, outcome, history>>

\* A validator finds a fault, or fails itself: the accrual is parked for review
\* and the row is put back.
PerformFinalValidationInvalid(d) ==
    /\ At(d, "final_validation", "begin")
    /\ BeInState("final_validation_failed")
    /\ Raise(d)
    /\ UNCHANGED <<staged, content, polls, req, outcome, history>>

\* Mutant: an aborted accrual leaves no archive record.
PerformArchiveCompletedOnly(d) ==
    /\ \E s \in {"email_done", "aborting"} :
         /\ At(d, s, "begin")
         /\ archived' = IF s = "email_done" THEN archived \cup {"completed"} ELSE archived
    /\ Move(d, "requeue")
    /\ UNCHANGED <<rows, state, staged, content, polls, req, refused, deposited, history>>

\* The mail, then the archive record ...
PerformArchive(d) ==
    /\ \E s \in {"email_done", "aborting"} :
         /\ At(d, s, "begin")
         /\ archived' = archived \cup {IF s = "email_done" THEN "completed" ELSE "aborted"}
    /\ Move(d, "requeue")
    /\ UNCHANGED <<rows, state, staged, content, polls, req, refused, deposited, history>>

Successor == [s \in {"await_copy_messages", "assessing", "email_done", "aborting"} |->
    CASE s = "await_copy_messages" -> "assessing"
      [] s = "assessing"           -> "await_assessment"
      [] OTHER                     -> "end"]

\* Mutant: the next state is written, nothing is queued.
BeInNextState(d) ==
    /\ \E s \in DOMAIN Successor :
         /\ At(d, s, "requeue")
         /\ BeInState(Successor[s])
         /\ run' = [run EXCEPT ![d].mem = Successor[s], ![d].pc = "done"]
    /\ UNCHANGED <<rows, staged, content, polls, req, outcome, history>>

\* ... and only in a later transaction the next state, with its row.
Requeue(d) ==
    /\ \E s \in DOMAIN Successor : /\ At(d, s, "requeue")
                                   /\ BeInStateAndRequeue(d, Successor[s], "done")
    /\ UNCHANGED <<staged, content, polls, req, outcome, history>>

\* perform_end does nothing; the success hook follows.
PerformEnd(d) ==
    /\ At(d, "end", "begin")
    /\ Move(d, "done")
    /\ UNCHANGED <<rows, state, staged, content, polls, req, outcome, history>>

------------------------------------------------------------------------------
(* Proceed and abort requests of the web pages *)

\* Who may act on an accrual in state s.
Authorized(role, s) == role = "admin" \/ s = "initial_approval"

\* A request loads the record and is authorized for the state it sees.  The
\* buttons are offered in the two approval states, pages outlive them.
LoadRequest(r, kind, role) ==
    /\ req[r] = Unused
    /\ state \notin {"start", "check_sync", "check", "gone"}
    /\ Authorized(role, state)
    /\ req' = [req EXCEPT ![r] = [kind |-> kind, role |-> role, seen |-> state]]
    /\ UNCHANGED <<table, state, staged, content, polls, outcome, history>>

Acting(r, kind) == req[r].kind = kind /\ req' = [req EXCEPT ![r] = Closed]

\* Mutant: the first approval is enough to start copying.
ApproveInitialIsFinal(r) ==
    /\ Acting(r, "proceed") /\ req[r].seen = "initial_approval"
    /\ \E p \in CopyPaths : /\ BeInState(p)
                            /\ approved' = approved \cup {[path |-> p, role |-> req[r].role]}
    /\ PutInQueue
    /\ UNCHANGED <<run, staged, content, polls, outcome, torn, faults>>

\* approve_and_proceed acts on the state that was loaded, not the current one.
ApproveInitial(r) ==
    /\ Acting(r, "proceed") /\ req[r].seen = "initial_approval"
    /\ BeInState("admin_approval")
    /\ UNCHANGED <<table, staged, content, polls, outcome, history>>

ApproveAdmin(r) ==
    /\ Acting(r, "proceed") /\ req[r].seen = "admin_approval"
    /\ \E p \in CopyPaths : /\ BeInState(p)
                            /\ approved' = approved \cup {[path |-> p, role |-> req[r].role]}
    /\ PutInQueue
    /\ UNCHANGED <<run, staged, content, polls, outcome, torn, faults>>

\* Proceed from any other state raises.
ApproveRefused(r) ==
    /\ Acting(r, "proceed") /\ req[r].seen \notin {"initial_approval", "admin_approval"}
    /\ UNCHANGED <<table, state, staged, content, polls, outcome, history>>

\* abort_and_proceed has no condition on the state.  A record loaded in state
\* 'aborting' has nothing to save.
Abort(r) ==
    /\ Acting(r, "abort")
    /\ IF req[r].seen = "aborting" THEN UNCHANGED state ELSE BeInState("aborting")
    /\ PutInQueue
    /\ UNCHANGED <<run, staged, content, polls, outcome, history>>

------------------------------------------------------------------------------
WorkerStep(d) ==
    \/ Reserve(d) \/ ReserveGone(d) \/ Finish(d) \/ DestroyQueuedJobs(d) \/ DestroySelf(d)
    \/ PerformStart(d) \/ PerformCheckSync(d)
    \/ PerformCheckRefuse(d) \/ PerformCheckAccept(d) \/ PerformCheckGone(d)
    \/ MailApproval(d) \/ PerformUnrunnable(d)
    \/ PerformCopying(d) \/ (\E k \in Keys : CopyKey(d, k))
    \/ CopyingDone(d) \/ CopyingLeftover(d) \/ ResetConflicts(d) \/ RecordDeposit(d)
    \/ PerformSend(d) \/ SendCopyMessages(d) \/ AwaitCopyFailed(d) \/ AwaitCopy(d)
    \/ PerformAssessingTwice(d) \/ PerformAssessing(d)
    \/ AwaitAssessmentFiles(d) \/ AwaitAssessmentDone(d) \/ AwaitAssessmentGivesUp(d)
    \/ AwaitAssessmentRetries(d) \/ RetryFiles(d) \/ PollLater(d)
    \/ PerformFinalValidation(d) \/ PerformFinalValidationInvalid(d)
    \/ PerformArchive(d) \/ Requeue(d) \/ PerformEnd(d)

ServiceStep ==
    \/ \E k \in Keys : TransferArrives(k) \/ TransferSeenCopied(k) \/ AssessorAnswers(k)
    \/ AssessDirectory

RequestStep(r) ==
    \/ \E kind \in {"proceed", "abort"}, role \in {"manager", "admin"} :
         LoadRequest(r, kind, role)
    \/ ApproveInitial(r) \/ ApproveAdmin(r) \/ ApproveRefused(r) \/ Abort(r)

Next ==
    \/ \E d \in Rows : WorkerStep(d) \/ Interrupt(d) \/ \E k \in Keys : CopyInterrupted(d, k)
    \/ ServiceStep
    \/ \E k \in Keys : TransferFails(k)
    \/ DestroyCompleteElements
    \/ \E r \in Requests : RequestStep(r)

Spec == Init /\ [][Next]_vars

(***************************************************************************)
(* The workers keep taking rows and finishing what they took; Globus, the  *)
(* assessor and the scheduled tasks keep answering.  People and faults owe *)
(* nothing.                                                                *)
(***************************************************************************)
Fairness ==
    /\ \A d \in Rows : WF_vars(WorkerStep(d))
    /\ \A k \in Keys : /\ WF_vars(TransferArrives(k)) /\ WF_vars(TransferSeenCopied(k))
                       /\ WF_vars(AssessorAnswers(k))
    /\ WF_vars(AssessDirectory)

FairSpec == Spec /\ Fairness

------------------------------------------------------------------------------
(* Properties *)

\* States in which nothing is meant to be queued: people decide what is next.
Waiting == {"initial_approval", "admin_approval", "final_validation_failed"}

\* The worker of d has yet to queue the row that carries the accrual on.
Unfinished(d) ==
    \/ run[d].pc \in {"begin", "copy", "overwrite", "send", "jobs", "retry", "retry_jobs",
                      "requeue", "destroy_self"}
    \/ run[d].pc \in {"reset", "event"} /\ run[d].mem # "assessing"
    \/ run[d].pc = "done" /\ run[d].mem = "end"

Drives(d) == \/ rows[d].status \in {"queued", "failed"}
             \/ rows[d].status \in {"running", "orphan"} /\ Unfinished(d)

(***************************************************************************)
(* An accrual that is not waiting for people always has a row that will    *)
(* carry it on, or a failed row that an operator can see, whatever raised, *)
(* crashed or ran twice; but for a teardown cut in two.                    *)
(***************************************************************************)
NoStrandedAccrual ==
    (state \notin Waiting \cup {"gone"} /\ ~torn) => \E d \in Rows : Drives(d)

AfterApproval == {"copying", "send_copy_messages", "await_copy_messages", "assessing",
                  "await_assessment", "final_validation", "final_validation_failed",
                  "email_done"}

(***************************************************************************)
(* Nothing reaches the destination, and no later state is entered, before  *)
(* an administrator approved; a stale page or a request that raced another *)
(* does not get around it.                                                 *)
(***************************************************************************)
CopyOnlyAfterAdminApproval ==
    /\ (state \in AfterApproval \/ \E k \in Keys : target[k] = "new") => approved # {}
    /\ \A a \in approved : a.role = "admin"

(***************************************************************************)
(* No accrual vanishes without a trace: the record is destroyed only after *)
(* an archive record was made or the refusal was mailed.                   *)
(***************************************************************************)
ConcludedBeforeGone == state = "gone" => archived # {} \/ refused

\* Every file key holds the accrued content; a directory key, or a key copied
\* by Globus, may still hold what was there before.
Delivered(k) == \/ target[k] = "new"
                \/ /\ target[k] = "old"
                   /\ k \in DirKeys \/ \E a \in approved : a.path = "send_copy_messages"

(***************************************************************************)
(* An accrual is archived as completed only when its content was delivered *)
(* (perform_email_done follows the final validation).                      *)
(***************************************************************************)
CompletedIsDelivered == "completed" \in archived => \A k \in Keys : Delivered(k)

(***************************************************************************)
(* The deposit_completed event is recorded only when no key was left to    *)
(* copy; an accrual that was aborted or refused while a worker was still   *)
(* in its copying loses its keys and is excepted.                          *)
(***************************************************************************)
DepositIsTruthful ==
    deposited => (\A k \in Keys : Delivered(k)) \/ "aborted" \in archived \/ refused

(***************************************************************************)
(* Content that was at the destination is replaced only when the submitter *)
(* allowed overwriting (perform_check is the only place that asks).        *)
(***************************************************************************)
OverwriteOnlyIfAllowed ==
    [][\A k \in Keys \ DirKeys :
         target[k] = "old" /\ target'[k] # "old" => submitted.overwrite]_vars

(***************************************************************************)
(* Once copying was approved the accrual settles: it is removed, parked    *)
(* for people, or leaves a failed row; but for a teardown cut in two and a *)
(* transfer whose status could once not be read (and but for runs that use *)
(* every row the bound allows).                                            *)
(***************************************************************************)
ApprovedAccrualSettles ==
    state \in AfterApproval ~>
        \/ state \in Waiting \cup {"gone"} \/ FailedRows # {} \/ torn
        \/ \E k \in Keys : transfer[k] = "error"
        \/ FreeRows = {}

------------------------------------------------------------------------------
(* What the documentation says and the code does not keep *)

(***************************************************************************)
(* accrual_job.rb:713-716: the newly ingested objects are assessed.  After *)
(* the registry's own copying the conflicting files are reset only when    *)
(* the assessment was already queued.                                      *)
(***************************************************************************)
CompletedIsAssessed ==
    "completed" \in archived =>
        \A k \in Keys : target[k] = "new" => fixity[k] # "old"
==============================================================================
