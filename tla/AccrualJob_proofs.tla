-------------------------- MODULE AccrualJob_proofs --------------------------
(***************************************************************************)
(* Theorems about AccrualJob, for any number of rows, keys and requests.   *)
(*                                                                         *)
(* Each invariant is proved from an inductive one.  Its preservation has   *)
(* one lemma for the steps of a worker, with a case per action, and one    *)
(* for each other kind of step: faults, services around the worker, web    *)
(* requests.                                                               *)
(***************************************************************************)
EXTENDS AccrualJob, DelayedJobs_proofs

\* What an accrual proceeds to, written out.
LEMMA SuccessorStates ==
    /\ DOMAIN Successor = {"await_copy_messages", "assessing", "email_done", "aborting"}
    /\ Successor["await_copy_messages"] = "assessing"
    /\ Successor["assessing"] = "await_assessment"
    /\ Successor["email_done"] = "end" /\ Successor["aborting"] = "end"
BY DEF Successor

\* A worker that holds nothing is a worker state.
LEMMA IdleRun == Idle \in Run
BY DEF Idle, Run, States, Places

\* Changing place and batch keeps a worker state well formed.
LEMMA RunUpdate ==
    ASSUME NEW r \in Run, NEW pc \in Places, NEW batch \in SUBSET Keys
    PROVE  [r EXCEPT !.batch = batch, !.pc = pc] \in Run
BY DEF Run

------------------------------------------------------------------------------
(* Type correctness *)

\* A step of a worker.
LEMMA TypeWorker == ASSUME TypeOK, NEW d \in Rows, WorkerStep(d) PROVE TypeOK'
<1> USE DEF TypeOK, Run, States, Places, table, staged, content, outcome, history
<1>Reserve. CASE Reserve(d)
  BY <1>Reserve, RowSteps DEF Reserve, Load
<1>ReserveGone. CASE ReserveGone(d)
  BY <1>ReserveGone, RowConstants DEF ReserveGone, LoadGone
<1>Finish. CASE Finish(d)
  BY <1>Finish, IdleRun, RowConstants DEF Finish, Complete
<1>DestroyQueuedJobs. CASE DestroyQueuedJobs(d)
  BY <1>DestroyQueuedJobs, RowSteps DEF DestroyQueuedJobs, Move
<1>DestroySelf. CASE DestroySelf(d)
  BY <1>DestroySelf, IdleRun, RowConstants DEF DestroySelf, At
<1>PerformStart. CASE PerformStart(d)
  BY <1>PerformStart, RowConstants
  DEF PerformStart, BeInStateAndRequeue, BeInState, PutInQueue, FreeRows, At
<1>PerformCheckSync. CASE PerformCheckSync(d)
  BY <1>PerformCheckSync, RowConstants
  DEF PerformCheckSync, BeInStateAndRequeue, BeInState, PutInQueue, FreeRows, At
<1>PerformCheckRefuse. CASE PerformCheckRefuse(d)
  BY <1>PerformCheckRefuse, RowConstants
  DEF PerformCheckRefuse, BeInStateAndRequeue, BeInState, PutInQueue, FreeRows, At,
      Stored, Duplicates
<1>PerformCheckAccept. CASE PerformCheckAccept(d)
  BY <1>PerformCheckAccept DEF PerformCheckAccept, BeInState, At, Stored, Duplicates
<1>PerformCheckGone. CASE PerformCheckGone(d)
  BY <1>PerformCheckGone, IdleRun, RowSteps DEF PerformCheckGone, Raise
<1>MailApproval. CASE MailApproval(d)
  BY <1>MailApproval DEF MailApproval, Move
<1>PerformUnrunnable. CASE PerformUnrunnable(d)
  BY <1>PerformUnrunnable, IdleRun, RowSteps DEF PerformUnrunnable, Raise
<1>PerformCopying. CASE PerformCopying(d)
  <2> HIDE DEF Run, Places
  <2> DEFINE pc == IF conflicts = {} THEN "copy" ELSE "overwrite"
  <2>1. pc \in Places
    BY DEF Places
  <2> HIDE DEF pc
  <2>2. [run[d] EXCEPT !.batch = keys, !.pc = pc] \in Run
    BY <2>1, RunUpdate
  <2>3. run' = [run EXCEPT ![d] = [run[d] EXCEPT !.batch = keys, !.pc = pc]]
    BY <1>PerformCopying DEF PerformCopying, pc
  <2>4. run' \in [Rows -> Run]
    BY <2>2, <2>3
  <2> QED
    BY <1>PerformCopying, <2>4 DEF PerformCopying
<1>CopyKey. CASE \E k \in Keys : CopyKey(d, k)
  BY <1>CopyKey DEF CopyKey, Copied
<1>CopyingDone. CASE CopyingDone(d)
  BY <1>CopyingDone, RowConstants
  DEF CopyingDone, BeInStateAndRequeue, BeInState, PutInQueue, FreeRows, At
<1>CopyingLeftover. CASE CopyingLeftover(d)
  BY <1>CopyingLeftover, IdleRun, RowSteps DEF CopyingLeftover, Raise
<1>ResetConflicts. CASE ResetConflicts(d)
  BY <1>ResetConflicts DEF ResetConflicts, Move
<1>RecordDeposit. CASE RecordDeposit(d)
  BY <1>RecordDeposit DEF RecordDeposit, Move
<1>PerformSend. CASE PerformSend(d)
  BY <1>PerformSend DEF PerformSend, Move
<1>SendCopyMessages. CASE SendCopyMessages(d)
  BY <1>SendCopyMessages, RowConstants
  DEF SendCopyMessages, BeInStateAndRequeue, BeInState, PutInQueue, FreeRows, At,
      TransferStates
<1>AwaitCopyFailed. CASE AwaitCopyFailed(d)
  BY <1>AwaitCopyFailed, IdleRun, RowSteps DEF AwaitCopyFailed, Raise, Copying
<1>AwaitCopy. CASE AwaitCopy(d)
  BY <1>AwaitCopy, RowConstants, SMTT(30) DEF AwaitCopy, Move, PutInQueue, FreeRows, Copying
<1>PerformAssessingTwice. CASE PerformAssessingTwice(d)
  BY <1>PerformAssessingTwice, IdleRun, RowSteps DEF PerformAssessingTwice, Raise
<1>PerformAssessing. CASE PerformAssessing(d)
  BY <1>PerformAssessing, BoundsAssumption DEF PerformAssessing, Move
<1>AwaitAssessmentFiles. CASE AwaitAssessmentFiles(d)
  BY <1>AwaitAssessmentFiles, SMTT(30) DEF AwaitAssessmentFiles, Move, WithoutComplete
<1>AwaitAssessmentDone. CASE AwaitAssessmentDone(d)
  BY <1>AwaitAssessmentDone, RowConstants
  DEF AwaitAssessmentDone, BeInStateAndRequeue, BeInState, PutInQueue, FreeRows, At
<1>AwaitAssessmentGivesUp. CASE AwaitAssessmentGivesUp(d)
  BY <1>AwaitAssessmentGivesUp, IdleRun, RowSteps
  DEF AwaitAssessmentGivesUp, Raise, AwaitAssessmentPending, WithoutComplete
<1>AwaitAssessmentRetries. CASE AwaitAssessmentRetries(d)
  BY <1>AwaitAssessmentRetries
  DEF AwaitAssessmentRetries, Move, AwaitAssessmentPending, WithoutComplete
<1>RetryFiles. CASE RetryFiles(d)
  BY <1>RetryFiles, SMTT(30) DEF RetryFiles, Move, WithoutComplete
<1>PollLater. CASE PollLater(d)
  BY <1>PollLater, RowConstants, BoundsAssumption
  DEF PollLater, Move, PutInQueue, FreeRows
<1>PerformFinalValidation. CASE PerformFinalValidation(d)
  BY <1>PerformFinalValidation, RowConstants
  DEF PerformFinalValidation, BeInStateAndRequeue, BeInState, PutInQueue, FreeRows, At
<1>PerformFinalValidationInvalid. CASE PerformFinalValidationInvalid(d)
  BY <1>PerformFinalValidationInvalid, IdleRun, RowSteps
  DEF PerformFinalValidationInvalid, Raise, BeInState
<1>PerformArchive. CASE PerformArchive(d)
  BY <1>PerformArchive DEF PerformArchive, Move
<1>Requeue. CASE Requeue(d)
  BY <1>Requeue, RowConstants, SuccessorStates
  DEF Requeue, BeInStateAndRequeue, BeInState, PutInQueue, FreeRows, At
<1>PerformEnd. CASE PerformEnd(d)
  BY <1>PerformEnd DEF PerformEnd, Move
<1> QED
  BY <1>Reserve, <1>ReserveGone, <1>Finish, <1>DestroyQueuedJobs, <1>DestroySelf,
     <1>PerformStart, <1>PerformCheckSync, <1>PerformCheckRefuse,
     <1>PerformCheckAccept, <1>PerformCheckGone, <1>MailApproval, <1>PerformUnrunnable,
     <1>PerformCopying, <1>CopyKey, <1>CopyingDone, <1>CopyingLeftover,
     <1>ResetConflicts, <1>RecordDeposit, <1>PerformSend, <1>SendCopyMessages,
     <1>AwaitCopyFailed, <1>AwaitCopy, <1>PerformAssessingTwice, <1>PerformAssessing,
     <1>AwaitAssessmentFiles, <1>AwaitAssessmentDone, <1>AwaitAssessmentGivesUp,
     <1>AwaitAssessmentRetries, <1>RetryFiles, <1>PollLater, <1>PerformFinalValidation,
     <1>PerformFinalValidationInvalid, <1>PerformArchive, <1>Requeue, <1>PerformEnd
  DEF WorkerStep

\* A failure injected into a worker or a transfer.
LEMMA TypeFault ==
    ASSUME TypeOK,
           \/ \E d \in Rows : Interrupt(d) \/ \E k \in Keys : CopyInterrupted(d, k)
           \/ \E k \in Keys : TransferFails(k)
    PROVE  TypeOK'
<1> USE BoundsAssumption DEF TypeOK, table, staged, content, outcome, history
<1>1. CASE \E d \in Rows : Interrupt(d)
  BY <1>1, RowSteps, IdleRun DEF Interrupt
<1>2. CASE \E d \in Rows, k \in Keys : CopyInterrupted(d, k)
  BY <1>2, RowSteps, IdleRun DEF CopyInterrupted, Copied, Raise
<1>3. CASE \E k \in Keys : TransferFails(k)
  BY <1>3 DEF TransferFails, TransferStates
<1> QED
  BY <1>1, <1>2, <1>3

\* A step of the services around the workers.
LEMMA TypeService ==
    ASSUME TypeOK, ServiceStep \/ DestroyCompleteElements PROVE TypeOK'
<1> USE DEF TypeOK, table, staged, content, outcome, history
<1>1. CASE \E k \in Keys : TransferArrives(k)
  BY <1>1 DEF TransferArrives
<1>2. CASE \E k \in Keys : TransferSeenCopied(k)
  BY <1>2 DEF TransferSeenCopied, TransferStates
<1>3. CASE \E k \in Keys : AssessorAnswers(k)
  BY <1>3 DEF AssessorAnswers
<1>4. CASE AssessDirectory
  <2>1. fixity' \in [Keys -> {"none", "pending", "old", "new"}]
    BY <1>4 DEF AssessDirectory
  <2>2. element' \in [Keys -> {"none", "open", "complete"}]
    BY <1>4 DEF AssessDirectory
  <2> QED
    BY <1>4, <2>1, <2>2 DEF AssessDirectory
<1>5. CASE DestroyCompleteElements
  BY <1>5 DEF DestroyCompleteElements, WithoutComplete
<1> QED
  BY <1>1, <1>2, <1>3, <1>4, <1>5 DEF ServiceStep

\* A step of a web request.
LEMMA TypeRequest == ASSUME TypeOK, NEW r \in Requests, RequestStep(r) PROVE TypeOK'
<1> USE DEF TypeOK, table, staged, content, outcome, history, Request
<1>0. Closed \in Request
  BY DEF Closed, States
<1>1. CASE \E kind \in {"proceed", "abort"}, role \in {"manager", "admin"} :
               LoadRequest(r, kind, role)
  BY <1>1 DEF LoadRequest
<1>2. CASE ApproveInitial(r)
  BY <1>0, <1>2 DEF ApproveInitial, Acting, BeInState, States
<1>3. CASE ApproveAdmin(r)
  <2>1. PICK p \in CopyPaths :
             BeInState(p) /\ approved' = approved \cup {[path |-> p, role |-> req[r].role]}
    BY <1>3 DEF ApproveAdmin
  <2>2. state' \in States \cup {"gone"}
    BY <2>1, CopyPathsAssumption DEF BeInState, States
  <2>3. approved' \subseteq [path : CopyPaths, role : {"manager", "admin"}]
    BY <2>1
  <2>4. rows' \in [Rows -> Row] /\ req' \in [Requests -> Request]
    BY <1>0, <1>3, RowConstants DEF ApproveAdmin, Acting, PutInQueue, FreeRows
  <2> QED
    BY <1>3, <2>2, <2>3, <2>4 DEF ApproveAdmin
<1>4. CASE ApproveRefused(r)
  BY <1>0, <1>4 DEF ApproveRefused, Acting
<1>5. CASE Abort(r)
  BY <1>0, <1>5, RowConstants DEF Abort, Acting, BeInState, PutInQueue, FreeRows, States
<1> QED
  BY <1>1, <1>2, <1>3, <1>4, <1>5 DEF RequestStep

\* The initial states are well typed.
LEMMA TypeInit == ASSUME Init PROVE TypeOK
<1>1. rows \in [Rows -> Row] /\ run \in [Rows -> Run]
  BY RowConstants, IdleRun DEF Init
<1>2. /\ state \in States \cup {"gone"}
      /\ req \in [Requests -> Request]
      /\ transfer \in [Keys -> TransferStates]
  BY DEF Init, States, Unused, Request, TransferStates
<1>3. /\ fixity \in [Keys -> {"none", "pending", "old", "new"}]
      /\ element \in [Keys -> {"none", "open", "complete"}]
      /\ target \in [Keys -> {"absent", "old", "new"}]
  BY DEF Init
<1>4. polls \in 0 .. MaxAssessments + 1 /\ faults \in 0 .. MaxFaults
  BY BoundsAssumption DEF Init
<1> QED
  BY <1>1, <1>2, <1>3, <1>4 DEF Init, TypeOK

\* Every step keeps the types.
LEMMA TypeNext == ASSUME TypeOK, [Next]_vars PROVE TypeOK'
<1>1. CASE UNCHANGED vars
  BY <1>1 DEF TypeOK, vars, table, staged, content, outcome, history
<1>2. CASE Next
  BY <1>2, TypeWorker, TypeFault, TypeService, TypeRequest DEF Next
<1> QED
  BY <1>1, <1>2

(***************************************************************************)
(* The variables keep their types: in particular an attempt count never    *)
(* passes MaxAttempts, however often rows are retried.                     *)
(***************************************************************************)
THEOREM TypeCorrect == Spec => []TypeOK
  BY TypeInit, TypeNext, PTL DEF Spec

\* Services, requests and failing transfers touch no worker.
LEMMA RunUnchanged ==
    ASSUME \/ ServiceStep \/ DestroyCompleteElements
           \/ \E k \in Keys : TransferFails(k)
           \/ \E r \in Requests : RequestStep(r)
           \/ UNCHANGED vars
    PROVE  UNCHANGED run
BY DEF ServiceStep, TransferArrives, TransferSeenCopied, AssessorAnswers, AssessDirectory,
       DestroyCompleteElements, TransferFails, RequestStep, LoadRequest, ApproveInitial,
       ApproveAdmin, ApproveRefused, Abort, vars, table

------------------------------------------------------------------------------
(* Where a worker can be *)

\* A worker is at a place of the perform its loaded state selects.
PlaceOK(r) ==
    /\ r.pc \in {"copy", "overwrite"} => r.mem = "copying"
    /\ r.pc = "reset" => r.mem \in {"assessing", "send_copy_messages"}
    /\ r.pc = "event" => r.mem \in {"assessing", "await_copy_messages"}
    /\ r.pc = "send" => r.mem = "send_copy_messages"
    /\ r.pc \in {"jobs", "retry", "retry_jobs"} => r.mem = "await_assessment"
    /\ r.pc = "requeue" => r.mem \in DOMAIN Successor
    /\ r.pc = "destroy_self" => r.mem = "end"

Placed == TypeOK /\ \A d \in Rows : PlaceOK(run[d])

\* A step of a worker moves it to a place its loaded state has.
LEMMA PlacedWorker ==
    ASSUME Placed, NEW d \in Rows, WorkerStep(d)
    PROVE  \A e \in Rows : PlaceOK(run[e])'
<1> USE SuccessorStates DEF Placed, TypeOK, Run, PlaceOK
<1>Reserve. CASE Reserve(d)
  BY <1>Reserve DEF Reserve, Load
<1>ReserveGone. CASE ReserveGone(d)
  BY <1>ReserveGone DEF ReserveGone, LoadGone
<1>Finish. CASE Finish(d)
  BY <1>Finish DEF Finish, Complete, Idle
<1>DestroyQueuedJobs. CASE DestroyQueuedJobs(d)
  BY <1>DestroyQueuedJobs DEF DestroyQueuedJobs, At, Move
<1>DestroySelf. CASE DestroySelf(d)
  BY <1>DestroySelf DEF DestroySelf, Idle
<1>PerformStart. CASE PerformStart(d)
  BY <1>PerformStart DEF PerformStart, BeInStateAndRequeue, At
<1>PerformCheckSync. CASE PerformCheckSync(d)
  BY <1>PerformCheckSync DEF PerformCheckSync, BeInStateAndRequeue, At
<1>PerformCheckRefuse. CASE PerformCheckRefuse(d)
  BY <1>PerformCheckRefuse DEF PerformCheckRefuse, BeInStateAndRequeue, At
<1>PerformCheckAccept. CASE PerformCheckAccept(d)
  BY <1>PerformCheckAccept DEF PerformCheckAccept
<1>PerformCheckGone. CASE PerformCheckGone(d)
  BY <1>PerformCheckGone DEF PerformCheckGone, Raise, Idle
<1>MailApproval. CASE MailApproval(d)
  BY <1>MailApproval DEF MailApproval, At, Move
<1>PerformUnrunnable. CASE PerformUnrunnable(d)
  BY <1>PerformUnrunnable DEF PerformUnrunnable, Raise, Idle
<1>PerformCopying. CASE PerformCopying(d)
  BY <1>PerformCopying DEF PerformCopying, At
<1>CopyKey. CASE \E k \in Keys : CopyKey(d, k)
  BY <1>CopyKey DEF CopyKey
<1>CopyingDone. CASE CopyingDone(d)
  BY <1>CopyingDone DEF CopyingDone, BeInStateAndRequeue, At
<1>CopyingLeftover. CASE CopyingLeftover(d)
  BY <1>CopyingLeftover DEF CopyingLeftover, Raise, Idle
<1>ResetConflicts. CASE ResetConflicts(d)
  BY <1>ResetConflicts DEF ResetConflicts, At, Move
<1>RecordDeposit. CASE RecordDeposit(d)
  BY <1>RecordDeposit DEF RecordDeposit, At, Move
<1>PerformSend. CASE PerformSend(d)
  BY <1>PerformSend DEF PerformSend, At, Move
<1>SendCopyMessages. CASE SendCopyMessages(d)
  BY <1>SendCopyMessages DEF SendCopyMessages, BeInStateAndRequeue, At
<1>AwaitCopyFailed. CASE AwaitCopyFailed(d)
  BY <1>AwaitCopyFailed DEF AwaitCopyFailed, Raise, Idle
<1>AwaitCopy. CASE AwaitCopy(d)
  BY <1>AwaitCopy DEF AwaitCopy, At, Move
<1>PerformAssessingTwice. CASE PerformAssessingTwice(d)
  BY <1>PerformAssessingTwice DEF PerformAssessingTwice, Raise, Idle
<1>PerformAssessing. CASE PerformAssessing(d)
  BY <1>PerformAssessing DEF PerformAssessing, At, Move
<1>AwaitAssessmentFiles. CASE AwaitAssessmentFiles(d)
  BY <1>AwaitAssessmentFiles DEF AwaitAssessmentFiles, At, Move
<1>AwaitAssessmentDone. CASE AwaitAssessmentDone(d)
  BY <1>AwaitAssessmentDone DEF AwaitAssessmentDone, BeInStateAndRequeue, At
<1>AwaitAssessmentGivesUp. CASE AwaitAssessmentGivesUp(d)
  BY <1>AwaitAssessmentGivesUp DEF AwaitAssessmentGivesUp, Raise, Idle
<1>AwaitAssessmentRetries. CASE AwaitAssessmentRetries(d)
  BY <1>AwaitAssessmentRetries
  DEF AwaitAssessmentRetries, At, Move, AwaitAssessmentPending
<1>RetryFiles. CASE RetryFiles(d)
  BY <1>RetryFiles DEF RetryFiles, At, Move
<1>PollLater. CASE PollLater(d)
  BY <1>PollLater DEF PollLater, At, Move
<1>PerformFinalValidation. CASE PerformFinalValidation(d)
  BY <1>PerformFinalValidation DEF PerformFinalValidation, BeInStateAndRequeue, At
<1>PerformFinalValidationInvalid. CASE PerformFinalValidationInvalid(d)
  BY <1>PerformFinalValidationInvalid DEF PerformFinalValidationInvalid, Raise, Idle
<1>PerformArchive. CASE PerformArchive(d)
  BY <1>PerformArchive DEF PerformArchive, At, Move
<1>Requeue. CASE Requeue(d)
  BY <1>Requeue DEF Requeue, BeInStateAndRequeue, At
<1>PerformEnd. CASE PerformEnd(d)
  BY <1>PerformEnd DEF PerformEnd, At, Move
<1> QED
  BY <1>Reserve, <1>ReserveGone, <1>Finish, <1>DestroyQueuedJobs, <1>DestroySelf,
     <1>PerformStart, <1>PerformCheckSync, <1>PerformCheckRefuse,
     <1>PerformCheckAccept, <1>PerformCheckGone, <1>MailApproval, <1>PerformUnrunnable,
     <1>PerformCopying, <1>CopyKey, <1>CopyingDone, <1>CopyingLeftover,
     <1>ResetConflicts, <1>RecordDeposit, <1>PerformSend, <1>SendCopyMessages,
     <1>AwaitCopyFailed, <1>AwaitCopy, <1>PerformAssessingTwice, <1>PerformAssessing,
     <1>AwaitAssessmentFiles, <1>AwaitAssessmentDone, <1>AwaitAssessmentGivesUp,
     <1>AwaitAssessmentRetries, <1>RetryFiles, <1>PollLater, <1>PerformFinalValidation,
     <1>PerformFinalValidationInvalid, <1>PerformArchive, <1>Requeue, <1>PerformEnd
  DEF WorkerStep

\* Initially every worker is idle.
LEMMA PlacedInit == ASSUME Init PROVE Placed
BY TypeInit DEF Init, Placed, PlaceOK, Idle

\* Every step leaves every worker in a place its loaded state has.
LEMMA PlacedNext == ASSUME Placed, [Next]_vars PROVE Placed'
<1>0. TypeOK'
  BY TypeNext DEF Placed
<1> SUFFICES \A e \in Rows : PlaceOK(run[e])'
  BY <1>0 DEF Placed
<1>1. CASE \E d \in Rows : WorkerStep(d)
  BY <1>1, PlacedWorker
<1>2. CASE \E d \in Rows : Interrupt(d) \/ \E k \in Keys : CopyInterrupted(d, k)
  <2>1. PICK d \in Rows : run' = [run EXCEPT ![d] = Idle]
    BY <1>2 DEF Interrupt, CopyInterrupted, Raise
  <2>2. PlaceOK(Idle)
    BY DEF PlaceOK, Idle
  <2> QED
    BY <2>1, <2>2 DEF Placed, TypeOK
<1>3. CASE UNCHANGED run
  BY <1>3 DEF Placed, PlaceOK
<1> QED
  BY <1>1, <1>2, <1>3, RunUnchanged DEF Next

------------------------------------------------------------------------------
(* No accrual vanishes without a trace *)

Concluded == archived # {} \/ refused

\* The worker is past the point where the accrual was archived or refused.
Concluding(r) == \/ r.mem = "end"
                 \/ r.pc = "requeue" /\ r.mem \in {"email_done", "aborting"}

ConcludedInv == /\ Placed
                /\ state \in {"end", "gone"} => Concluded
                /\ \A d \in Rows : Concluding(run[d]) => Concluded

\* A worker that reaches the end has archived or refused before.
LEMMA ConcludedWorker ==
    ASSUME ConcludedInv, NEW d \in Rows, WorkerStep(d)
    PROVE  /\ (state \in {"end", "gone"} => Concluded)'
           /\ \A e \in Rows : (Concluding(run[e]) => Concluded)'
<1> USE SuccessorStates
    DEF ConcludedInv, Placed, TypeOK, Run, PlaceOK, Concluding, Concluded, outcome, table
<1>Reserve. CASE Reserve(d)
  BY <1>Reserve DEF Reserve, Load
<1>ReserveGone. CASE ReserveGone(d)
  BY <1>ReserveGone DEF ReserveGone, LoadGone
<1>Finish. CASE Finish(d)
  BY <1>Finish DEF Finish, Complete, Idle
<1>DestroyQueuedJobs. CASE DestroyQueuedJobs(d)
  BY <1>DestroyQueuedJobs DEF DestroyQueuedJobs, At, Move
<1>DestroySelf. CASE DestroySelf(d)
  BY <1>DestroySelf DEF DestroySelf, At, Idle
<1>PerformStart. CASE PerformStart(d)
  BY <1>PerformStart DEF PerformStart, BeInStateAndRequeue, BeInState, At
<1>PerformCheckSync. CASE PerformCheckSync(d)
  BY <1>PerformCheckSync DEF PerformCheckSync, BeInStateAndRequeue, BeInState, At
<1>PerformCheckRefuse. CASE PerformCheckRefuse(d)
  BY <1>PerformCheckRefuse DEF PerformCheckRefuse, BeInStateAndRequeue, BeInState, At
<1>PerformCheckAccept. CASE PerformCheckAccept(d)
  BY <1>PerformCheckAccept DEF PerformCheckAccept, At, BeInState
<1>PerformCheckGone. CASE PerformCheckGone(d)
  BY <1>PerformCheckGone DEF PerformCheckGone, Raise, Idle
<1>MailApproval. CASE MailApproval(d)
  BY <1>MailApproval DEF MailApproval, At, Move
<1>PerformUnrunnable. CASE PerformUnrunnable(d)
  BY <1>PerformUnrunnable DEF PerformUnrunnable, Raise, Idle
<1>PerformCopying. CASE PerformCopying(d)
  BY <1>PerformCopying DEF PerformCopying, At
<1>CopyKey. CASE \E k \in Keys : CopyKey(d, k)
  BY <1>CopyKey DEF CopyKey
<1>CopyingDone. CASE CopyingDone(d)
  BY <1>CopyingDone DEF CopyingDone, BeInStateAndRequeue, BeInState, At
<1>CopyingLeftover. CASE CopyingLeftover(d)
  BY <1>CopyingLeftover DEF CopyingLeftover, Raise, Idle
<1>ResetConflicts. CASE ResetConflicts(d)
  BY <1>ResetConflicts DEF ResetConflicts, At, Move
<1>RecordDeposit. CASE RecordDeposit(d)
  BY <1>RecordDeposit DEF RecordDeposit, At, Move
<1>PerformSend. CASE PerformSend(d)
  BY <1>PerformSend DEF PerformSend, At, Move
<1>SendCopyMessages. CASE SendCopyMessages(d)
  BY <1>SendCopyMessages DEF SendCopyMessages, BeInStateAndRequeue, BeInState, At
<1>AwaitCopyFailed. CASE AwaitCopyFailed(d)
  BY <1>AwaitCopyFailed DEF AwaitCopyFailed, Raise, Idle
<1>AwaitCopy. CASE AwaitCopy(d)
  BY <1>AwaitCopy DEF AwaitCopy, At, Move
<1>PerformAssessingTwice. CASE PerformAssessingTwice(d)
  BY <1>PerformAssessingTwice DEF PerformAssessingTwice, Raise, Idle
<1>PerformAssessing. CASE PerformAssessing(d)
  BY <1>PerformAssessing DEF PerformAssessing, At, Move
<1>AwaitAssessmentFiles. CASE AwaitAssessmentFiles(d)
  BY <1>AwaitAssessmentFiles DEF AwaitAssessmentFiles, At, Move
<1>AwaitAssessmentDone. CASE AwaitAssessmentDone(d)
  BY <1>AwaitAssessmentDone DEF AwaitAssessmentDone, BeInStateAndRequeue, BeInState, At
<1>AwaitAssessmentGivesUp. CASE AwaitAssessmentGivesUp(d)
  BY <1>AwaitAssessmentGivesUp DEF AwaitAssessmentGivesUp, Raise, Idle
<1>AwaitAssessmentRetries. CASE AwaitAssessmentRetries(d)
  BY <1>AwaitAssessmentRetries
  DEF AwaitAssessmentRetries, At, Move, AwaitAssessmentPending
<1>RetryFiles. CASE RetryFiles(d)
  BY <1>RetryFiles DEF RetryFiles, At, Move
<1>PollLater. CASE PollLater(d)
  BY <1>PollLater DEF PollLater, At, Move
<1>PerformFinalValidation. CASE PerformFinalValidation(d)
  BY <1>PerformFinalValidation
  DEF PerformFinalValidation, BeInStateAndRequeue, BeInState, At
<1>PerformFinalValidationInvalid. CASE PerformFinalValidationInvalid(d)
  BY <1>PerformFinalValidationInvalid
  DEF PerformFinalValidationInvalid, At, Raise, Idle, BeInState
<1>PerformArchive. CASE PerformArchive(d)
  BY <1>PerformArchive DEF PerformArchive, At, Move
<1>Requeue. CASE Requeue(d)
  BY <1>Requeue DEF Requeue, BeInStateAndRequeue, BeInState, At
<1>PerformEnd. CASE PerformEnd(d)
  BY <1>PerformEnd DEF PerformEnd, At, Move
<1> QED
  BY <1>Reserve, <1>ReserveGone, <1>Finish, <1>DestroyQueuedJobs, <1>DestroySelf,
     <1>PerformStart, <1>PerformCheckSync, <1>PerformCheckRefuse,
     <1>PerformCheckAccept, <1>PerformCheckGone, <1>MailApproval, <1>PerformUnrunnable,
     <1>PerformCopying, <1>CopyKey, <1>CopyingDone, <1>CopyingLeftover,
     <1>ResetConflicts, <1>RecordDeposit, <1>PerformSend, <1>SendCopyMessages,
     <1>AwaitCopyFailed, <1>AwaitCopy, <1>PerformAssessingTwice, <1>PerformAssessing,
     <1>AwaitAssessmentFiles, <1>AwaitAssessmentDone, <1>AwaitAssessmentGivesUp,
     <1>AwaitAssessmentRetries, <1>RetryFiles, <1>PollLater, <1>PerformFinalValidation,
     <1>PerformFinalValidationInvalid, <1>PerformArchive, <1>Requeue, <1>PerformEnd
  DEF WorkerStep

\* A failure drops what the worker holds and changes nothing else that counts.
LEMMA FaultDrops ==
    ASSUME TypeOK, \E d \in Rows : Interrupt(d) \/ \E k \in Keys : CopyInterrupted(d, k)
    PROVE  /\ \E d \in Rows : run' = [run EXCEPT ![d] = Idle]
           /\ UNCHANGED <<state, outcome, approved, transfer, req>>
<1>1. CASE \E d \in Rows : Interrupt(d)
  BY <1>1 DEF Interrupt, staged
<1>2. CASE \E d \in Rows : \E k \in Keys : CopyInterrupted(d, k)
  BY <1>2 DEF CopyInterrupted, Raise, staged
<1> QED
  BY <1>1, <1>2

\* ConcludedInv holds in every state of every behaviour.
LEMMA ConcludedAlways == Spec => []ConcludedInv
<1>1. Init => ConcludedInv
  <2> SUFFICES ASSUME Init PROVE ConcludedInv
    OBVIOUS
  <2>1. \A d \in Rows : ~Concluding(run[d])
    BY DEF Init, Concluding, Idle
  <2> QED
    BY <2>1, PlacedInit DEF Init, ConcludedInv
<1>2. ConcludedInv /\ [Next]_vars => ConcludedInv'
  <2> SUFFICES ASSUME ConcludedInv, [Next]_vars PROVE ConcludedInv'
    OBVIOUS
  <2>0. Placed'
    BY PlacedNext DEF ConcludedInv
  <2> SUFFICES /\ (state \in {"end", "gone"} => Concluded)'
               /\ \A e \in Rows : (Concluding(run[e]) => Concluded)'
    BY <2>0 DEF ConcludedInv
  <2>1. CASE \E d \in Rows : WorkerStep(d)
    BY <2>1, ConcludedWorker
  <2>2. CASE \E d \in Rows : Interrupt(d) \/ \E k \in Keys : CopyInterrupted(d, k)
    BY <2>2, FaultDrops
    DEF Idle, ConcludedInv, Placed, TypeOK, Concluded, Concluding, outcome
  <2>3. CASE \E r \in Requests : RequestStep(r)
    <3>1. UNCHANGED <<run, outcome>> /\ (state' \in {"end", "gone"} => state' = state)
      BY <2>3, CopyPathsAssumption
      DEF RequestStep, LoadRequest, ApproveInitial, ApproveAdmin, ApproveRefused, Abort,
          BeInState, table
    <3> QED
      BY <3>1 DEF ConcludedInv, Concluded, Concluding, outcome
  <2>4. CASE \/ ServiceStep \/ DestroyCompleteElements
             \/ \E k \in Keys : TransferFails(k)
             \/ UNCHANGED vars
    <3>1. UNCHANGED <<run, outcome, state>>
      BY <2>4
      DEF ServiceStep, TransferArrives, TransferSeenCopied, AssessorAnswers,
          AssessDirectory, DestroyCompleteElements, TransferFails, table, vars
    <3> QED
      BY <3>1 DEF ConcludedInv, Concluded, Concluding, outcome
  <2> QED
    BY <2>1, <2>2, <2>3, <2>4 DEF Next
<1> QED
  BY <1>1, <1>2, PTL DEF Spec

(***************************************************************************)
(* The record is destroyed only after the accrual was archived as          *)
(* completed or aborted, or its refusal was mailed.                        *)
(***************************************************************************)
THEOREM ConcludedBeforeGoneHolds == Spec => []ConcludedBeforeGone
<1>1. ConcludedInv => ConcludedBeforeGone
  BY DEF ConcludedInv, Concluded, ConcludedBeforeGone
<1> QED
  BY <1>1, ConcludedAlways, PTL

------------------------------------------------------------------------------
(* Nothing before the approval of an administrator *)

\* What only an approved accrual can show.
Begun == \/ state \in AfterApproval
         \/ \E k \in Keys : target[k] = "new" \/ transfer[k] # "none"
         \/ \E d \in Rows : run[d].mem \in AfterApproval

AdminsDecide ==
    /\ \A a \in approved : a.role = "admin"
    /\ \A r \in Requests :
         req[r].kind = "proceed" /\ req[r].seen = "admin_approval" => req[r].role = "admin"

ApprovalInv == Placed /\ (Begun => approved # {}) /\ AdminsDecide

\* A worker starts nothing that needs an approval by itself.
LEMMA ApprovalWorker ==
    ASSUME ApprovalInv, NEW d \in Rows, WorkerStep(d)
    PROVE  Begun' => Begun
<1> USE SuccessorStates
    DEF ApprovalInv, Placed, TypeOK, Run, PlaceOK, Begun, AfterApproval,
        staged, content, table
<1>Reserve. CASE Reserve(d)
  BY <1>Reserve DEF Reserve, Load
<1>ReserveGone. CASE ReserveGone(d)
  BY <1>ReserveGone DEF ReserveGone, LoadGone
<1>Finish. CASE Finish(d)
  BY <1>Finish DEF Finish, Complete, Idle
<1>DestroyQueuedJobs. CASE DestroyQueuedJobs(d)
  BY <1>DestroyQueuedJobs DEF DestroyQueuedJobs, At, Move
<1>DestroySelf. CASE DestroySelf(d)
  BY <1>DestroySelf DEF DestroySelf, At, Idle
<1>PerformStart. CASE PerformStart(d)
  BY <1>PerformStart DEF PerformStart, BeInStateAndRequeue, BeInState, At
<1>PerformCheckSync. CASE PerformCheckSync(d)
  BY <1>PerformCheckSync DEF PerformCheckSync, BeInStateAndRequeue, BeInState, At
<1>PerformCheckRefuse. CASE PerformCheckRefuse(d)
  BY <1>PerformCheckRefuse DEF PerformCheckRefuse, BeInStateAndRequeue, BeInState, At
<1>PerformCheckAccept. CASE PerformCheckAccept(d)
  BY <1>PerformCheckAccept DEF PerformCheckAccept, At, BeInState
<1>PerformCheckGone. CASE PerformCheckGone(d)
  BY <1>PerformCheckGone DEF PerformCheckGone, Raise, Idle
<1>MailApproval. CASE MailApproval(d)
  BY <1>MailApproval DEF MailApproval, At, Move
<1>PerformUnrunnable. CASE PerformUnrunnable(d)
  BY <1>PerformUnrunnable DEF PerformUnrunnable, Raise, Idle
<1>PerformCopying. CASE PerformCopying(d)
  BY <1>PerformCopying DEF PerformCopying, At
<1>CopyKey. CASE \E k \in Keys : CopyKey(d, k)
  BY <1>CopyKey DEF CopyKey, Copied
<1>CopyingDone. CASE CopyingDone(d)
  BY <1>CopyingDone DEF CopyingDone, BeInStateAndRequeue, BeInState, At
<1>CopyingLeftover. CASE CopyingLeftover(d)
  BY <1>CopyingLeftover DEF CopyingLeftover, Raise, Idle
<1>ResetConflicts. CASE ResetConflicts(d)
  BY <1>ResetConflicts DEF ResetConflicts, Move
<1>RecordDeposit. CASE RecordDeposit(d)
  BY <1>RecordDeposit DEF RecordDeposit, Move
<1>PerformSend. CASE PerformSend(d)
  BY <1>PerformSend DEF PerformSend, At, Move
<1>SendCopyMessages. CASE SendCopyMessages(d)
  BY <1>SendCopyMessages DEF SendCopyMessages, BeInStateAndRequeue, BeInState, At
<1>AwaitCopyFailed. CASE AwaitCopyFailed(d)
  BY <1>AwaitCopyFailed DEF AwaitCopyFailed, Raise, Idle
<1>AwaitCopy. CASE AwaitCopy(d)
  BY <1>AwaitCopy DEF AwaitCopy, At, Move
<1>PerformAssessingTwice. CASE PerformAssessingTwice(d)
  BY <1>PerformAssessingTwice DEF PerformAssessingTwice, Raise, Idle
<1>PerformAssessing. CASE PerformAssessing(d)
  BY <1>PerformAssessing DEF PerformAssessing, At, Move
<1>AwaitAssessmentFiles. CASE AwaitAssessmentFiles(d)
  BY <1>AwaitAssessmentFiles DEF AwaitAssessmentFiles, At, Move
<1>AwaitAssessmentDone. CASE AwaitAssessmentDone(d)
  BY <1>AwaitAssessmentDone DEF AwaitAssessmentDone, BeInStateAndRequeue, BeInState, At
<1>AwaitAssessmentGivesUp. CASE AwaitAssessmentGivesUp(d)
  BY <1>AwaitAssessmentGivesUp DEF AwaitAssessmentGivesUp, Raise, Idle
<1>AwaitAssessmentRetries. CASE AwaitAssessmentRetries(d)
  BY <1>AwaitAssessmentRetries
  DEF AwaitAssessmentRetries, At, Move, AwaitAssessmentPending
<1>RetryFiles. CASE RetryFiles(d)
  BY <1>RetryFiles DEF RetryFiles, At, Move
<1>PollLater. CASE PollLater(d)
  BY <1>PollLater DEF PollLater, At, Move
<1>PerformFinalValidation. CASE PerformFinalValidation(d)
  BY <1>PerformFinalValidation
  DEF PerformFinalValidation, BeInStateAndRequeue, BeInState, At
<1>PerformFinalValidationInvalid. CASE PerformFinalValidationInvalid(d)
  BY <1>PerformFinalValidationInvalid
  DEF PerformFinalValidationInvalid, At, Raise, Idle, BeInState
<1>PerformArchive. CASE PerformArchive(d)
  BY <1>PerformArchive DEF PerformArchive, At, Move
<1>Requeue. CASE Requeue(d)
  BY <1>Requeue DEF Requeue, BeInStateAndRequeue, BeInState, At
<1>PerformEnd. CASE PerformEnd(d)
  BY <1>PerformEnd DEF PerformEnd, Move
<1> QED
  BY <1>Reserve, <1>ReserveGone, <1>Finish, <1>DestroyQueuedJobs, <1>DestroySelf,
     <1>PerformStart, <1>PerformCheckSync, <1>PerformCheckRefuse,
     <1>PerformCheckAccept, <1>PerformCheckGone, <1>MailApproval, <1>PerformUnrunnable,
     <1>PerformCopying, <1>CopyKey, <1>CopyingDone, <1>CopyingLeftover,
     <1>ResetConflicts, <1>RecordDeposit, <1>PerformSend, <1>SendCopyMessages,
     <1>AwaitCopyFailed, <1>AwaitCopy, <1>PerformAssessingTwice, <1>PerformAssessing,
     <1>AwaitAssessmentFiles, <1>AwaitAssessmentDone, <1>AwaitAssessmentGivesUp,
     <1>AwaitAssessmentRetries, <1>RetryFiles, <1>PollLater, <1>PerformFinalValidation,
     <1>PerformFinalValidationInvalid, <1>PerformArchive, <1>Requeue, <1>PerformEnd
  DEF WorkerStep

\* Approvals and requests are no business of the workers.
LEMMA WorkerDecidesNothing ==
    ASSUME NEW d \in Rows, WorkerStep(d) PROVE UNCHANGED <<approved, req>>
BY DEF WorkerStep, Reserve, ReserveGone, Finish, DestroyQueuedJobs, DestroySelf,
    PerformStart, PerformCheckSync, PerformCheckRefuse, PerformCheckAccept,
    PerformCheckGone, MailApproval, PerformUnrunnable, PerformCopying, CopyKey,
    CopyingDone, CopyingLeftover, ResetConflicts, RecordDeposit, PerformSend,
    SendCopyMessages, AwaitCopyFailed, AwaitCopy, PerformAssessingTwice,
    PerformAssessing, AwaitAssessmentFiles, AwaitAssessmentDone,
    AwaitAssessmentGivesUp, AwaitAssessmentRetries, RetryFiles, PollLater,
    PerformFinalValidation, PerformFinalValidationInvalid, PerformArchive, Requeue,
    PerformEnd, history

\* A raise or a crash keeps the approvals as they are.
LEMMA ApprovalFault ==
    ASSUME ApprovalInv, NEW d \in Rows,
           Interrupt(d) \/ \E k \in Keys : CopyInterrupted(d, k)
    PROVE  (Begun' => Begun) /\ UNCHANGED <<approved, req>>
<1> USE DEF ApprovalInv, Placed, TypeOK, Run, PlaceOK, Begun, AfterApproval, staged, content, Idle
<1>1. CASE Interrupt(d)
  BY <1>1 DEF Interrupt
<1>2. CASE \E k \in Keys : CopyInterrupted(d, k)
  BY <1>2 DEF CopyInterrupted, Copied, Raise
<1> QED
  BY <1>1, <1>2

\* A step of the services around the accrual starts nothing.
LEMMA ApprovalService ==
    ASSUME ApprovalInv,
           \/ ServiceStep \/ DestroyCompleteElements
           \/ \E k \in Keys : TransferFails(k)
           \/ UNCHANGED vars
    PROVE  (Begun' => Begun) /\ UNCHANGED <<approved, req>>
BY DEF ApprovalInv, Placed, TypeOK, Begun, staged, content, table, history,
       ServiceStep, TransferArrives, TransferSeenCopied, AssessorAnswers, AssessDirectory,
       DestroyCompleteElements, TransferFails, vars

\* A request approves only with the role its state asks for.
LEMMA ApprovalRequest ==
    ASSUME ApprovalInv, NEW r \in Requests, RequestStep(r)
    PROVE  (Begun' => approved' # {}) /\ AdminsDecide'
<1> USE DEF ApprovalInv, Placed, TypeOK, Request, Begun, AdminsDecide, AfterApproval,
            staged, content, table, history, Closed, Acting, BeInState
<1>1. ASSUME NEW kind \in {"proceed", "abort"}, NEW role \in {"manager", "admin"},
             LoadRequest(r, kind, role)
      PROVE  (Begun' => approved' # {}) /\ AdminsDecide'
  BY <1>1 DEF LoadRequest, Authorized
<1>2. CASE ApproveInitial(r)
  BY <1>2 DEF ApproveInitial
<1>3. CASE ApproveAdmin(r)
  <2>1. PICK p \in CopyPaths : approved' = approved \cup {[path |-> p, role |-> req[r].role]}
    BY <1>3 DEF ApproveAdmin
  <2>2. req[r].role = "admin" /\ req' = [req EXCEPT ![r] = Closed]
    BY <1>3 DEF ApproveAdmin
  <2> DEFINE approval == [path |-> p, role |-> req[r].role]
  <2>a. approval.role = "admin" /\ approved' = approved \cup {approval}
    BY <2>1, <2>2
  <2> HIDE DEF approval
  <2>3. approved' # {} /\ \A a \in approved' : a.role = "admin"
    BY <2>a
  <2> QED
    BY <2>2, <2>3
<1>4. CASE ApproveRefused(r)
  BY <1>4 DEF ApproveRefused
<1>5. CASE Abort(r)
  BY <1>5 DEF Abort
<1> QED
  BY <1>1, <1>2, <1>3, <1>4, <1>5 DEF RequestStep

\* ApprovalInv holds in every state of every behaviour.
LEMMA ApprovalAlways == Spec => []ApprovalInv
<1>1. Init => ApprovalInv
  <2> SUFFICES ASSUME Init PROVE ApprovalInv
    OBVIOUS
  <2>1. ~Begun
    BY DEF Init, Begun, Idle, AfterApproval
  <2>2. AdminsDecide
    BY DEF Init, AdminsDecide, Unused
  <2> QED
    BY <2>1, <2>2, PlacedInit DEF ApprovalInv
<1>2. ApprovalInv /\ [Next]_vars => ApprovalInv'
  <2> SUFFICES ASSUME ApprovalInv, [Next]_vars PROVE ApprovalInv'
    OBVIOUS
  <2>0. Placed'
    BY PlacedNext DEF ApprovalInv
  <2>1. CASE \E r \in Requests : RequestStep(r)
    BY <2>0, <2>1, ApprovalRequest DEF ApprovalInv
  <2>2. CASE (Begun' => Begun) /\ UNCHANGED <<approved, req>>
    BY <2>0, <2>2 DEF ApprovalInv, AdminsDecide
  <2> QED
    BY <2>1, <2>2, ApprovalWorker, WorkerDecidesNothing, ApprovalFault, ApprovalService
    DEF Next
<1> QED
  BY <1>1, <1>2, PTL DEF Spec

(***************************************************************************)
(* Copying, and every state behind it, needs an approval that was given    *)
(* from state admin_approval by an administrator, however many requests    *)
(* act on stale pages.                                                     *)
(***************************************************************************)
THEOREM CopyOnlyAfterAdminApprovalHolds == Spec => []CopyOnlyAfterAdminApproval
<1>1. ApprovalInv => CopyOnlyAfterAdminApproval
  BY DEF ApprovalInv, Begun, AdminsDecide, CopyOnlyAfterAdminApproval
<1> QED
  BY <1>1, ApprovalAlways, PTL

------------------------------------------------------------------------------
(* No accrual is stranded *)

(***************************************************************************)
(* A row that is lost to an accrual has always been replaced: by the row   *)
(* its perform queued, by itself when it is put back, or, for a row that   *)
(* was destroyed under its worker, by the teardown that destroyed it.      *)
(***************************************************************************)
OrphansExplained ==
    (\E d \in Rows : rows[d].status = "orphan") =>
        \/ torn \/ state = "gone"
        \/ \E e \in BeingWorked : run[e].pc = "destroy_self"

StrandInv == Placed /\ NoStrandedAccrual /\ OrphansExplained
Preserved == NoStrandedAccrual' /\ OrphansExplained'

\* A step after which the accrual needs no more driving than before it.
NoNewDuty == /\ torn' = torn
             /\ state' = state \/ state' \in Waiting \cup {"gone"}
             /\ state = "gone" => state' = "gone"

\* A step that queues a row, whatever state it writes.
LEMMA Enqueued ==
    ASSUME StrandInv, PutInQueue, torn' = torn, state = "gone" => state' = "gone",
           \A e \in Rows : run'[e] = run[e] \/ run[e].pc # "destroy_self"
    PROVE  Preserved
<1>1. PICK n \in FreeRows : rows' = [rows EXCEPT ![n] = Fresh]
  BY DEF PutInQueue
<1>2. n \in Rows /\ rows[n].status = "absent" /\ rows'[n].status = "queued"
  BY <1>1 DEF FreeRows, Fresh, StrandInv, Placed, TypeOK
<1>3. NoStrandedAccrual'
  BY <1>2 DEF NoStrandedAccrual, Drives
<1>4. \A e \in Rows : e # n => rows'[e] = rows[e]
  BY <1>1 DEF StrandInv, Placed, TypeOK
<1>5. OrphansExplained'
  BY <1>2, <1>4 DEF StrandInv, OrphansExplained, BeingWorked
<1> QED
  BY <1>3, <1>5 DEF Preserved

\* A step of a worker that is still to queue a row, or never was.
LEMMA Kept ==
    ASSUME StrandInv, NoNewDuty, UNCHANGED rows,
           \A e \in Rows : \/ run'[e] = run[e]
                           \/ run[e].pc # "destroy_self" /\ (Unfinished(e) => Unfinished(e)')
    PROVE  Preserved
<1>1. \A e \in Rows : Drives(e) => Drives(e)'
  BY DEF Drives, Unfinished
<1>2. NoStrandedAccrual'
  BY <1>1 DEF StrandInv, NoStrandedAccrual, NoNewDuty
<1>3. OrphansExplained'
  BY DEF StrandInv, OrphansExplained, NoNewDuty, BeingWorked
<1> QED
  BY <1>2, <1>3 DEF Preserved

\* A perform that raises outside a teardown.
LEMMA Raised ==
    ASSUME StrandInv, NoNewDuty, NEW d \in BeingWorked, run[d].pc # "destroy_self", Raise(d)
    PROVE  Preserved
<1> USE DEF StrandInv, Placed, TypeOK
<1>0. d \in Rows /\ rows[d].status \in {"running", "orphan"}
  BY DEF BeingWorked
<1>1. \A e \in Rows \ {d} : rows'[e] = rows[e] /\ run'[e] = run[e]
  BY DEF Raise
<1>2. rows'[d].status \in IF rows[d].status = "orphan" THEN {"absent"} ELSE {"queued", "failed"}
  BY <1>0 DEF Raise, AfterRaise, Absent
<1>3. OrphansExplained'
  BY <1>0, <1>1, <1>2 DEF OrphansExplained, NoNewDuty, BeingWorked
<1>4. NoStrandedAccrual'
  <2>1. CASE rows[d].status = "running"
    BY <1>0, <1>2, <2>1 DEF NoStrandedAccrual, Drives
  <2>2. CASE rows[d].status = "orphan" /\ state # "gone" /\ ~torn
    <3>1. PICK e \in BeingWorked : run[e].pc = "destroy_self"
      BY <1>0, <2>2 DEF OrphansExplained
    <3>2. e \in Rows \ {d} /\ Drives(e)'
      BY <1>1, <3>1 DEF Drives, Unfinished, BeingWorked
    <3> QED
      BY <3>2 DEF NoStrandedAccrual
  <2>3. CASE state = "gone" \/ torn
    BY <2>3 DEF NoStrandedAccrual, NoNewDuty
  <2> QED
    BY <1>0, <2>1, <2>2, <2>3
<1> QED
  BY <1>3, <1>4 DEF Preserved

\* A step of a worker leaves a row that drives the accrual.
LEMMA StrandWorker == ASSUME StrandInv, NEW d \in Rows, WorkerStep(d) PROVE Preserved
<1> USE SuccessorStates
    DEF StrandInv, Placed, TypeOK, Run, PlaceOK, NoNewDuty, Waiting, history, table
<1>Reserve. CASE Reserve(d)
  <2>1. \A e \in Rows \ {d} : rows'[e] = rows[e] /\ run'[e] = run[e]
    BY <1>Reserve DEF Reserve, Load
  <2>2. rows[d].status = "queued" /\ rows'[d].status = "running" /\ run'[d].pc = "begin"
    BY <1>Reserve DEF Reserve, Load, Locked, Row
  <2>3. Drives(d)'
    BY <2>2 DEF Drives, Unfinished
  <2> QED
    BY <1>Reserve, <2>1, <2>2, <2>3
    DEF Reserve, Load, Preserved, NoStrandedAccrual, OrphansExplained, BeingWorked
<1>ReserveGone. CASE ReserveGone(d)
  BY <1>ReserveGone DEF ReserveGone, LoadGone, Preserved, NoStrandedAccrual, OrphansExplained
<1>Finish. CASE Finish(d)
  <2>1. \A e \in Rows \ {d} : rows'[e] = rows[e] /\ run'[e] = run[e]
    BY <1>Finish DEF Finish, Complete
  <2>2. rows'[d].status = "absent" /\ ~Drives(d)
    BY <1>Finish DEF Finish, Complete, Absent, Drives, Unfinished, BeingWorked
  <2>3. \A e \in Rows : Drives(e) => e # d /\ Drives(e)'
    BY <2>1, <2>2 DEF Drives, Unfinished
  <2>4. NoStrandedAccrual'
    BY <1>Finish, <2>3 DEF Finish, Complete, NoStrandedAccrual
  <2>5. OrphansExplained'
    BY <1>Finish, <2>1, <2>2 DEF Finish, Complete, OrphansExplained, BeingWorked
  <2> QED
    BY <2>4, <2>5 DEF Preserved
<1>DestroyQueuedJobs. CASE DestroyQueuedJobs(d)
  <2>1. rows'[d].status = "orphan" /\ run'[d].pc = "destroy_self"
    BY <1>DestroyQueuedJobs DEF DestroyQueuedJobs, At, BeingWorked, Destroyed, Move, Row
  <2>2. Drives(d)' /\ d \in BeingWorked'
    BY <2>1 DEF Drives, Unfinished, BeingWorked
  <2> QED
    BY <2>1, <2>2 DEF Preserved, NoStrandedAccrual, OrphansExplained
<1>DestroySelf. CASE DestroySelf(d)
  BY <1>DestroySelf DEF DestroySelf, Preserved, NoStrandedAccrual, OrphansExplained
<1>PerformStart. CASE PerformStart(d)
  BY <1>PerformStart, Enqueued DEF PerformStart, BeInStateAndRequeue, BeInState, At
<1>PerformCheckSync. CASE PerformCheckSync(d)
  BY <1>PerformCheckSync, Enqueued
  DEF PerformCheckSync, BeInStateAndRequeue, BeInState, At
<1>PerformCheckRefuse. CASE PerformCheckRefuse(d)
  BY <1>PerformCheckRefuse, Enqueued
  DEF PerformCheckRefuse, BeInStateAndRequeue, BeInState, At
<1>PerformCheckAccept. CASE PerformCheckAccept(d)
  BY <1>PerformCheckAccept, Kept DEF PerformCheckAccept, At, BeInState, Unfinished
<1>PerformCheckGone. CASE PerformCheckGone(d)
  BY <1>PerformCheckGone, Raised DEF PerformCheckGone, At
<1>MailApproval. CASE MailApproval(d)
  BY <1>MailApproval, Kept DEF MailApproval, At, Move, Unfinished
<1>PerformUnrunnable. CASE PerformUnrunnable(d)
  BY <1>PerformUnrunnable, Raised DEF PerformUnrunnable, At
<1>PerformCopying. CASE PerformCopying(d)
  <2>1. run[d].pc = "begin" /\ run'[d].pc \in {"copy", "overwrite"}
    BY <1>PerformCopying DEF PerformCopying, At
  <2>2. Unfinished(d)'
    BY <2>1 DEF Unfinished
  <2>3. \A e \in Rows \ {d} : run'[e] = run[e]
    BY <1>PerformCopying DEF PerformCopying
  <2> QED
    BY <1>PerformCopying, <2>1, <2>2, <2>3, Kept DEF PerformCopying
<1>CopyKey. CASE \E k \in Keys : CopyKey(d, k)
  BY <1>CopyKey, Kept DEF CopyKey, Unfinished
<1>CopyingDone. CASE CopyingDone(d)
  BY <1>CopyingDone, Enqueued DEF CopyingDone, BeInStateAndRequeue, BeInState, At
<1>CopyingLeftover. CASE CopyingLeftover(d)
  BY <1>CopyingLeftover, Raised DEF CopyingLeftover, At
<1>ResetConflicts. CASE ResetConflicts(d)
  BY <1>ResetConflicts, Kept DEF ResetConflicts, At, Move, Unfinished
<1>RecordDeposit. CASE RecordDeposit(d)
  BY <1>RecordDeposit, Kept DEF RecordDeposit, At, Move, Unfinished
<1>PerformSend. CASE PerformSend(d)
  BY <1>PerformSend, Kept DEF PerformSend, At, Move, Unfinished
<1>SendCopyMessages. CASE SendCopyMessages(d)
  BY <1>SendCopyMessages, Enqueued
  DEF SendCopyMessages, BeInStateAndRequeue, BeInState, At
<1>AwaitCopyFailed. CASE AwaitCopyFailed(d)
  BY <1>AwaitCopyFailed, Raised DEF AwaitCopyFailed, At
<1>AwaitCopy. CASE AwaitCopy(d)
  <2>1. CASE Move(d, "event") /\ UNCHANGED rows
    BY <1>AwaitCopy, <2>1, Kept DEF AwaitCopy, At, Move, Unfinished
  <2>2. CASE Move(d, "done") /\ PutInQueue
    BY <1>AwaitCopy, <2>2, Enqueued DEF AwaitCopy, At, Move
  <2> QED
    BY <1>AwaitCopy, <2>1, <2>2 DEF AwaitCopy
<1>PerformAssessingTwice. CASE PerformAssessingTwice(d)
  BY <1>PerformAssessingTwice, Raised DEF PerformAssessingTwice, At
<1>PerformAssessing. CASE PerformAssessing(d)
  BY <1>PerformAssessing, Kept DEF PerformAssessing, At, Move, Unfinished
<1>AwaitAssessmentFiles. CASE AwaitAssessmentFiles(d)
  BY <1>AwaitAssessmentFiles, Kept DEF AwaitAssessmentFiles, At, Move, Unfinished
<1>AwaitAssessmentDone. CASE AwaitAssessmentDone(d)
  BY <1>AwaitAssessmentDone, Enqueued
  DEF AwaitAssessmentDone, BeInStateAndRequeue, BeInState, At
<1>AwaitAssessmentGivesUp. CASE AwaitAssessmentGivesUp(d)
  BY <1>AwaitAssessmentGivesUp, Raised
  DEF AwaitAssessmentGivesUp, At, AwaitAssessmentPending
<1>AwaitAssessmentRetries. CASE AwaitAssessmentRetries(d)
  BY <1>AwaitAssessmentRetries, Kept
  DEF AwaitAssessmentRetries, At, AwaitAssessmentPending, Move, Unfinished
<1>RetryFiles. CASE RetryFiles(d)
  BY <1>RetryFiles, Kept DEF RetryFiles, At, Move, Unfinished
<1>PollLater. CASE PollLater(d)
  BY <1>PollLater, Enqueued DEF PollLater, At, Move
<1>PerformFinalValidation. CASE PerformFinalValidation(d)
  BY <1>PerformFinalValidation, Enqueued
  DEF PerformFinalValidation, BeInStateAndRequeue, BeInState, At
<1>PerformFinalValidationInvalid. CASE PerformFinalValidationInvalid(d)
  BY <1>PerformFinalValidationInvalid, Raised
  DEF PerformFinalValidationInvalid, At, BeInState
<1>PerformArchive. CASE PerformArchive(d)
  BY <1>PerformArchive, Kept DEF PerformArchive, At, Move, Unfinished
<1>Requeue. CASE Requeue(d)
  BY <1>Requeue, Enqueued DEF Requeue, BeInStateAndRequeue, BeInState, At
<1>PerformEnd. CASE PerformEnd(d)
  BY <1>PerformEnd, Kept DEF PerformEnd, At, Move, Unfinished
<1> QED
  BY <1>Reserve, <1>ReserveGone, <1>Finish, <1>DestroyQueuedJobs, <1>DestroySelf,
     <1>PerformStart, <1>PerformCheckSync, <1>PerformCheckRefuse,
     <1>PerformCheckAccept, <1>PerformCheckGone, <1>MailApproval, <1>PerformUnrunnable,
     <1>PerformCopying, <1>CopyKey, <1>CopyingDone, <1>CopyingLeftover,
     <1>ResetConflicts, <1>RecordDeposit, <1>PerformSend, <1>SendCopyMessages,
     <1>AwaitCopyFailed, <1>AwaitCopy, <1>PerformAssessingTwice, <1>PerformAssessing,
     <1>AwaitAssessmentFiles, <1>AwaitAssessmentDone, <1>AwaitAssessmentGivesUp,
     <1>AwaitAssessmentRetries, <1>RetryFiles, <1>PollLater, <1>PerformFinalValidation,
     <1>PerformFinalValidationInvalid, <1>PerformArchive, <1>Requeue, <1>PerformEnd
  DEF WorkerStep

\* A raise or a crash leaves a row that drives the accrual.
LEMMA StrandFault ==
    ASSUME StrandInv, NEW d \in Rows,
           Interrupt(d) \/ \E k \in Keys : CopyInterrupted(d, k)
    PROVE  Preserved
<1>1. CASE \E k \in Keys : CopyInterrupted(d, k)
  BY <1>1, Raised DEF CopyInterrupted, NoNewDuty
<1>2. CASE Interrupt(d)
  <2> USE DEF StrandInv, Placed, TypeOK
  <2>1. \A e \in Rows \ {d} : rows'[e] = rows[e] /\ run'[e] = run[e]
    BY <1>2 DEF Interrupt
  <2>2. /\ d \in BeingWorked /\ state' = state /\ torn' = (torn \/ run[d].pc = "destroy_self")
        /\ rows'[d] \in {AfterRaise(rows[d]), AfterCrash(rows[d])}
    BY <1>2 DEF Interrupt
  <2>3. rows'[d].status \in IF rows[d].status = "orphan" THEN {"absent"}
                                                      ELSE {"queued", "failed"}
    BY <2>2 DEF AfterRaise, AfterCrash, Absent, BeingWorked, Row
  <2>4. OrphansExplained'
    <3> SUFFICES ASSUME NEW o \in Rows, rows'[o].status = "orphan", ~torn', state # "gone"
                 PROVE  \E e \in BeingWorked' : run'[e].pc = "destroy_self"
      BY <2>2 DEF OrphansExplained
    <3>1. o # d /\ rows[o].status = "orphan"
      BY <2>1, <2>3
    <3>2. PICK e \in BeingWorked : run[e].pc = "destroy_self"
      BY <2>2, <3>1 DEF OrphansExplained
    <3>3. e # d
      BY <2>2, <3>2
    <3> QED
      BY <2>1, <3>2, <3>3 DEF BeingWorked
  <2>5. CASE rows[d].status = "running"
    BY <2>3, <2>4, <2>5 DEF NoStrandedAccrual, Drives, Preserved
  <2>6. CASE rows[d].status = "orphan" /\ state # "gone" /\ ~torn'
    <3>1. PICK e \in BeingWorked : run[e].pc = "destroy_self"
      BY <2>2, <2>6 DEF OrphansExplained, BeingWorked
    <3>2. e \in Rows \ {d} /\ Drives(e)'
      BY <2>1, <2>2, <2>6, <3>1 DEF Drives, Unfinished, BeingWorked
    <3> QED
      BY <2>4, <3>2 DEF NoStrandedAccrual, Preserved
  <2>7. CASE state = "gone" \/ torn'
    BY <2>2, <2>4, <2>7 DEF NoStrandedAccrual, Preserved
  <2> QED
    BY <2>2, <2>5, <2>6, <2>7 DEF BeingWorked
<1> QED
  BY <1>1, <1>2

\* A request that moves the accrual on queues a row for it.
LEMMA StrandRequest ==
    ASSUME StrandInv, NEW r \in Requests, RequestStep(r) PROVE Preserved
<1> USE DEF Waiting, history, table, NoNewDuty, BeInState
<1>1. CASE \E kind \in {"proceed", "abort"}, role \in {"manager", "admin"} :
               LoadRequest(r, kind, role)
  BY <1>1, Kept DEF LoadRequest
<1>2. CASE ApproveInitial(r)
  BY <1>2, Kept DEF ApproveInitial
<1>3. CASE ApproveAdmin(r)
  BY <1>3, Enqueued DEF ApproveAdmin
<1>4. CASE ApproveRefused(r)
  BY <1>4, Kept DEF ApproveRefused
<1>5. CASE Abort(r)
  BY <1>5, Enqueued DEF Abort
<1> QED
  BY <1>1, <1>2, <1>3, <1>4, <1>5 DEF RequestStep

\* The services around the accrual touch neither state nor rows.
LEMMA StrandService ==
    ASSUME StrandInv,
           \/ ServiceStep \/ DestroyCompleteElements
           \/ \E k \in Keys : TransferFails(k)
           \/ UNCHANGED vars
    PROVE  Preserved
<1>1. UNCHANGED <<rows, run, state, torn>>
  BY DEF ServiceStep, TransferArrives, TransferSeenCopied, AssessorAnswers, AssessDirectory,
         DestroyCompleteElements, TransferFails, table, history, vars
<1> QED
  BY <1>1, Kept DEF NoNewDuty

(***************************************************************************)
(* Whatever raises, crashes, runs twice or is requested too late: an       *)
(* accrual that waits for nobody is queued, is being worked on by a worker *)
(* that will queue it, or has a failed row; only a teardown cut between    *)
(* its two halves (job/base.rb:5-8) leaves it with neither.                *)
(***************************************************************************)
THEOREM NoStrandedAccrualHolds == Spec => []NoStrandedAccrual
<1>1. Init => StrandInv
  <2> SUFFICES ASSUME Init PROVE StrandInv
    OBVIOUS
  <2>1. PICK d \in Rows : rows = [e \in Rows |-> IF e = d THEN Fresh ELSE Absent]
    BY DEF Init
  <2>2. rows[d].status = "queued" /\ \A e \in Rows : rows[e].status # "orphan"
    BY <2>1 DEF Fresh, Absent
  <2> QED
    BY <2>2, PlacedInit DEF StrandInv, NoStrandedAccrual, Drives, OrphansExplained
<1>2. StrandInv /\ [Next]_vars => StrandInv'
  <2> SUFFICES ASSUME StrandInv, [Next]_vars PROVE StrandInv'
    OBVIOUS
  <2>1. Placed'
    BY PlacedNext DEF StrandInv
  <2>2. Preserved
    BY StrandWorker, StrandFault, StrandRequest, StrandService DEF Next
  <2> QED
    BY <2>1, <2>2 DEF StrandInv, Preserved
<1> QED
  BY <1>1, <1>2, PTL DEF Spec, StrandInv

------------------------------------------------------------------------------
(* Overwriting needs the submitter's permission *)

\* There is a file in the way and it may not be overwritten.
Blocked == ~submitted.overwrite /\ \E k \in Keys \ DirKeys : target[k] = "old"

\* The states an accrual can be in without having passed the check.
Unchecked == {"start", "check_sync", "check", "aborting", "end", "gone"}

HeldBack == /\ state \in Unchecked
            /\ \A d \in Rows : run[d].mem \in Unchecked
            /\ \A r \in Requests : req[r].kind = "proceed" => req[r].seen \in Unchecked
            /\ \A k \in Keys : transfer[k] = "none"

OverwriteInv == Placed /\ (Blocked => HeldBack)

\* Content changes only when a transfer delivers it or a worker copies it.
LEMMA TargetChange ==
    ASSUME [Next]_vars, target' # target
    PROVE  \/ \E k \in Keys : TransferArrives(k)
           \/ \E d \in Rows, k \in Keys :
                /\ d \in BeingWorked /\ run[d].pc \in {"copy", "overwrite"}
                /\ target' = Copied(d, k)
<1>1. ASSUME NEW d \in Rows, WorkerStep(d), ~\E k \in Keys : CopyKey(d, k)
      PROVE  target' = target
  BY <1>1
  DEF content, WorkerStep, Reserve, ReserveGone, Finish, DestroyQueuedJobs, DestroySelf,
         PerformStart, PerformCheckSync, PerformCheckRefuse, PerformCheckAccept,
         PerformCheckGone, MailApproval, PerformUnrunnable, PerformCopying, CopyKey,
         CopyingDone, CopyingLeftover, ResetConflicts, RecordDeposit, PerformSend,
         SendCopyMessages, AwaitCopyFailed, AwaitCopy, PerformAssessingTwice,
         PerformAssessing, AwaitAssessmentFiles, AwaitAssessmentDone,
         AwaitAssessmentGivesUp, AwaitAssessmentRetries, RetryFiles, PollLater,
         PerformFinalValidation, PerformFinalValidationInvalid, PerformArchive,
         Requeue, PerformEnd
<1>2. ASSUME NEW d \in Rows, NEW k \in Keys, CopyKey(d, k) \/ CopyInterrupted(d, k)
      PROVE  /\ d \in BeingWorked /\ run[d].pc \in {"copy", "overwrite"}
             /\ target' = Copied(d, k)
  BY <1>2 DEF CopyKey, CopyInterrupted
<1>3. ASSUME NEW d \in Rows, Interrupt(d) PROVE target' = target
  BY <1>3 DEF Interrupt, content
<1>4. ASSUME \/ ServiceStep \/ DestroyCompleteElements
             \/ \E k \in Keys : TransferFails(k)
             \/ \E r \in Requests : RequestStep(r)
             \/ UNCHANGED vars
      PROVE  target' = target \/ \E k \in Keys : TransferArrives(k)
  BY <1>4
  DEF vars, content, ServiceStep, TransferSeenCopied, AssessorAnswers, AssessDirectory,
      DestroyCompleteElements, TransferFails, RequestStep, LoadRequest, ApproveInitial,
      ApproveAdmin, ApproveRefused, Abort
<1> QED
  BY <1>1, <1>2, <1>3, <1>4 DEF Next

\* What was submitted is never changed, so neither is whether it can overwrite.
LEMMA BlockedFromStart ==
    ASSUME TypeOK, [Next]_vars PROVE Blocked' => Blocked
<1>1. submitted' = submitted
  <2>1. ASSUME NEW d \in Rows, WorkerStep(d) PROVE submitted' = submitted
    BY <2>1
    DEF staged, WorkerStep, Reserve, ReserveGone, Finish, DestroyQueuedJobs, DestroySelf,
        PerformStart, PerformCheckSync, PerformCheckRefuse, PerformCheckAccept,
        PerformCheckGone, MailApproval, PerformUnrunnable, PerformCopying, CopyKey,
        CopyingDone, CopyingLeftover, ResetConflicts, RecordDeposit, PerformSend,
        SendCopyMessages, AwaitCopyFailed, AwaitCopy, PerformAssessingTwice,
        PerformAssessing, AwaitAssessmentFiles, AwaitAssessmentDone,
        AwaitAssessmentGivesUp, AwaitAssessmentRetries, RetryFiles, PollLater,
        PerformFinalValidation, PerformFinalValidationInvalid, PerformArchive,
        Requeue, PerformEnd
  <2>2. ASSUME NEW d \in Rows, Interrupt(d) \/ \E k \in Keys : CopyInterrupted(d, k)
        PROVE  submitted' = submitted
    BY <2>2 DEF Interrupt, CopyInterrupted, staged
  <2>3. ASSUME \/ ServiceStep \/ DestroyCompleteElements
               \/ \E k \in Keys : TransferFails(k)
               \/ \E r \in Requests : RequestStep(r)
               \/ UNCHANGED vars
        PROVE  submitted' = submitted
    BY <2>3
    DEF vars, staged, ServiceStep, TransferArrives, TransferSeenCopied, AssessorAnswers,
        AssessDirectory, DestroyCompleteElements, TransferFails, RequestStep, LoadRequest,
        ApproveInitial, ApproveAdmin, ApproveRefused, Abort
  <2> QED
    BY <2>1, <2>2, <2>3 DEF Next
<1>2. \A k \in Keys : target'[k] = "old" => target[k] = "old"
  BY TargetChange DEF TransferArrives, Copied, TypeOK
<1> QED
  BY <1>1, <1>2 DEF Blocked

\* A step of a worker of a refusable accrual takes it no further than its end.
LEMMA HeldBackWorker ==
    ASSUME Placed, Blocked, HeldBack, NEW d \in Rows, WorkerStep(d)
    PROVE  HeldBack'
<1> USE SuccessorStates
    DEF Placed, TypeOK, Run, PlaceOK, HeldBack, Unchecked, staged, content, table
<1>Reserve. CASE Reserve(d)
  BY <1>Reserve DEF Reserve, Load
<1>ReserveGone. CASE ReserveGone(d)
  BY <1>ReserveGone DEF ReserveGone, LoadGone
<1>Finish. CASE Finish(d)
  BY <1>Finish DEF Finish, Complete, Idle
<1>DestroyQueuedJobs. CASE DestroyQueuedJobs(d)
  BY <1>DestroyQueuedJobs DEF DestroyQueuedJobs, At, Move
<1>DestroySelf. CASE DestroySelf(d)
  BY <1>DestroySelf DEF DestroySelf, At, Idle
<1>PerformStart. CASE PerformStart(d)
  BY <1>PerformStart DEF PerformStart, BeInStateAndRequeue, BeInState, At
<1>PerformCheckSync. CASE PerformCheckSync(d)
  BY <1>PerformCheckSync DEF PerformCheckSync, BeInStateAndRequeue, BeInState, At
<1>PerformCheckRefuse. CASE PerformCheckRefuse(d)
  BY <1>PerformCheckRefuse DEF PerformCheckRefuse, BeInStateAndRequeue, BeInState, At
<1>PerformCheckAccept. CASE PerformCheckAccept(d)
  BY <1>PerformCheckAccept DEF PerformCheckAccept, Blocked, Refusable, Duplicates, Stored
<1>PerformCheckGone. CASE PerformCheckGone(d)
  BY <1>PerformCheckGone DEF PerformCheckGone, Raise, Idle
<1>MailApproval. CASE MailApproval(d)
  BY <1>MailApproval DEF MailApproval, At, Move
<1>PerformUnrunnable. CASE PerformUnrunnable(d)
  BY <1>PerformUnrunnable DEF PerformUnrunnable, Raise, Idle
<1>PerformCopying. CASE PerformCopying(d)
  BY <1>PerformCopying DEF PerformCopying, At
<1>CopyKey. CASE \E k \in Keys : CopyKey(d, k)
  BY <1>CopyKey DEF CopyKey
<1>CopyingDone. CASE CopyingDone(d)
  BY <1>CopyingDone DEF CopyingDone, BeInStateAndRequeue, BeInState, At
<1>CopyingLeftover. CASE CopyingLeftover(d)
  BY <1>CopyingLeftover DEF CopyingLeftover, Raise, Idle
<1>ResetConflicts. CASE ResetConflicts(d)
  BY <1>ResetConflicts DEF ResetConflicts, Move
<1>RecordDeposit. CASE RecordDeposit(d)
  BY <1>RecordDeposit DEF RecordDeposit, Move
<1>PerformSend. CASE PerformSend(d)
  BY <1>PerformSend DEF PerformSend, At, Move
<1>SendCopyMessages. CASE SendCopyMessages(d)
  BY <1>SendCopyMessages DEF SendCopyMessages, BeInStateAndRequeue, BeInState, At
<1>AwaitCopyFailed. CASE AwaitCopyFailed(d)
  BY <1>AwaitCopyFailed DEF AwaitCopyFailed, Raise, Idle
<1>AwaitCopy. CASE AwaitCopy(d)
  BY <1>AwaitCopy DEF AwaitCopy, At
<1>PerformAssessingTwice. CASE PerformAssessingTwice(d)
  BY <1>PerformAssessingTwice DEF PerformAssessingTwice, Raise, Idle
<1>PerformAssessing. CASE PerformAssessing(d)
  BY <1>PerformAssessing DEF PerformAssessing, At, Move
<1>AwaitAssessmentFiles. CASE AwaitAssessmentFiles(d)
  BY <1>AwaitAssessmentFiles DEF AwaitAssessmentFiles, At, Move
<1>AwaitAssessmentDone. CASE AwaitAssessmentDone(d)
  BY <1>AwaitAssessmentDone DEF AwaitAssessmentDone, BeInStateAndRequeue, BeInState, At
<1>AwaitAssessmentGivesUp. CASE AwaitAssessmentGivesUp(d)
  BY <1>AwaitAssessmentGivesUp DEF AwaitAssessmentGivesUp, Raise, Idle
<1>AwaitAssessmentRetries. CASE AwaitAssessmentRetries(d)
  BY <1>AwaitAssessmentRetries
  DEF AwaitAssessmentRetries, At, Move, AwaitAssessmentPending
<1>RetryFiles. CASE RetryFiles(d)
  BY <1>RetryFiles DEF RetryFiles, At, Move
<1>PollLater. CASE PollLater(d)
  BY <1>PollLater DEF PollLater, At, Move
<1>PerformFinalValidation. CASE PerformFinalValidation(d)
  BY <1>PerformFinalValidation
  DEF PerformFinalValidation, BeInStateAndRequeue, BeInState, At
<1>PerformFinalValidationInvalid. CASE PerformFinalValidationInvalid(d)
  BY <1>PerformFinalValidationInvalid
  DEF PerformFinalValidationInvalid, At, Raise, Idle, BeInState
<1>PerformArchive. CASE PerformArchive(d)
  BY <1>PerformArchive DEF PerformArchive, At, Move
<1>Requeue. CASE Requeue(d)
  BY <1>Requeue DEF Requeue, BeInStateAndRequeue, BeInState, At
<1>PerformEnd. CASE PerformEnd(d)
  BY <1>PerformEnd DEF PerformEnd, Move
<1> QED
  BY <1>Reserve, <1>ReserveGone, <1>Finish, <1>DestroyQueuedJobs, <1>DestroySelf,
     <1>PerformStart, <1>PerformCheckSync, <1>PerformCheckRefuse,
     <1>PerformCheckAccept, <1>PerformCheckGone, <1>MailApproval, <1>PerformUnrunnable,
     <1>PerformCopying, <1>CopyKey, <1>CopyingDone, <1>CopyingLeftover,
     <1>ResetConflicts, <1>RecordDeposit, <1>PerformSend, <1>SendCopyMessages,
     <1>AwaitCopyFailed, <1>AwaitCopy, <1>PerformAssessingTwice, <1>PerformAssessing,
     <1>AwaitAssessmentFiles, <1>AwaitAssessmentDone, <1>AwaitAssessmentGivesUp,
     <1>AwaitAssessmentRetries, <1>RetryFiles, <1>PollLater, <1>PerformFinalValidation,
     <1>PerformFinalValidationInvalid, <1>PerformArchive, <1>Requeue, <1>PerformEnd
  DEF WorkerStep

\* Neither does any other step.
LEMMA HeldBackOther ==
    ASSUME Placed, Blocked, HeldBack,
           \/ \E d \in Rows : Interrupt(d) \/ \E k \in Keys : CopyInterrupted(d, k)
           \/ ServiceStep \/ DestroyCompleteElements
           \/ \E k \in Keys : TransferFails(k)
           \/ \E r \in Requests : RequestStep(r)
           \/ UNCHANGED vars
    PROVE  HeldBack'
<1> USE DEF Placed, TypeOK, Run, Request, HeldBack, Unchecked, staged, content, table, history
<1>1. CASE \E d \in Rows : Interrupt(d) \/ \E k \in Keys : CopyInterrupted(d, k)
  <2>1. PICK d \in Rows : run' = [run EXCEPT ![d] = Idle]
    BY <1>1, FaultDrops
  <2>2. UNCHANGED <<state, transfer, req>>
    BY <1>1, FaultDrops
  <2> QED
    BY <2>1, <2>2 DEF Idle
<1>2. CASE \/ ServiceStep \/ DestroyCompleteElements
           \/ \E k \in Keys : TransferFails(k)
           \/ UNCHANGED vars
  BY <1>2
  DEF ServiceStep, TransferArrives, TransferSeenCopied, AssessorAnswers, AssessDirectory,
      DestroyCompleteElements, TransferFails, vars
<1>3. CASE \E r \in Requests : RequestStep(r)
  <2>1. PICK r \in Requests : RequestStep(r)
    BY <1>3
  <2>2. UNCHANGED <<run, transfer>>
    BY <2>1
    DEF RequestStep, LoadRequest, ApproveInitial, ApproveAdmin, ApproveRefused, Abort
  <2>3. state' \in {state, "aborting"}
    BY <2>1
    DEF RequestStep, LoadRequest, ApproveInitial, ApproveAdmin, ApproveRefused, Abort,
        Acting, BeInState
  <2>4. \A q \in Requests :
          req'[q] \in {req[q], Closed} \/ req'[q].seen = state
    BY <2>1
    DEF RequestStep, LoadRequest, ApproveInitial, ApproveAdmin, ApproveRefused, Abort, Acting
  <2> QED
    BY <2>2, <2>3, <2>4 DEF Closed
<1> QED
  BY <1>1, <1>2, <1>3

(***************************************************************************)
(* A file that was at the destination is replaced only if the submitter    *)
(* allowed it: without permission no path, however many workers repeat the *)
(* check, leads to a copy.                                                 *)
(***************************************************************************)
THEOREM OverwriteOnlyIfAllowedHolds == Spec => OverwriteOnlyIfAllowed
<1>1. Init => OverwriteInv
  <2> SUFFICES ASSUME Init PROVE OverwriteInv
    OBVIOUS
  <2> QED
    BY PlacedInit DEF Init, OverwriteInv, HeldBack, Unchecked, Idle, Unused
<1>2. OverwriteInv /\ [Next]_vars => OverwriteInv'
  <2> SUFFICES ASSUME OverwriteInv, [Next]_vars, Blocked' PROVE HeldBack'
    BY PlacedNext DEF OverwriteInv
  <2>1. Blocked /\ HeldBack
    BY BlockedFromStart DEF OverwriteInv, Placed
  <2> QED
    BY <2>1, HeldBackWorker, HeldBackOther DEF Next, OverwriteInv
<1>3. OverwriteInv /\ [Next]_vars =>
        \A k \in Keys \ DirKeys :
            target[k] = "old" /\ target'[k] # "old" => submitted.overwrite
  <2> SUFFICES ASSUME OverwriteInv, [Next]_vars, NEW k \in Keys \ DirKeys,
                      target[k] = "old", target'[k] # "old", ~submitted.overwrite
               PROVE  FALSE
    OBVIOUS
  <2>1. HeldBack /\ TypeOK /\ \A d \in Rows : PlaceOK(run[d])
    BY DEF OverwriteInv, Blocked, Placed
  <2>2. \A d \in Rows : run[d].pc \notin {"copy", "overwrite"}
    BY <2>1 DEF HeldBack, Unchecked, PlaceOK
  <2>3. \A i \in Keys : ~TransferArrives(i)
    BY <2>1 DEF HeldBack, TransferArrives
  <2>4. target' = target
    BY <2>2, <2>3, TargetChange DEF BeingWorked
  <2> QED
    BY <2>4
<1> QED
  BY <1>1, <1>2, <1>3, PTL DEF Spec, OverwriteOnlyIfAllowed
------------------------------------------------------------------------------
(* What is recorded as deposited or completed was delivered *)

ViaGlobus == \E a \in approved : a.path = "send_copy_messages"

\* What only an accrual that is copied by Globus can show.
GlobusStates == {"send_copy_messages", "await_copy_messages"}
Sending == \/ state \in GlobusStates
           \/ \E d \in Rows : run[d].mem \in GlobusStates
           \/ \E k \in Keys : transfer[k] # "none"

\* What only an accrual that passed the check can show.
Approvable == {"initial_approval", "admin_approval"}
Accepted == \/ approved # {} \/ state \in Approvable
            \/ \E r \in Requests : req[r].kind = "proceed" /\ req[r].seen \in Approvable

AllDelivered == \A k \in Keys : Delivered(k)
OldAreDirs   == \A k \in Keys : target[k] = "old" => k \in DirKeys

\* The states entered when no key is left, and the workers past that point.
Later == {"assessing", "await_assessment", "final_validation", "email_done"}
Through(r) == \/ r.mem \in Later
              \/ r.pc = "event"
              \/ r.mem = "await_copy_messages" /\ r.pc = "requeue"

\* A key that is not left to copy was delivered; a file that was in the way at
\* the check is known as a conflict.  Both are lost with the record.
KeysTell == Accepted /\ state # "gone" =>
                /\ \A k \in Keys \ keys : Delivered(k)
                /\ \A k \in Keys \ DirKeys : target[k] = "old" => k \in conflicts

\* A worker that copies without overwriting has no file to overwrite.
BatchTells == \A d \in Rows : run[d].pc = "copy" => run[d].batch = {} \/ OldAreDirs

\* A worker of a record that is gone goes on, but starts nothing new.
LaterTells == /\ state \in Later => AllDelivered
              /\ \A d \in Rows :
                   /\ Through(run[d]) => state = "gone" \/ AllDelivered
                   /\ run[d].mem = "email_done" /\ run[d].pc = "begin" => AllDelivered

DeliveryInv == /\ Sending => ViaGlobus
               /\ \A k \in Keys : transfer[k] = "succeeded" => target[k] # "absent"
               /\ state = "gone" => keys = {}
               /\ KeysTell /\ BatchTells /\ LaterTells
               /\ CompletedIsDelivered /\ DepositIsTruthful

\* An approval is never taken back, and only ApproveAdmin adds one.
LEMMA ApprovedGrows ==
    ASSUME [Next]_vars
    PROVE  /\ approved \subseteq approved'
           /\ approved' = approved \/ \E r \in Requests : ApproveAdmin(r)
<1>1. ASSUME NEW d \in Rows, Interrupt(d) \/ \E k \in Keys : CopyInterrupted(d, k)
      PROVE  approved' = approved
  BY <1>1 DEF Interrupt, CopyInterrupted
<1>2. ASSUME \/ ServiceStep \/ DestroyCompleteElements
             \/ \E k \in Keys : TransferFails(k)
             \/ UNCHANGED vars
      PROVE  approved' = approved
  BY <1>2
  DEF ServiceStep, TransferArrives, TransferSeenCopied, AssessorAnswers, AssessDirectory,
      DestroyCompleteElements, TransferFails, vars, history
<1>3. ASSUME NEW r \in Requests, RequestStep(r)
      PROVE  approved' = approved \/ (ApproveAdmin(r) /\ approved \subseteq approved')
  BY <1>3
  DEF RequestStep, LoadRequest, ApproveInitial, ApproveAdmin, ApproveRefused, Abort, history
<1> QED
  BY <1>1, <1>2, <1>3, WorkerDecidesNothing DEF Next

\* What was delivered stays delivered, what was not there when the accrual
\* began is never old content, and what is there stays there.
LEMMA DeliveredStays ==
    ASSUME TypeOK, [Next]_vars, NEW k \in Keys
    PROVE  /\ Delivered(k) => Delivered(k)'
           /\ target'[k] = "old" => target[k] = "old"
           /\ target[k] # "absent" => target'[k] # "absent"
<1>1. /\ target[k] = "new" => target'[k] = "new"
      /\ target[k] = "old" => target'[k] \in {"old", "new"}
      /\ target'[k] = "old" => target[k] = "old"
  BY TargetChange DEF TransferArrives, Copied, TypeOK
<1>2. target[k] \in {"absent", "old", "new"} /\ approved \subseteq approved'
  BY ApprovedGrows DEF TypeOK
<1> QED
  BY <1>1, <1>2 DEF Delivered

\* What a step of worker d can do to what the workers hold and to the state.
MovesOn(d) ==
    /\ \A e \in Rows \ {d} : run'[e] = run[e]
    /\ state = "gone" => state' = "gone"
    /\ state' = "gone" => state = "gone" \/ DestroySelf(d)
    /\ Through(run'[d]) =>
         \/ Through(run[d]) \/ state \in Later \/ CopyingDone(d)
         \/ AwaitCopy(d) /\ Copying = {}
    /\ state' \in Later =>
         \/ state \in Later
         \/ state # "gone" /\ (Through(run[d]) \/ CopyingDone(d))
    /\ run'[d].mem = "email_done" /\ run'[d].pc = "begin" =>
         state = "email_done" \/ (run[d].mem = "email_done" /\ run[d].pc = "begin")
    /\ run'[d].pc = "copy" =>
         \/ run[d].pc = "copy" /\ run'[d].batch \subseteq run[d].batch
         \/ run[d].mem = "copying" /\ run'[d].batch = keys /\ conflicts = {}
    /\ run'[d].mem \in GlobusStates => run[d].mem \in GlobusStates \/ state \in GlobusStates
    /\ state' \in GlobusStates => state \in GlobusStates \/ run[d].mem \in GlobusStates
    /\ state' \in Approvable => state \in Approvable \/ PerformCheckAccept(d)

\* Every step of a worker moves it so.
LEMMA WorkerMovesOn == ASSUME Placed, NEW d \in Rows, WorkerStep(d) PROVE MovesOn(d)
<1> USE SuccessorStates
    DEF Placed, TypeOK, Run, PlaceOK, MovesOn, Through, Later, GlobusStates, Approvable, table
<1>Reserve. CASE Reserve(d)
  BY <1>Reserve DEF Reserve, Load
<1>ReserveGone. CASE ReserveGone(d)
  BY <1>ReserveGone DEF ReserveGone, LoadGone
<1>Finish. CASE Finish(d)
  BY <1>Finish DEF Finish, Complete, Idle
<1>DestroyQueuedJobs. CASE DestroyQueuedJobs(d)
  BY <1>DestroyQueuedJobs DEF DestroyQueuedJobs, At, Move
<1>DestroySelf. CASE DestroySelf(d)
  BY <1>DestroySelf DEF DestroySelf, At, Idle
<1>PerformStart. CASE PerformStart(d)
  BY <1>PerformStart DEF PerformStart, BeInStateAndRequeue, BeInState, At
<1>PerformCheckSync. CASE PerformCheckSync(d)
  BY <1>PerformCheckSync DEF PerformCheckSync, BeInStateAndRequeue, BeInState, At
<1>PerformCheckRefuse. CASE PerformCheckRefuse(d)
  BY <1>PerformCheckRefuse DEF PerformCheckRefuse, BeInStateAndRequeue, BeInState, At
<1>PerformCheckAccept. CASE PerformCheckAccept(d)
  BY <1>PerformCheckAccept DEF PerformCheckAccept, At, BeInState
<1>PerformCheckGone. CASE PerformCheckGone(d)
  BY <1>PerformCheckGone DEF PerformCheckGone, Raise, Idle
<1>MailApproval. CASE MailApproval(d)
  BY <1>MailApproval DEF MailApproval, At, Move
<1>PerformUnrunnable. CASE PerformUnrunnable(d)
  BY <1>PerformUnrunnable DEF PerformUnrunnable, Raise, Idle
<1>PerformCopying. CASE PerformCopying(d)
  BY <1>PerformCopying DEF PerformCopying, At
<1>CopyKey. CASE \E k \in Keys : CopyKey(d, k)
  BY <1>CopyKey DEF CopyKey
<1>CopyingDone. CASE CopyingDone(d)
  BY <1>CopyingDone DEF CopyingDone, BeInStateAndRequeue, BeInState, At
<1>CopyingLeftover. CASE CopyingLeftover(d)
  BY <1>CopyingLeftover DEF CopyingLeftover, Raise, Idle
<1>ResetConflicts. CASE ResetConflicts(d)
  BY <1>ResetConflicts DEF ResetConflicts, Move
<1>RecordDeposit. CASE RecordDeposit(d)
  BY <1>RecordDeposit DEF RecordDeposit, Move
<1>PerformSend. CASE PerformSend(d)
  BY <1>PerformSend DEF PerformSend, At, Move
<1>SendCopyMessages. CASE SendCopyMessages(d)
  BY <1>SendCopyMessages DEF SendCopyMessages, BeInStateAndRequeue, BeInState, At
<1>AwaitCopyFailed. CASE AwaitCopyFailed(d)
  BY <1>AwaitCopyFailed DEF AwaitCopyFailed, Raise, Idle
<1>AwaitCopy. CASE AwaitCopy(d)
  BY <1>AwaitCopy DEF AwaitCopy, At, Move
<1>PerformAssessingTwice. CASE PerformAssessingTwice(d)
  BY <1>PerformAssessingTwice DEF PerformAssessingTwice, Raise, Idle
<1>PerformAssessing. CASE PerformAssessing(d)
  BY <1>PerformAssessing DEF PerformAssessing, At, Move
<1>AwaitAssessmentFiles. CASE AwaitAssessmentFiles(d)
  BY <1>AwaitAssessmentFiles DEF AwaitAssessmentFiles, At, Move
<1>AwaitAssessmentDone. CASE AwaitAssessmentDone(d)
  BY <1>AwaitAssessmentDone DEF AwaitAssessmentDone, BeInStateAndRequeue, BeInState, At
<1>AwaitAssessmentGivesUp. CASE AwaitAssessmentGivesUp(d)
  BY <1>AwaitAssessmentGivesUp DEF AwaitAssessmentGivesUp, Raise, Idle
<1>AwaitAssessmentRetries. CASE AwaitAssessmentRetries(d)
  BY <1>AwaitAssessmentRetries
  DEF AwaitAssessmentRetries, At, Move, AwaitAssessmentPending
<1>RetryFiles. CASE RetryFiles(d)
  BY <1>RetryFiles DEF RetryFiles, At, Move
<1>PollLater. CASE PollLater(d)
  BY <1>PollLater DEF PollLater, At, Move
<1>PerformFinalValidation. CASE PerformFinalValidation(d)
  BY <1>PerformFinalValidation
  DEF PerformFinalValidation, BeInStateAndRequeue, BeInState, At
<1>PerformFinalValidationInvalid. CASE PerformFinalValidationInvalid(d)
  BY <1>PerformFinalValidationInvalid
  DEF PerformFinalValidationInvalid, At, Raise, Idle, BeInState
<1>PerformArchive. CASE PerformArchive(d)
  BY <1>PerformArchive DEF PerformArchive, At, Move
<1>Requeue. CASE Requeue(d)
  BY <1>Requeue DEF Requeue, BeInStateAndRequeue, BeInState, At
<1>PerformEnd. CASE PerformEnd(d)
  BY <1>PerformEnd DEF PerformEnd, At, Move
<1> QED
  BY <1>Reserve, <1>ReserveGone, <1>Finish, <1>DestroyQueuedJobs, <1>DestroySelf,
     <1>PerformStart, <1>PerformCheckSync, <1>PerformCheckRefuse,
     <1>PerformCheckAccept, <1>PerformCheckGone, <1>MailApproval, <1>PerformUnrunnable,
     <1>PerformCopying, <1>CopyKey, <1>CopyingDone, <1>CopyingLeftover,
     <1>ResetConflicts, <1>RecordDeposit, <1>PerformSend, <1>SendCopyMessages,
     <1>AwaitCopyFailed, <1>AwaitCopy, <1>PerformAssessingTwice, <1>PerformAssessing,
     <1>AwaitAssessmentFiles, <1>AwaitAssessmentDone, <1>AwaitAssessmentGivesUp,
     <1>AwaitAssessmentRetries, <1>RetryFiles, <1>PollLater, <1>PerformFinalValidation,
     <1>PerformFinalValidationInvalid, <1>PerformArchive, <1>Requeue, <1>PerformEnd
  DEF WorkerStep

\* What a step of worker d can do to keys, conflicts, transfers and records.
LEMMA WorkerWrites ==
    ASSUME TypeOK, NEW d \in Rows, WorkerStep(d)
    PROVE  /\ \/ keys' = keys
              \/ PerformCheckAccept(d)
              \/ \E k \in Keys : CopyKey(d, k)
              \/ run[d].mem = "await_copy_messages" /\ keys' = Copying
              \/ state' = "gone" /\ keys' = {}
           /\ conflicts \subseteq conflicts' \/ state' = "gone"
           /\ \A k \in Keys :
                /\ transfer'[k] = "succeeded" => transfer[k] = "succeeded"
                /\ transfer'[k] # "none" =>
                     transfer[k] # "none" \/ run[d].mem = "send_copy_messages"
           /\ archived \subseteq archived' /\ (refused => refused')
           /\ "completed" \in archived' =>
                \/ "completed" \in archived
                \/ run[d].mem = "email_done" /\ run[d].pc = "begin"
           /\ deposited' => deposited \/ run[d].pc = "event"
<1> USE DEF TypeOK, staged, outcome
<1>1. CASE PerformCheckRefuse(d) \/ PerformCheckAccept(d)
  BY <1>1 DEF PerformCheckRefuse, PerformCheckAccept
<1>2. CASE DestroySelf(d)
  BY <1>2 DEF DestroySelf
<1>3. CASE \E k \in Keys : CopyKey(d, k)
  <2>1. UNCHANGED <<conflicts, transfer, archived, refused, deposited>>
    BY <1>3 DEF CopyKey
  <2> QED
    BY <1>3, <2>1
<1>4. CASE AwaitCopyFailed(d) \/ AwaitCopy(d)
  BY <1>4 DEF AwaitCopyFailed, AwaitCopy, At
<1>5. CASE SendCopyMessages(d)
  BY <1>5 DEF SendCopyMessages, At
<1>6. CASE RecordDeposit(d)
  BY <1>6 DEF RecordDeposit
<1>7. CASE PerformArchive(d)
  BY <1>7 DEF PerformArchive, At
<1>8. CASE ~(\/ PerformCheckRefuse(d) \/ PerformCheckAccept(d) \/ DestroySelf(d)
             \/ (\E k \in Keys : CopyKey(d, k)) \/ AwaitCopyFailed(d) \/ AwaitCopy(d)
             \/ SendCopyMessages(d) \/ RecordDeposit(d) \/ PerformArchive(d))
  <2>1. UNCHANGED <<keys, conflicts, transfer, archived, refused, deposited>>
    BY <1>8
    DEF WorkerStep, Reserve, ReserveGone, Finish, DestroyQueuedJobs, PerformStart,
        PerformCheckSync, PerformCheckGone, MailApproval, PerformUnrunnable, PerformCopying,
        CopyingDone, CopyingLeftover, ResetConflicts, PerformSend, PerformAssessingTwice,
        PerformAssessing, AwaitAssessmentFiles, AwaitAssessmentDone, AwaitAssessmentGivesUp,
        AwaitAssessmentRetries, RetryFiles, PollLater, PerformFinalValidation,
        PerformFinalValidationInvalid, Requeue, PerformEnd
  <2> QED
    BY <2>1
<1> QED
  BY <1>1, <1>2, <1>3, <1>4, <1>5, <1>6, <1>7, <1>8

\* With no key left, everything was delivered, unless the record is gone.
LEMMA NothingLeft ==
    ASSUME ApprovalInv, DeliveryInv, NEW d \in Rows,
           CopyingDone(d) \/ (AwaitCopy(d) /\ Copying = {})
    PROVE  state = "gone" \/ AllDelivered
<1> SUFFICES ASSUME state # "gone", NEW k \in Keys PROVE Delivered(k)
  BY DEF AllDelivered
<1> USE DEF ApprovalInv, Placed, TypeOK
<1>1. run[d].mem \in {"copying", "await_copy_messages"}
  BY DEF CopyingDone, BeingWorked, PlaceOK, AwaitCopy, At
<1>2. Accepted
  BY <1>1 DEF Begun, AfterApproval, Accepted
<1>3. CASE k \notin keys
  BY <1>2, <1>3 DEF DeliveryInv, KeysTell
<1>4. CASE k \in keys
  <2>1. AwaitCopy(d) /\ transfer[k] = "succeeded"
    BY <1>4 DEF CopyingDone, Copying
  <2>2. ViaGlobus
    BY <2>1 DEF DeliveryInv, Sending
  <2>3. target[k] \in {"old", "new"}
    BY <2>1 DEF DeliveryInv
  <2> QED
    BY <2>2, <2>3 DEF Delivered, ViaGlobus
<1> QED
  BY <1>3, <1>4

\* A step of a worker leaves the keys telling what was delivered.
LEMMA KeysTellWorker ==
    ASSUME ApprovalInv, DeliveryInv, [Next]_vars, NEW d \in Rows, WorkerStep(d)
    PROVE  KeysTell'
<1> SUFFICES ASSUME Accepted', state' # "gone"
             PROVE  /\ \A k \in Keys \ keys' : Delivered(k)'
                    /\ \A k \in Keys \ DirKeys : target'[k] = "old" => k \in conflicts'
  BY DEF KeysTell
<1>0. TypeOK /\ Placed /\ MovesOn(d)
  BY WorkerMovesOn DEF ApprovalInv, Placed
<1>1. CASE PerformCheckAccept(d)
  BY <1>0, <1>1
  DEF PerformCheckAccept, Duplicates, Stored, content, TypeOK
<1>2. CASE ~PerformCheckAccept(d)
  <2>1. state # "gone"
    BY <1>0 DEF MovesOn
  <2>2. Accepted
    BY <1>0, <1>2, WorkerDecidesNothing DEF MovesOn, Accepted
  <2>3. /\ \A k \in Keys \ keys : Delivered(k)
        /\ \A k \in Keys \ DirKeys : target[k] = "old" => k \in conflicts
    BY <2>1, <2>2 DEF DeliveryInv, KeysTell
  <2>4. \A k \in Keys \ DirKeys : target'[k] = "old" => k \in conflicts'
    BY <1>0, <2>3, DeliveredStays, WorkerWrites
  <2>5. \A k \in Keys \ keys : Delivered(k)'
    BY <1>0, <2>3, DeliveredStays
  <2>6. ASSUME NEW k \in keys, k \notin keys' PROVE Delivered(k)'
    <3>1. CASE \E j \in Keys : CopyKey(d, j)
      <4>1. CopyKey(d, k)
        BY <1>0, <2>6, <3>1 DEF CopyKey, TypeOK
      <4>2. k \in Keys /\ target'[k] = Copied(d, k)[k] /\ k \in run[d].batch
        BY <1>0, <4>1 DEF CopyKey, TypeOK
      <4>3. target'[k] = "new" \/ (target'[k] = "old" /\ target[k] = "old" /\ run[d].pc = "copy")
        BY <1>0, <4>1, <4>2 DEF Copied, TypeOK, CopyKey
      <4>4. target'[k] = "old" => k \in DirKeys
        BY <4>2, <4>3 DEF DeliveryInv, BatchTells, OldAreDirs
      <4> QED
        BY <4>3, <4>4 DEF Delivered
    <3>2. CASE run[d].mem = "await_copy_messages" /\ keys' = Copying
      <4>1. k \in Keys /\ transfer[k] = "succeeded" /\ ViaGlobus
        BY <1>0, <2>6, <3>2 DEF Copying, DeliveryInv, Sending, GlobusStates, TypeOK
      <4>2. target[k] \in {"old", "new"}
        BY <1>0, <4>1 DEF DeliveryInv, TypeOK
      <4>3. Delivered(k)
        BY <4>1, <4>2 DEF Delivered, ViaGlobus
      <4> QED
        BY <1>0, <4>1, <4>3, DeliveredStays
    <3> QED
      BY <1>0, <1>2, <2>6, <3>1, <3>2, WorkerWrites
  <2> QED
    BY <1>0, <2>4, <2>5, <2>6
<1> QED
  BY <1>1, <1>2

\* A step of a worker.
LEMMA DeliveryWorker ==
    ASSUME ApprovalInv, ConcludedInv, DeliveryInv, [Next]_vars, NEW d \in Rows, WorkerStep(d)
    PROVE  DeliveryInv'
<1>0. TypeOK /\ Placed /\ MovesOn(d) /\ UNCHANGED <<approved, req>>
  BY WorkerMovesOn, WorkerDecidesNothing DEF ApprovalInv, Placed
<1>1. (Sending => ViaGlobus)'
  <2>1. Sending' => Sending
    BY <1>0, WorkerWrites DEF MovesOn, Sending, GlobusStates
  <2> QED
    BY <1>0, <2>1 DEF DeliveryInv, ViaGlobus
<1>2. \A k \in Keys : transfer'[k] = "succeeded" => target'[k] # "absent"
  BY <1>0, WorkerWrites, DeliveredStays DEF DeliveryInv
<1>3. (state = "gone" => keys = {})'
  <2>1. CASE state # "gone"
    BY <1>0, <2>1 DEF MovesOn, DestroySelf
  <2>2. CASE state = "gone"
    BY <1>0, <2>2, WorkerWrites DEF DeliveryInv, PerformCheckAccept, CopyKey, Copying
  <2> QED
    BY <2>1, <2>2
<1>4. KeysTell'
  BY KeysTellWorker
<1>5. BatchTells'
  <2>1. OldAreDirs => OldAreDirs'
    BY <1>0, DeliveredStays DEF OldAreDirs
  <2>2. ASSUME NEW e \in Rows, run'[e].pc = "copy", run'[e].batch # {} PROVE OldAreDirs'
    <3>1. CASE run[e].pc = "copy" /\ run'[e].batch \subseteq run[e].batch
      BY <2>1, <2>2, <3>1 DEF DeliveryInv, BatchTells
    <3>2. CASE e = d /\ run[d].mem = "copying" /\ run'[d].batch = keys /\ conflicts = {}
      <4>1. state # "gone" /\ Accepted
        BY <2>2, <3>2 DEF DeliveryInv, ApprovalInv, Begun, AfterApproval, Accepted
      <4> QED
        BY <2>1, <3>2, <4>1 DEF DeliveryInv, KeysTell, OldAreDirs
    <3> QED
      BY <1>0, <2>2, <3>1, <3>2 DEF MovesOn
  <2> QED
    BY <2>2 DEF BatchTells
<1>6. AllDelivered => AllDelivered'
  BY <1>0, DeliveredStays DEF AllDelivered
<1>7. LaterTells'
  <2>1. (state \in Later => AllDelivered)'
    BY <1>0, <1>6, NothingLeft DEF MovesOn, DeliveryInv, LaterTells
  <2>2. ASSUME NEW e \in Rows, Through(run'[e]) PROVE (state = "gone" \/ AllDelivered)'
    <3>1. CASE e # d
      BY <1>0, <1>6, <2>2, <3>1 DEF MovesOn, DeliveryInv, LaterTells
    <3>2. CASE e = d
      BY <1>0, <1>6, <2>2, <3>2, NothingLeft DEF MovesOn, DeliveryInv, LaterTells
    <3> QED
      BY <3>1, <3>2
  <2>3. ASSUME NEW e \in Rows, run'[e].mem = "email_done", run'[e].pc = "begin"
        PROVE  AllDelivered'
    BY <1>0, <1>6, <2>3 DEF MovesOn, DeliveryInv, LaterTells, Later
  <2> QED
    BY <2>1, <2>2, <2>3 DEF LaterTells
<1>8. CompletedIsDelivered'
  BY <1>0, <1>6, WorkerWrites DEF DeliveryInv, LaterTells, CompletedIsDelivered, AllDelivered
<1>9. DepositIsTruthful'
  <2>1. CASE deposited
    BY <1>0, <1>6, <2>1, WorkerWrites DEF DeliveryInv, DepositIsTruthful, AllDelivered
  <2>2. CASE run[d].pc = "event"
    <3>1. state = "gone" \/ AllDelivered
      BY <2>2 DEF DeliveryInv, LaterTells, Through
    <3>2. state = "gone" => archived # {} \/ refused
      BY DEF ConcludedInv, Concluded
    <3>3. AllDelivered \/ "aborted" \in archived \/ refused
      BY <1>0, <3>1, <3>2 DEF DeliveryInv, CompletedIsDelivered, AllDelivered, TypeOK
    <3> QED
      BY <1>0, <1>6, <3>3, WorkerWrites DEF DepositIsTruthful, AllDelivered
  <2> QED
    BY <1>0, <2>1, <2>2, WorkerWrites DEF DepositIsTruthful
<1> QED
  BY <1>1, <1>2, <1>3, <1>4, <1>5, <1>7, <1>8, <1>9 DEF DeliveryInv

\* A step of anybody else that keeps to the facts below.
Bystanding ==
    /\ run' = run \/ \E d \in Rows : run' = [run EXCEPT ![d] = Idle]
    /\ state' = state \/ state' \notin Later \cup {"gone"}
    /\ state = "gone" => state' = "gone"
    /\ UNCHANGED <<keys, conflicts, outcome>>
    /\ Sending' => Sending \/ ViaGlobus'
    /\ Accepted' => Accepted
    /\ \A k \in Keys : transfer'[k] = "succeeded" =>
                          transfer[k] = "succeeded" \/ target[k] # "absent"

\* Such a step keeps the invariant.
LEMMA BystandingKeeps ==
    ASSUME TypeOK, DeliveryInv, [Next]_vars, Bystanding PROVE DeliveryInv'
<1>1. (AllDelivered => AllDelivered') /\ (OldAreDirs => OldAreDirs') /\ (ViaGlobus => ViaGlobus')
  BY DeliveredStays, ApprovedGrows DEF AllDelivered, OldAreDirs, ViaGlobus
<1>2. \A d \in Rows : run'[d] = run[d] \/ run'[d] = Idle
  BY DEF Bystanding, TypeOK
<1>3. BatchTells' /\ LaterTells'
  BY <1>1, <1>2
  DEF Bystanding, DeliveryInv, BatchTells, LaterTells, Later, Through, Idle
<1>4. KeysTell'
  BY DeliveredStays DEF Bystanding, DeliveryInv, KeysTell
<1>5. CompletedIsDelivered' /\ DepositIsTruthful'
  BY <1>1
  DEF Bystanding, DeliveryInv, CompletedIsDelivered, DepositIsTruthful, AllDelivered, outcome
<1>6. (Sending => ViaGlobus)' /\ (state = "gone" => keys = {})'
  BY <1>1 DEF Bystanding, DeliveryInv
<1>7. \A k \in Keys : transfer'[k] = "succeeded" => target'[k] # "absent"
  BY DeliveredStays DEF Bystanding, DeliveryInv
<1> QED
  BY <1>3, <1>4, <1>5, <1>6, <1>7 DEF DeliveryInv

\* The faults, services and requests take no key and record nothing.
LEMMA OthersStandBy ==
    ASSUME ApprovalInv, DeliveryInv, [Next]_vars, ~\E d \in Rows : WorkerStep(d)
    PROVE  Bystanding
<1> USE DEF ApprovalInv, Placed, TypeOK, Bystanding, Sending, Accepted, GlobusStates
<1>1. CASE \E d \in Rows : Interrupt(d) \/ \E k \in Keys : CopyInterrupted(d, k)
  <2>1. PICK d \in Rows : run' = [run EXCEPT ![d] = Idle]
    BY <1>1, FaultDrops
  <2>2. UNCHANGED <<state, outcome, approved, transfer, req>>
    BY <1>1, FaultDrops
  <2>3. UNCHANGED <<keys, conflicts>>
    BY <1>1 DEF Interrupt, CopyInterrupted, staged
  <2> QED
    BY <2>1, <2>2, <2>3 DEF Idle
<1>2. CASE \/ ServiceStep \/ DestroyCompleteElements
           \/ \E k \in Keys : TransferFails(k)
           \/ UNCHANGED vars
  <2>1. UNCHANGED <<run, state, keys, conflicts, outcome, approved, req>>
    BY <1>2
    DEF ServiceStep, TransferArrives, TransferSeenCopied, AssessorAnswers, AssessDirectory,
        DestroyCompleteElements, TransferFails, vars, table, staged, history
  <2>2. \A k \in Keys :
          /\ transfer'[k] # "none" => transfer[k] # "none"
          /\ transfer'[k] = "succeeded" => transfer[k] = "succeeded" \/ target[k] # "absent"
    BY <1>2
    DEF ServiceStep, TransferArrives, TransferSeenCopied, AssessorAnswers, AssessDirectory,
        DestroyCompleteElements, TransferFails, vars, staged
  <2> QED
    BY <2>1, <2>2
<1>3. ASSUME NEW r \in Requests, RequestStep(r) PROVE Bystanding
  <2>1. UNCHANGED <<run, keys, conflicts, transfer, outcome>>
    BY <1>3
    DEF RequestStep, LoadRequest, ApproveInitial, ApproveAdmin, ApproveRefused, Abort,
        table, staged
  <2>2. CASE ApproveAdmin(r)
    <3>1. PICK p \in CopyPaths :
               BeInState(p) /\ approved' = approved \cup {[path |-> p, role |-> req[r].role]}
      BY <2>2 DEF ApproveAdmin
    <3>2. req' = [req EXCEPT ![r] = Closed] /\ Accepted
      BY <2>2 DEF ApproveAdmin, Acting, Approvable
    <3>3. p \in {"copying", "send_copy_messages"}
      BY CopyPathsAssumption
    <3> DEFINE approval == [path |-> p, role |-> req[r].role]
    <3>4. approval.path = p /\ approval \in approved'
      BY <3>1
    <3> HIDE DEF approval
    <3>5. p = "send_copy_messages" => ViaGlobus'
      BY <3>4 DEF ViaGlobus
    <3>6. state' \in {"gone", p} /\ (state' = "gone" <=> state = "gone")
      BY <3>1, <3>3 DEF BeInState
    <3>7. Sending' => Sending \/ ViaGlobus'
      BY <2>1, <3>3, <3>5, <3>6
    <3> QED
      BY <2>1, <3>2, <3>3, <3>6, <3>7 DEF Later
  <2>3. CASE ~ApproveAdmin(r)
    <3>1. approved' = approved /\ state' \in {state, "admin_approval", "aborting"}
      BY <1>3, <2>3
      DEF RequestStep, LoadRequest, ApproveInitial, ApproveRefused, Abort, BeInState, history
    <3>2. Accepted' => Accepted
      <4>1. ASSUME NEW kind, NEW role, LoadRequest(r, kind, role) PROVE Accepted' => Accepted
        BY <3>1, <4>1 DEF LoadRequest, Accepted, Request, table
      <4>2. CASE ApproveInitial(r)
        BY <3>1, <4>2 DEF ApproveInitial, Accepted, Acting, Closed, Approvable, BeInState
      <4>3. CASE ApproveRefused(r)
        BY <3>1, <4>3 DEF ApproveRefused, Accepted, Acting, Closed, table
      <4>4. CASE Abort(r)
        BY <3>1, <4>4 DEF Abort, Accepted, Acting, Closed, Approvable, BeInState
      <4> QED
        BY <1>3, <2>3, <4>1, <4>2, <4>3, <4>4 DEF RequestStep
    <3>3. state = "gone" => state' = "gone"
      BY <1>3, <2>3
      DEF RequestStep, LoadRequest, ApproveInitial, ApproveRefused, Abort, BeInState
    <3> QED
      BY <2>1, <3>1, <3>2, <3>3 DEF Later
  <2> QED
    BY <2>2, <2>3
<1> QED
  BY <1>1, <1>2, <1>3 DEF Next

\* DeliveryInv holds in every state of every behaviour.
LEMMA DeliveryAlways == Spec => []DeliveryInv
<1>1. Init => DeliveryInv
  <2> SUFFICES ASSUME Init PROVE DeliveryInv
    OBVIOUS
  <2>1. ~Sending /\ ~Accepted
    BY DEF Init, Sending, Accepted, GlobusStates, Approvable, Idle, Unused
  <2> QED
    BY <2>1
    DEF Init, DeliveryInv, KeysTell, BatchTells, LaterTells, Later, Through, Idle,
        CompletedIsDelivered, DepositIsTruthful
<1>2. ApprovalInv /\ ConcludedInv /\ DeliveryInv /\ [Next]_vars => DeliveryInv'
  <2> SUFFICES ASSUME ApprovalInv, ConcludedInv, DeliveryInv, [Next]_vars PROVE DeliveryInv'
    OBVIOUS
  <2>1. TypeOK
    BY DEF ApprovalInv, Placed
  <2> QED
    BY <2>1, DeliveryWorker, BystandingKeeps, OthersStandBy
<1> QED
  BY <1>1, <1>2, ApprovalAlways, ConcludedAlways, PTL DEF Spec

(***************************************************************************)
(* An accrual is archived as completed only when every key was delivered:  *)
(* the states behind the copying are entered with no key left, and keys    *)
(* lost with the record lead no worker to the archive.                     *)
(***************************************************************************)
THEOREM CompletedIsDeliveredHolds == Spec => []CompletedIsDelivered
  BY DeliveryAlways, PTL DEF DeliveryInv

(***************************************************************************)
(* The deposit is recorded only when every key was delivered, or for an    *)
(* accrual that was aborted or refused behind the back of the worker that  *)
(* was still copying.                                                      *)
(***************************************************************************)
THEOREM DepositIsTruthfulHolds == Spec => []DepositIsTruthful
  BY DeliveryAlways, PTL DEF DeliveryInv

==============================================================================
