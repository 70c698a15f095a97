------------------------ MODULE FileGroupDelete_proofs ------------------------
(***************************************************************************)
(* Theorems about FileGroupDelete, for any number of rows, requests and    *)
(* faults.                                                                 *)
(***************************************************************************)
EXTENDS FileGroupDelete, DelayedJobs_proofs

\* What a deletion proceeds to, written out.
LEMMA SuccessorStates ==
    /\ DOMAIN Successor = {"start", "email_requester_accept", "email_requester_reject",
          "initial_handle_content", "wait_delete_content", "delete_content",
          "restore_content", "email_restored_content", "email_requester_final_removal"}
    /\ Successor["start"] = "email_superusers"
    /\ Successor["email_requester_accept"] = "initial_handle_content"
    /\ Successor["email_requester_reject"] = "end"
    /\ Successor["initial_handle_content"] = "wait_delete_content"
    /\ Successor["wait_delete_content"] = "delete_content"
    /\ Successor["delete_content"] = "email_requester_final_removal"
    /\ Successor["restore_content"] = "email_restored_content"
    /\ Successor["email_restored_content"] = "end"
    /\ Successor["email_requester_final_removal"] = "end"
BY DEF Successor

\* A worker that holds nothing is a worker state.
LEMMA IdleRun == Idle \in [mem : States, pc : Places, batch : {{}}]
BY DEF Idle, States, Places

------------------------------------------------------------------------------
(* Type correctness *)

\* A step of a worker.
LEMMA TypeWorker == ASSUME TypeOK, NEW d \in Rows, WorkerStep(d) PROVE TypeOK'
<1> USE DEF TypeOK, States, Places, table, records, storage, web, history
<1>Reserve. CASE Reserve(d)
  BY <1>Reserve, RowSteps DEF Reserve, Load
<1>ReserveGone. CASE ReserveGone(d)
  BY <1>ReserveGone, RowConstants DEF ReserveGone, LoadGone
<1>Finish. CASE Finish(d)
  BY <1>Finish, IdleRun, RowConstants DEF Finish, Complete
<1>DestroyQueuedJobs. CASE DestroyQueuedJobs(d)
  BY <1>DestroyQueuedJobs, RowSteps DEF DestroyQueuedJobs, Move
<1>DestroySelf. CASE DestroySelf(d)
  BY <1>DestroySelf, IdleRun, RowConstants DEF DestroySelf, At, Move
<1>Requeue. CASE Requeue(d)
  <2>1. PICK s \in DOMAIN Successor : BeInStateAndRequeue(d, Successor[s], "done")
    BY <1>Requeue DEF Requeue
  <2>2. Successor[s] \in States
    BY SuccessorStates
  <2>3. state' \in States \cup {"gone"}
    BY <2>1, <2>2 DEF BeInStateAndRequeue, BeInState
  <2>4. rows' \in [Rows -> Row]
    BY <2>1, RowConstants DEF BeInStateAndRequeue, PutInQueue, FreeRows
  <2>5. run' \in [Rows -> [mem : States, pc : Places, batch : {{}}]]
    <3> HIDE DEF States
    <3> QED
      BY <2>1, <2>2, ZenonT(30) DEF BeInStateAndRequeue
  <2> QED
    BY <1>Requeue, <2>3, <2>4, <2>5 DEF Requeue
<1>PerformEmailSuperusers. CASE PerformEmailSuperusers(d)
  <2>1. state' \in States \cup {"gone"}
    BY <1>PerformEmailSuperusers DEF PerformEmailSuperusers, BeInState
  <2>2. "wait_decision" \in States /\ "done" \in Places
    OBVIOUS
  <2>3. run' \in [Rows -> [mem : States, pc : Places, batch : {{}}]]
    <3> HIDE DEF States, Places
    <3> QED
      BY <1>PerformEmailSuperusers, <2>2 DEF PerformEmailSuperusers
  <2> QED
    BY <1>PerformEmailSuperusers, <2>1, <2>3 DEF PerformEmailSuperusers
<1>PerformWaitDecision. CASE PerformWaitDecision(d)
  BY <1>PerformWaitDecision, IdleRun, RowSteps DEF PerformWaitDecision, Raise
<1>CreateBackup. CASE CreateBackup(d)
  BY <1>CreateBackup DEF CreateBackup, Move
<1>CreateBackupFails. CASE CreateBackupFails(d)
  BY <1>CreateBackupFails, IdleRun, RowSteps DEF CreateBackupFails, Raise
<1>HandleContent. CASE HandleContent(d)
  BY <1>HandleContent DEF HandleContent, Move
<1>DestroyTree. CASE DestroyTree(d)
  BY <1>DestroyTree DEF DestroyTree, Move
<1>DestroyGroup. CASE DestroyGroup(d)
  BY <1>DestroyGroup DEF DestroyGroup, Move
<1>DropBackup. CASE DropBackup(d)
  BY <1>DropBackup, ZenonT(30) DEF DropBackup, Move
<1>DeleteHeldContent. CASE DeleteHeldContent(d)
  BY <1>DeleteHeldContent, ZenonT(30) DEF DeleteHeldContent, Move
<1>RestorePhysicalContent. CASE RestorePhysicalContent(d)
  BY <1>RestorePhysicalContent, ZenonT(30) DEF RestorePhysicalContent, Move
<1>RestoreDb. CASE RestoreDb(d)
  <2>1. run' \in [Rows -> [mem : States, pc : Places, batch : {{}}]]
    BY <1>RestoreDb DEF RestoreDb, Move
  <2>2. live' \subseteq Records /\ held' \subseteq Records /\ held' = {} /\ schema' = FALSE
    BY <1>RestoreDb DEF RestoreDb
  <2> QED
    BY <1>RestoreDb, <2>1, <2>2, ZenonT(30) DEF RestoreDb
<1>RestoreDbFails. CASE RestoreDbFails(d)
  BY <1>RestoreDbFails, IdleRun, RowSteps DEF RestoreDbFails, Raise
<1>AfterRestore. CASE AfterRestore(d)
  BY <1>AfterRestore DEF AfterRestore, Move
<1>AfterRestoreFails. CASE AfterRestoreFails(d)
  BY <1>AfterRestoreFails, IdleRun, RowSteps DEF AfterRestoreFails, Raise
<1> QED
  BY <1>Reserve, <1>ReserveGone, <1>Finish, <1>DestroyQueuedJobs, <1>DestroySelf, <1>Requeue,
     <1>PerformEmailSuperusers, <1>PerformWaitDecision, <1>CreateBackup,
     <1>CreateBackupFails, <1>HandleContent, <1>DestroyTree, <1>DestroyGroup,
     <1>DropBackup, <1>DeleteHeldContent, <1>RestorePhysicalContent, <1>RestoreDb,
     <1>RestoreDbFails, <1>AfterRestore, <1>AfterRestoreFails
  DEF WorkerStep

\* A step of a web process, or a failure of a worker or a web process.
LEMMA TypeOther ==
    ASSUME TypeOK,
           \/ \E d \in Rows : Interrupt(d)
           \/ QueueSaved \/ QueueSavedLost
           \/ \E r \in Requests :
                \/ \E kind \in {"approve", "reject", "restore"} : LoadRequest(r, kind)
                \/ WebStep(r) \/ RestoreLost(r)
    PROVE  TypeOK'
<1> USE FaultsAssumption DEF TypeOK, table, records, storage, web, history
<1>1. CASE \E d \in Rows : Interrupt(d)
  BY <1>1, RowSteps, IdleRun DEF Interrupt
<1>2. CASE QueueSaved
  BY <1>2, RowConstants DEF QueueSaved, PutInQueue, FreeRows
<1>3. CASE QueueSavedLost
  BY <1>3 DEF QueueSavedLost
<1>4. ASSUME NEW r \in Requests, NEW kind \in {"approve", "reject", "restore"},
             LoadRequest(r, kind)
      PROVE  TypeOK'
  BY <1>4 DEF LoadRequest, RequestStates
<1>5. ASSUME NEW r \in Requests, Decide(r) PROVE TypeOK'
  BY <1>5 DEF Decide, RequestStates, BeInState, States
<1>6. ASSUME NEW r \in Requests, RestoreDestroysRows(r) PROVE TypeOK'
  BY <1>6, RowSteps DEF RestoreDestroysRows, RequestStates
<1>7. ASSUME NEW r \in Requests, RestoreRequested(r) PROVE TypeOK'
  BY <1>7, RowConstants
  DEF RestoreRequested, RequestStates, PutInQueue, FreeRows, BeInState, States
<1>8. ASSUME NEW r \in Requests, RestoreLost(r) PROVE TypeOK'
  BY <1>8 DEF RestoreLost, RequestStates
<1> QED
  BY <1>1, <1>2, <1>3, <1>4, <1>5, <1>6, <1>7, <1>8 DEF WebStep

\* The initial states are well typed.
LEMMA TypeInit == ASSUME Init PROVE TypeOK
<1>1. rows \in [Rows -> Row] /\ run \in [Rows -> [mem : States, pc : Places, batch : {{}}]]
  BY RowConstants, IdleRun DEF Init
<1>2. state \in States \cup {"gone"} /\ req \in [Requests -> RequestStates]
  BY DEF Init, States, RequestStates
<1>3. faults \in 0 .. MaxFaults
  BY FaultsAssumption DEF Init
<1> QED
  BY <1>1, <1>2, <1>3 DEF Init, TypeOK

\* Every step keeps the types.
LEMMA TypeNext == ASSUME TypeOK, [Next]_vars PROVE TypeOK'
<1>1. CASE UNCHANGED vars
  BY <1>1 DEF TypeOK, vars, table, records, storage, web, history
<1>2. CASE Next
  BY <1>2, TypeWorker, TypeOther DEF Next
<1> QED
  BY <1>1, <1>2

(***************************************************************************)
(* The variables of a deletion keep their types: no row is attempted more  *)
(* than MaxAttempts times, and nothing is held without a holding schema.   *)
(***************************************************************************)
THEOREM DeletionTypeCorrect == Spec => []TypeOK
  BY TypeInit, TypeNext, PTL DEF Spec

------------------------------------------------------------------------------
(* Nothing is lost unapproved *)

Unmoved == {"start", "email_superusers", "wait_decision", "email_requester_reject", "end", "gone"}

\* Where everything is as long as nobody has approved.
Intact == /\ state \in Unmoved
          /\ \A d \in Rows : run[d].mem \in Unmoved
          /\ \A r \in Requests : req[r] \in {"unused", "approve", "reject", "rejected"}
          /\ live = Records /\ content = "stored" /\ ~notice /\ events = {}

ApprovalInv == TypeOK /\ ((\E r \in Requests : req[r] = "approved") \/ Intact)

\* A step of a worker moves nothing that nobody approved.
LEMMA IntactWorker ==
    ASSUME TypeOK, Intact, NEW d \in Rows, WorkerStep(d) PROVE Intact'
<1> USE SuccessorStates DEF TypeOK, Intact, Unmoved, At, records, storage, web
<1>Reserve. CASE Reserve(d)
  BY <1>Reserve DEF Reserve, Load
<1>ReserveGone. CASE ReserveGone(d)
  BY <1>ReserveGone DEF ReserveGone, LoadGone
<1>Finish. CASE Finish(d)
  BY <1>Finish DEF Finish, Complete, Idle
<1>DestroyQueuedJobs. CASE DestroyQueuedJobs(d)
  BY <1>DestroyQueuedJobs DEF DestroyQueuedJobs, Move
<1>DestroySelf. CASE DestroySelf(d)
  BY <1>DestroySelf DEF DestroySelf, Move, Idle
<1>Requeue. CASE Requeue(d)
  <2>1. PICK s \in DOMAIN Successor :
             run[d].mem = s /\ BeInStateAndRequeue(d, Successor[s], "done")
    BY <1>Requeue DEF Requeue
  <2>2. s \in {"start", "email_requester_reject"}
    BY <2>1
  <2>3. Successor[s] \in {"email_superusers", "end"}
    BY <2>2
  <2>4. state' \in Unmoved /\ \A e \in Rows : run'[e].mem \in Unmoved
    BY <2>1, <2>3 DEF BeInStateAndRequeue, BeInState
  <2> QED
    BY <1>Requeue, <2>4 DEF Requeue
<1>PerformEmailSuperusers. CASE PerformEmailSuperusers(d)
  BY <1>PerformEmailSuperusers DEF PerformEmailSuperusers, BeInState
<1>PerformWaitDecision. CASE PerformWaitDecision(d)
  BY <1>PerformWaitDecision DEF PerformWaitDecision, Raise, Idle
<1>1. run[d].mem \notin {"initial_handle_content", "delete_content", "restore_content"}
  OBVIOUS
<1> QED
  BY <1>Reserve, <1>ReserveGone, <1>Finish, <1>DestroyQueuedJobs, <1>DestroySelf, <1>Requeue,
     <1>PerformEmailSuperusers, <1>PerformWaitDecision, <1>1
  DEF WorkerStep, CreateBackup, CreateBackupFails, HandleContent, DestroyTree, DestroyGroup,
      DropBackup, DeleteHeldContent, RestorePhysicalContent, RestoreDb, RestoreDbFails,
      AfterRestore, AfterRestoreFails

\* No other step does, unless it is an approval.
LEMMA IntactOther ==
    ASSUME TypeOK, Intact, [Next]_vars, ~\E d \in Rows : WorkerStep(d)
    PROVE  (\E r \in Requests : req'[r] = "approved") \/ Intact'
<1> USE DEF TypeOK, Intact, Unmoved, table, records, storage, web
<1>1. CASE UNCHANGED vars
  BY <1>1 DEF vars
<1>2. CASE \E d \in Rows : Interrupt(d)
  BY <1>2 DEF Interrupt, Idle
<1>3. CASE QueueSaved \/ QueueSavedLost
  BY <1>3 DEF QueueSaved, QueueSavedLost, PutInQueue
<1>4. ASSUME NEW r \in Requests, NEW kind \in {"approve", "reject", "restore"},
             LoadRequest(r, kind)
      PROVE  Intact'
  BY <1>4 DEF LoadRequest
<1>5. ASSUME NEW r \in Requests, Decide(r)
      PROVE  (\E q \in Requests : req'[q] = "approved") \/ Intact'
  <2>1. CASE req'[r] = "approved"
    BY <2>1
  <2>2. CASE req'[r] # "approved"
    <3>1. /\ req[r] = "reject" /\ req' = [req EXCEPT ![r] = "rejected"]
          /\ BeInState("email_requester_reject")
      BY <1>5, <2>2 DEF Decide
    <3> QED
      BY <1>5, <3>1 DEF Decide, BeInState
  <2> QED
    BY <2>1, <2>2
<1>6. ASSUME NEW r \in Requests,
             RestoreDestroysRows(r) \/ RestoreRequested(r) \/ RestoreLost(r)
      PROVE  FALSE
  BY <1>6 DEF RestoreDestroysRows, RestoreRequested, RestoreLost
<1> QED
  BY <1>1, <1>2, <1>3, <1>4, <1>5, <1>6 DEF Next, WebStep

\* An approval is never taken back.
LEMMA ApprovalStays ==
    ASSUME TypeOK, [Next]_vars, NEW r \in Requests, req[r] = "approved"
    PROVE  req'[r] = "approved"
<1> USE DEF TypeOK, web
<1>1. ASSUME NEW d \in Rows, WorkerStep(d) \/ Interrupt(d) PROVE req' = req
  BY <1>1
  DEF WorkerStep, Interrupt, Reserve, ReserveGone, Finish, DestroyQueuedJobs, DestroySelf,
      Requeue, PerformEmailSuperusers, PerformWaitDecision, CreateBackup,
      CreateBackupFails, HandleContent, DestroyTree, DestroyGroup, DropBackup,
      DeleteHeldContent, RestorePhysicalContent, RestoreDb, RestoreDbFails, AfterRestore,
      AfterRestoreFails
<1>2. CASE QueueSaved \/ QueueSavedLost \/ UNCHANGED vars
  BY <1>2 DEF QueueSaved, QueueSavedLost, vars
<1>3. ASSUME NEW q \in Requests,
             \/ \E kind \in {"approve", "reject", "restore"} : LoadRequest(q, kind)
             \/ WebStep(q) \/ RestoreLost(q)
      PROVE  req'[r] = "approved"
  BY <1>3 DEF LoadRequest, WebStep, Decide, RestoreDestroysRows, RestoreRequested, RestoreLost
<1> QED
  BY <1>1, <1>2, <1>3 DEF Next

(***************************************************************************)
(* Nothing is destroyed, hidden or announced before an administrator       *)
(* approved: the controller's check of the state and the states a rejected *)
(* deletion can be in suffice, however many requests race.                 *)
(***************************************************************************)
THEOREM NothingLostUnapprovedHolds == Spec => []NothingLostUnapproved
<1>1. Init => ApprovalInv
  <2> SUFFICES ASSUME Init PROVE Intact
    BY TypeInit DEF ApprovalInv
  <2> QED
    BY DEF Init, Intact, Unmoved, Idle
<1>2. ApprovalInv /\ [Next]_vars => ApprovalInv'
  BY TypeNext, IntactWorker, IntactOther, ApprovalStays DEF ApprovalInv
<1>3. ApprovalInv => NothingLostUnapproved
  BY DEF ApprovalInv, Intact, NothingLostUnapproved
<1> QED
  BY <1>1, <1>2, <1>3, PTL DEF Spec

------------------------------------------------------------------------------
(* Records are kept *)

\* The states before the records were moved; none is entered from another.
EarlyStates == {"start", "email_superusers", "wait_decision", "email_requester_accept",
                "email_requester_reject", "initial_handle_content"}
Early == state \in EarlyStates

Decided == \E r \in Requests : req[r] \in {"approved", "rejected"}

\* Row d is going to carry the deletion on.
Carries(d) == \/ rows[d].status = "queued"
              \/ rows[d].status \in {"running", "orphan"} /\ run[d].pc # "done"

\* What a worker loaded is still so: nobody else moves an early deletion.
Current(d) == /\ run[d].mem \notin EarlyStates => ~Early
              /\ run[d].pc # "done" => IF Early THEN run[d].mem = state
                                       ELSE run[d].mem \notin EarlyStates

OneCarrier == Early => \A d, e \in Rows : Carries(d) /\ Carries(e) => d = e
NoCarrier  == \A d \in Rows : ~Carries(d)

SavedOnce == toQueue > 0 => toQueue = 1 /\ Early /\ state # "wait_decision" /\ NoCarrier

Undecided == /\ state = "wait_decision" => NoCarrier
             /\ ~Decided => /\ state \in {"start", "email_superusers", "wait_decision"}
                            /\ \A r \in Requests :
                                 req[r] \in {"approve", "reject"} => state = "wait_decision"

Unrestored == Early => \A r \in Requests :
                         req[r] \notin {"restore", "restore_unqueued", "restoring", "lost"}

\* A worker that destroys records has them all in the holding schema.
BackedUp(d) == run[d].mem = "initial_handle_content" /\ run[d].pc \in {"content", "tree", "db"}
                 => held = Records

Carried == /\ OneCarrier /\ SavedOnce /\ Undecided /\ Unrestored
           /\ \A d \in BeingWorked : Current(d) /\ BackedUp(d)
           /\ (schema => held = Records) /\ (final => ~Early)

KeptInv == TypeOK /\ RecordsKept /\ (doubled \/ Carried)

\* No step undoes a doubling or a final deletion.
LEMMA HistoryStays ==
    ASSUME TypeOK, [Next]_vars
    PROVE  /\ doubled => doubled'
           /\ final => final'
<1> USE DEF TypeOK, history
<1>1. ASSUME NEW d \in Rows, WorkerStep(d) PROVE doubled' = doubled /\ (final => final')
  BY <1>1
  DEF WorkerStep, Reserve, ReserveGone, Finish, DestroyQueuedJobs, DestroySelf,
      Requeue, PerformEmailSuperusers, PerformWaitDecision, CreateBackup,
      CreateBackupFails, HandleContent, DestroyTree, DestroyGroup, DropBackup,
      DeleteHeldContent, RestorePhysicalContent, RestoreDb, RestoreDbFails, AfterRestore,
      AfterRestoreFails
<1>2. ASSUME ~\E d \in Rows : WorkerStep(d) PROVE (doubled => doubled') /\ final' = final
  BY <1>2
  DEF Next, vars, Interrupt, QueueSaved, QueueSavedLost, LoadRequest, WebStep, Decide,
      RestoreDestroysRows, RestoreRequested, RestoreLost
<1> QED
  BY <1>1, <1>2

(***************************************************************************)
(* A step of worker d after which it is still at work on what it loaded.   *)
(***************************************************************************)
Works(d) == /\ Carries(d) /\ d \in BeingWorked
            /\ UNCHANGED <<rows, state, req, toQueue>>
            /\ run' = run \/ \E pc \in Places \ {"done"} : Move(d, pc)

\* Such a step changes nothing of who carries the deletion.
LEMMA WorksKeeps ==
    ASSUME TypeOK, Carried, NEW d \in Rows, Works(d)
    PROVE  /\ (OneCarrier /\ SavedOnce /\ Undecided /\ Unrestored)'
           /\ \A e \in BeingWorked' : Current(e)'
           /\ Early' = Early /\ BeingWorked' = BeingWorked
           /\ \A e \in Rows : run'[e].mem = run[e].mem
           /\ \A e \in Rows \ {d} : run'[e] = run[e]
<1>1. /\ \A e \in Rows : run'[e].mem = run[e].mem /\ (run'[e].pc # "done" <=> run[e].pc # "done")
      /\ \A e \in Rows \ {d} : run'[e] = run[e]
  BY DEF Works, Move, TypeOK, Carries, BeingWorked
<1>2. Early' = Early /\ BeingWorked' = BeingWorked
  BY DEF Works, Early, BeingWorked
<1>3. \A e \in Rows : Carries(e)' = Carries(e)
  BY <1>1 DEF Works, Carries
<1>4. \A e \in BeingWorked : Current(e)'
  BY <1>1, <1>2 DEF Works, Current, Carried, BeingWorked
<1>5. (OneCarrier /\ SavedOnce /\ Undecided /\ Unrestored)'
  BY <1>2, <1>3
  DEF Works, Carried, OneCarrier, SavedOnce, NoCarrier, Undecided, Unrestored, Decided
<1> QED
  BY <1>1, <1>2, <1>4, <1>5

\* A worker at work on the holding schema or the records is the one carrier of
\* an early deletion, or the deletion is early no more.
LEMMA Alone ==
    ASSUME TypeOK, Carried, NEW d \in BeingWorked, run[d].pc # "done"
    PROVE  /\ run[d].mem \in EarlyStates => Early
           /\ run[d].mem \notin EarlyStates =>
                \A e \in BeingWorked : ~(/\ run[e].mem = "initial_handle_content"
                                         /\ run[e].pc \in {"content", "tree", "db"})
           /\ Early => \A e \in BeingWorked : run[e].pc # "done" => e = d
<1>1. d \in Rows /\ Carries(d)
  BY DEF BeingWorked, Carries
<1> QED
  BY <1>1 DEF Carried, Current, OneCarrier, Carries, BeingWorked, EarlyStates

\* Carried, for a step that leaves the records alone.
Steady == UNCHANGED <<records, final, doubled>>

\* Taking, giving back or finishing a row.
LEMMA RowStepsKeep ==
    ASSUME TypeOK, Carried, NEW d \in Rows, Steady, UNCHANGED <<state, req, toQueue>>,
           \/ Load(d) \/ LoadGone(d) \/ Complete(d)
           \/ Raise(d) /\ d \in BeingWorked /\ run[d].pc # "done"
    PROVE  Carried'
<1> USE StatusSteps DEF TypeOK, Carried, Steady, records
<1>1. CASE Load(d)
  <2>1. /\ rows[d].status = "queued" /\ rows'[d].status = "running"
        /\ run'[d].mem = state /\ run'[d].pc = "begin"
        /\ \A e \in Rows \ {d} : rows'[e] = rows[e] /\ run'[e] = run[e]
    BY <1>1 DEF Load
  <2>2. \A e \in Rows : Carries(e)' = Carries(e)
    BY <2>1 DEF Carries
  <2>3. (OneCarrier /\ SavedOnce /\ Undecided /\ Unrestored)' /\ Early' = Early
    BY <2>2 DEF OneCarrier, SavedOnce, NoCarrier, Undecided, Unrestored, Early, Decided
  <2>4. \A e \in BeingWorked' : Current(e)' /\ BackedUp(e)'
    BY <2>1, <2>3 DEF BeingWorked, Current, BackedUp, Early
  <2> QED
    BY <2>3, <2>4
<1>2. CASE LoadGone(d) \/ Complete(d) \/ (Raise(d) /\ d \in BeingWorked /\ run[d].pc # "done")
  <2>1. /\ rows'[d].status \in {"absent", "failed"} \/ (rows'[d].status = "queued" /\ Carries(d))
        /\ \A e \in Rows \ {d} : rows'[e] = rows[e] /\ run'[e] = run[e]
    BY <1>2 DEF LoadGone, Complete, Raise, Carries, BeingWorked, Row, RowStatus
  <2>2. \A e \in Rows : Carries(e)' => Carries(e)
    BY <2>1 DEF Carries
  <2>3. (OneCarrier /\ SavedOnce /\ Undecided /\ Unrestored)' /\ Early' = Early
    BY <2>2 DEF OneCarrier, SavedOnce, NoCarrier, Undecided, Unrestored, Early, Decided
  <2>4. \A e \in BeingWorked' : e # d /\ e \in BeingWorked
    BY <2>1 DEF BeingWorked
  <2>5. \A e \in BeingWorked' : Current(e)' /\ BackedUp(e)'
    BY <2>1, <2>3, <2>4 DEF BeingWorked, Current, BackedUp, Early
  <2> QED
    BY <2>3, <2>5
<1> QED
  BY <1>1, <1>2

\* Going on to the next state, with a row of its own.
LEMMA RequeueKeeps ==
    ASSUME TypeOK, Carried, NEW d \in Rows, Requeue(d) PROVE Carried'
<1> USE StatusSteps DEF TypeOK, records, web, history
<1>1. PICK s \in DOMAIN Successor :
           /\ d \in BeingWorked /\ run[d].mem = s /\ run[d].pc \in {"begin", "requeue"}
           /\ BeInStateAndRequeue(d, Successor[s], "done")
  BY DEF Requeue, At
<1>2. PICK n \in FreeRows : rows' = [rows EXCEPT ![n] = Fresh]
  BY <1>1 DEF BeInStateAndRequeue, PutInQueue
<1>3. /\ n \in Rows /\ rows[n].status = "absent" /\ rows'[n].status = "queued"
      /\ n # d /\ \A e \in Rows \ {n} : rows'[e] = rows[e]
  BY <1>1, <1>2 DEF FreeRows, BeingWorked
<1>4. Successor[s] \in States
  BY SuccessorStates DEF States
<1>5. /\ run'[d].mem = Successor[s] /\ run'[d].pc = "done"
      /\ \A e \in Rows \ {d} : run'[e] = run[e]
  <2> HIDE DEF States, Places
  <2> QED
    BY <1>1, <1>4 DEF BeInStateAndRequeue
<1>6. state' = IF state = "gone" THEN "gone" ELSE Successor[s]
  BY <1>1 DEF BeInStateAndRequeue, BeInState
<1>7. /\ Carries(d) /\ ~Carries(d)' /\ Carries(n)'
      /\ \A e \in Rows \ {d, n} : Carries(e)' = Carries(e)
  BY <1>1, <1>3, <1>5 DEF Carries, BeingWorked
<1>8. toQueue = 0 /\ Decided' = Decided /\ toQueue' = toQueue /\ req' = req
  BY <1>7 DEF Carried, SavedOnce, NoCarrier, Requeue, Decided
<1>9. CASE ~Early
  <2>1. Current(d) /\ s \notin EarlyStates
    BY <1>1, <1>9 DEF Carried, Current
  <2>2. Successor[s] \notin EarlyStates
    BY <2>1, SuccessorStates DEF EarlyStates
  <2>3. ~Early'
    BY <1>6, <2>2 DEF Early, EarlyStates
  <2>4. \A e \in BeingWorked' : Current(e)' /\ BackedUp(e)'
    BY <1>3, <1>5, <1>9, <2>2, <2>3 DEF Carried, Current, BackedUp, BeingWorked, Early, Requeue
  <2>5. (OneCarrier /\ SavedOnce /\ Undecided /\ Unrestored)'
    BY <1>8, <1>9, <2>3
    DEF Carried, OneCarrier, SavedOnce, Undecided, Unrestored, Early, EarlyStates
  <2> QED
    BY <2>3, <2>4, <2>5 DEF Carried, Requeue
<1>10. CASE Early
  <2>1. state = s /\ s \in EarlyStates
    BY <1>1, <1>10 DEF Carried, Current, Early
  <2>2. \A e \in Rows \ {d} : ~Carries(e)
    BY <1>7, <1>10 DEF Carried, OneCarrier
  <2>3. \A e \in Rows \ {n} : ~Carries(e)'
    BY <1>7, <2>2
  <2>4. s # "wait_decision" /\ state' = Successor[s] /\ Successor[s] # "wait_decision"
    BY <1>6, <2>1, SuccessorStates DEF EarlyStates
  <2>5. OneCarrier' /\ SavedOnce'
    BY <1>8, <2>3 DEF OneCarrier, SavedOnce
  <2>6. Undecided'
    <3>1. ~Decided => /\ state \in {"start", "email_superusers"}
                      /\ \A r \in Requests : req[r] \notin {"approve", "reject"}
      BY <2>1, <2>4 DEF Carried, Undecided
    <3>2. state = "start" => Successor[s] = "email_superusers"
      BY <2>1, SuccessorStates
    <3>3. state # "email_superusers"
      BY <2>1, SuccessorStates
    <3> QED
      BY <1>8, <2>4, <3>1, <3>2, <3>3 DEF Undecided
  <2>7. Unrestored'
    BY <1>8, <1>10 DEF Carried, Unrestored
  <2>8. ASSUME NEW e \in BeingWorked' PROVE Current(e)' /\ BackedUp(e)'
    <3>1. CASE e = d
      BY <1>5, <2>4, <3>1 DEF Current, BackedUp, Early
    <3>2. CASE e # d
      <4>1. e \in BeingWorked /\ e # n /\ e \in Rows
        BY <1>3, <3>2 DEF BeingWorked
      <4>2. run[e].pc = "done" /\ run'[e] = run[e]
        BY <1>5, <2>2, <3>2, <4>1 DEF Carries, BeingWorked
      <4>3. run[e].mem \in EarlyStates
        BY <1>10, <4>1 DEF Carried, Current
      <4> QED
        BY <4>2, <4>3 DEF Current, BackedUp
    <3> QED
      BY <3>1, <3>2
  <2>9. (schema => held = Records)' /\ (final => ~Early)'
    BY <1>10 DEF Carried, Requeue
  <2> QED
    BY <2>5, <2>6, <2>7, <2>8, <2>9 DEF Carried
<1> QED
  BY <1>9, <1>10

\* The mail to the administrators leaves the deletion without a carrier.
LEMMA AskingKeeps ==
    ASSUME TypeOK, Carried, NEW d \in Rows, PerformEmailSuperusers(d) PROVE Carried'
<1> USE DEF TypeOK, records, web, history
<1>1. /\ d \in BeingWorked /\ run[d].mem = "email_superusers" /\ run[d].pc = "begin"
      /\ Carries(d)
  BY DEF PerformEmailSuperusers, At, Carries, BeingWorked
<1>2. Early /\ state = "email_superusers"
  BY <1>1 DEF Carried, Current, EarlyStates
<1>3. state' = "wait_decision"
  BY <1>2 DEF PerformEmailSuperusers, BeInState
<1>4. /\ run'[d].mem = "wait_decision" /\ run'[d].pc = "done"
      /\ \A e \in Rows \ {d} : run'[e] = run[e]
  <2>1. "wait_decision" \in States
    BY DEF States
  <2> HIDE DEF States, Places
  <2> QED
    BY <2>1 DEF PerformEmailSuperusers
<1>5. \A e \in Rows : ~Carries(e)' /\ (e # d => ~Carries(e))
  BY <1>1, <1>2, <1>4 DEF Carried, OneCarrier, Carries, PerformEmailSuperusers
<1>6. toQueue' = 0
  BY <1>1 DEF Carried, SavedOnce, NoCarrier, BeingWorked, PerformEmailSuperusers
<1>7. (OneCarrier /\ SavedOnce /\ Undecided /\ Unrestored)'
  BY <1>2, <1>3, <1>5, <1>6
  DEF Carried, OneCarrier, SavedOnce, NoCarrier, Undecided, Unrestored, PerformEmailSuperusers
<1>8. ASSUME NEW e \in BeingWorked' PROVE Current(e)' /\ BackedUp(e)'
  <2>1. e \in BeingWorked /\ e \in Rows /\ run'[e].pc = "done"
    BY <1>5 DEF BeingWorked, Carries, PerformEmailSuperusers
  <2>2. run'[e].mem \in EarlyStates
    BY <1>2, <1>4, <2>1 DEF Carried, Current, EarlyStates
  <2> QED
    BY <2>1, <2>2 DEF Current, BackedUp
<1>9. (schema => held = Records)' /\ (final => ~Early)'
  BY <1>2 DEF Carried, PerformEmailSuperusers
<1> QED
  BY <1>7, <1>8, <1>9 DEF Carried

\* The end of the workflow: the rows and the record are destroyed.
LEMMA EndingKeeps ==
    ASSUME TypeOK, Carried, NEW d \in Rows, DestroyQueuedJobs(d) \/ DestroySelf(d)
    PROVE  Carried'
<1> USE StatusSteps DEF TypeOK, records, web, history
<1>1. d \in BeingWorked /\ run[d].mem = "end"
  BY DEF DestroyQueuedJobs, DestroySelf, At
<1>2. ~Early
  BY <1>1 DEF Carried, Current, EarlyStates
<1>3. ~Early' /\ state' # "wait_decision" /\ req' = req /\ toQueue' = toQueue
  BY <1>2 DEF DestroyQueuedJobs, DestroySelf, Early, EarlyStates
<1>4. (OneCarrier /\ SavedOnce /\ Undecided /\ Unrestored)'
  BY <1>2, <1>3
  DEF Carried, OneCarrier, SavedOnce, Undecided, Unrestored, Early, EarlyStates, Decided
<1>5. BeingWorked' \subseteq BeingWorked
  BY DEF DestroyQueuedJobs, DestroySelf, BeingWorked, Move
<1>6. \A e \in Rows : \/ run'[e] = run[e]
                      \/ run'[e].mem = "end" \/ e \notin BeingWorked'
  BY <1>1 DEF DestroyQueuedJobs, DestroySelf, BeingWorked, Move
<1>7. \A e \in BeingWorked' : Current(e)' /\ BackedUp(e)'
  BY <1>2, <1>3, <1>5, <1>6
  DEF Carried, Current, BackedUp, BeingWorked, EarlyStates, DestroyQueuedJobs, DestroySelf
<1> QED
  BY <1>3, <1>4, <1>7 DEF Carried, DestroyQueuedJobs, DestroySelf

\* What a perform does to records, holding schema and content.
LEMMA ContentWorks ==
    ASSUME TypeOK, Carried, NEW d \in Rows,
           \/ CreateBackup(d) \/ HandleContent(d) \/ DestroyTree(d) \/ DestroyGroup(d)
           \/ DropBackup(d) \/ DeleteHeldContent(d) \/ RestorePhysicalContent(d)
           \/ RestoreDb(d) \/ AfterRestore(d)
    PROVE  Works(d)
BY DEF CreateBackup, HandleContent, DestroyTree, DestroyGroup, DropBackup, DeleteHeldContent,
       RestorePhysicalContent, RestoreDb, AfterRestore, At, Works, Carries, BeingWorked,
       Places, web, storage, records, history

\* The preservation of Carried and RecordsKept by a step of the lemma above.
LEMMA ContentKeeps ==
    ASSUME TypeOK, RecordsKept, ~doubled, Carried, NEW d \in Rows,
           \/ CreateBackup(d) \/ HandleContent(d) \/ DestroyTree(d) \/ DestroyGroup(d)
           \/ DropBackup(d) \/ DeleteHeldContent(d) \/ RestorePhysicalContent(d)
           \/ RestoreDb(d) \/ AfterRestore(d)
    PROVE  RecordsKept' /\ Carried'
<1> DEFINE Destroying(e) == /\ run[e].mem = "initial_handle_content"
                            /\ run[e].pc \in {"content", "tree", "db"}
<1>1. Works(d) /\ d \in BeingWorked /\ run[d].pc # "done"
  BY ContentWorks DEF Works, Carries, BeingWorked
<1>2. /\ (OneCarrier /\ SavedOnce /\ Undecided /\ Unrestored)'
      /\ \A e \in BeingWorked' : Current(e)'
      /\ Early' = Early /\ BeingWorked' = BeingWorked
      /\ \A e \in Rows : run'[e].mem = run[e].mem
      /\ \A e \in Rows \ {d} : run'[e] = run[e]
  BY <1>1, WorksKeeps
<1>3. /\ run[d].mem \in EarlyStates => Early
      /\ run[d].mem \notin EarlyStates => \A e \in BeingWorked : ~Destroying(e)
      /\ Early => \A e \in BeingWorked : run[e].pc # "done" => e = d
  BY <1>1, Alone
<1>4. SUFFICES RecordsKept' /\ (schema => held = Records)' /\ (final => ~Early)'
               /\ \A e \in BeingWorked' : BackedUp(e)'
  BY <1>2 DEF Carried
<1> USE DEF TypeOK, RecordsKept, Carried, records, storage, web, history
<1>5. CASE CreateBackup(d)
  <2>1. Early /\ ~final /\ live \cup held = Records
    BY <1>3, <1>5 DEF CreateBackup, At, EarlyStates
  <2>2. held' = Records /\ schema' = TRUE /\ live' = live
    BY <1>5, <2>1 DEF CreateBackup
  <2> QED
    BY <1>2, <1>5, <2>1, <2>2 DEF CreateBackup, BackedUp
<1>6. CASE HandleContent(d)
  <2>1. Destroying(d) /\ UNCHANGED <<live, schema, held, final, doubled>>
    BY <1>6 DEF HandleContent, At
  <2> QED
    BY <1>1, <1>2, <2>1 DEF BackedUp
<1>7. CASE DestroyTree(d) \/ DestroyGroup(d)
  <2>1. Destroying(d) /\ UNCHANGED <<schema, held, final, doubled>>
    BY <1>7 DEF DestroyTree, DestroyGroup, At
  <2>2. held = Records
    BY <1>1, <2>1 DEF BackedUp
  <2>3. live' \subseteq Records
    BY <1>7 DEF DestroyTree, DestroyGroup
  <2> QED
    BY <1>2, <2>1, <2>2, <2>3 DEF BackedUp
<1>8. CASE DropBackup(d) \/ RestoreDb(d)
  <2>1. run[d].mem \notin EarlyStates /\ schema' = FALSE
    BY <1>8 DEF DropBackup, RestoreDb, At, EarlyStates
  <2>2. ~Early
    BY <1>1, <2>1 DEF Current
  <2>3. \A e \in BeingWorked : ~Destroying(e)
    BY <1>3, <2>1
  <2>4. \A e \in BeingWorked' : BackedUp(e)'
    BY <1>2, <2>1, <2>3 DEF BackedUp, EarlyStates, BeingWorked
  <2>5. RecordsKept'
    BY <1>8 DEF DropBackup, RestoreDb
  <2> QED
    BY <1>2, <2>1, <2>2, <2>4, <2>5
<1>9. CASE DeleteHeldContent(d) \/ RestorePhysicalContent(d) \/ AfterRestore(d)
  <2>1. run[d].mem # "initial_handle_content" /\ UNCHANGED <<live, schema, held, final, doubled>>
    BY <1>9 DEF DeleteHeldContent, RestorePhysicalContent, AfterRestore, At
  <2>2. \A e \in BeingWorked' : BackedUp(e)'
    BY <1>2, <2>1 DEF BackedUp, BeingWorked
  <2> QED
    BY <1>2, <2>1, <2>2
<1> QED
  BY <1>5, <1>6, <1>7, <1>8, <1>9

\* A step of a worker.
LEMMA KeptWorker ==
    ASSUME TypeOK, RecordsKept, ~doubled, Carried, NEW d \in Rows, WorkerStep(d)
    PROVE  RecordsKept' /\ Carried'
<1> USE DEF records, history, web
<1>1. CASE Reserve(d) \/ ReserveGone(d) \/ Finish(d)
  BY <1>1, RowStepsKeep DEF Reserve, ReserveGone, Finish, Steady, RecordsKept
<1>2. CASE DestroyQueuedJobs(d) \/ DestroySelf(d)
  BY <1>2, EndingKeeps DEF DestroyQueuedJobs, DestroySelf, RecordsKept
<1>3. CASE Requeue(d)
  BY <1>3, RequeueKeeps DEF Requeue, RecordsKept
<1>4. CASE PerformEmailSuperusers(d)
  BY <1>4, AskingKeeps DEF PerformEmailSuperusers, RecordsKept
<1>5. CASE \/ PerformWaitDecision(d) \/ CreateBackupFails(d)
           \/ RestoreDbFails(d) \/ AfterRestoreFails(d)
  <2>1. /\ d \in BeingWorked /\ run[d].pc # "done" /\ Raise(d)
        /\ Steady /\ UNCHANGED <<state, req, toQueue>>
    BY <1>5
    DEF PerformWaitDecision, CreateBackupFails, RestoreDbFails, AfterRestoreFails, At, Steady
  <2> QED
    BY <2>1, RowStepsKeep DEF Steady, RecordsKept
<1>6. CASE \/ CreateBackup(d) \/ HandleContent(d) \/ DestroyTree(d) \/ DestroyGroup(d)
           \/ DropBackup(d) \/ DeleteHeldContent(d) \/ RestorePhysicalContent(d)
           \/ RestoreDb(d) \/ AfterRestore(d)
  BY <1>6, ContentKeeps
<1> QED
  BY <1>1, <1>2, <1>3, <1>4, <1>5, <1>6 DEF WorkerStep

\* A failure of a worker: it was carrying the deletion on, or it doubles it.
LEMMA KeptInterrupt ==
    ASSUME TypeOK, Carried, NEW d \in Rows, Interrupt(d), ~doubled' PROVE Carried'
<1> USE StatusSteps DEF TypeOK, records, web
<1>0. ~(run[d].pc = "done" /\ rows[d].status = "running")
  <2>1. doubled' = (doubled \/ (run[d].pc = "done" /\ rows[d].status = "running"))
    BY DEF Interrupt
  <2> QED
    BY <2>1
<1>1. /\ d \in BeingWorked /\ (run[d].pc # "done" \/ rows[d].status = "orphan")
      /\ \A e \in Rows \ {d} : rows'[e] = rows[e] /\ run'[e] = run[e]
  <2>1. d \in BeingWorked
    BY DEF Interrupt
  <2>2. \A e \in Rows \ {d} : rows'[e] = rows[e] /\ run'[e] = run[e]
    BY DEF Interrupt
  <2> QED
    BY <1>0, <2>1, <2>2 DEF BeingWorked
<1>2. /\ rows'[d].status \in {"absent", "queued", "failed"}
      /\ rows[d].status = "orphan" => rows'[d].status = "absent"
  BY <1>1 DEF Interrupt, BeingWorked
<1>3. \A e \in Rows : Carries(e)' => Carries(e)
  BY <1>1, <1>2 DEF Carries, BeingWorked
<1>4. (OneCarrier /\ SavedOnce /\ Undecided /\ Unrestored)' /\ Early' = Early
  BY <1>3
  DEF Interrupt, Carried, OneCarrier, SavedOnce, NoCarrier, Undecided, Unrestored, Early, Decided
<1>5. \A e \in BeingWorked' : e # d /\ e \in BeingWorked
  BY <1>1, <1>2 DEF BeingWorked
<1>6. \A e \in BeingWorked' : Current(e)' /\ BackedUp(e)'
  BY <1>1, <1>4, <1>5 DEF Interrupt, Carried, BeingWorked, Current, BackedUp, Early
<1> QED
  BY <1>4, <1>6 DEF Interrupt, Carried

\* A step of a web process, whole or cut short.
LEMMA KeptWeb ==
    ASSUME TypeOK, Carried, ~doubled',
           \/ QueueSaved \/ QueueSavedLost
           \/ \E r \in Requests :
                \/ \E kind \in {"approve", "reject", "restore"} : LoadRequest(r, kind)
                \/ WebStep(r) \/ RestoreLost(r)
    PROVE  Carried'
<1> USE StatusSteps DEF TypeOK, records, table, history
<1>1. CASE QueueSaved
  <2>1. /\ toQueue = 1 /\ toQueue' = 0 /\ Early /\ state # "wait_decision"
        /\ \A e \in Rows : ~Carries(e)
    BY <1>1 DEF QueueSaved, Carried, SavedOnce, NoCarrier
  <2>2. PICK n \in FreeRows : rows' = [rows EXCEPT ![n] = Fresh]
    BY <1>1 DEF QueueSaved, PutInQueue
  <2>3. /\ n \in Rows /\ rows'[n].status = "queued" /\ run' = run
        /\ \A e \in Rows \ {n} : rows'[e] = rows[e]
    BY <1>1, <2>2 DEF FreeRows, QueueSaved
  <2>4. \A e \in Rows \ {n} : ~Carries(e)'
    BY <2>1, <2>3 DEF Carries
  <2>5. (OneCarrier /\ SavedOnce /\ Undecided /\ Unrestored)' /\ Early' = Early
    BY <1>1, <2>1, <2>4
    DEF Carried, OneCarrier, SavedOnce, Undecided, Unrestored, Early, Decided, QueueSaved
  <2>6. \A e \in BeingWorked' : Current(e)' /\ BackedUp(e)'
    BY <1>1, <2>3, <2>5 DEF Carried, BeingWorked, Current, BackedUp, Early, QueueSaved
  <2> QED
    BY <1>1, <2>5, <2>6 DEF Carried, QueueSaved
<1>2. CASE QueueSavedLost
  <2>1. (OneCarrier /\ SavedOnce /\ Undecided /\ Unrestored)' /\ Early' = Early
    BY <1>2
    DEF QueueSavedLost, Carried, OneCarrier, Carries, SavedOnce, NoCarrier, Undecided,
        Unrestored, Early, Decided
  <2> QED
    BY <1>2, <2>1 DEF QueueSavedLost, Carried, BeingWorked, Current, BackedUp, Early
<1>3. ASSUME NEW r \in Requests, NEW kind \in {"approve", "reject", "restore"},
             LoadRequest(r, kind)
      PROVE  Carried'
  <2>1. req' = [req EXCEPT ![r] = kind] /\ req[r] = "unused"
        /\ state = IF kind = "restore" THEN "wait_delete_content" ELSE "wait_decision"
    BY <1>3 DEF LoadRequest
  <2>2. Early' = Early /\ Decided' = Decided /\ (kind = "restore" => ~Early)
    BY <1>3, <2>1 DEF LoadRequest, Early, EarlyStates, Decided
  <2>3. Undecided' /\ Unrestored'
    BY <1>3, <2>1, <2>2
    DEF LoadRequest, Carried, Undecided, Unrestored, NoCarrier, Carries, EarlyStates, Early
  <2>4. OneCarrier' /\ SavedOnce'
    BY <1>3, <2>2 DEF LoadRequest, Carried, OneCarrier, Carries, SavedOnce, NoCarrier
  <2> QED
    BY <1>3, <2>2, <2>3, <2>4 DEF LoadRequest, Carried, BeingWorked, Current, BackedUp
<1>4. ASSUME NEW r \in Requests, Decide(r) PROVE Carried'
  <2>1. ~Decided /\ req[r] \in {"approve", "reject"}
    BY <1>4 DEF Decide, Decided
  <2>2. state = "wait_decision" /\ NoCarrier /\ toQueue = 0 /\ Early
    BY <2>1 DEF Carried, Undecided, SavedOnce, Early, EarlyStates
  <2>3. /\ state' \in {"email_requester_accept", "email_requester_reject"}
        /\ toQueue' = 1 /\ Early' /\ Decided' /\ NoCarrier' /\ run' = run /\ rows' = rows
    BY <1>4, <2>2
    DEF Decide, BeInState, Early, EarlyStates, Decided, NoCarrier, Carries
  <2>4. \A q \in Requests : req'[q] = req[q] \/ req'[q] \in {"approved", "rejected"}
    BY <1>4 DEF Decide
  <2>5. (OneCarrier /\ SavedOnce /\ Undecided /\ Unrestored)'
    BY <2>2, <2>3, <2>4
    DEF Carried, OneCarrier, SavedOnce, NoCarrier, Undecided, Unrestored
  <2>6. \A e \in BeingWorked' : run[e].pc = "done" /\ e \in BeingWorked
    BY <2>2, <2>3 DEF NoCarrier, Carries, BeingWorked
  <2>7. \A e \in BeingWorked' : Current(e)' /\ BackedUp(e)'
    BY <2>2, <2>3, <2>6 DEF Carried, Current, BackedUp
  <2> QED
    BY <1>4, <2>2, <2>5, <2>7 DEF Carried, Decide
<1>5. ASSUME NEW r \in Requests,
             RestoreDestroysRows(r) \/ RestoreRequested(r) \/ RestoreLost(r)
      PROVE  Carried'
  <2>1. ~Early /\ toQueue' = toQueue /\ run' = run
    BY <1>5
    DEF Carried, Unrestored, RestoreDestroysRows, RestoreRequested, RestoreLost, web
  <2>2. ~Early' /\ state' # "wait_decision" /\ BeingWorked' = BeingWorked
    BY <1>5, <2>1, SMTT(30)
    DEF RestoreDestroysRows, RestoreRequested, RestoreLost, BeInState, Early, EarlyStates,
        BeingWorked, PutInQueue, FreeRows
  <2>3. Decided' = Decided /\ Decided
    BY <1>5, <2>1
    DEF RestoreDestroysRows, RestoreRequested, RestoreLost, Decided, Carried, Undecided,
        Early, EarlyStates
  <2>4. (OneCarrier /\ SavedOnce /\ Undecided /\ Unrestored)'
    BY <2>1, <2>2, <2>3 DEF Carried, OneCarrier, SavedOnce, Undecided, Unrestored
  <2>5. held' = held /\ schema' = schema
    BY <1>5 DEF RestoreDestroysRows, RestoreRequested, RestoreLost
  <2>6. \A e \in BeingWorked' : Current(e)' /\ BackedUp(e)'
    BY <2>1, <2>2, <2>5 DEF Carried, BeingWorked, Current, BackedUp
  <2> QED
    BY <2>2, <2>4, <2>5, <2>6 DEF Carried
<1> QED
  BY <1>1, <1>2, <1>3, <1>4, <1>5 DEF WebStep

(***************************************************************************)
(* Until a final deletion begins every record is in the database or in the *)
(* holding schema, for any number of requests, retries and failures, as    *)
(* long as one row carries the deletion on: the early return of            *)
(* create_db_backup_tables protects the backup from a second attempt, and  *)
(* nothing restores or drops it before the records were moved.             *)
(***************************************************************************)
THEOREM RecordsKeptHolds == Spec => []RecordsKept
<1>1. Init => KeptInv
  <2> SUFFICES ASSUME Init PROVE KeptInv
    OBVIOUS
  <2>1. \A d \in Rows : rows[d].status = "absent"
    BY DEF Init, Absent
  <2>2. OneCarrier /\ SavedOnce /\ Undecided /\ Unrestored
    BY <2>1
    DEF Init, OneCarrier, SavedOnce, NoCarrier, Carries, Undecided, Unrestored, Early,
        EarlyStates
  <2> QED
    BY <2>1, <2>2, TypeInit DEF Init, KeptInv, RecordsKept, Carried, BeingWorked
<1>2. KeptInv /\ [Next]_vars => KeptInv'
  <2> SUFFICES ASSUME KeptInv, [Next]_vars, ~doubled' PROVE RecordsKept' /\ Carried'
    BY TypeNext, HistoryStays DEF KeptInv, RecordsKept
  <2>1. TypeOK /\ RecordsKept /\ ~doubled /\ Carried
    BY HistoryStays DEF KeptInv
  <2>2. CASE \E d \in Rows : WorkerStep(d)
    BY <2>1, <2>2, KeptWorker
  <2>3. ASSUME NEW d \in Rows, Interrupt(d) PROVE RecordsKept' /\ Carried'
    BY <2>1, <2>3, KeptInterrupt DEF Interrupt, RecordsKept, records
  <2>4. ASSUME \/ QueueSaved \/ QueueSavedLost
               \/ \E r \in Requests :
                    \/ \E kind \in {"approve", "reject", "restore"} : LoadRequest(r, kind)
                    \/ WebStep(r) \/ RestoreLost(r)
        PROVE  RecordsKept' /\ Carried'
    <3>1. Carried'
      BY <2>1, <2>4, KeptWeb
    <3>2. live' = live /\ held' = held /\ final' = final
      BY <2>4
      DEF QueueSaved, QueueSavedLost, LoadRequest, WebStep, Decide, RestoreDestroysRows,
          RestoreRequested, RestoreLost, records, history
    <3> QED
      BY <2>1, <3>1, <3>2 DEF RecordsKept
  <2>5. CASE UNCHANGED vars
    BY <2>1, <2>5
    DEF vars, table, records, web, history, RecordsKept, Carried, OneCarrier, SavedOnce,
        NoCarrier, Carries, Undecided, Unrestored, Early, Decided, Current, BackedUp,
        BeingWorked
  <2> QED
    BY <2>2, <2>3, <2>4, <2>5 DEF Next
<1>3. KeptInv => RecordsKept
  BY DEF KeptInv
<1> QED
  BY <1>1, <1>2, <1>3, PTL DEF Spec
------------------------------------------------------------------------------
(* A deletion is not stranded *)

\* As Drives, without the orphans: when an orphan raises its row is gone.  One
\* that tears the deletion down is the exception, it destroyed the other rows.
CarriesOn(d) == \/ rows[d].status \in {"queued", "failed"}
                \/ rows[d].status = "running" /\ Unfinished(d)
                \/ rows[d].status = "orphan" /\ run[d].pc \in {"destroy_self", "end_self"}

CarriedOn == state \notin {"wait_decision", "gone"} /\ ~torn =>
                \/ \E d \in Rows : CarriesOn(d)
                \/ toQueue > 0
                \/ \E r \in Requests : req[r] = "restore_unqueued"

\* A step that takes the duty from nobody.
LEMMA DutyKept ==
    ASSUME TypeOK, CarriedOn, UNCHANGED web, torn' = torn,
           state' \in {state, "wait_decision", "gone"},
           \A e \in Rows : CarriesOn(e) => CarriesOn(e)'
    PROVE  CarriedOn'
BY DEF CarriedOn, web

\* A step that leaves a row which carries the deletion on.
LEMMA DutyTaken == ASSUME NEW d \in Rows, CarriesOn(d)' PROVE CarriedOn'
BY DEF CarriedOn

\* A worker that performs on, or raises, takes the duty from nobody.
LEMMA PerformCarriesOn ==
    ASSUME TypeOK, CarriedOn, NEW d \in BeingWorked, UNCHANGED <<web, state, torn>>,
           run[d].pc \notin {"destroy_self", "end_self"},
           \/ UNCHANGED rows /\ UNCHANGED run
           \/ /\ UNCHANGED rows
              /\ \E pc \in {"content", "tree", "db", "after", "requeue"} : Move(d, pc)
           \/ Raise(d)
    PROVE  CarriedOn'
<1> USE DEF TypeOK, BeingWorked, CarriesOn, Unfinished
<1>1. CASE UNCHANGED rows /\ UNCHANGED run
  BY <1>1, DutyKept
<1>2. ASSUME NEW pc \in {"content", "tree", "db", "after", "requeue"}, UNCHANGED rows, Move(d, pc)
      PROVE  CarriedOn'
  BY <1>2, DutyKept DEF Move
<1>3. CASE Raise(d)
  <2>1. /\ \A e \in Rows \ {d} : rows'[e] = rows[e] /\ run'[e] = run[e]
        /\ rows[d].status = "running" => rows'[d].status \in {"queued", "failed"}
    BY <1>3, StatusSteps DEF Raise, AfterRaise, Row
  <2> QED
    BY <2>1, DutyKept
<1> QED
  BY <1>1, <1>2, <1>3

\* A step of a worker.
LEMMA CarriedOnWorker == ASSUME TypeOK, CarriedOn, NEW d \in Rows, WorkerStep(d) PROVE CarriedOn'
<1> USE DEF TypeOK, CarriesOn, BeingWorked, web, history
<1>Reserve. CASE Reserve(d)
  <2>1. rows'[d].status = "running" /\ run'[d].pc = "begin"
    BY <1>Reserve, StatusSteps DEF Reserve, Load
  <2> QED
    BY <2>1, DutyTaken DEF Unfinished
<1>ReserveGone. CASE ReserveGone(d)
  BY <1>ReserveGone DEF ReserveGone, LoadGone, CarriedOn
<1>Finish. CASE Finish(d)
  BY <1>Finish, DutyKept DEF Finish, Complete, Unfinished
<1>DestroyQueuedJobs. CASE DestroyQueuedJobs(d)
  <2>1. rows'[d].status = "orphan" /\ run'[d].pc \in {"destroy_self", "end_self"}
    BY <1>DestroyQueuedJobs, StatusSteps DEF DestroyQueuedJobs, Move, At
  <2> QED
    BY <2>1, DutyTaken
<1>DestroySelf. CASE DestroySelf(d)
  BY <1>DestroySelf DEF DestroySelf, CarriedOn
<1>Requeue. CASE Requeue(d)
  <2>1. PICK n \in FreeRows : rows' = [rows EXCEPT ![n] = Fresh]
    BY <1>Requeue DEF Requeue, BeInStateAndRequeue, PutInQueue
  <2> QED
    BY <2>1, StatusSteps, DutyTaken DEF FreeRows
<1>PerformEmailSuperusers. CASE PerformEmailSuperusers(d)
  BY <1>PerformEmailSuperusers DEF PerformEmailSuperusers, BeInState, CarriedOn
<1>1. CASE \/ PerformWaitDecision(d) \/ CreateBackupFails(d) \/ RestoreDbFails(d)
           \/ AfterRestoreFails(d)
  BY <1>1, PerformCarriesOn
  DEF PerformWaitDecision, CreateBackupFails, RestoreDbFails, AfterRestoreFails, At
<1>2. CASE \/ CreateBackup(d) \/ HandleContent(d) \/ DestroyTree(d) \/ DestroyGroup(d)
  BY <1>2, PerformCarriesOn DEF CreateBackup, HandleContent, DestroyTree, DestroyGroup, At
<1>3. CASE \/ DropBackup(d) \/ DeleteHeldContent(d) \/ RestorePhysicalContent(d)
           \/ RestoreDb(d) \/ AfterRestore(d)
  BY <1>3, PerformCarriesOn
  DEF DropBackup, DeleteHeldContent, RestorePhysicalContent, RestoreDb, AfterRestore, At
<1> QED
  BY <1>Reserve, <1>ReserveGone, <1>Finish, <1>DestroyQueuedJobs, <1>DestroySelf, <1>Requeue,
     <1>PerformEmailSuperusers, <1>1, <1>2, <1>3
  DEF WorkerStep

\* A step of a web process, or a failure of a worker or a web process.
LEMMA CarriedOnOther ==
    ASSUME TypeOK, CarriedOn, Next, ~\E d \in Rows : WorkerStep(d) PROVE CarriedOn'
<1> USE DEF TypeOK, CarriesOn, table, web, history
<1>1. ASSUME NEW d \in Rows, Interrupt(d) PROVE CarriedOn'
  <2>1. /\ \A e \in Rows \ {d} : rows'[e] = rows[e] /\ run'[e] = run[e]
        /\ rows[d].status = "running" => rows'[d].status \in {"queued", "failed"}
        /\ d \in BeingWorked
    BY <1>1, StatusSteps DEF Interrupt, AfterRaise, Row
  <2>2. run[d].pc \in {"destroy_self", "end_self"} => torn'
    BY <1>1 DEF Interrupt
  <2>3. torn => torn'
    BY <1>1 DEF Interrupt
  <2> QED
    BY <1>1, <2>1, <2>2, <2>3 DEF Interrupt, BeingWorked, CarriedOn, Unfinished
<1>2. CASE QueueSaved
  <2>1. PICK n \in FreeRows : rows' = [rows EXCEPT ![n] = Fresh]
    BY <1>2 DEF QueueSaved, PutInQueue
  <2> QED
    BY <2>1, StatusSteps, DutyTaken DEF FreeRows
<1>3. CASE QueueSavedLost
  BY <1>3 DEF QueueSavedLost, CarriedOn
<1>4. ASSUME NEW r \in Requests, NEW kind \in {"approve", "reject", "restore"},
             LoadRequest(r, kind)
      PROVE  CarriedOn'
  BY <1>4 DEF LoadRequest, CarriedOn, Unfinished
<1>5. ASSUME NEW r \in Requests, Decide(r) PROVE CarriedOn'
  BY <1>5 DEF Decide, CarriedOn
<1>6. ASSUME NEW r \in Requests, RestoreDestroysRows(r) PROVE CarriedOn'
  BY <1>6 DEF RestoreDestroysRows, CarriedOn
<1>7. ASSUME NEW r \in Requests, RestoreRequested(r) PROVE CarriedOn'
  <2>1. PICK n \in FreeRows : rows' = [rows EXCEPT ![n] = Fresh]
    BY <1>7 DEF RestoreRequested, PutInQueue
  <2> QED
    BY <2>1, StatusSteps, DutyTaken DEF FreeRows
<1>8. ASSUME NEW r \in Requests, RestoreLost(r) PROVE CarriedOn'
  BY <1>8 DEF RestoreLost, CarriedOn
<1> QED
  BY <1>1, <1>2, <1>3, <1>4, <1>5, <1>6, <1>7, <1>8 DEF Next, WebStep

(***************************************************************************)
(* A deletion that does not wait for a decision always has somebody to     *)
(* carry it on, unless a process died between two halves of one change:    *)
(* whoever destroys the rows of a deletion, the worker that ends it or a   *)
(* restore request, has taken the duty itself.                             *)
(***************************************************************************)
THEOREM NoStrandedDeletionHolds == Spec => []NoStrandedDeletion
<1>1. Init => CarriedOn
  BY DEF Init, CarriedOn
<1>2. TypeOK /\ CarriedOn /\ [Next]_vars => CarriedOn'
  <2>1. CarriedOn /\ UNCHANGED vars => CarriedOn'
    BY DEF CarriedOn, CarriesOn, Unfinished, vars, table, web, history
  <2> QED
    BY <2>1, CarriedOnWorker, CarriedOnOther
<1>3. CarriedOn => NoStrandedDeletion
  BY DEF CarriedOn, CarriesOn, NoStrandedDeletion, Drives, Unfinished
<1> QED
  BY <1>1, <1>2, <1>3, DeletionTypeCorrect, PTL DEF Spec

------------------------------------------------------------------------------
(* The final deletion is complete *)

\* The states in which every record has been moved, and only they.
Moved == {"wait_delete_content", "delete_content"}

\* What the place of worker d says of the records and of the final deletion.
PlaceTells(d) ==
    LET w == run[d] IN
    /\ w.mem \notin {"restore_content", "email_restored_content"}
    /\ w.mem \in Moved => live = {}
    /\ w.mem = "initial_handle_content" /\ w.pc = "db" => live \subseteq {"group"}
    /\ w.mem = "initial_handle_content" /\ w.pc = "requeue" => live = {}
    /\ w.mem = "delete_content" /\ w.pc \in {"content", "requeue"} => final

\* A deletion nobody asked to undo: what was moved stays moved, what was dropped
\* cannot be made again, what was deleted is not brought back.
OneWay == /\ state \notin {"restore_content", "email_restored_content"}
          /\ state \in Moved => live = {}
          /\ final => live = {} /\ ~schema
          /\ "final" \in events =>
               final /\ content = IF versioned THEN "hidden" ELSE "removed"
          /\ \A d \in Rows : PlaceTells(d)

FinalInv == TypeOK /\ (Promised \/ OneWay)

\* A promise to restore is never taken back, and only a web process makes one.
LEMMA PromiseStays ==
    ASSUME TypeOK, [Next]_vars
    PROVE  /\ Promised => Promised'
           /\ (\E d \in Rows : WorkerStep(d) \/ Interrupt(d)) => Promised' = Promised
<1> USE DEF TypeOK, Promised, web
<1>1. ASSUME NEW d \in Rows, WorkerStep(d) \/ Interrupt(d) PROVE req' = req
  BY <1>1
  DEF WorkerStep, Interrupt, Reserve, ReserveGone, Finish, DestroyQueuedJobs, DestroySelf,
      Requeue, PerformEmailSuperusers, PerformWaitDecision, CreateBackup,
      CreateBackupFails, HandleContent, DestroyTree, DestroyGroup, DropBackup,
      DeleteHeldContent, RestorePhysicalContent, RestoreDb, RestoreDbFails, AfterRestore,
      AfterRestoreFails
<1>2. CASE QueueSaved \/ QueueSavedLost \/ UNCHANGED vars
  BY <1>2 DEF QueueSaved, QueueSavedLost, vars
<1>3. ASSUME NEW q \in Requests,
             \/ \E kind \in {"approve", "reject", "restore"} : LoadRequest(q, kind)
             \/ WebStep(q) \/ RestoreLost(q)
      PROVE  Promised => Promised'
  BY <1>3 DEF LoadRequest, WebStep, Decide, RestoreDestroysRows, RestoreRequested, RestoreLost
<1> QED
  BY <1>1, <1>2, <1>3 DEF Next

\* A step that changes neither the records nor the storage, and loads or drops
\* what a worker holds.
LEMMA OneWayRows ==
    ASSUME TypeOK, OneWay, UNCHANGED <<live, schema, versioned, content, events, final>>,
           state' \in {state, "gone"},
           \A d \in Rows : \/ run'[d] \in {run[d], Idle}
                           \/ (run'[d].mem = state /\ run'[d].pc = "begin")
                           \/ run'[d].mem = "end"
    PROVE  OneWay'
<1>1. \A d \in Rows : PlaceTells(d)'
  BY DEF OneWay, PlaceTells, Moved, Idle
<1> QED
  BY <1>1 DEF OneWay, Moved

\* A step of a worker.
LEMMA OneWayWorker == ASSUME TypeOK, OneWay, NEW d \in Rows, WorkerStep(d) PROVE OneWay'
<1> USE DEF TypeOK, records, storage, history
<1>1. CASE \/ Reserve(d) \/ ReserveGone(d) \/ Finish(d) \/ DestroyQueuedJobs(d)
           \/ DestroySelf(d)
  BY <1>1, OneWayRows
  DEF Reserve, Load, ReserveGone, LoadGone, Finish, Complete, DestroyQueuedJobs,
      DestroySelf, At, Move
<1>2. CASE \/ PerformWaitDecision(d) \/ CreateBackupFails(d) \/ RestoreDbFails(d)
           \/ AfterRestoreFails(d)
  BY <1>2, OneWayRows
  DEF PerformWaitDecision, CreateBackupFails, RestoreDbFails, AfterRestoreFails, Raise
<1>3. CASE Requeue(d)
  <2>1. PICK s \in DOMAIN Successor :
             /\ At(d, s, IF s \in Heavy THEN "requeue" ELSE "begin")
             /\ BeInStateAndRequeue(d, Successor[s], "done")
    BY <1>3 DEF Requeue
  <2>2. /\ run'[d].mem = Successor[s] /\ run'[d].pc = "done"
        /\ \A e \in Rows \ {d} : run'[e] = run[e]
    <3>1. Successor[s] \in States
      BY SuccessorStates DEF States
    <3> HIDE DEF States, Places
    <3> QED
      BY <2>1, <3>1 DEF BeInStateAndRequeue
  <2>3. PlaceTells(d) /\ run[d].mem = s /\ (s \in Heavy => run[d].pc = "requeue")
    BY <2>1 DEF OneWay, At
  <2>4. /\ Successor[s] \notin {"restore_content", "email_restored_content"}
        /\ Successor[s] \in Moved => live = {}
    BY <2>3, SuccessorStates DEF PlaceTells, Moved, Heavy
  <2>5. state' = "gone" \/ state' = Successor[s]
    BY <2>1 DEF BeInStateAndRequeue, BeInState
  <2>6. \A e \in Rows : PlaceTells(e)'
    BY <1>3, <2>2, <2>4 DEF Requeue, OneWay, PlaceTells
  <2> QED
    BY <1>3, <2>4, <2>5, <2>6 DEF Requeue, OneWay, Moved
<1>4. CASE PerformEmailSuperusers(d)
  <2>1. /\ run'[d].mem = "wait_decision"
        /\ \A e \in Rows \ {d} : run'[e] = run[e]
    <3>1. "wait_decision" \in States
      BY DEF States
    <3> HIDE DEF States, Places
    <3> QED
      BY <1>4, <3>1 DEF PerformEmailSuperusers
  <2>2. state' \in {"gone", "wait_decision"}
    BY <1>4 DEF PerformEmailSuperusers, BeInState
  <2>3. \A e \in Rows : PlaceTells(e)'
    BY <1>4, <2>1 DEF PerformEmailSuperusers, OneWay, PlaceTells, Moved
  <2> QED
    BY <1>4, <2>2, <2>3 DEF PerformEmailSuperusers, OneWay, Moved
<1>5. CASE \/ CreateBackup(d) \/ HandleContent(d) \/ DestroyTree(d) \/ DestroyGroup(d)
  <2> USE DEF At, OneWay
  <2>1. /\ run[d].mem = "initial_handle_content" /\ run'[d].mem = "initial_handle_content"
        /\ \A e \in Rows \ {d} : run'[e] = run[e]
    BY <1>5 DEF CreateBackup, HandleContent, DestroyTree, DestroyGroup, Move
  <2>2. /\ UNCHANGED <<state, final, versioned>> /\ live' \subseteq live
        /\ "final" \in events' => "final" \in events
    BY <1>5 DEF CreateBackup, HandleContent, DestroyTree, DestroyGroup
  <2>3. final => ~schema'
    BY <1>5 DEF CreateBackup, HandleContent, DestroyTree, DestroyGroup
  <2>4. "final" \in events' => content' = IF versioned THEN "hidden" ELSE "removed"
    BY <1>5, <2>2 DEF CreateBackup, HandleContent, DestroyTree, DestroyGroup
  <2>5. run'[d].pc = "db" => run[d].pc = "db" \/ live' \subseteq {"group"}
    BY <1>5 DEF CreateBackup, HandleContent, DestroyTree, DestroyGroup, Move, Records
  <2>6. run'[d].pc = "requeue" => live' = {}
    BY <1>5 DEF CreateBackup, HandleContent, DestroyTree, DestroyGroup, Move, PlaceTells
  <2>7. \A e \in Rows : PlaceTells(e)'
    BY <2>1, <2>2, <2>5, <2>6 DEF PlaceTells, Moved
  <2> QED
    BY <2>2, <2>3, <2>4, <2>7
<1>6. CASE DropBackup(d) \/ DeleteHeldContent(d)
  <2> USE DEF At, OneWay
  <2>1. /\ run[d].mem = "delete_content" /\ run'[d].mem = "delete_content"
        /\ run'[d].pc \in {"content", "requeue"}
        /\ \A e \in Rows \ {d} : run'[e] = run[e]
    BY <1>6 DEF DropBackup, DeleteHeldContent, Move
  <2>2. live = {} /\ live' = {}
    BY <1>6, <2>1 DEF DropBackup, DeleteHeldContent, PlaceTells, Moved
  <2>3. final'
    BY <1>6 DEF DropBackup, DeleteHeldContent, PlaceTells
  <2>4. UNCHANGED <<state, versioned>> /\ ~schema'
    BY <1>6 DEF DropBackup, DeleteHeldContent, PlaceTells
  <2>5. "final" \in events' => content' = IF versioned THEN "hidden" ELSE "removed"
    BY <1>6 DEF DropBackup, DeleteHeldContent
  <2>6. \A e \in Rows : PlaceTells(e)'
    BY <2>1, <2>2, <2>3 DEF PlaceTells, Moved
  <2> QED
    BY <2>2, <2>3, <2>4, <2>5, <2>6
<1>7. ~(RestorePhysicalContent(d) \/ RestoreDb(d) \/ AfterRestore(d))
  BY DEF RestorePhysicalContent, RestoreDb, AfterRestore, At, OneWay, PlaceTells
<1> QED
  BY <1>1, <1>2, <1>3, <1>4, <1>5, <1>6, <1>7 DEF WorkerStep

\* Any other step, unless it promises a restoration.
LEMMA OneWayOther ==
    ASSUME TypeOK, OneWay, [Next]_vars, ~\E d \in Rows : WorkerStep(d)
    PROVE  Promised' \/ OneWay'
<1> USE DEF TypeOK, table, records, storage, history
<1>1. CASE UNCHANGED vars
  BY <1>1, OneWayRows DEF vars
<1>2. CASE \E d \in Rows : Interrupt(d)
  BY <1>2, OneWayRows DEF Interrupt
<1>3. CASE QueueSaved \/ QueueSavedLost
  BY <1>3, OneWayRows DEF QueueSaved, QueueSavedLost
<1>4. ASSUME NEW r \in Requests, NEW kind \in {"approve", "reject", "restore"},
             LoadRequest(r, kind)
      PROVE  OneWay'
  BY <1>4, OneWayRows DEF LoadRequest
<1>5. ASSUME NEW r \in Requests, Decide(r) PROVE OneWay'
  <2>1. state' \in {"gone", "email_requester_accept", "email_requester_reject"}
    BY <1>5 DEF Decide, BeInState
  <2> QED
    BY <1>5, <2>1 DEF Decide, OneWay, PlaceTells, Moved
<1>6. ASSUME NEW r \in Requests,
             RestoreDestroysRows(r) \/ RestoreRequested(r) \/ RestoreLost(r)
      PROVE  Promised'
  BY <1>6 DEF RestoreDestroysRows, RestoreRequested, RestoreLost, Promised
<1> QED
  BY <1>1, <1>2, <1>3, <1>4, <1>5, <1>6 DEF Next, WebStep

(***************************************************************************)
(* Once the final deletion is on record nothing is left behind, unless an  *)
(* administrator asked to restore: a second worker that repeats an earlier *)
(* step of the deletion, however late, finds nothing to back up again and  *)
(* nothing to hide.                                                        *)
(***************************************************************************)
THEOREM FinalDeletionIsCompleteHolds == Spec => []FinalDeletionIsComplete
<1>1. Init => FinalInv
  <2> SUFFICES ASSUME Init PROVE OneWay
    BY TypeInit DEF FinalInv
  <2> QED
    BY DEF Init, OneWay, PlaceTells, Moved, Idle
<1>2. FinalInv /\ [Next]_vars => FinalInv'
  <2> SUFFICES ASSUME FinalInv, [Next]_vars, ~Promised PROVE Promised' \/ OneWay'
    BY TypeNext, PromiseStays DEF FinalInv
  <2> QED
    BY OneWayWorker, OneWayOther DEF FinalInv
<1>3. FinalInv => FinalDeletionIsComplete
  BY DEF FinalInv, OneWay, FinalDeletionIsComplete
<1> QED
  BY <1>1, <1>2, <1>3, PTL DEF Spec

================================================================================
