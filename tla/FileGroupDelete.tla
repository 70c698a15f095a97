--------------------------- MODULE FileGroupDelete ---------------------------
(***************************************************************************)
(* The deletion of one file group (Workflow::FileGroupDelete): request,    *)
(* decision, removal of the database records into a holding schema and of  *)
(* the content from sight, and months later either the final deletion or,  *)
(* when an administrator asked in time, the restoration.                   *)
(*                                                                         *)
(* What can be lost is in two stores without a common transaction, so a    *)
(* perform is cut at every commit and at every storage call; web requests  *)
(* write the state column and the queue in separate commits too.           *)
(***************************************************************************)
EXTENDS WorkflowBase, FiniteSets

CONSTANTS
    Requests,   \* decisions and restore requests: a bound on their number
    MaxFaults   \* bound on raises and process deaths

ASSUME FaultsAssumption == MaxFaults \in Nat

VARIABLES
    versioned,  \* main_root.versioned: deleting inserts delete markers
    live,       \* records of the file group in the database
    schema,     \* the holding schema fg_holding_<id> exists
    held,       \* records copied to it
    content,    \* "stored", "hidden" (delete markers) or "removed"
    notice,     \* the notification file of an unversioned root
    events,     \* file_group_delete_* events on the collection
    req,        \* the web requests; what they came to is kept
    toQueue,    \* web processes between their save and their put_in_queue
    final,      \* history: a final deletion began
    torn,       \* history: a process died between two halves of one change
    doubled,    \* history: two rows carry the deletion on, see Interrupt and Decide
    faults      \* injected failures so far

table   == <<rows, run>>
records == <<live, schema, held>>
storage == <<versioned, content, notice>>
web     == <<req, toQueue>>
history == <<final, torn, doubled, faults>>
vars    == <<table, state, records, storage, events, web, history>>

States == {"start", "email_superusers", "wait_decision", "email_requester_accept",
           "email_requester_reject", "initial_handle_content", "wait_delete_content",
           "delete_content", "restore_content", "email_restored_content",
           "email_requester_final_removal", "end"}

Places == {"idle", "begin", "content", "tree", "db", "after", "requeue", "done",
           "destroy_self", "end_self"}

\* The files with the directories below the root; the root directory; the group.
Records == {"tree", "root", "group"}

\* A decision and a restore request are loaded, then acted upon; a restore
\* request destroys the rows first and writes the state later.
RequestStates == {"unused", "approve", "reject", "approved", "rejected",
                  "restore", "restore_unqueued", "restoring", "lost"}

TypeOK ==
    /\ rows \in [Rows -> Row]
    /\ run \in [Rows -> [mem : States, pc : Places, batch : {{}}]]
    /\ state \in States \cup {"gone"}
    /\ live \subseteq Records /\ held \subseteq Records
    /\ schema \in BOOLEAN /\ (~schema => held = {})
    /\ versioned \in BOOLEAN /\ notice \in BOOLEAN
    /\ content \in {"stored", "hidden", "removed"}
    /\ events \subseteq {"moved", "final", "restored"}
    /\ req \in [Requests -> RequestStates]
    /\ toQueue \in Nat
    /\ final \in BOOLEAN /\ torn \in BOOLEAN /\ doubled \in BOOLEAN
    /\ faults \in 0 .. MaxFaults

\* create: the record is saved; the same web process has yet to queue it.
Init ==
    /\ rows = [d \in Rows |-> Absent] /\ run = [d \in Rows |-> Idle]
    /\ state = "start" /\ toQueue = 1
    /\ live = Records /\ schema = FALSE /\ held = {}
    /\ versioned \in BOOLEAN /\ content = "stored" /\ notice = FALSE
    /\ events = {} /\ req = [r \in Requests |-> "unused"]
    /\ final = FALSE /\ torn = FALSE /\ doubled = FALSE /\ faults = 0

------------------------------------------------------------------------------
(* The worker around a perform *)

Reserve(d) ==
    /\ Load(d)
    /\ UNCHANGED <<state, records, storage, events, web, history>>

ReserveGone(d) ==
    /\ LoadGone(d)
    /\ UNCHANGED <<state, records, storage, events, web, history>>

Finish(d) ==
    /\ Complete(d)
    /\ UNCHANGED <<state, records, storage, events, web, history>>

\* The rows and then the record are destroyed, by perform_end and (again) by
\* the success hook.
DestroyQueuedJobs(d) ==
    /\ \E pc \in {"begin", "done"} :
         /\ At(d, "end", pc)
         /\ Move(d, IF pc = "begin" THEN "end_self" ELSE "destroy_self")
    /\ rows' = [e \in Rows |-> Destroyed(rows[e])]
    /\ UNCHANGED <<state, records, storage, events, web, history>>

DestroySelf(d) ==
    /\ state' = "gone"
    /\ \/ At(d, "end", "end_self") /\ Move(d, "done") /\ UNCHANGED rows
       \/ /\ At(d, "end", "destroy_self")
          /\ rows' = [rows EXCEPT ![d] = Absent]
          /\ run' = [run EXCEPT ![d] = Idle]
    /\ UNCHANGED <<records, storage, events, web, history>>

\* Anything a perform calls may raise, and the worker may die.  A row that
\* outlives its perform is performed again beside the row that perform queued.
Interrupt(d) ==
    /\ d \in BeingWorked /\ faults < MaxFaults /\ faults' = faults + 1
    /\ \E row \in {AfterRaise(rows[d]), AfterCrash(rows[d])} :
         rows' = [rows EXCEPT ![d] = row]
    /\ run' = [run EXCEPT ![d] = Idle]
    /\ torn' = (torn \/ run[d].pc \in {"destroy_self", "end_self"})
    /\ doubled' = (doubled \/ (run[d].pc = "done" /\ rows[d].status = "running"))
    /\ UNCHANGED <<state, records, storage, events, web, final>>

------------------------------------------------------------------------------
(* Mails and transitions *)

\* The states whose perform goes on to one next state.
Successor == [s \in {"start", "email_requester_accept", "email_requester_reject",
                     "initial_handle_content", "wait_delete_content", "delete_content",
                     "restore_content", "email_restored_content",
                     "email_requester_final_removal"} |->
    CASE s = "start"                  -> "email_superusers"
      [] s = "email_requester_accept" -> "initial_handle_content"
      [] s = "initial_handle_content" -> "wait_delete_content"
      [] s = "wait_delete_content"    -> "delete_content"
      [] s = "delete_content"         -> "email_requester_final_removal"
      [] s = "restore_content"        -> "email_restored_content"
      [] OTHER                        -> "end"]

\* These do more than a mail before they go on.
Heavy == {"initial_handle_content", "delete_content", "restore_content"}

\* Mutant: the next state is written, nothing is queued.
BeInNextState(d) ==
    /\ \E s \in DOMAIN Successor :
         /\ At(d, s, IF s \in Heavy THEN "requeue" ELSE "begin")
         /\ BeInState(Successor[s])
         /\ run' = [run EXCEPT ![d].mem = Successor[s], ![d].pc = "done"]
    /\ UNCHANGED <<rows, records, storage, events, web, history>>

\* The mail, if any, and then the next state with its row.  The row of
\* wait_delete_content is due 120 days later; only that it comes matters.
Requeue(d) ==
    /\ \E s \in DOMAIN Successor :
         /\ At(d, s, IF s \in Heavy THEN "requeue" ELSE "begin")
         /\ BeInStateAndRequeue(d, Successor[s], "done")
    /\ UNCHANGED <<records, storage, events, web, history>>

\* The administrators are asked; no row until one of them answers.
PerformEmailSuperusers(d) ==
    /\ At(d, "email_superusers", "begin")
    /\ BeInState("wait_decision")
    /\ run' = [run EXCEPT ![d].mem = "wait_decision", ![d].pc = "done"]
    /\ UNCHANGED <<rows, records, storage, events, web, history>>

PerformWaitDecision(d) ==
    /\ At(d, "wait_decision", "begin")
    /\ Raise(d)
    /\ UNCHANGED <<state, records, storage, events, web, history>>

------------------------------------------------------------------------------
(* initial_handle_content *)

\* Mutant: the holding schema is made anew each time.
CreateBackupAgain(d) ==
    /\ At(d, "initial_handle_content", "begin")
    /\ schema' = TRUE /\ held' = live
    /\ Move(d, "content")
    /\ UNCHANGED <<rows, state, live, storage, events, web, history>>

\* In one transaction, unless an earlier attempt has done it.
CreateBackup(d) ==
    /\ At(d, "initial_handle_content", "begin")
    /\ schema \/ {"root", "group"} \subseteq live
    /\ schema' = TRUE
    /\ held' = IF schema THEN held ELSE live
    /\ Move(d, "content")
    /\ UNCHANGED <<rows, state, live, storage, events, web, history>>

\* Without schema and without group or root there is nothing to ask for an id.
CreateBackupFails(d) ==
    /\ At(d, "initial_handle_content", "begin")
    /\ ~schema /\ ~({"root", "group"} \subseteq live)
    /\ Raise(d)
    /\ UNCHANGED <<state, records, storage, events, web, history>>

\* A versioned root hides the content, another only gets a notification file.
HandleContent(d) ==
    /\ At(d, "initial_handle_content", "content")
    /\ content' = IF versioned /\ content = "stored" THEN "hidden" ELSE content
    /\ notice' = (notice \/ ~versioned)
    /\ Move(d, "tree")
    /\ UNCHANGED <<rows, state, records, versioned, events, web, history>>

\* Leaves first, each record in a transaction of its own.
DestroyTree(d) ==
    /\ At(d, "initial_handle_content", "tree")
    /\ \/ "tree" \in live /\ live' = live \ {"tree"} /\ UNCHANGED run
       \/ "tree" \notin live /\ live' = live \ {"root"} /\ Move(d, "db")
    /\ UNCHANGED <<rows, state, schema, held, storage, events, web, history>>

\* The group, with the event.
DestroyGroup(d) ==
    /\ At(d, "initial_handle_content", "db")
    /\ live' = live \ {"group"} /\ events' = events \cup {"moved"}
    /\ Move(d, "requeue")
    /\ UNCHANGED <<rows, state, schema, held, storage, web, history>>

------------------------------------------------------------------------------
(* delete_content and restore_content *)

DropBackup(d) ==
    /\ At(d, "delete_content", "begin")
    /\ schema' = FALSE /\ held' = {} /\ final' = TRUE
    /\ Move(d, "content")
    /\ UNCHANGED <<rows, state, live, storage, events, web, torn, doubled, faults>>

\* Mutant: what is to be deleted for good is only hidden.
DeleteHeldContentKept(d) ==
    /\ At(d, "delete_content", "content")
    /\ content' = IF versioned THEN "hidden" ELSE "stored"
    /\ notice' = FALSE /\ events' = events \cup {"final"}
    /\ Move(d, "requeue")
    /\ UNCHANGED <<rows, state, records, versioned, web, history>>

\* The same call that hid the content of a versioned root, and the event.
DeleteHeldContent(d) ==
    /\ At(d, "delete_content", "content")
    /\ content' = IF versioned THEN "hidden" ELSE "removed"
    /\ notice' = FALSE /\ events' = events \cup {"final"}
    /\ Move(d, "requeue")
    /\ UNCHANGED <<rows, state, records, versioned, web, history>>

RestorePhysicalContent(d) ==
    /\ At(d, "restore_content", "begin")
    /\ content' = IF content = "hidden" THEN "stored" ELSE content
    /\ notice' = FALSE
    /\ Move(d, "db")
    /\ UNCHANGED <<rows, state, records, versioned, events, web, history>>

\* Mutant: the records are inserted and the schema is left behind.
RestoreDbKeepingSchema(d) ==
    /\ At(d, "restore_content", "db")
    /\ held \cap live = {}
    /\ live' = live \cup held /\ UNCHANGED <<schema, held>>
    /\ Move(d, "after")
    /\ UNCHANGED <<rows, state, storage, events, web, history>>

\* One transaction inserts the records and drops the schema; no schema,
\* nothing to do.
RestoreDb(d) ==
    /\ At(d, "restore_content", "db")
    /\ held \cap live = {}
    /\ live' = live \cup held /\ schema' = FALSE /\ held' = {}
    /\ Move(d, "after")
    /\ UNCHANGED <<rows, state, storage, events, web, history>>

\* A record that is still there has the id to be inserted.
RestoreDbFails(d) ==
    /\ At(d, "restore_content", "db") /\ held \cap live # {}
    /\ Raise(d)
    /\ UNCHANGED <<state, records, storage, events, web, history>>

\* after_restore walks the group's tree, then the event.
AfterRestore(d) ==
    /\ At(d, "restore_content", "after") /\ {"root", "group"} \subseteq live
    /\ events' = events \cup {"restored"}
    /\ Move(d, "requeue")
    /\ UNCHANGED <<rows, state, records, storage, web, history>>

AfterRestoreFails(d) ==
    /\ At(d, "restore_content", "after") /\ ~({"root", "group"} \subseteq live)
    /\ Raise(d)
    /\ UNCHANGED <<state, records, storage, events, web, history>>

------------------------------------------------------------------------------
(* Web requests: administrators only *)

\* The last half of create and of a decision.
QueueSaved ==
    /\ toQueue > 0 /\ toQueue' = toQueue - 1
    /\ PutInQueue
    /\ UNCHANGED <<run, state, records, storage, events, req, history>>

\* The web process dies before it.
QueueSavedLost ==
    /\ toQueue > 0 /\ toQueue' = toQueue - 1
    /\ faults < MaxFaults /\ faults' = faults + 1
    /\ torn' = TRUE
    /\ UNCHANGED <<table, state, records, storage, events, req, final, doubled>>

\* Mutant: a restore request looks at no state.
LoadRequestAnyState(r, kind) ==
    /\ req[r] = "unused"
    /\ kind = "restore" \/ state = "wait_decision"
    /\ req' = [req EXCEPT ![r] = kind]
    /\ UNCHANGED <<table, state, records, storage, events, toQueue, history>>

\* Both kinds look at the state they load; any other state ends the request.
LoadRequest(r, kind) ==
    /\ req[r] = "unused"
    /\ state = IF kind = "restore" THEN "wait_delete_content" ELSE "wait_decision"
    /\ req' = [req EXCEPT ![r] = kind]
    /\ UNCHANGED <<table, state, records, storage, events, toQueue, history>>

Decide(r) ==
    /\ \/ /\ req[r] = "approve" /\ req' = [req EXCEPT ![r] = "approved"]
          /\ BeInState("email_requester_accept")
       \/ /\ req[r] = "reject" /\ req' = [req EXCEPT ![r] = "rejected"]
          /\ BeInState("email_requester_reject")
    /\ toQueue' = toQueue + 1
    /\ doubled' = (doubled \/ \E s \in Requests : req[s] \in {"approved", "rejected"})
    /\ UNCHANGED <<table, records, storage, events, final, torn, faults>>

\* restore_content_requested: the rows of the workflow go ...
RestoreDestroysRows(r) ==
    /\ req[r] = "restore" /\ req' = [req EXCEPT ![r] = "restore_unqueued"]
    /\ rows' = [e \in Rows |-> Destroyed(rows[e])]
    /\ UNCHANGED <<run, state, records, storage, events, toQueue, history>>

\* ... and then the state is written and the new row queued; the
\* administrator reads "Starting to restore content".
RestoreRequested(r) ==
    /\ req[r] = "restore_unqueued" /\ req' = [req EXCEPT ![r] = "restoring"]
    /\ BeInState("restore_content") /\ PutInQueue
    /\ UNCHANGED <<run, records, storage, events, toQueue, history>>

\* The web process dies between the two.
RestoreLost(r) ==
    /\ req[r] = "restore_unqueued" /\ req' = [req EXCEPT ![r] = "lost"]
    /\ faults < MaxFaults /\ faults' = faults + 1
    /\ torn' = TRUE
    /\ UNCHANGED <<table, state, records, storage, events, toQueue, final, doubled>>

------------------------------------------------------------------------------
WorkerStep(d) ==
    \/ Reserve(d) \/ ReserveGone(d) \/ Finish(d) \/ DestroyQueuedJobs(d) \/ DestroySelf(d)
    \/ Requeue(d) \/ PerformEmailSuperusers(d) \/ PerformWaitDecision(d)
    \/ CreateBackup(d) \/ CreateBackupFails(d) \/ HandleContent(d)
    \/ DestroyTree(d) \/ DestroyGroup(d)
    \/ DropBackup(d) \/ DeleteHeldContent(d)
    \/ RestorePhysicalContent(d) \/ RestoreDb(d) \/ RestoreDbFails(d)
    \/ AfterRestore(d) \/ AfterRestoreFails(d)

\* A web process goes through with the request it has begun.
WebStep(r) == Decide(r) \/ RestoreDestroysRows(r) \/ RestoreRequested(r)

Next ==
    \/ \E d \in Rows : WorkerStep(d) \/ Interrupt(d)
    \/ QueueSaved \/ QueueSavedLost
    \/ \E r \in Requests : \/ \E kind \in {"approve", "reject", "restore"} : LoadRequest(r, kind)
                           \/ WebStep(r) \/ RestoreLost(r)

Spec == Init /\ [][Next]_vars

(***************************************************************************)
(* Workers take their rows and finish what they took, a web process that   *)
(* began a request ends it; nobody has to begin one.                       *)
(***************************************************************************)
Fairness ==
    /\ \A d \in Rows : WF_vars(WorkerStep(d))
    /\ \A r \in Requests : WF_vars(WebStep(r))
    /\ WF_vars(QueueSaved)

FairSpec == Spec /\ Fairness

------------------------------------------------------------------------------
(* Properties *)

Promised  == \E r \in Requests : req[r] \in {"restore_unqueued", "restoring", "lost"}

(***************************************************************************)
(* Until a final deletion begins, every record of the file group is in the *)
(* database or in the holding schema, whatever raises, dies or is repeated *)
(* between the two; but for a deletion carried on by two rows at once: the *)
(* second may destroy what a restoration has brought back.                 *)
(***************************************************************************)
RecordsKept == final \/ doubled \/ live \cup held = Records

(***************************************************************************)
(* Nothing is destroyed, hidden or announced before an administrator       *)
(* approved the request.                                                   *)
(***************************************************************************)
NothingLostUnapproved ==
    live # Records \/ content # "stored" \/ notice \/ events # {} =>
        \E r \in Requests : req[r] = "approved"

(***************************************************************************)
(* When the final deletion is on record, neither content nor records are   *)
(* left behind, unless an administrator asked to restore while it began.   *)
(***************************************************************************)
FinalDeletionIsComplete ==
    "final" \in events /\ ~Promised =>
        /\ live = {} /\ ~schema
        /\ content = IF versioned THEN "hidden" ELSE "removed"

\* The worker of d has yet to queue the row that carries the deletion on.
Unfinished(d) ==
    \/ run[d].pc \in {"begin", "content", "tree", "db", "after", "requeue",
                      "destroy_self", "end_self"}
    \/ run[d].pc = "done" /\ run[d].mem = "end"

Drives(d) == \/ rows[d].status \in {"queued", "failed"}
             \/ rows[d].status \in {"running", "orphan"} /\ Unfinished(d)

(***************************************************************************)
(* A deletion that does not wait for a decision has a row that will carry  *)
(* it on, a web process about to queue one, or a failed row an operator    *)
(* can see; but when a process died between two halves of one change.      *)
(***************************************************************************)
NoStrandedDeletion ==
    state \notin {"wait_decision", "gone"} /\ ~torn =>
        \/ \E d \in Rows : Drives(d)
        \/ toQueue > 0
        \/ \E r \in Requests : req[r] = "restore_unqueued"

Kept == live = Records /\ content = "stored" /\ ~notice /\ ~schema

(***************************************************************************)
(* A promised restoration ends with everything back, or visibly fails, or  *)
(* a final deletion had begun (and but for torn changes and deletions      *)
(* carried on by two rows).                                                *)
(***************************************************************************)
RestorationHappens ==
    Promised ~> Kept \/ FailedRows # {} \/ final \/ torn \/ doubled

(***************************************************************************)
(* A deletion that has begun to move records to the holding schema is      *)
(* carried to the end of the workflow, be it final or by a restoration;    *)
(* the last disjunct is the bound on the rows, which two carriers exhaust. *)
(***************************************************************************)
BegunDeletionEnds ==
    state = "initial_handle_content" ~>
        state = "gone" \/ FailedRows # {} \/ torn \/ (doubled /\ FreeRows = {})
==============================================================================
