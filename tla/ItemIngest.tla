------------------------------ MODULE ItemIngest ------------------------------
(***************************************************************************)
(* Workflow::ProjectItemIngest: the staged content of a project's items is *)
(* copied into the collection, recorded in the CFS tree and assessed, one  *)
(* item after another, while the project's managers ask for more.  An item *)
(* is in one workflow at a time: the table of requests has a unique index  *)
(* on it.  An item is skipped when nothing of it is staged or a directory  *)
(* can not be listed; anything else that goes wrong repeats the whole      *)
(* perform, on what the items have become.                                 *)
(*                                                                         *)
(* An item's files are one content: nothing, some or all of them stored.   *)
(* Left out: the assessment of what is below the item's directory (see     *)
(* CfsTree), the texts of mails, and the editing of items by hand.         *)
(***************************************************************************)
EXTENDS DelayedJobs, FiniteSets

CONSTANTS
    Items,
    Flows,        \* workflows: a bound on those ever created
    Managers,     \* requests of managers
    None,         \* no workflow
    MaxFaults     \* bound on raises, deaths, unlisted directories and lost destinations

ASSUME NamesAssumption  == None \notin Flows /\ Items # {}
ASSUME BoundsAssumption == MaxFaults \in Nat

States == {"start", "email_started", "ingest", "email_progress", "email_done",
           "email_staging_directory_missing", "email_target_directory_missing", "end"}

VARIABLES
    of,         \* the workflow of each row
    run,        \* what the worker of a row holds
    state,      \* the state column of each workflow
    request,    \* of each item: the workflow it is requested in, or None
    asked,      \* what the web process of a manager does, for which items
    staged,     \* items with content in the project's staging directory
    stored,     \* how much of an item's content is at its destination
    record,     \* the item's directory: no record, a record, a record with files
    ingested,   \* the items' ingested column
    by,         \* history: the workflow that ingested an item
    events,     \* workflows with a project_item_ingest event
    cancelled,  \* history: workflows told of a missing directory
    doubled,    \* history: workflows a death left with two rows
    torn,       \* history: workflows whose rows are gone and whose record is not
    faults

jobs    == <<rows, of, run, state>>
content == <<staged, stored, record, ingested, by>>
history == <<events, cancelled, doubled, torn>>
vars    == <<jobs, request, asked, content, history, faults>>

Pc   == {"idle", "begin", "items", "copy", "copied", "create", "assess", "save",
         "event", "destroy", "done"}
Run  == [mem : States, pc : Pc, todo : SUBSET Items, item : Items]

TypeOK ==
    /\ rows \in [Rows -> Row] /\ of \in [Rows -> Flows \cup {None}]
    /\ run \in [Rows -> Run]
    /\ state \in [Flows -> States \cup {"unborn", "gone"}]
    /\ request \in [Items -> Flows \cup {None}]
    /\ asked \in [Managers -> [pc : {"ask", "create", "over"}, items : SUBSET Items]]
    /\ staged \subseteq Items /\ stored \in [Items -> {"none", "part", "all"}]
    /\ record \in [Items -> {"none", "made", "filled"}]
    /\ ingested \subseteq Items /\ by \in [Items -> Flows \cup {None}]
    /\ events \cup cancelled \cup doubled \cup torn \subseteq Flows
    /\ faults \in 0 .. MaxFaults

AnyItem == CHOOSE i \in Items : TRUE
Quiet   == [pc |-> "over", items |-> {}]
Free    == [mem |-> "start", pc |-> "idle", todo |-> {}, item |-> AnyItem]

Init ==
    /\ rows = [d \in Rows |-> Absent] /\ of = [d \in Rows |-> None]
    /\ run = [d \in Rows |-> Free]
    /\ state = [f \in Flows |-> "unborn"]
    /\ request = [i \in Items |-> None]
    /\ asked \in [Managers -> {Quiet, [Quiet EXCEPT !.pc = "ask"]}]
    /\ staged \in SUBSET Items /\ ingested \in SUBSET Items
    /\ stored = [i \in Items |-> IF i \in ingested THEN "all" ELSE "none"]
    /\ record = [i \in Items |-> IF i \in ingested THEN "filled" ELSE "none"]
    /\ by = [i \in Items |-> None]
    /\ events = {} /\ cancelled = {} /\ doubled = {} /\ torn = {} /\ faults = 0

------------------------------------------------------------------------------
(* Managers *)

\* ingest_items: the items not ingested and not in a workflow.
Ask(m) ==
    /\ asked[m].pc = "ask"
    /\ \E picked \in SUBSET Items :
        LET items == {i \in picked \ ingested : request[i] = None} IN
        asked' = [asked EXCEPT ![m] = IF items = {} THEN Quiet ELSE [pc |-> "create", items |-> items]]
    /\ UNCHANGED <<jobs, request, content, history, faults>>

\* Which free row or unborn workflow is taken makes no difference.
NewRow  == CHOOSE d \in FreeRows : TRUE
Unborn  == {f \in Flows : state[f] = "unborn"}
NewFlow == CHOOSE f \in Unborn : TRUE

PutInQueue(f) ==
    /\ FreeRows # {}
    /\ rows' = [rows EXCEPT ![NewRow] = Fresh] /\ of' = [of EXCEPT ![NewRow] = f]

\* Mutant: no unique index; the later workflow takes the item over.
CreateWorkflowAnyway(m) ==
    /\ asked[m].pc = "create"
    /\ asked' = [asked EXCEPT ![m] = Quiet]
    /\ Unborn # {}
    /\ state' = [state EXCEPT ![NewFlow] = "start"]
    /\ request' = [i \in Items |-> IF i \in asked[m].items THEN NewFlow ELSE request[i]]
    /\ PutInQueue(NewFlow)
    /\ UNCHANGED <<run, content, history, faults>>

\* One transaction; the unique index of the requests rolls it back.
CreateWorkflow(m) ==
    /\ asked[m].pc = "create"
    /\ asked' = [asked EXCEPT ![m] = Quiet]
    /\ IF \E i \in asked[m].items : request[i] # None
       THEN UNCHANGED <<rows, of, state, request>>
       ELSE /\ Unborn # {}
            /\ state' = [state EXCEPT ![NewFlow] = "start"]
            /\ request' = [i \in Items |-> IF i \in asked[m].items THEN NewFlow ELSE request[i]]
            /\ PutInQueue(NewFlow)
    /\ UNCHANGED <<run, content, history, faults>>

\* Staged content of ingested items is cleared away.
ClearStaging(i) ==
    /\ i \in staged \cap ingested
    /\ staged' = staged \ {i}
    /\ UNCHANGED <<jobs, request, asked, stored, record, ingested, by, history, faults>>

------------------------------------------------------------------------------
(* Workers *)

At(d, s, pc) == d \in BeingWorked /\ run[d].mem = s /\ run[d].pc = pc

Reserve(d) ==
    /\ rows[d].status = "queued" /\ state[of[d]] # "gone"
    /\ rows' = [rows EXCEPT ![d] = Locked(@)]
    /\ run' = [run EXCEPT ![d] = [Free EXCEPT !.mem = state[of[d]], !.pc = "begin"]]
    /\ UNCHANGED <<of, state, request, asked, content, history, faults>>

BeInStateAndRequeue(d, s) ==
    /\ state' = [state EXCEPT ![of[d]] = IF @ = "gone" THEN "gone" ELSE s]
    /\ PutInQueue(of[d])
    /\ run' = [run EXCEPT ![d] = [Free EXCEPT !.mem = s, !.pc = "done"]]

Successor == [start                           |-> "email_started",
              email_started                   |-> "ingest",
              email_progress                  |-> "email_done",
              email_done                      |-> "end",
              email_staging_directory_missing |-> "end",
              email_target_directory_missing  |-> "end"]

\* perform_start and the performs that send a mail.
PerformEmail(d) ==
    /\ \E s \in DOMAIN Successor : At(d, s, "begin") /\ BeInStateAndRequeue(d, Successor[s])
    /\ UNCHANGED <<request, asked, content, history, faults>>

Cancel(d, s) ==
    /\ At(d, "ingest", "begin")
    /\ BeInStateAndRequeue(d, s)
    /\ cancelled' = cancelled \cup {of[d]}
    /\ UNCHANGED <<request, asked, content, events, doubled, torn>>

\* The destination can not be found: somebody edited the project.
TargetMissing(d) ==
    /\ faults < MaxFaults /\ faults' = faults + 1
    /\ Cancel(d, "email_target_directory_missing")

StagingMissing(d) ==
    /\ staged = {} /\ UNCHANGED faults
    /\ Cancel(d, "email_staging_directory_missing")

Raise(d) ==
    /\ rows' = [rows EXCEPT ![d] = AfterRaise(@)] /\ run' = [run EXCEPT ![d] = Free]
    /\ of' = IF rows'[d] = Absent THEN [of EXCEPT ![d] = None] ELSE of

Move(d, pc) == run' = [run EXCEPT ![d].pc = pc]

\* The items and their ingested columns are read at once.
LoadItems(d) ==
    /\ At(d, "ingest", "begin") /\ staged # {}
    /\ run' = [run EXCEPT ![d].pc = "items",
                          ![d].todo = {i \in Items \ ingested : request[i] = of[d]}]
    /\ UNCHANGED <<rows, of, state, request, asked, content, history, faults>>

NextItem(d) ==
    /\ At(d, "ingest", "items")
    /\ \E i \in run[d].todo :
        run' = [run EXCEPT ![d].todo = @ \ {i}, ![d].item = i,
                           ![d].pc = IF i \in staged THEN "copy" ELSE "items"]
    /\ UNCHANGED <<rows, of, state, request, asked, content, history, faults>>

\* The first of the item's files is copied.
CopyItem(d) ==
    /\ At(d, "ingest", "copy")
    /\ LET i == run[d].item IN
       IF i \in staged
       THEN /\ Move(d, "copied") /\ UNCHANGED <<rows, of>>
            /\ stored' = [stored EXCEPT ![i] = IF @ = "none" THEN "part" ELSE @]
       ELSE Raise(d) /\ UNCHANGED stored
    /\ UNCHANGED <<state, request, asked, staged, record, ingested, by, history, faults>>

\* The rest is copied, and the item's directory looked up.
FindDirectory(d) ==
    /\ At(d, "ingest", "copied")
    /\ LET i == run[d].item IN
       IF i \in staged
       THEN /\ Move(d, IF record[i] = "none" THEN "create" ELSE "assess") /\ UNCHANGED <<rows, of>>
            /\ stored' = [stored EXCEPT ![i] = "all"]
       ELSE Raise(d) /\ UNCHANGED stored
    /\ UNCHANGED <<state, request, asked, staged, record, ingested, by, history, faults>>

\* Another worker may have made it: the index of directories then makes this one raise.
CreateDirectory(d) ==
    /\ At(d, "ingest", "create")
    /\ LET i == run[d].item IN
       IF record[i] = "none"
       THEN /\ record' = [record EXCEPT ![i] = "made"]
            /\ Move(d, "assess") /\ UNCHANGED <<rows, of>>
       ELSE Raise(d) /\ UNCHANGED record
    /\ UNCHANGED <<state, request, asked, staged, stored, ingested, by, history, faults>>

AssessItem(d) ==
    /\ At(d, "ingest", "assess")
    /\ record' = [record EXCEPT ![run[d].item] = "filled"]
    /\ Move(d, "save")
    /\ UNCHANGED <<rows, of, state, request, asked, staged, stored, ingested, by, history, faults>>

MarkIngested(d) ==
    /\ At(d, "ingest", "save")
    /\ ingested' = ingested \cup {run[d].item}
    /\ by' = [by EXCEPT ![run[d].item] = of[d]]
    /\ Move(d, "items")
    /\ UNCHANGED <<rows, of, state, request, asked, staged, stored, record, history, faults>>

Ingesting == {d \in BeingWorked : run[d].pc \in {"copy", "copied", "create", "assess", "save"}}

\* Mutant: an item that was skipped is marked with the others.
SkipItemMarked(d) ==
    /\ d \in Ingesting /\ faults < MaxFaults
    /\ Move(d, "items")
    /\ ingested' = ingested \cup {run[d].item}
    /\ faults' = faults + 1
    /\ UNCHANGED <<rows, of, state, request, asked, staged, stored, record, by, history>>

\* InvalidDirectory while an item is ingested: "just pass".
SkipItem(d) ==
    /\ d \in Ingesting /\ faults < MaxFaults
    /\ Move(d, "items")
    /\ faults' = faults + 1
    /\ UNCHANGED <<rows, of, state, request, asked, content, history>>

\* Mutant: the workflow goes on before its event is made.
AddFileGroupEventLate(d) ==
    /\ \/ /\ At(d, "ingest", "items") /\ run[d].todo = {}
          /\ BeInStateAndRequeue(d, "email_progress") /\ UNCHANGED events
       \/ /\ At(d, "email_progress", "done") /\ of[d] \notin events
          /\ events' = events \cup {of[d]} /\ UNCHANGED <<rows, of, run, state>>
    /\ UNCHANGED <<request, asked, content, cancelled, doubled, torn, faults>>

AddFileGroupEvent(d) ==
    /\ At(d, "ingest", "items") /\ run[d].todo = {}
    /\ events' = events \cup {of[d]}
    /\ Move(d, "event")
    /\ UNCHANGED <<rows, of, state, request, asked, content, cancelled, doubled, torn, faults>>

IngestDone(d) ==
    /\ At(d, "ingest", "event")
    /\ BeInStateAndRequeue(d, "email_progress")
    /\ UNCHANGED <<request, asked, content, history, faults>>

\* The perform is over and the row is deleted.
Finish(d) ==
    /\ d \in BeingWorked /\ run[d].pc = "done" /\ run[d].mem # "end"
    /\ rows' = [rows EXCEPT ![d] = Absent] /\ run' = [run EXCEPT ![d] = Free]
    /\ of' = [of EXCEPT ![d] = None]
    /\ UNCHANGED <<state, request, asked, content, history, faults>>

\* The success hook of the worker that came to 'end', or perform_end, if it died.
DestroyQueuedJobs(d) ==
    /\ At(d, "end", "done") \/ At(d, "end", "begin")
    /\ rows' = [e \in Rows |-> IF of[e] = of[d] /\ rows[e].status # "absent"
                               THEN Destroyed(rows[e]) ELSE rows[e]]
    /\ run' = [run EXCEPT ![d].pc = "destroy"]
    /\ of' = [e \in Rows |-> IF rows'[e] = Absent THEN None ELSE of[e]]
    /\ UNCHANGED <<state, request, asked, content, history, faults>>

\* Mutant: the requests are left behind.
DestroySelfOnly(d) ==
    /\ At(d, "end", "destroy")
    /\ state' = [state EXCEPT ![of[d]] = "gone"]
    /\ rows' = [rows EXCEPT ![d] = Absent] /\ run' = [run EXCEPT ![d] = Free]
    /\ of' = [of EXCEPT ![d] = None]
    /\ torn' = torn \ {of[d]}
    /\ UNCHANGED <<request, asked, content, events, cancelled, doubled, faults>>

\* The record goes with its requests.
DestroySelf(d) ==
    /\ At(d, "end", "destroy")
    /\ state' = [state EXCEPT ![of[d]] = "gone"]
    /\ request' = [i \in Items |-> IF request[i] = of[d] THEN None ELSE request[i]]
    /\ rows' = [rows EXCEPT ![d] = Absent] /\ run' = [run EXCEPT ![d] = Free]
    /\ of' = [of EXCEPT ![d] = None]
    /\ torn' = torn \ {of[d]}
    /\ UNCHANGED <<asked, content, events, cancelled, doubled, faults>>

ReserveGone(d) ==
    /\ rows[d].status = "queued" /\ state[of[d]] = "gone"
    /\ rows' = [rows EXCEPT ![d] = AfterDeserializationError]
    /\ UNCHANGED <<of, run, state, request, asked, content, history, faults>>

\* Anything a perform calls raises, or its worker dies.
Interrupt(d) ==
    /\ d \in BeingWorked /\ faults < MaxFaults
    /\ rows' = [rows EXCEPT ![d] = AfterRaise(@)] \/ rows' = [rows EXCEPT ![d] = AfterCrash(@)]
    /\ run' = [run EXCEPT ![d] = Free]
    /\ of' = IF rows'[d] = Absent THEN [of EXCEPT ![d] = None] ELSE of
    /\ doubled' = IF run[d].pc = "done" THEN doubled \cup {of[d]} ELSE doubled
    /\ torn' = IF run[d].pc = "destroy" THEN torn \cup {of[d]} ELSE torn
    /\ faults' = faults + 1
    /\ UNCHANGED <<state, request, asked, content, events, cancelled>>

------------------------------------------------------------------------------
WorkerStep(d) ==
    \/ Reserve(d) \/ ReserveGone(d) \/ PerformEmail(d)
    \/ StagingMissing(d) \/ LoadItems(d) \/ NextItem(d)
    \/ CopyItem(d) \/ FindDirectory(d) \/ CreateDirectory(d) \/ AssessItem(d) \/ MarkIngested(d)
    \/ AddFileGroupEvent(d) \/ IngestDone(d)
    \/ Finish(d) \/ DestroyQueuedJobs(d) \/ DestroySelf(d)

Next ==
    \/ \E d \in Rows : WorkerStep(d) \/ TargetMissing(d) \/ SkipItem(d) \/ Interrupt(d)
    \/ \E m \in Managers : Ask(m) \/ CreateWorkflow(m)
    \/ \E i \in Items : ClearStaging(i)

Spec == Init /\ [][Next]_vars

\* Workers take rows and finish what they took; nobody has to ask or to clear up.
Fairness == \A d \in Rows : WF_vars(WorkerStep(d))
FairSpec == Spec /\ Fairness

------------------------------------------------------------------------------
(***************************************************************************)
(* An item marked as ingested has all of its content at the destination    *)
(* and files recorded in its directory, whatever was skipped or repeated.  *)
(***************************************************************************)
IngestedIsHeld == \A i \in ingested : stored[i] = "all" /\ record[i] = "filled"

(***************************************************************************)
(* Content of an item already ingested is not copied again, and no two     *)
(* workers copy one item, however managers' requests overlap; but for what *)
(* a workflow ingests that a death between its commits has left with two   *)
(* rows: one of its workers may still hold items that the other released.  *)
(***************************************************************************)
IngestedOnce ==
    \A d \in Ingesting : of[d] \notin doubled =>
        /\ run[d].item \in ingested => by[run[d].item] \in doubled
        /\ \A e \in Ingesting \ {d} : run[e].item = run[d].item => of[e] \in doubled

(***************************************************************************)
(* A workflow that is gone has left an event in the file group if it       *)
(* ingested anything.  The exception is one that raised half-way and found *)
(* a directory missing when it was repeated: it says it was cancelled.     *)
(***************************************************************************)
IngestIsRecorded ==
    \A i \in Items : by[i] # None /\ state[by[i]] = "gone" => by[i] \in events \cup cancelled

\* A row of the workflow has failed, or a death in the middle of its end has left
\* the record without rows.
Broken(f) == f \in torn \/ \E d \in FailedRows : of[d] = f

(***************************************************************************)
(* When no more is asked for, every item requested is released some time,  *)
(* ingested or free to be requested again; or its workflow is broken.      *)
(***************************************************************************)
RequestsSettle ==
    <>[](\A i \in Items : request[i] = None \/ Broken(request[i]))
================================================================================
