------------------------------- MODULE Assessor -------------------------------
(***************************************************************************)
(* The assessment of stored files: each file gets a task element; the      *)
(* scheduled task assessor:initiate_task_batch hands groups of elements to *)
(* containers that read the content and answer over SQS; the answers are   *)
(* fetched into responses and handled, by the scheduled tasks and by every *)
(* waiting accrual alike, and complete elements are destroyed.  An accrual *)
(* may overwrite a file at any time, which resets what is recorded of it.  *)
(*                                                                         *)
(* Abstracted: the media type, which every element asks for as well, one   *)
(* more answer to wait for of which nothing is saved; the red flags.  The  *)
(* container reads and answers in one step.                                *)
(***************************************************************************)
EXTENDS Naturals, FiniteSets, FiniteSetsExt

CONSTANTS
    Files,
    Elements,       \* ids of Assessor::TaskElement in order of creation: a bound
    Sizes,          \* the sizes files may have, see Category
    GroupLimit,     \* the LIMIT of a group's query, [{"small", "medium"} -> Nat]
    Batches,        \* runs of initiate_task_batch at work at once: a bound
    Handlers,       \* processes that fetch and handle answers
    MaxFaults       \* bound on deaths, lost and doubled messages, errors

ASSUME FilesAssumption == Files # {}
ASSUME ElementsAssumption == Elements \subseteq Nat
ASSUME SizesAssumption == Sizes \subseteq {"small", "five", "medium", "onefifty", "large"}
ASSUME BoundsAssumption == MaxFaults \in Nat

VARIABLES
    size, readable, \* of each file: its size; its FITS can be parsed
    content,        \* which version of the content is stored
    md5, fixity,    \* the recorded checksum and fixity_check_status
    fits,           \* which version the FITS file in the store describes
    sized,          \* a size is recorded
    serialized,     \* fits_serialized
    pending,        \* run_initial_assessment of the file is due
    element,        \* [Elements -> file, checksum or fits subtask, sent_at, presence]
    cluster,        \* elements in a container
    queue,          \* answers in SQS
    response,       \* rows of assessor_responses
    batch, handler, \* what each process holds
    raced,          \* history: files overwritten while an answer was under way
    dropped,        \* history: elements whose run or answer a failure lost
    faults

record  == <<content, md5, fixity, fits, sized, serialized>>
file    == <<size, readable>>
procs   == <<batch, handler>>
history == <<raced, dropped, faults>>
vars    == <<file, record, pending, element, cluster, queue, response, procs, history>>

Versions  == {"v1", "v2"}
Known     == Versions \cup {"none"}
Subtasks  == {"fits", "checksum", "error"}
Message   == [elem : Elements, subtask : Subtasks, md5 : Known]
Copies    == 1 .. 2     \* responses with equal columns: a bound
Response  == [elem : Elements, subtask : Subtasks, md5 : Known, copy : Copies,
              status : {"fetched", "processing", "handled"}]
Element   == [file : Files, checksum : BOOLEAN, sent : BOOLEAN,
              is : {"unused", "open", "gone"}]
Batch     == [pc : {"idle", "picked", "marked"}, group : SUBSET Elements, large : BOOLEAN]
Handler   == [pc : {"idle", "fetched", "listed", "processing"}, msg : SUBSET Message,
              now : SUBSET Response, list : SUBSET Response]

IdleBatch   == [pc |-> "idle", group |-> {}, large |-> FALSE]
IdleHandler == [pc |-> "idle", msg |-> {}, now |-> {}, list |-> {}]

TypeOK ==
    /\ size \in [Files -> Sizes] /\ readable \in [Files -> BOOLEAN]
    /\ content \in [Files -> Versions]
    /\ md5 \in [Files -> Known] /\ fits \in [Files -> Known]
    /\ fixity \in [Files -> {"none", "ok", "bad"}]
    /\ {serialized, sized, pending} \subseteq [Files -> BOOLEAN]
    /\ element \in [Elements -> Element]
    /\ cluster \subseteq Elements
    /\ queue \subseteq Message /\ response \subseteq Response
    /\ batch \in [Batches -> Batch] /\ handler \in [Handlers -> Handler]
    /\ raced \subseteq Files /\ dropped \subseteq Elements
    /\ faults \in 0 .. MaxFaults

Init ==
    /\ size \in [Files -> Sizes] /\ readable \in [Files -> BOOLEAN]
    /\ content = [f \in Files |-> "v1"]
    /\ md5 = [f \in Files |-> "none"] /\ fits = [f \in Files |-> "none"]
    /\ fixity = [f \in Files |-> "none"]
    /\ serialized = [f \in Files |-> FALSE] /\ sized = [f \in Files |-> FALSE]
    /\ pending = [f \in Files |-> TRUE]
    /\ element = [e \in Elements |-> [file |-> CHOOSE f \in Files : TRUE, checksum |-> FALSE,
                                      sent |-> FALSE, is |-> "unused"]]
    /\ cluster = {} /\ queue = {} /\ response = {}
    /\ batch = [b \in Batches |-> IdleBatch] /\ handler = [h \in Handlers |-> IdleHandler]
    /\ raced = {} /\ dropped = {} /\ faults = 0

------------------------------------------------------------------------------
(* Files and their elements *)

Open      == {e \in Elements : element[e].is = "open"}
OpenOf(f) == {e \in Open : element[e].file = f}
Unused    == {e \in Elements : element[e].is = "unused"}
Create(f, checksum) ==
    [element EXCEPT ![Min(Unused)] = [file |-> f, checksum |-> checksum, sent |-> FALSE,
                                      is |-> "open"]]

\* The checksum S3 itself keeps is taken for files below 5 MB.
HasEtag(f) == size[f] = "small"

\* run_initial_assessment of one file, skipped when FITS and size are known.
\* (An accrual refuses to assess while its directory has elements.)
RunInitialAssessment(f) ==
    /\ pending[f] /\ OpenOf(f) = {} /\ Unused # {}
    /\ \/ /\ fits[f] = "none" \/ ~sized[f]
          /\ md5' = [md5 EXCEPT ![f] = IF HasEtag(f) THEN content[f] ELSE @]
          /\ sized' = [sized EXCEPT ![f] = TRUE]
          /\ element' = Create(f, FALSE)
       \/ /\ fits[f] # "none" /\ sized[f]
          /\ md5' = [md5 EXCEPT ![f] = IF @ = "none" /\ HasEtag(f) THEN content[f] ELSE @]
          /\ UNCHANGED <<sized, element>>
    /\ pending' = [pending EXCEPT ![f] = FALSE]
    /\ UNCHANGED <<file, content, fixity, fits, serialized, cluster, queue, response, procs,
                   history>>

\* The answers a process holds.
Held(h) == handler[h].msg \cup handler[h].now \cup handler[h].list

\* Something is under way that may still answer for f.
UnderWay(f) ==
    \/ OpenOf(f) # {}
    \/ \E h \in Handlers : \E m \in Held(h) : element[m.elem].file = f

\* Mutant: the recorded checksum survives the reset.
OverwriteKeepsChecksum(f) ==
    /\ content[f] = "v1" /\ ~pending[f]
    /\ content' = [content EXCEPT ![f] = "v2"]
    /\ fits' = [fits EXCEPT ![f] = "none"]
    /\ serialized' = [serialized EXCEPT ![f] = FALSE]
    /\ sized' = [sized EXCEPT ![f] = FALSE]
    /\ pending' = [pending EXCEPT ![f] = TRUE]
    /\ raced' = IF UnderWay(f) THEN raced \cup {f} ELSE raced
    /\ UNCHANGED <<file, md5, fixity, element, cluster, queue, response, procs, dropped, faults>>

\* An accrual replaces the content of the file and resets what is recorded of
\* it (reset_fixity_and_fits!), to assess it later; once.
Overwrite(f) ==
    /\ content[f] = "v1" /\ ~pending[f]
    /\ content' = [content EXCEPT ![f] = "v2"]
    /\ md5' = [md5 EXCEPT ![f] = "none"]
    /\ fixity' = [fixity EXCEPT ![f] = "none"]
    /\ fits' = [fits EXCEPT ![f] = "none"]
    /\ serialized' = [serialized EXCEPT ![f] = FALSE]
    /\ sized' = [sized EXCEPT ![f] = FALSE]
    /\ pending' = [pending EXCEPT ![f] = TRUE]
    /\ raced' = IF UnderWay(f) THEN raced \cup {f} ELSE raced
    /\ UNCHANGED <<file, element, cluster, queue, response, procs, dropped, faults>>

Handled(e, subtask) ==
    \E a \in response : a.elem = e /\ a.subtask = subtask /\ a.status = "handled"

Answered(e) ==
    /\ Handled(e, IF element[e].checksum THEN "checksum" ELSE "fits")
    /\ md5[element[e].file] # "none"

\* Mutant: an answer that reports an error counts as one.
CompleteWithError(e) == element[e].sent /\ (Answered(e) \/ Handled(e, "error"))

Complete(e) == element[e].sent /\ Answered(e)

ResponsesOf(e) == {a \in response : a.elem = e}

\* destroy_complete, of the scheduled task and of every waiting accrual.
DestroyComplete(e) ==
    /\ e \in Open /\ Complete(e)
    /\ element' = [element EXCEPT ![e].is = "gone"]
    /\ response' = response \ ResponsesOf(e)
    /\ UNCHANGED <<file, record, pending, cluster, queue, procs, history>>

Unsent == {e \in Open : ~element[e].sent}

\* Three hours are enough for all that is under way to end.
Settled ==
    /\ Unsent = {} /\ queue = {}
    /\ \A a \in response : a.status # "fetched"
    /\ \A b \in Batches : batch[b].pc = "idle"
    /\ \A h \in Handlers : handler[h].pc = "idle"

Stale == {e \in Open : element[e].sent /\ ~Complete(e)}

\* Mutant: elements whose answers include an error are left to people.
ResetWithoutError(es) ==
    LET left == {e \in es : \A a \in ResponsesOf(e) : a.subtask # "error"} IN
    /\ element' = [e \in Elements |-> IF e \in left THEN [element[e] EXCEPT !.sent = FALSE]
                                      ELSE element[e]]
    /\ response' = response \ UNION {ResponsesOf(e) : e \in left}
    /\ dropped' = dropped \ left

Reset(es) ==
    /\ element' = [e \in Elements |-> IF e \in es THEN [element[e] EXCEPT !.sent = FALSE]
                                      ELSE element[e]]
    /\ response' = response \ UNION {ResponsesOf(e) : e \in es}
    /\ dropped' = dropped \ es

\* retry_stale_assessments of a waiting accrual, when no container runs: every
\* incomplete element sent three hours ago is sent again.  That anything is
\* still under way by then is a fault.
ResetStale ==
    /\ Stale # {} /\ cluster = {}
    /\ \/ Settled /\ Reset(Stale) /\ UNCHANGED faults
       \/ /\ ~Settled /\ faults < MaxFaults /\ faults' = faults + 1
          /\ \E e \in Stale : Reset({e})
    /\ UNCHANGED <<file, record, pending, cluster, queue, procs, raced>>

------------------------------------------------------------------------------
(* initiate_task_batch *)

\* size_category of the oldest element; sizes are decimals, so 5 MB and 150 MB
\* themselves belong to the class they end.
Category(f) == CASE size[f] \in {"small", "five"}      -> "small"
                 [] size[f] \in {"medium", "onefifty"} -> "medium"
                 [] size[f] = "large"                  -> "large"

\* The elements the group's query selects: strictly between the boundaries.
InRange(category) == {e \in Unsent : size[element[e].file] = category}

\* The groups next_group_ids can return; a query's LIMIT picks any of the rows.
Groups ==
    LET oldest   == Min(Unsent)
        category == Category(element[oldest].file)
        most(s)  == IF Cardinality(s) < GroupLimit[category] THEN Cardinality(s)
                    ELSE GroupLimit[category]
    IN IF category = "large" THEN {{oldest}}
       ELSE kSubset(most(InRange(category)), InRange(category))

\* An empty group raises, and so does every batch after it.
Pick(b) ==
    /\ batch[b].pc = "idle" /\ Unsent # {}
    /\ \E g \in Groups \ {{}} :
          batch' = [batch EXCEPT ![b] =
              [pc |-> "picked", group |-> g,
               large |-> Category(element[Min(Unsent)].file) = "large"]]
    /\ UNCHANGED <<file, record, pending, element, cluster, queue, response, handler, history>>

Sent(es) == [e \in Elements |-> IF e \in es /\ element[e].is = "open"
                                THEN [element[e] EXCEPT !.sent = TRUE] ELSE element[e]]

\* sent_at of a small or medium group is set before the container is asked for.
MarkSent(b) ==
    /\ batch[b].pc = "picked"
    /\ batch' = [batch EXCEPT ![b].pc = "marked"]
    /\ element' = IF batch[b].large THEN element ELSE Sent(batch[b].group)
    /\ UNCHANGED <<file, record, pending, cluster, queue, response, handler, history>>

\* Mutant: the container is never asked for.
RunTaskForgotten(b) ==
    /\ batch[b].pc = "marked"
    /\ element' = Sent(batch[b].group)
    /\ batch' = [batch EXCEPT ![b] = IdleBatch]
    /\ UNCHANGED <<file, record, pending, cluster, queue, response, handler, history>>

\* run_task, then sent_at of every element of the group that is still there.
RunTask(b) ==
    /\ batch[b].pc = "marked"
    /\ cluster' = cluster \cup (batch[b].group \cap Open)
    /\ element' = Sent(batch[b].group)
    /\ batch' = [batch EXCEPT ![b] = IdleBatch]
    /\ UNCHANGED <<file, record, pending, queue, response, handler, history>>

\* run_task raises or the process dies, before the container runs or, for a
\* large element, before its sent_at is written.
BatchFails(b) ==
    /\ batch[b].pc # "idle" /\ faults < MaxFaults
    /\ \/ /\ dropped' = dropped \cup {e \in batch[b].group : element[e].sent}
          /\ UNCHANGED cluster
       \/ /\ batch[b].pc = "marked"
          /\ cluster' = cluster \cup (batch[b].group \cap Open)
          /\ UNCHANGED dropped
    /\ batch' = [batch EXCEPT ![b] = IdleBatch]
    /\ faults' = faults + 1
    /\ UNCHANGED <<file, record, pending, element, queue, response, handler, raced>>

------------------------------------------------------------------------------
(* The container (external): reads the content, stores the FITS, answers *)

\* Mutant: the type of the message is not mapped to the name of the subtask.
AnswerAsNamed(e, subtask, v) ==
    [elem |-> e, subtask |-> IF subtask = "fits" THEN "FITS" ELSE subtask, md5 |-> v]

\* A message, as fetch_message reads it.
Answer(e, subtask, v) == [elem |-> e, subtask |-> subtask, md5 |-> v]

Assess(e) ==
    LET f == element[e].file IN
    /\ e \in cluster
    /\ cluster' = cluster \ {e}
    /\ IF element[e].checksum
       THEN /\ queue' = queue \cup {Answer(e, "checksum", content[f])}
            /\ UNCHANGED fits
       ELSE /\ queue' = queue \cup {Answer(e, "fits", "none")}
            /\ fits' = [fits EXCEPT ![f] = content[f]]
    /\ UNCHANGED <<file, content, md5, fixity, sized, serialized, pending, element, response,
                   procs, history>>

\* The container answers with an error, or not at all.
AssessFails(e) ==
    /\ e \in cluster /\ faults < MaxFaults
    /\ cluster' = cluster \ {e}
    /\ \E answers \in {{}, {Answer(e, "error", "none")}} : queue' = queue \cup answers
    /\ dropped' = dropped \cup {e}
    /\ faults' = faults + 1
    /\ UNCHANGED <<file, record, pending, element, response, procs, raced>>

------------------------------------------------------------------------------
(* Fetching and handling answers *)

\* fetch_message receives a message and deletes it from SQS, which may still
\* deliver it again.
Fetch(h) ==
    /\ handler[h].pc = "idle"
    /\ \E m \in queue :
          /\ handler' = [handler EXCEPT ![h].pc = "fetched", ![h].msg = {m}]
          /\ \/ queue' = queue \ {m} /\ UNCHANGED faults
             \/ faults < MaxFaults /\ faults' = faults + 1 /\ UNCHANGED queue
    /\ UNCHANGED <<file, record, pending, element, cluster, response, batch, raced, dropped>>

RowsOf(a) == {c \in response : c.elem = a.elem /\ c.subtask = a.subtask /\ c.md5 = a.md5}

\* Only then is the response stored; for an element that is gone it raises.
Store(h) ==
    /\ handler[h].pc = "fetched"
    /\ \E m \in handler[h].msg :
          LET copies == Copies \ {a.copy : a \in RowsOf(m)} IN
          response' = response \cup
              IF m.elem \notin Open \/ copies = {} THEN {}
              ELSE {[elem |-> m.elem, subtask |-> m.subtask, md5 |-> m.md5,
                     copy |-> Min(copies), status |-> "fetched"]}
    /\ handler' = [handler EXCEPT ![h] = IdleHandler]
    /\ UNCHANGED <<file, record, pending, element, cluster, queue, batch, history>>

\* The fetched responses are listed and handled one after the other, also those
\* that another process has handled in the meantime.
List(h) ==
    LET fetched == {a \in response : a.status = "fetched"} IN
    /\ handler[h].pc = "idle" /\ fetched # {}
    /\ handler' = [handler EXCEPT ![h].pc = "listed", ![h].list = fetched]
    /\ UNCHANGED <<file, record, pending, element, cluster, queue, response, batch, history>>

\* save! of a listed response, whatever its row has become; none is left when
\* its element was reset or destroyed.
SetStatus(a, s) ==
    response' = {IF c \in RowsOf(a) /\ c.copy = a.copy THEN [c EXCEPT !.status = s] ELSE c
                    : c \in response}

Process(h) ==
    /\ handler[h].pc = "listed"
    /\ \E a \in handler[h].list :
          /\ SetStatus(a, "processing")
          /\ handler' = [handler EXCEPT ![h].pc = "processing", ![h].now = {a},
                                        ![h].list = @ \ {a}]
    /\ UNCHANGED <<file, record, pending, element, cluster, queue, batch, history>>

\* set_fixity: the first checksum is recorded, later ones are compared with it.
SetFixity(f, sum) ==
    /\ md5' = [md5 EXCEPT ![f] = IF @ = "none" THEN sum ELSE @]
    /\ fixity' = [fixity EXCEPT ![f] = IF md5[f] \in {"none", sum} THEN "ok" ELSE "bad"]

\* What an answer changes on the file.
HandleFits(f) ==
    /\ serialized' = [serialized EXCEPT ![f] = (fits[f] # "none")]
    /\ sized' = [sized EXCEPT ![f] = @ \/ (fits[f] # "none" /\ readable[f])]
    /\ CASE fits[f] = "none" -> UNCHANGED <<md5, fixity, element>>
         [] fits[f] # "none" /\ readable[f] -> SetFixity(f, fits[f]) /\ UNCHANGED element
         [] OTHER ->
              /\ element' = IF md5[f] = "none" /\ Unused # {}
                               /\ ~\E e \in OpenOf(f) : element[e].checksum
                            THEN Create(f, TRUE) ELSE element
              /\ UNCHANGED <<md5, fixity>>

Handle(h) ==
    /\ handler[h].pc = "processing"
    /\ \E a \in handler[h].now :
          LET f == element[a.elem].file IN
          /\ CASE a.subtask = "fits" -> HandleFits(f)
               [] a.subtask = "checksum" ->
                    SetFixity(f, a.md5) /\ UNCHANGED <<sized, serialized, element>>
               [] OTHER -> UNCHANGED <<md5, fixity, sized, serialized, element>>
          /\ SetStatus(a, "handled")
    /\ handler' = [handler EXCEPT ![h] = IF @.list = {} THEN IdleHandler
                                         ELSE [@ EXCEPT !.pc = "listed", !.now = {}]]
    /\ UNCHANGED <<file, content, fits, pending, cluster, queue, batch, history>>

\* The process dies: a message deleted and not stored is lost, a response it
\* handled stays in status processing.
HandlerDies(h) ==
    /\ handler[h].pc # "idle" /\ faults < MaxFaults
    /\ handler' = [handler EXCEPT ![h] = IdleHandler]
    /\ dropped' = dropped \cup {m.elem : m \in handler[h].msg}
    /\ faults' = faults + 1
    /\ UNCHANGED <<file, record, pending, element, cluster, queue, response, batch, raced>>

------------------------------------------------------------------------------
(* Specification *)

BatchStep(b)   == Pick(b) \/ MarkSent(b) \/ RunTask(b)
HandlerStep(h) == Fetch(h) \/ Store(h) \/ List(h) \/ Process(h) \/ Handle(h)

Next ==
    \/ \E f \in Files : RunInitialAssessment(f) \/ Overwrite(f)
    \/ ResetStale
    \/ \E e \in Elements : DestroyComplete(e) \/ Assess(e) \/ AssessFails(e)
    \/ \E b \in Batches : BatchStep(b) \/ BatchFails(b)
    \/ \E h \in Handlers : HandlerStep(h) \/ HandlerDies(h)

Spec == Init /\ [][Next]_vars

(***************************************************************************)
(* cron starts the scheduled tasks again and again, and an accrual waits   *)
(* and retries.  Nothing makes an accrual begin, or a failure happen.      *)
(***************************************************************************)
Fairness ==
    /\ \A b \in Batches : WF_vars(BatchStep(b))
    /\ \A h \in Handlers : WF_vars(HandlerStep(h))
    /\ \A e \in Elements : WF_vars(Assess(e)) /\ WF_vars(DestroyComplete(e))
    /\ WF_vars(ResetStale /\ Settled)

FairSpec == Spec /\ Fairness

------------------------------------------------------------------------------
(* Properties *)

(***************************************************************************)
(* The recorded checksum is that of the stored content and no file is      *)
(* reported damaged that is not, in whatever order and however often the   *)
(* answers are delivered and handled.  The exception is a file that was    *)
(* overwritten while an answer about its old content was under way.        *)
(***************************************************************************)
FixityIsTruthful ==
    \A f \in Files \ raced : md5[f] \in {"none", content[f]} /\ fixity[f] # "bad"

(***************************************************************************)
(* A file with no assessment due and no element left has its checksum and  *)
(* its FITS: an element goes only when what it asked for is recorded, also *)
(* when several processes handle its answers and destroy it.               *)
(***************************************************************************)
AssessedIsDescribed ==
    \A f \in Files \ raced :
        ~pending[f] /\ OpenOf(f) = {} => md5[f] # "none" /\ serialized[f]

(***************************************************************************)
(* An element marked sent is in a container or about to be, or its answers *)
(* are on their way or recorded, unless a failure lost them: processes     *)
(* that fetch, handle and destroy side by side lose nothing, and only a    *)
(* failure needs the retry.                                                *)
(***************************************************************************)
OnlyFailuresLose ==
    \A e \in Open \ dropped : element[e].sent =>
        \/ e \in cluster \/ ResponsesOf(e) # {}
        \/ \E b \in Batches : e \in batch[b].group
        \/ \E m \in queue \cup UNION {handler[h].msg : h \in Handlers} : m.elem = e

(***************************************************************************)
(* Every open element is complete in the end, after lost runs and answers, *)
(* deaths and errors, as long as an accrual waits and retries.  Unused     *)
(* elements running out is the model's bound.                              *)
(***************************************************************************)
AssessmentEnds == \A e \in Elements : e \in Open ~> e \notin Open \/ Unused = {}

(***************************************************************************)
(* task.rb holds an empty group to be unexpected, next_group_ids assumes   *)
(* only that something is unsent: then there is a group to send.           *)
(***************************************************************************)
UnsentHasGroup == Unsent # {} => {} \notin Groups
==============================================================================
