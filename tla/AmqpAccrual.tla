----------------------------- MODULE AmqpAccrual -----------------------------
(***************************************************************************)
(* Ingest and deletion of single files by a client over AMQP.  The message *)
(* receiver turns each request into a job record and a delayed-job row, in *)
(* two commits; a worker copies the staged content to its key, makes the   *)
(* file's record and answers, or removes content and record and answers.   *)
(* A worker that dies or raises at any point performs the job again.       *)
(*                                                                         *)
(* A record has one row, so rows are named by their requests; the uuid a   *)
(* job generates, and the content it ingests, are named by the request     *)
(* too.  Directories, events and the order of answers are left out, and so *)
(* is a blank staging key, which is answered like a duplicate.             *)
(***************************************************************************)
EXTENDS DelayedJobs, FiniteSets, Sequences

CONSTANTS
    Keys,           \* target keys in the client's file group
    Ingests,        \* ingest requests the client may send
    Deletes,        \* deletion requests it may send
    Foreign,        \* the uuid of a file in another file group
    None,           \* no content, no file, no request
    AllowDelete,    \* allow_delete of the client's configuration
    MaxFaults       \* bound on raises and deaths of workers and receiver

Requests == Ingests \cup Deletes

ASSUME RequestsAssumption == Rows = Requests /\ Ingests \cap Deletes = {}
ASSUME NamesAssumption == None \notin Requests \cup Keys \cup {Foreign} /\ Foreign \notin Requests
ASSUME BoundsAssumption == AllowDelete \in BOOLEAN /\ MaxFaults \in Nat

VARIABLES
    request,    \* of each request: the key or the uuid it names; None until sent
    incoming,   \* the client's incoming queue
    receiver,   \* the message the receiver handles, and where
    record,     \* the requests with a job record
    copied,     \* ingest records with copied set
    pc,         \* where the worker of a row is
    row,        \* the CfsFile a deletion loaded
    content,    \* what is stored at each key
    file,       \* the CfsFile of each key: its id and uuid
    made,       \* ids of CfsFile given out
    answers,    \* the answers sent to each request
    hasty,      \* history: keys with an ingest and a deletion open at once, or
                \* an ingest that ran on after its deletion was asked for
    lost,       \* history: requests a dying receiver took with it
    faults

jobs    == <<rows, record, copied, pc, row>>
store   == <<content, file, made>>
history == <<answers, hasty, lost>>
vars    == <<request, incoming, receiver, jobs, store, history, faults>>

NoFile   == [id |-> 0, uuid |-> None]
Idle     == [pc |-> "idle", of |-> None]
Answers  == {"ok", "duplicate", "unknown", "refused", "wrong group", "not found"}
IngestPc == {"copy", "flag", "file", "assess"}
DeletePc == {"find", "remove", "destroy"}

TypeOK ==
    /\ rows \in [Requests -> Row]
    /\ request \in [Requests -> Keys \cup Ingests \cup {Foreign, None}]
    /\ incoming \in Seq(Requests)
    /\ receiver \in [pc : {"idle", "save", "enqueue"}, of : Requests \cup {None}]
    /\ record \subseteq Requests /\ copied \subseteq Ingests
    /\ pc \in [Requests -> IngestPc \cup DeletePc \cup {"off", "answer", "success", "done"}]
    /\ row \in [Deletes -> Nat]
    /\ content \in [Keys -> Ingests \cup {None}]
    /\ made \in Nat /\ file \in [Keys -> [id : 0 .. made, uuid : Ingests \cup {None}]]
    /\ answers \in [Requests -> SUBSET Answers]
    /\ hasty \subseteq Keys /\ lost \subseteq Requests /\ faults \in 0 .. MaxFaults

Init ==
    /\ rows = [q \in Requests |-> Absent]
    /\ request = [q \in Requests |-> None]
    /\ incoming = <<>> /\ receiver = Idle
    /\ record = {} /\ copied = {}
    /\ pc = [q \in Requests |-> "off"] /\ row = [d \in Deletes |-> 0]
    /\ content = [k \in Keys |-> None] /\ file = [k \in Keys |-> NoFile] /\ made = 0
    /\ answers = [q \in Requests |-> {}] /\ hasty = {} /\ lost = {}
    /\ faults = 0

Answer(q, a) == answers' = [answers EXCEPT ![q] = @ \cup {a}]

------------------------------------------------------------------------------
(* The client (external) *)

Sent == {q \in Requests : request[q] # None}
DeletesOf(i) == {d \in Deletes : request[d] = i}
Open(k) ==
    {q \in Sent : /\ answers[q] = {}
                  /\ \/ q \in Ingests /\ request[q] = k
                     \/ q \in Deletes /\ request[q] \in Ingests /\ request[request[q]] = k}

SendIngest(i, k) ==
    /\ request[i] = None
    /\ request' = [request EXCEPT ![i] = k]
    /\ incoming' = Append(incoming, i)
    /\ hasty' = IF Open(k) \cap Deletes # {} THEN hasty \cup {k} ELSE hasty
    /\ UNCHANGED <<receiver, jobs, store, answers, lost, faults>>

\* The client learns a uuid from the answer to its ingest.
SendDelete(d, u) ==
    /\ request[d] = None
    /\ u # Foreign => "ok" \in answers[u]
    /\ request' = [request EXCEPT ![d] = u]
    /\ incoming' = Append(incoming, d)
    /\ hasty' = IF u # Foreign /\ Open(request[u]) \cap Ingests # {}
                THEN hasty \cup {request[u]} ELSE hasty
    /\ UNCHANGED <<receiver, jobs, store, answers, lost, faults>>

------------------------------------------------------------------------------
(* The receiver *)

\* create_for: a target that exists and a deletion that is not allowed are
\* answered at once.
Receive ==
    LET q == Head(incoming)
        refusal == CASE q \in Ingests /\ content[request[q]] # None -> "duplicate"
                     [] q \in Deletes /\ ~AllowDelete               -> "refused"
                     [] OTHER                                       -> "none"
    IN /\ receiver = Idle /\ incoming # <<>>
       /\ incoming' = Tail(incoming)
       /\ IF refusal = "none"
          THEN receiver' = [pc |-> "save", of |-> q] /\ UNCHANGED answers
          ELSE Answer(q, refusal) /\ UNCHANGED receiver
       /\ UNCHANGED <<request, jobs, store, hasty, lost, faults>>

\* The index on client and target_key refuses a second record for a key.
Scheduled(q) == q \in Ingests /\ \E i \in record \cap Ingests : request[i] = request[q]

Save ==
    LET q == receiver.of IN
    /\ receiver.pc = "save"
    /\ IF Scheduled(q)
       THEN receiver' = Idle /\ Answer(q, "duplicate") /\ UNCHANGED record
       ELSE /\ record' = record \cup {q} /\ receiver' = [receiver EXCEPT !.pc = "enqueue"]
            /\ UNCHANGED answers
    /\ UNCHANGED <<request, incoming, rows, copied, pc, row, store, hasty, lost, faults>>

Enqueue ==
    LET q == receiver.of IN
    /\ receiver.pc = "enqueue"
    /\ rows' = [rows EXCEPT ![q] = Fresh]
    /\ receiver' = Idle
    /\ UNCHANGED <<request, incoming, record, copied, pc, row, store, history, faults>>

\* save! or enqueue_job raises, which is answered; the record, if saved, stays.
ReceiverRaises ==
    /\ receiver.pc # "idle" /\ faults < MaxFaults
    /\ Answer(receiver.of, IF receiver.of \in Ingests THEN "duplicate" ELSE "unknown")
    /\ receiver' = Idle
    /\ faults' = faults + 1
    /\ UNCHANGED <<request, incoming, jobs, store, hasty, lost>>

\* The receiver dies with the message it took.
ReceiverDies ==
    /\ receiver.pc # "idle" /\ faults < MaxFaults
    /\ receiver' = Idle
    /\ lost' = lost \cup {receiver.of}
    /\ faults' = faults + 1
    /\ UNCHANGED <<request, incoming, jobs, store, answers, hasty>>

------------------------------------------------------------------------------
(* Workers *)

Running(q, at) == rows[q].status = "running" /\ pc[q] = at
Goto(q, at)    == pc' = [pc EXCEPT ![q] = at] /\ UNCHANGED rows
Raise(q)       == pc' = [pc EXCEPT ![q] = "off"] /\ rows' = [rows EXCEPT ![q] = AfterRaise(@)]

Reserve(q) ==
    /\ rows[q].status = "queued" /\ q \in record
    /\ rows' = [rows EXCEPT ![q] = Locked(@)]
    /\ pc' = [pc EXCEPT ![q] = CASE q \in Deletes -> "find"
                                 [] q \in copied  -> "file"
                                 [] OTHER         -> "copy"]
    /\ UNCHANGED <<request, incoming, receiver, record, copied, row, store, history, faults>>

\* The record was destroyed by a perform that died before its row was deleted.
ReserveGone(q) ==
    /\ rows[q].status = "queued" /\ q \notin record
    /\ rows' = [rows EXCEPT ![q] = AfterDeserializationError]
    /\ UNCHANGED <<request, incoming, receiver, record, copied, pc, row, store, history, faults>>

\* A call of perform raises, or its process dies.
Interrupt(q) ==
    /\ rows[q].status = "running" /\ faults < MaxFaults
    /\ \/ Raise(q)
       \/ pc' = [pc EXCEPT ![q] = "off"] /\ rows' = [rows EXCEPT ![q] = AfterCrash(@)]
    /\ faults' = faults + 1
    /\ UNCHANGED <<request, incoming, receiver, record, copied, row, store, history>>

\* Mutant: the content at the target key is not looked at.
CopyContentOver(i) ==
    /\ Running(i, "copy")
    /\ content' = [content EXCEPT ![request[i]] = i] /\ Goto(i, "flag")
    /\ UNCHANGED <<request, incoming, receiver, record, copied, row, file, made, history, faults>>

\* copy_content: nothing to do if the content is there, a raise if other content is.
CopyContent(i) ==
    LET k == request[i] IN
    /\ Running(i, "copy")
    /\ \/ content[k] = None /\ content' = [content EXCEPT ![k] = i] /\ Goto(i, "flag")
       \/ content[k] = i /\ Goto(i, "file") /\ UNCHANGED content
       \/ content[k] \notin {i, None} /\ Raise(i) /\ UNCHANGED content
    /\ UNCHANGED <<request, incoming, receiver, record, copied, row, file, made, history, faults>>

SetCopied(i) ==
    /\ Running(i, "flag")
    /\ copied' = copied \cup {i}
    /\ Goto(i, "file")
    /\ UNCHANGED <<request, incoming, receiver, record, row, store, history, faults>>

\* The file of the key is found or created, and given the job's uuid.
CreateCfsFile(i) ==
    LET k == request[i] IN
    /\ Running(i, "file")
    /\ IF file[k] = NoFile
       THEN file' = [file EXCEPT ![k] = [id |-> made + 1, uuid |-> i]] /\ made' = made + 1
       ELSE file' = [file EXCEPT ![k].uuid = i] /\ UNCHANGED made
    /\ Goto(i, "assess")
    /\ hasty' = IF DeletesOf(i) # {} THEN hasty \cup {k} ELSE hasty
    /\ UNCHANGED <<request, incoming, receiver, record, copied, row, content, answers, lost, faults>>

\* run_initial_assessment of the file, if there is one, reads the stored content.
DoAssessment(i) ==
    LET k == request[i] IN
    /\ Running(i, "assess")
    /\ \/ (file[k] = NoFile \/ content[k] # None) /\ Goto(i, "answer")
       \/ file[k] # NoFile /\ content[k] = None /\ Raise(i)
    /\ UNCHANGED <<request, incoming, receiver, record, copied, row, store, history, faults>>

\* Mutant: the file is looked for at its key, as if it could not have changed.
FilesOfByKey(u) == {k \in Keys : u # Foreign /\ request[u] = k /\ file[k] # NoFile}

\* The key of the file that has the uuid.
FilesOf(u) == {k \in Keys : file[k].uuid = u}

\* Mutant: a deletion that finds no file ends without an answer.
FindSilently(d) ==
    /\ Running(d, "find")
    /\ \/ \E k \in FilesOf(request[d]) : row' = [row EXCEPT ![d] = file[k].id] /\ Goto(d, "remove")
                                         /\ UNCHANGED answers
       \/ FilesOf(request[d]) = {} /\ Goto(d, "success") /\ UNCHANGED <<row, answers>>
    /\ UNCHANGED <<request, incoming, receiver, record, copied, store, hasty, lost, faults>>

\* perform of a deletion: the uuid's file, in the client's file group.
Find(d) ==
    LET u == request[d] IN
    /\ Running(d, "find")
    /\ \/ /\ \E k \in FilesOf(u) : row' = [row EXCEPT ![d] = file[k].id]
          /\ Goto(d, "remove") /\ UNCHANGED answers
       \/ /\ FilesOf(u) = {}
          /\ Answer(d, IF u = Foreign THEN "wrong group" ELSE "not found")
          /\ Goto(d, "success") /\ UNCHANGED row
    /\ UNCHANGED <<request, incoming, receiver, record, copied, store, hasty, lost, faults>>

\* remove_from_storage goes by the key of the file it loaded.
Remove(d) ==
    /\ Running(d, "remove")
    /\ content' = [content EXCEPT ![request[request[d]]] = None]
    /\ Goto(d, "destroy")
    /\ UNCHANGED <<request, incoming, receiver, record, copied, row, file, made, history, faults>>

\* destroy! goes by the id of the file it loaded, whose uuid may be another now.
Destroy(d) ==
    /\ Running(d, "destroy")
    /\ file' = [k \in Keys |-> IF file[k].id = row[d] THEN NoFile ELSE file[k]]
    /\ Goto(d, "answer")
    /\ UNCHANGED <<request, incoming, receiver, record, copied, row, content, made, history, faults>>

SendReturnMessage(q) ==
    /\ Running(q, "answer")
    /\ Answer(q, "ok")
    /\ Goto(q, "success")
    /\ UNCHANGED <<request, incoming, receiver, record, copied, row, store, hasty, lost, faults>>

\* The success hook destroys the record, then the worker deletes the row.
Success(q) ==
    /\ Running(q, "success")
    /\ record' = record \ {q} /\ copied' = copied \ {q}
    /\ Goto(q, "done")
    /\ UNCHANGED <<request, incoming, receiver, row, store, history, faults>>

Finish(q) ==
    /\ Running(q, "done")
    /\ rows' = [rows EXCEPT ![q] = Absent] /\ pc' = [pc EXCEPT ![q] = "off"]
    /\ UNCHANGED <<request, incoming, receiver, record, copied, row, store, history, faults>>

------------------------------------------------------------------------------
(* Specification *)

IngestStep(i) == CopyContent(i) \/ SetCopied(i) \/ CreateCfsFile(i) \/ DoAssessment(i)
DeleteStep(d) == Find(d) \/ Remove(d) \/ Destroy(d)
CommonStep(q) == Reserve(q) \/ ReserveGone(q) \/ SendReturnMessage(q) \/ Success(q) \/ Finish(q)
ReceiverStep  == Receive \/ Save \/ Enqueue

Next ==
    \/ \E i \in Ingests, k \in Keys : SendIngest(i, k)
    \/ \E d \in Deletes, u \in Ingests \cup {Foreign} : SendDelete(d, u)
    \/ ReceiverStep \/ ReceiverRaises \/ ReceiverDies
    \/ \E i \in Ingests : IngestStep(i)
    \/ \E d \in Deletes : DeleteStep(d)
    \/ \E q \in Requests : CommonStep(q) \/ Interrupt(q)

Spec == Init /\ [][Next]_vars

\* Listener and workers run for ever; nothing makes the client ask or a fault happen.
Fairness ==
    /\ WF_vars(ReceiverStep)
    /\ \A i \in Ingests : WF_vars(IngestStep(i))
    /\ \A d \in Deletes : WF_vars(DeleteStep(d))
    /\ \A q \in Requests : WF_vars(CommonStep(q))

FairSpec == Spec /\ Fairness

------------------------------------------------------------------------------
(* Properties *)

(***************************************************************************)
(* Once an ingest is answered ok its content is stored at its key and the  *)
(* registry's file has the uuid of the answer, until the client asks for   *)
(* its deletion: neither a job that runs again, nor another request for    *)
(* the key, nor a deletion that runs again after the key was used anew     *)
(* takes anything away.  A client that has an ingest and a deletion of one *)
(* key open at once is not protected, nor is one that has a file deleted   *)
(* whose ingest, answered but interrupted, then makes the file once more:  *)
(* a deletion that runs again finds that file and goes on to take what the *)
(* next ingest stores.                                                     *)
(***************************************************************************)
OkMeansHeld ==
    \A i \in Ingests : "ok" \in answers[i] /\ DeletesOf(i) = {} /\ request[i] \notin hasty =>
        content[request[i]] = i /\ file[request[i]].uuid = i

(***************************************************************************)
(* Stored content is never replaced, and removed only by a deletion of     *)
(* that very file: the check of the target when a request comes in and the *)
(* one before the copy are separate from what they guard.                  *)
(***************************************************************************)
ContentIsKept ==
    [][\A k \in Keys \ hasty : content[k] # None /\ content'[k] # content[k] =>
        content'[k] = None /\ DeletesOf(content[k]) # {}]_vars

(***************************************************************************)
(* Every request the receiver gets is answered, or its row is kept as      *)
(* failed for people to see.  The exception is the message a dying         *)
(* receiver took with it.                                                  *)
(***************************************************************************)
EveryRequestAnswered ==
    \A q \in Requests : q \in Sent ~>
        answers[q] # {} \/ rows[q].status = "failed" \/ q \in lost
==============================================================================
