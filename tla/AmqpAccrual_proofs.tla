-------------------------- MODULE AmqpAccrual_proofs --------------------------
(***************************************************************************)
(* Theorems about AmqpAccrual, for any number of keys, requests, attempts  *)
(* and faults.                                                             *)
(***************************************************************************)
EXTENDS AmqpAccrual, DelayedJobs_proofs, TLAPS

------------------------------------------------------------------------------
(* The inductive invariant *)

\* The messages under way, and the requests that no worker has seen.
Queued   == {incoming[n] : n \in DOMAIN incoming}
Early(q) == request[q] = None \/ q \in Queued \/ receiver.of = q

\* What a request may name; only what was answered ok can be deleted.
RequestsAreNamed ==
    /\ \A i \in Ingests : request[i] \in Keys \cup {None}
    /\ \A d \in Deletes : /\ request[d] \in Ingests \cup {Foreign, None}
                          /\ request[d] \in Ingests => "ok" \in answers[request[d]]

\* A message is under way once.
MessagesAreSent ==
    /\ \A m, n \in DOMAIN incoming : incoming[m] = incoming[n] => m = n
    /\ receiver.pc = "idle" <=> receiver.of = None
    /\ receiver.of \notin Queued
    /\ \A q \in Requests : q \in Queued \/ receiver.of = q => request[q] # None

EarlyIsUntouched ==
    \A q \in Requests : Early(q) =>
        /\ rows[q].status = "absent" /\ pc[q] = "off" /\ answers[q] = {} /\ q \notin copied
        /\ q \in record => receiver.pc = "enqueue" /\ receiver.of = q
        /\ \A k \in Keys : content[k] # q

\* A worker performs a row of its kind, and has the record until it succeeds.
\* The job of an ingest answers ok or nothing, and ok before it succeeds.
Place(q) ==
    /\ pc[q] # "off" <=> rows[q].status = "running"
    /\ pc[q] \in {"off", "answer", "success", "done"}
              \cup (IF q \in Ingests THEN IngestPc ELSE DeletePc)
    /\ pc[q] \notin {"off", "done"} => q \in record
    /\ q \in copied => q \in record
    /\ q \in Ingests =>
          /\ rows[q].status \in {"queued", "running"} => answers[q] \subseteq {"ok"}
          /\ pc[q] \in {"success", "done"} => "ok" \in answers[q]

PlacesAreKept == \A q \in Requests : Place(q)

\* The index on client and target_key.
OneRecord == \A i, j \in record \cap Ingests : request[i] = request[j] => i = j

\* A file has an id of its own and the uuid of an ingest of its key.
FilesAreNamed ==
    /\ \A k \in Keys : /\ file[k].id = 0 <=> file[k].uuid = None
                       /\ file[k].uuid # None => request[file[k].uuid] = k
    /\ \A k, l \in Keys : file[k].id = file[l].id /\ file[k].id # 0 => k = l

\* Stored content is of an ingest of its key, answered ok or still at work.
ContentIsNamed ==
    \A k \in Keys, i \in Ingests : content[k] = i =>
        request[i] = k /\ ("ok" \in answers[i] \/ (i \in record /\ answers[i] = {}))

\* A deletion holds a file, or the id of one that is gone for good.
LoadedIsFile ==
    \A d \in Deletes : pc[d] \in {"remove", "destroy"} =>
        /\ request[d] \in Ingests /\ row[d] \in 1 .. made
        /\ \A k \in Keys : file[k].id = row[d] => k = request[request[d]]

\* An ingest has found or stored its content; it has named the file.
Begun(i) ==
    \/ i \in copied \/ "ok" \in answers[i]
    \/ pc[i] \in {"flag", "file", "assess", "answer", "success", "done"}
Named(i) == "ok" \in answers[i] \/ pc[i] \in {"assess", "answer", "success", "done"}

\* While an ingest's content is stored, no other that began is at work.
OthersAreOver ==
    \A i, j \in Ingests, k \in Keys :
        content[k] = i /\ request[j] = k /\ j # i /\ Begun(j) => j \notin record

\* The file keeps the name the ingest at work, or the one stored, gave it.
NameIsKept ==
    \A i \in Ingests, k \in Keys :
        request[i] = k /\ Named(i) /\ (i \in record \/ content[k] = i) =>
            file[k].uuid \in {i, None}

\* What holds of a key that is not hasty: no ingest and deletion are open at
\* once, what was begun is stored and what was named is named, if not deleted.
NotBothOpen(k) == Open(k) \cap Ingests = {} \/ Open(k) \cap Deletes = {}

BegunIsStored(k) ==
    \A i \in Ingests : request[i] = k /\ DeletesOf(i) = {} /\ Begun(i) => content[k] = i

NamedIsFiled(k) ==
    \A i \in Ingests : request[i] = k /\ DeletesOf(i) = {} /\ Named(i) => file[k].uuid = i

\* A deletion has destroyed the file, or found none.
Struck(d) ==
    \/ pc[d] = "answer"
    \/ answers[d] # {} /\ rows[d].status \in {"queued", "running"}

\* No file has the uuid again, and a deletion that runs again finds none.
StruckIsGone(k) ==
    \A d \in Deletes, j \in Ingests :
        request[d] = j /\ request[j] = k /\ Struck(d) => file[k].uuid # j

\* A deletion that found the file is open, and alone at the key: the content is
\* the file's or gone, and no other ingest answered ok has its record.
LoadedIsAlone(k) ==
    \A d \in Deletes, j \in Ingests :
        request[d] = j /\ request[j] = k /\ pc[d] \in {"remove", "destroy"} =>
            /\ answers[d] = {}
            /\ file[k].uuid = j => file[k].id = row[d]
            /\ content[k] \in {j, None}
            /\ \A i \in record \cap Ingests :
                  request[i] = k /\ "ok" \in answers[i] => i = j

Orderly(k) ==
    /\ NotBothOpen(k) /\ BegunIsStored(k) /\ NamedIsFiled(k)
    /\ StruckIsGone(k) /\ LoadedIsAlone(k)

\* Requests on their way through receiver and workers; files and content; keys.
Life  == /\ RequestsAreNamed /\ MessagesAreSent /\ EarlyIsUntouched /\ PlacesAreKept /\ OneRecord
Names == FilesAreNamed /\ ContentIsNamed /\ LoadedIsFile /\ OthersAreOver /\ NameIsKept
Calm  == \A k \in Keys \ hasty : Orderly(k)

IInv == TypeOK /\ Life /\ Names /\ Calm

------------------------------------------------------------------------------
(* Type correctness *)

\* Where it starts.
LEMMA TypeInit == ASSUME Init PROVE TypeOK
BY RowConstants, BoundsAssumption DEF Init, TypeOK, Idle, NoFile

\* A request that was sent is of a key.
LEMMA SentIngests ==
    ASSUME TypeOK, Life, NEW i \in Ingests, "ok" \in answers[i] \/ i \in copied \/ pc[i] # "off"
    PROVE  request[i] \in Keys
BY DEF Life, RequestsAreNamed, EarlyIsUntouched, Early, Requests

\* What the client sends.
LEMMA TypeClient ==
    ASSUME TypeOK, Life,
           \/ \E i \in Ingests, k \in Keys : SendIngest(i, k)
           \/ \E d \in Deletes, u \in Ingests \cup {Foreign} : SendDelete(d, u)
    PROVE  TypeOK'
<1> USE DEF TypeOK, jobs, store, Requests
<1>1. ASSUME NEW i \in Ingests, NEW k \in Keys, SendIngest(i, k) PROVE TypeOK'
  BY <1>1 DEF SendIngest
<1>2. ASSUME NEW d \in Deletes, NEW u \in Ingests \cup {Foreign}, SendDelete(d, u) PROVE TypeOK'
  <2>1. u # Foreign => request[u] \in Keys
    BY <1>2, SentIngests DEF SendDelete
  <2>2. hasty' \subseteq Keys
    BY <1>2, <2>1 DEF SendDelete
  <2>3. /\ request' = [request EXCEPT ![d] = u] /\ incoming' = Append(incoming, d)
        /\ UNCHANGED <<receiver, rows, record, copied, pc, row, content, file, made, answers, lost,
                       faults>>
    BY <1>2 DEF SendDelete
  <2> QED
    BY <2>2, <2>3
<1> QED
  BY <1>1, <1>2

\* What an answer does to the answers.
LEMMA AnswerType ==
    ASSUME TypeOK, NEW q \in Requests, NEW a \in Answers, Answer(q, a)
    PROVE  answers' \in [Requests -> SUBSET Answers]
BY DEF TypeOK, Answer

\* An answer is added to those of its request; none is taken back.
LEMMA AnswerGrows ==
    ASSUME TypeOK, NEW q \in Requests, NEW a, Answer(q, a)
    PROVE  /\ answers[q] \subseteq answers'[q]
           /\ \A p \in Requests \ {q} : answers'[p] = answers[p]
<1>1. answers'[q] = answers[q] \cup {a} /\ \A p \in Requests \ {q} : answers'[p] = answers[p]
  BY DEF TypeOK, Answer
<1> QED
  BY <1>1

\* What the receiver does.
LEMMA TypeReceiver ==
    ASSUME TypeOK, Life, ReceiverStep \/ ReceiverRaises \/ ReceiverDies
    PROVE  TypeOK'
<1> USE BoundsAssumption DEF TypeOK, jobs, store, history
<1>0. receiver.pc # "idle" => receiver.of \in Requests
  BY DEF Life, MessagesAreSent
<1>1. CASE Receive
  <2>1. Head(incoming) \in Requests /\ Tail(incoming) \in Seq(Requests)
    BY <1>1 DEF Receive
  <2>2. answers' \in [Requests -> SUBSET Answers]
    BY <1>1, <2>1, AnswerType DEF Receive, Answers
  <2>3. receiver' \in [pc : {"idle", "save", "enqueue"}, of : Requests \cup {None}]
    BY <1>1, <2>1 DEF Receive
  <2> QED
    BY <1>1, <2>1, <2>2, <2>3 DEF Receive
<1>2. CASE Save
  <2>1. receiver.of \in Requests /\ "duplicate" \in Answers
    BY <1>0, <1>2 DEF Save, Answers
  <2>2. answers' \in [Requests -> SUBSET Answers]
    BY <1>2, <2>1, AnswerType DEF Save
  <2>3. receiver' \in [pc : {"idle", "save", "enqueue"}, of : Requests \cup {None}]
    <3>1. receiver' \in {Idle, [receiver EXCEPT !.pc = "enqueue"]}
      BY <1>2 DEF Save
    <3> QED
      BY <3>1 DEF Idle
  <2> QED
    BY <1>2, <2>1, <2>2, <2>3 DEF Save
<1>3. CASE Enqueue
  BY <1>3, RowConstants DEF Enqueue, Idle
<1>4. CASE ReceiverRaises
  <2>1. answers' \in [Requests -> SUBSET Answers]
    BY <1>0, <1>4, AnswerType DEF ReceiverRaises, Answers
  <2> QED
    BY <1>4, <2>1 DEF ReceiverRaises, Idle
<1>5. CASE ReceiverDies
  BY <1>0, <1>5 DEF ReceiverDies, Idle
<1> QED
  BY <1>1, <1>2, <1>3, <1>4, <1>5 DEF ReceiverStep

\* Where a worker may go on, and what it may do to its row.
LEMMA PlaceType ==
    ASSUME TypeOK, NEW q \in Requests,
           \/ Raise(q)
           \/ pc' = [pc EXCEPT ![q] = "off"] /\ rows' = [rows EXCEPT ![q] = AfterCrash(@)]
           \/ \E at \in IngestPc \cup DeletePc \cup {"answer", "success", "done"} : Goto(q, at)
    PROVE  /\ pc' \in [Requests -> IngestPc \cup DeletePc \cup {"off", "answer", "success", "done"}]
           /\ rows' \in [Requests -> Row]
<1>1. rows[q] \in Row
  BY DEF TypeOK
<1>2. AfterRaise(rows[q]) \in Row /\ AfterCrash(rows[q]) \in Row
  BY <1>1, RowSteps
<1>3. CASE Raise(q)
  BY <1>2, <1>3 DEF TypeOK, Raise
<1>4. CASE pc' = [pc EXCEPT ![q] = "off"] /\ rows' = [rows EXCEPT ![q] = AfterCrash(@)]
  BY <1>2, <1>4 DEF TypeOK
<1>5. CASE \E at \in IngestPc \cup DeletePc \cup {"answer", "success", "done"} : Goto(q, at)
  BY <1>5 DEF TypeOK, Goto
<1> QED
  BY <1>3, <1>4, <1>5

\* What the workers do.
LEMMA TypeWorker ==
    ASSUME TypeOK, Life,
           \/ \E i \in Ingests : IngestStep(i)
           \/ \E d \in Deletes : DeleteStep(d)
           \/ \E q \in Requests : CommonStep(q) \/ Interrupt(q)
    PROVE  TypeOK'
<1> USE BoundsAssumption DEF TypeOK, jobs, store, history, Requests
<1>1. ASSUME NEW q \in Requests, Reserve(q) PROVE TypeOK'
  <2>1. rows' \in [Requests -> Row]
    BY <1>1, RowSteps DEF Reserve
  <2>2. pc' \in [Requests -> IngestPc \cup DeletePc \cup {"off", "answer", "success", "done"}]
    BY <1>1 DEF Reserve, IngestPc, DeletePc
  <2> QED
    BY <1>1, <2>1, <2>2 DEF Reserve
<1>2. ASSUME NEW q \in Requests, ReserveGone(q) PROVE TypeOK'
  BY <1>2, RowConstants DEF ReserveGone
<1>3. ASSUME NEW q \in Requests, Interrupt(q) PROVE TypeOK'
  <2>1. \/ Raise(q)
        \/ pc' = [pc EXCEPT ![q] = "off"] /\ rows' = [rows EXCEPT ![q] = AfterCrash(@)]
    BY <1>3 DEF Interrupt
  <2>2. /\ faults' \in 0 .. MaxFaults
        /\ UNCHANGED <<request, incoming, receiver, record, copied, row, store, history>>
    BY <1>3 DEF Interrupt
  <2> QED
    BY <2>1, <2>2, PlaceType
<1>4. ASSUME NEW i \in Ingests, CopyContent(i) PROVE TypeOK'
  <2>1. content' \in [Keys -> Ingests \cup {None}]
    BY <1>4 DEF CopyContent
  <2> QED
    BY <1>4, <2>1, PlaceType DEF CopyContent, IngestPc
<1>5. ASSUME NEW i \in Ingests, SetCopied(i) PROVE TypeOK'
  BY <1>5, PlaceType DEF SetCopied, IngestPc
<1>6. ASSUME NEW i \in Ingests, CreateCfsFile(i) PROVE TypeOK'
  <2>1. request[i] \in Keys
    BY <1>6, SentIngests DEF CreateCfsFile, Running
  <2>2. made' \in Nat /\ file' \in [Keys -> [id : 0 .. made', uuid : Ingests \cup {None}]]
    <3> DEFINE k == request[i]
    <3>1. \/ /\ file' = [file EXCEPT ![k] = [id |-> made + 1, uuid |-> i]]
             /\ made' = made + 1
          \/ file' = [file EXCEPT ![k] = [file[k] EXCEPT !.uuid = i]] /\ made' = made
      BY <1>6 DEF CreateCfsFile
    <3>2. \A l \in Keys : file[l] \in [id : 0 .. made + 1, uuid : Ingests \cup {None}]
      OBVIOUS
    <3> HIDE DEF k
    <3>3. CASE file' = [file EXCEPT ![k] = [id |-> made + 1, uuid |-> i]] /\ made' = made + 1
      <4> DEFINE NewFile == [id : 0 .. made + 1, uuid : Ingests \cup {None}]
      <4>1. file \in [Keys -> NewFile] /\ [id |-> made + 1, uuid |-> i] \in NewFile
        BY <3>2
      <4>2. file' \in [Keys -> NewFile]
        <5> HIDE DEF NewFile
        <5> QED
          BY <3>3, <4>1
      <4> QED
        BY <3>3, <4>2
    <3>4. CASE file' = [file EXCEPT ![k] = [file[k] EXCEPT !.uuid = i]] /\ made' = made
      BY <3>4
    <3> QED
      BY <3>1, <3>3, <3>4
  <2>3. hasty' \subseteq Keys
    BY <1>6, <2>1 DEF CreateCfsFile
  <2> QED
    BY <1>6, <2>2, <2>3, PlaceType DEF CreateCfsFile, IngestPc
<1>7. ASSUME NEW i \in Ingests, DoAssessment(i) PROVE TypeOK'
  BY <1>7, PlaceType DEF DoAssessment
<1>8. ASSUME NEW d \in Deletes, Find(d) PROVE TypeOK'
  <2>1. row' \in [Deletes -> Nat]
    <3>1. \A k \in Keys : file[k].id \in Nat
      OBVIOUS
    <3>2. row' = row \/ \E k \in Keys : row' = [row EXCEPT ![d] = file[k].id]
      BY <1>8 DEF Find, FilesOf
    <3> QED
      BY <3>1, <3>2
  <2>2. answers' \in [Requests -> SUBSET Answers]
    BY <1>8, AnswerType DEF Find, Answers
  <2> QED
    BY <1>8, <2>1, <2>2, PlaceType DEF Find, DeletePc
<1>9. ASSUME NEW d \in Deletes, Remove(d) PROVE TypeOK'
  <2>1. content' \in [Keys -> Ingests \cup {None}]
    BY <1>9 DEF Remove
  <2> QED
    BY <1>9, <2>1, PlaceType DEF Remove, DeletePc
<1>10. ASSUME NEW d \in Deletes, Destroy(d) PROVE TypeOK'
  <2>1. file' \in [Keys -> [id : 0 .. made, uuid : Ingests \cup {None}]]
    BY <1>10 DEF Destroy, NoFile
  <2> QED
    BY <1>10, <2>1, PlaceType DEF Destroy
<1>11. ASSUME NEW q \in Requests, SendReturnMessage(q) PROVE TypeOK'
  BY <1>11, PlaceType, AnswerType DEF SendReturnMessage, Answers
<1>12. ASSUME NEW q \in Requests, Success(q) PROVE TypeOK'
  BY <1>12, PlaceType DEF Success
<1>13. ASSUME NEW q \in Requests, Finish(q) PROVE TypeOK'
  BY <1>13, RowConstants DEF Finish
<1> QED
  BY <1>1, <1>2, <1>3, <1>4, <1>5, <1>6, <1>7, <1>8, <1>9, <1>10, <1>11, <1>12, <1>13
  DEF IngestStep, DeleteStep, CommonStep

------------------------------------------------------------------------------
(* Requests on their way *)

\* What sending and receiving do to the messages under way.
Distinct == \A m, n \in DOMAIN incoming : incoming[m] = incoming[n] => m = n

\* A new request is the last of the messages that wait.
LEMMA QueuedAppended ==
    ASSUME TypeOK, Distinct, NEW q \in Requests, q \notin Queued, incoming' = Append(incoming, q)
    PROVE  Queued' = Queued \cup {q} /\ Distinct'
<1>1. /\ incoming \in Seq(Requests) /\ Len(incoming) \in Nat
      /\ DOMAIN incoming = 1 .. Len(incoming)
  BY DEF TypeOK
<1>2. /\ DOMAIN incoming' = 1 .. Len(incoming) + 1
      /\ \A n \in 1 .. Len(incoming) : incoming'[n] = incoming[n]
      /\ incoming'[Len(incoming) + 1] = q
  BY <1>1
<1> QED
  BY <1>1, <1>2 DEF Queued, Distinct

\* The first of the messages is taken, and waits no longer.
LEMMA QueuedTaken ==
    ASSUME TypeOK, Distinct, incoming # <<>>, incoming' = Tail(incoming)
    PROVE  /\ Head(incoming) \in Queued /\ Head(incoming) \in Requests
           /\ Queued' = Queued \ {Head(incoming)} /\ Distinct'
<1>1. /\ incoming \in Seq(Requests) /\ Len(incoming) \in Nat \ {0}
      /\ DOMAIN incoming = 1 .. Len(incoming)
      /\ Head(incoming) = incoming[1]
  BY DEF TypeOK
<1>2. /\ DOMAIN incoming' = 1 .. Len(incoming) - 1
      /\ \A n \in 1 .. Len(incoming) - 1 : incoming'[n] = incoming[n + 1]
  BY <1>1
<1>3. Distinct'
  BY <1>1, <1>2 DEF Distinct
<1>4. Head(incoming) \in Queued /\ Head(incoming) \in Requests
  BY <1>1 DEF Queued
<1>5. ASSUME NEW q \in Queued' PROVE q \in Queued /\ q # Head(incoming)
  <2>1. PICK n \in 1 .. Len(incoming) - 1 : q = incoming[n + 1]
    BY <1>2 DEF Queued
  <2>2. n + 1 \in DOMAIN incoming /\ n + 1 # 1 /\ 1 \in DOMAIN incoming
    BY <1>1
  <2> QED
    BY <1>1, <2>1, <2>2 DEF Queued, Distinct
<1>6. ASSUME NEW q \in Queued, q # Head(incoming) PROVE q \in Queued'
  <2>1. PICK n \in 1 .. Len(incoming) : q = incoming[n]
    BY <1>1 DEF Queued
  <2>2. n - 1 \in DOMAIN incoming' /\ incoming'[n - 1] = q
    BY <1>1, <1>2, <1>6, <2>1
  <2> QED
    BY <2>2 DEF Queued
<1> QED
  BY <1>3, <1>4, <1>5, <1>6

\* A request is sent, which names x.
Sends(q, x) ==
    /\ request[q] = None /\ request' = [request EXCEPT ![q] = x] /\ x # None
    /\ q \in Ingests => x \in Keys
    /\ q \in Deletes => x \in Ingests \cup {Foreign}
    /\ q \in Deletes /\ x \in Ingests => "ok" \in answers[x]
    /\ incoming' = Append(incoming, q)
    /\ UNCHANGED <<receiver, rows, record, copied, pc, row, content, file, made, answers>>

\* A request of the client is a new message.
LEMMA ClientSends ==
    ASSUME TypeOK, Life,
           \/ \E i \in Ingests, k \in Keys : SendIngest(i, k)
           \/ \E d \in Deletes, u \in Ingests \cup {Foreign} : SendDelete(d, u)
    PROVE  \E q \in Requests, x \in Keys \cup Ingests \cup {Foreign} : Sends(q, x)
<1> USE NamesAssumption, RequestsAssumption DEF Requests
<1>1. ASSUME NEW i \in Ingests, NEW k \in Keys, SendIngest(i, k) PROVE Sends(i, k)
  BY <1>1 DEF SendIngest, Sends, jobs, store
<1>2. ASSUME NEW d \in Deletes, NEW u \in Ingests \cup {Foreign}, SendDelete(d, u)
      PROVE  Sends(d, u)
  BY <1>2 DEF SendDelete, Sends, jobs, store
<1>3. CASE \E i \in Ingests, k \in Keys : SendIngest(i, k)
  <2>1. PICK i \in Ingests, k \in Keys : SendIngest(i, k)
    BY <1>3
  <2> QED
    BY <1>1, <2>1
<1>4. CASE \E d \in Deletes, u \in Ingests \cup {Foreign} : SendDelete(d, u)
  <2>1. PICK d \in Deletes, u \in Ingests \cup {Foreign} : SendDelete(d, u)
    BY <1>4
  <2> QED
    BY <1>2, <2>1
<1> QED
  BY <1>3, <1>4

\* A request that is sent is early.
LEMMA LifeClient ==
    ASSUME TypeOK, Life,
           \/ \E i \in Ingests, k \in Keys : SendIngest(i, k)
           \/ \E d \in Deletes, u \in Ingests \cup {Foreign} : SendDelete(d, u)
    PROVE  Life'
<1> USE NamesAssumption, RequestsAssumption DEF Requests
<1>1. PICK q \in Requests, x \in Keys \cup Ingests \cup {Foreign} : Sends(q, x)
  BY ClientSends
<1> USE <1>1 DEF Sends
<1>2. request'[q] = x /\ \A p \in Requests \ {q} : request'[p] = request[p]
  BY DEF TypeOK
<1>3. q \notin Queued /\ receiver.of # q
  BY DEF Life, MessagesAreSent
<1>4. Queued' = Queued \cup {q} /\ Distinct'
  BY <1>3, QueuedAppended DEF Life, MessagesAreSent, Distinct
<1>5. RequestsAreNamed'
  BY <1>2 DEF Life, RequestsAreNamed
<1>6. MessagesAreSent'
  BY <1>2, <1>3, <1>4 DEF Life, MessagesAreSent, Distinct
<1>7. EarlyIsUntouched'
  BY <1>2, <1>4 DEF Life, EarlyIsUntouched, Early
<1>8. PlacesAreKept'
  BY DEF Life, PlacesAreKept, Place
<1>9. OneRecord'
  BY <1>2, <1>3 DEF Life, OneRecord, EarlyIsUntouched, Early
<1> QED
  BY <1>5, <1>6, <1>7, <1>8, <1>9 DEF Life

\* The receiver takes a message, and answers or keeps it.
LEMMA LifeReceive == ASSUME TypeOK, Life, Receive PROVE Life'
<1> USE NamesAssumption, RequestsAssumption DEF Requests
<1>1. PICK q \in Requests :
           /\ q = Head(incoming) /\ q \in Queued /\ Queued' = Queued \ {q} /\ Distinct'
           /\ receiver.of = None /\ receiver.pc = "idle"
  BY QueuedTaken DEF Life, MessagesAreSent, Distinct, Receive, Idle
<1>2. UNCHANGED <<request, rows, record, copied, pc, row, content, file, made, hasty>>
  BY DEF Receive, jobs, store
<1>3. \/ receiver'.pc = "save" /\ receiver'.of = q /\ answers' = answers
      \/ /\ receiver' = receiver
         /\ \/ answers' = [answers EXCEPT ![q] = answers[q] \cup {"duplicate"}]
            \/ answers' = [answers EXCEPT ![q] = answers[q] \cup {"refused"}]
  BY <1>1 DEF Receive, Answer
<1>4. /\ answers[q] \subseteq answers'[q]
      /\ \A p \in Requests \ {q} : answers'[p] = answers[p]
  BY <1>3 DEF TypeOK
<1>5. RequestsAreNamed'
  BY <1>2, <1>4 DEF Life, RequestsAreNamed, TypeOK
<1>6. MessagesAreSent'
  BY <1>1, <1>2, <1>3 DEF Life, MessagesAreSent, Distinct
<1>7. EarlyIsUntouched'
  BY <1>1, <1>2, <1>3, <1>4 DEF Life, EarlyIsUntouched, Early, MessagesAreSent
<1>8. PlacesAreKept'
  <2>1. rows[q].status = "absent" /\ pc[q] = "off"
    BY <1>1 DEF Life, EarlyIsUntouched, Early
  <2> QED
    BY <1>2, <1>4, <2>1 DEF Life, PlacesAreKept, Place
<1>9. OneRecord'
  BY <1>2 DEF Life, OneRecord
<1> QED
  BY <1>5, <1>6, <1>7, <1>8, <1>9 DEF Life

\* The receiver is done with its message.
LEMMA LifeReceiver ==
    ASSUME TypeOK, Life, Save \/ Enqueue \/ ReceiverRaises \/ ReceiverDies
    PROVE  Life'
<1> USE NamesAssumption, RequestsAssumption DEF Requests
<1>0. PICK q \in Requests : q = receiver.of
  BY DEF Life, MessagesAreSent, TypeOK, Save, Enqueue, ReceiverRaises, ReceiverDies
<1>1. /\ request[q] # None /\ rows[q].status = "absent" /\ pc[q] = "off"
      /\ answers[q] = {} /\ q \notin copied /\ q \notin Queued
      /\ receiver.pc # "idle" /\ q # None
      /\ q \in record => receiver.pc = "enqueue"
  BY <1>0
  DEF Life, MessagesAreSent, EarlyIsUntouched, Early, TypeOK, Save, Enqueue, ReceiverRaises,
      ReceiverDies
<1>2. /\ UNCHANGED <<request, incoming, copied, pc, row, content, file, made, hasty>>
      /\ Queued' = Queued /\ Queued \subseteq Requests
  BY DEF TypeOK, Save, Enqueue, ReceiverRaises, ReceiverDies, jobs, store, Queued, history
<1>3. \/ Save /\ Scheduled(q) /\ receiver' = Idle /\ Answer(q, "duplicate") /\ record' = record
      \/ /\ Save /\ ~Scheduled(q) /\ receiver' = [receiver EXCEPT !.pc = "enqueue"]
         /\ record' = record \cup {q} /\ answers' = answers
      \/ /\ receiver' = Idle /\ record' = record
         /\ \/ Answer(q, "duplicate") \/ Answer(q, "unknown") \/ answers' = answers
  BY <1>0 DEF Save, Enqueue, ReceiverRaises, ReceiverDies, jobs, history
<1>4. /\ \A p \in Requests : p # q => answers'[p] = answers[p] /\ rows'[p] = rows[p]
      /\ answers[q] \subseteq answers'[q]
      /\ \/ rows'[q] = rows[q]
         \/ rows'[q].status = "queued" /\ answers'[q] = {}
  <2>1. /\ \A p \in Requests : p # q => answers'[p] = answers[p]
        /\ answers[q] \subseteq answers'[q]
    BY <1>3 DEF TypeOK, Answer
  <2>2. CASE Enqueue
    BY <1>0, <1>1, <2>1, <2>2 DEF TypeOK, Enqueue, Fresh, history
  <2>3. CASE ~Enqueue
    <3>1. rows' = rows
      BY <2>3 DEF Save, ReceiverRaises, ReceiverDies, jobs
    <3> QED
      BY <2>1, <3>1
  <2> QED
    BY <2>2, <2>3
<1>5. \/ record' = record /\ receiver'.of = None /\ receiver'.pc = "idle"
      \/ /\ record' = record \cup {q} /\ ~Scheduled(q) /\ answers' = answers /\ rows' = rows
         /\ receiver'.of = q /\ receiver'.pc = "enqueue"
  BY <1>0, <1>3 DEF TypeOK, Idle, Save
<1>6. RequestsAreNamed'
  BY <1>1, <1>2, <1>4 DEF Life, RequestsAreNamed, TypeOK
<1>7. MessagesAreSent'
  BY <1>0, <1>1, <1>2, <1>5 DEF Life, MessagesAreSent
<1>8. EarlyIsUntouched'
  <2>1. ASSUME NEW p \in Requests, p # q, Early(p)' PROVE Early(p) /\ p \notin record
    BY <1>0, <1>1, <1>2, <1>5, <2>1 DEF Life, EarlyIsUntouched, Early
  <2>2. ASSUME Early(q)' PROVE receiver'.of = q
    BY <1>1, <1>2, <2>2 DEF Early
  <2> QED
    BY <1>0, <1>1, <1>2, <1>4, <1>5, <2>1, <2>2 DEF Life, EarlyIsUntouched, Early
<1>9. PlacesAreKept'
  <2>1. ASSUME NEW p \in Requests, p # q PROVE Place(p)'
    BY <1>2, <1>4, <1>5, <2>1 DEF Life, PlacesAreKept, Place
  <2>2. Place(q)'
    <3>1. rows'[q].status \in {"absent", "queued"}
      BY <1>1, <1>4
    <3>2. rows'[q].status = "queued" => answers'[q] = {}
      BY <1>1, <1>4
    <3> QED
      BY <1>1, <1>2, <3>1, <3>2 DEF Place
  <2> QED
    BY <2>1, <2>2 DEF PlacesAreKept
<1>10. OneRecord'
  BY <1>2, <1>5 DEF Life, OneRecord, Scheduled
<1> QED
  BY <1>6, <1>7, <1>8, <1>9, <1>10 DEF Life

\* What every step of a worker does: it moves its own request.
Moves(q) ==
    /\ UNCHANGED <<request, incoming, receiver>>
    /\ rows[q].status \in {"queued", "running"}
    /\ \A p \in Requests \ {q} :
          /\ rows'[p] = rows[p] /\ pc'[p] = pc[p] /\ answers'[p] = answers[p]
          /\ p \in record' <=> p \in record
          /\ p \in copied' <=> p \in copied
    /\ record' \subseteq record /\ answers[q] \subseteq answers'[q]
    /\ \A k \in Keys : content'[k] \in {content[k], None, q}
    /\ Place(q)'

\* A step within a perform.
LEMMA GotoMoves ==
    ASSUME TypeOK, NEW q \in Requests, NEW from, NEW to, Running(q, from), Goto(q, to)
    PROVE  /\ rows' = rows /\ rows[q].status = "running" /\ pc[q] = from /\ pc'[q] = to
           /\ \A p \in Requests \ {q} : pc'[p] = pc[p]
BY DEF TypeOK, Running, Goto

\* A perform that ends with a raise, or with its process.
LEMMA EndMoves ==
    ASSUME TypeOK, NEW q \in Requests, rows[q].status = "running",
           \/ Raise(q)
           \/ pc' = [pc EXCEPT ![q] = "off"] /\ rows' = [rows EXCEPT ![q] = AfterCrash(@)]
    PROVE  /\ rows'[q].status \in {"queued", "failed"} /\ pc'[q] = "off"
           /\ \A p \in Requests \ {q} : pc'[p] = pc[p] /\ rows'[p] = rows[p]
<1>1. rows[q] \in Row
  BY DEF TypeOK
<1>2. AfterCrash(rows[q]).status = "queued" /\ AfterRaise(rows[q]).status \in {"queued", "failed"}
  BY <1>1 DEF Row, AfterCrash, AfterRaise
<1> QED
  BY <1>2 DEF TypeOK, Raise

\* Every step of a worker is such a move, and leaves its request in place.
LEMMA WorkerMoves ==
    ASSUME TypeOK, Life, NEW q \in Requests,
           \/ q \in Ingests /\ IngestStep(q)
           \/ q \in Deletes /\ DeleteStep(q)
           \/ CommonStep(q) \/ Interrupt(q)
    PROVE  Moves(q)
<1>0. Place(q)
  BY DEF Life, PlacesAreKept
<1> USE <1>0 DEF jobs, store, history
<1>1. CASE Reserve(q)
  <2>1. rows'[q].status = "running" /\ rows[q].status = "queued"
    BY <1>1, StatusSteps DEF TypeOK, Reserve
  <2>2. /\ q \in Deletes => pc'[q] = "find"
        /\ q \in Ingests => pc'[q] = "file" \/ pc'[q] = "copy"
    <3>1. q \in copied => q \in Ingests
      BY DEF TypeOK
    <3> QED
      BY <1>1, <3>1, RequestsAssumption DEF TypeOK, Reserve
  <2>3. \A p \in Requests \ {q} : rows'[p] = rows[p] /\ pc'[p] = pc[p]
    BY <1>1 DEF TypeOK, Reserve
  <2>4. q \in record /\ UNCHANGED <<request, incoming, receiver, record, copied, content, answers>>
    BY <1>1 DEF Reserve
  <2>5. Place(q)'
    BY <2>1, <2>2, <2>4, RequestsAssumption DEF Place, IngestPc, DeletePc, Requests
  <2> QED
    BY <2>1, <2>3, <2>4, <2>5 DEF Moves
<1>2. CASE ReserveGone(q)
  <2>1. rows'[q].status = "failed" /\ rows[q].status = "queued"
    BY <1>2 DEF TypeOK, ReserveGone, AfterDeserializationError
  <2>2. \A p \in Requests \ {q} : rows'[p] = rows[p]
    BY <1>2 DEF TypeOK, ReserveGone
  <2>3. UNCHANGED <<request, incoming, receiver, record, copied, pc, content, answers>>
    BY <1>2 DEF ReserveGone
  <2> QED
    BY <2>1, <2>2, <2>3 DEF Moves, Place
<1>3. CASE Interrupt(q)
  <2>1. rows[q].status = "running"
    BY <1>3 DEF Interrupt
  <2>2. /\ rows'[q].status \in {"queued", "failed"} /\ pc'[q] = "off"
        /\ \A p \in Requests \ {q} : pc'[p] = pc[p] /\ rows'[p] = rows[p]
    BY <1>3, <2>1, EndMoves DEF Interrupt
  <2>3. UNCHANGED <<request, incoming, receiver, record, copied, content, answers>>
    BY <1>3 DEF Interrupt
  <2>4. Place(q)'
    BY <2>1, <2>2, <2>3 DEF Place
  <2> QED
    BY <2>1, <2>2, <2>3, <2>4 DEF Moves
<1>4. CASE q \in Ingests /\ CopyContent(q)
  <2>1. /\ UNCHANGED <<request, incoming, receiver, record, copied, answers>>
        /\ rows[q].status = "running" /\ pc[q] = "copy"
    BY <1>4 DEF CopyContent, Running
  <2>2. \A k \in Keys : content'[k] \in {content[k], q}
    BY <1>4 DEF TypeOK, CopyContent
  <2>3. \/ Goto(q, "flag") \/ Goto(q, "file") \/ Raise(q)
    BY <1>4 DEF CopyContent
  <2>4. CASE Raise(q)
    <3>1. /\ rows'[q].status \in {"queued", "failed"} /\ pc'[q] = "off"
          /\ \A p \in Requests \ {q} : pc'[p] = pc[p] /\ rows'[p] = rows[p]
      BY <2>1, <2>4, EndMoves
    <3> QED
      BY <2>1, <2>2, <3>1 DEF Moves, Place
  <2>5. CASE Goto(q, "flag") \/ Goto(q, "file")
    <3>1. /\ rows' = rows /\ pc'[q] \in {"flag", "file"}
          /\ \A p \in Requests \ {q} : pc'[p] = pc[p]
      BY <1>4, <2>5, GotoMoves DEF CopyContent
    <3>2. Place(q)'
      BY <1>4, <2>1, <3>1 DEF Place, IngestPc
    <3> QED
      BY <2>1, <2>2, <3>1, <3>2 DEF Moves
  <2> QED
    BY <2>3, <2>4, <2>5
<1>5. CASE q \in Ingests /\ SetCopied(q)
  <2>1. /\ rows' = rows /\ rows[q].status = "running" /\ pc[q] = "flag" /\ pc'[q] = "file"
        /\ \A p \in Requests \ {q} : pc'[p] = pc[p]
    BY <1>5, GotoMoves DEF SetCopied
  <2>2. /\ UNCHANGED <<request, incoming, receiver, record, content, answers>>
        /\ copied' = copied \cup {q}
    BY <1>5 DEF SetCopied
  <2>3. Place(q)'
    BY <1>5, <2>1, <2>2 DEF Place, IngestPc
  <2> QED
    BY <2>1, <2>2, <2>3 DEF Moves
<1>6. CASE q \in Ingests /\ CreateCfsFile(q)
  <2>1. /\ rows' = rows /\ rows[q].status = "running" /\ pc[q] = "file" /\ pc'[q] = "assess"
        /\ \A p \in Requests \ {q} : pc'[p] = pc[p]
    BY <1>6, GotoMoves DEF CreateCfsFile
  <2>2. UNCHANGED <<request, incoming, receiver, record, copied, content, answers>>
    BY <1>6 DEF CreateCfsFile
  <2>3. Place(q)'
    BY <1>6, <2>1, <2>2 DEF Place, IngestPc
  <2> QED
    BY <2>1, <2>2, <2>3 DEF Moves
<1>7. CASE q \in Ingests /\ DoAssessment(q)
  <2>1. /\ UNCHANGED <<request, incoming, receiver, record, copied, content, answers>>
        /\ rows[q].status = "running" /\ pc[q] = "assess"
    BY <1>7 DEF DoAssessment, Running
  <2>2. \/ Goto(q, "answer") \/ Raise(q)
    BY <1>7 DEF DoAssessment
  <2>3. CASE Raise(q)
    <3>1. /\ rows'[q].status \in {"queued", "failed"} /\ pc'[q] = "off"
          /\ \A p \in Requests \ {q} : pc'[p] = pc[p] /\ rows'[p] = rows[p]
      BY <2>1, <2>3, EndMoves
    <3> QED
      BY <2>1, <3>1 DEF Moves, Place
  <2>4. CASE Goto(q, "answer")
    <3>1. /\ rows' = rows /\ pc'[q] = "answer"
          /\ \A p \in Requests \ {q} : pc'[p] = pc[p]
      BY <1>7, <2>4, GotoMoves DEF DoAssessment
    <3> QED
      BY <1>7, <2>1, <3>1 DEF Moves, Place
  <2> QED
    BY <2>2, <2>3, <2>4
<1>8. CASE q \in Deletes /\ Find(q)
  <2>0. q \notin Ingests
    BY <1>8, RequestsAssumption
  <2>1. /\ UNCHANGED <<request, incoming, receiver, record, copied, content>>
        /\ rows[q].status = "running" /\ pc[q] = "find"
    BY <1>8 DEF Find, Running
  <2>2. /\ answers[q] \subseteq answers'[q]
        /\ \A p \in Requests \ {q} : answers'[p] = answers[p]
    <3>1. answers' = answers \/ Answer(q, "wrong group") \/ Answer(q, "not found")
      BY <1>8 DEF Find
    <3> QED
      BY <3>1, AnswerGrows
  <2>3. /\ rows' = rows /\ pc'[q] \in {"remove", "success"}
        /\ \A p \in Requests \ {q} : pc'[p] = pc[p]
    BY <1>8, GotoMoves DEF Find
  <2>4. Place(q)'
    BY <2>0, <2>1, <2>3 DEF Place, DeletePc
  <2> QED
    BY <2>1, <2>2, <2>3, <2>4 DEF Moves
<1>9. CASE q \in Deletes /\ Remove(q)
  <2>0. q \notin Ingests
    BY <1>9, RequestsAssumption
  <2>1. UNCHANGED <<request, incoming, receiver, record, copied, answers>>
    BY <1>9 DEF Remove
  <2>2. \A k \in Keys : content'[k] \in {content[k], None}
    BY <1>9 DEF TypeOK, Remove
  <2>3. /\ rows' = rows /\ rows[q].status = "running" /\ pc[q] = "remove" /\ pc'[q] = "destroy"
        /\ \A p \in Requests \ {q} : pc'[p] = pc[p]
    BY <1>9, GotoMoves DEF Remove
  <2>4. Place(q)'
    BY <2>0, <2>1, <2>3 DEF Place, DeletePc
  <2> QED
    BY <2>1, <2>2, <2>3, <2>4 DEF Moves
<1>10. CASE q \in Deletes /\ Destroy(q)
  <2>0. q \notin Ingests
    BY <1>10, RequestsAssumption
  <2>1. UNCHANGED <<request, incoming, receiver, record, copied, content, answers>>
    BY <1>10 DEF Destroy
  <2>2. /\ rows' = rows /\ rows[q].status = "running" /\ pc[q] = "destroy" /\ pc'[q] = "answer"
        /\ \A p \in Requests \ {q} : pc'[p] = pc[p]
    BY <1>10, GotoMoves DEF Destroy
  <2> QED
    BY <2>0, <2>1, <2>2 DEF Moves, Place
<1>11. CASE SendReturnMessage(q)
  <2>1. UNCHANGED <<request, incoming, receiver, record, copied, content>>
    BY <1>11 DEF SendReturnMessage
  <2>2. /\ answers'[q] = answers[q] \cup {"ok"}
        /\ \A p \in Requests \ {q} : answers'[p] = answers[p]
    BY <1>11 DEF TypeOK, SendReturnMessage, Answer
  <2>3. /\ rows' = rows /\ rows[q].status = "running" /\ pc[q] = "answer" /\ pc'[q] = "success"
        /\ \A p \in Requests \ {q} : pc'[p] = pc[p]
    BY <1>11, GotoMoves DEF SendReturnMessage
  <2>4. Place(q)'
    BY <2>1, <2>2, <2>3 DEF Place
  <2> QED
    BY <2>1, <2>2, <2>3, <2>4 DEF Moves
<1>12. CASE Success(q)
  <2>1. /\ UNCHANGED <<request, incoming, receiver, content, answers>>
        /\ record' = record \ {q} /\ copied' = copied \ {q}
    BY <1>12 DEF Success
  <2>2. /\ rows' = rows /\ rows[q].status = "running" /\ pc[q] = "success" /\ pc'[q] = "done"
        /\ \A p \in Requests \ {q} : pc'[p] = pc[p]
    BY <1>12, GotoMoves DEF Success
  <2>3. Place(q)'
    BY <2>1, <2>2 DEF Place
  <2> QED
    BY <2>1, <2>2, <2>3 DEF Moves
<1>13. CASE Finish(q)
  <2>1. UNCHANGED <<request, incoming, receiver, record, copied, content, answers>>
    BY <1>13 DEF Finish
  <2>2. /\ rows[q].status = "running" /\ rows'[q].status = "absent" /\ pc'[q] = "off"
        /\ \A p \in Requests \ {q} : pc'[p] = pc[p] /\ rows'[p] = rows[p]
    BY <1>13 DEF TypeOK, Finish, Running, Absent
  <2> QED
    BY <2>1, <2>2 DEF Moves, Place
<1> QED
  BY <1>1, <1>2, <1>3, <1>4, <1>5, <1>6, <1>7, <1>8, <1>9, <1>10, <1>11, <1>12, <1>13
  DEF IngestStep, DeleteStep, CommonStep

\* A move keeps the way of every request.
LEMMA LifeWorker ==
    ASSUME TypeOK, Life, NEW q \in Requests, Moves(q)
    PROVE  Life'
<1> USE NamesAssumption, RequestsAssumption DEF Requests
<1>1. /\ UNCHANGED <<request, incoming, receiver>> /\ Queued' = Queued
      /\ \A p \in Requests : answers[p] \subseteq answers'[p]
      /\ record' \subseteq record
      /\ \A k \in Keys : content'[k] \in {content[k], None, q}
  BY DEF Moves, Queued
<1>2. ~Early(q)
  BY DEF Moves, Life, EarlyIsUntouched
<1>3. \A p \in Requests : Early(p)' => Early(p)
  BY <1>1 DEF Early
<1>4. RequestsAreNamed'
  BY <1>1 DEF Life, RequestsAreNamed
<1>5. MessagesAreSent'
  BY <1>1 DEF Life, MessagesAreSent
<1>6. EarlyIsUntouched'
  <2>1. ASSUME NEW p \in Requests, Early(p)'
        PROVE  /\ p # q /\ Early(p)
               /\ rows'[p] = rows[p] /\ pc'[p] = pc[p] /\ answers'[p] = answers[p]
               /\ p \in record' <=> p \in record
               /\ p \in copied' <=> p \in copied
    BY <1>2, <1>3, <2>1 DEF Moves
  <2> QED
    BY <1>1, <2>1 DEF Life, EarlyIsUntouched
<1>7. PlacesAreKept'
  <2>1. ASSUME NEW p \in Requests, p # q PROVE Place(p)'
    BY <2>1 DEF Moves, Life, PlacesAreKept, Place
  <2> QED
    BY <2>1 DEF Moves, PlacesAreKept
<1>8. OneRecord'
  BY <1>1 DEF Life, OneRecord
<1> QED
  BY <1>4, <1>5, <1>6, <1>7, <1>8 DEF Life

\* Requests keep to their way in every step.
LEMMA LifeStep == ASSUME TypeOK, Life, Next PROVE TypeOK' /\ Life'
<1>1. CASE \/ \E i \in Ingests, k \in Keys : SendIngest(i, k)
           \/ \E d \in Deletes, u \in Ingests \cup {Foreign} : SendDelete(d, u)
  BY <1>1, TypeClient, LifeClient
<1>2. CASE ReceiverStep \/ ReceiverRaises \/ ReceiverDies
  BY <1>2, TypeReceiver, LifeReceive, LifeReceiver DEF ReceiverStep
<1>3. CASE \/ \E i \in Ingests : IngestStep(i)
           \/ \E d \in Deletes : DeleteStep(d)
           \/ \E q \in Requests : CommonStep(q) \/ Interrupt(q)
  BY <1>3, TypeWorker, WorkerMoves, LifeWorker DEF Requests
<1> QED
  BY <1>1, <1>2, <1>3 DEF Next

------------------------------------------------------------------------------
(* Steps that touch neither content nor files *)

\* An ingest begins nothing and names nothing, and answers no more than ok.
StillIngest(i) ==
    /\ Begun(i)' => Begun(i) /\ (i \in record' => i \in record)
    /\ Named(i)' => Named(i)
    /\ answers'[i] = {} => answers[i] = {}
    /\ "ok" \in answers[i] => "ok" \in answers'[i]
    /\ \/ i \in record /\ answers[i] = {}
       => \/ "ok" \in answers'[i] \/ (i \in record' /\ answers'[i] = {})
          \/ \A k \in Keys : content[k] # i
    /\ "ok" \in answers'[i] /\ i \in record' =>
          i \in record /\ ("ok" \in answers[i] \/ answers[i] = {})

\* A deletion loads no file, and is struck only when there is none.
StillDelete(d) ==
    /\ answers'[d] = {} => answers[d] = {}
    /\ Struck(d)' => Struck(d) \/ \A k \in Keys : file[k].uuid # request[d]
    /\ pc'[d] \in {"remove", "destroy"} =>
          pc[d] \in {"remove", "destroy"} /\ row'[d] = row[d] /\ answers'[d] = answers[d]

Quiet ==
    /\ UNCHANGED <<request, content, file, made, hasty>>
    /\ \A i \in Ingests : StillIngest(i)
    /\ \A d \in Deletes : StillDelete(d)

\* A quiet step breaks nothing that relates requests to content and files.
LEMMA QuietKeepsNames == ASSUME TypeOK, Life, Names, Quiet PROVE Names'
<1>1. UNCHANGED <<request, content, file, made>>
  BY DEF Quiet
<1>2. FilesAreNamed'
  BY <1>1 DEF Names, FilesAreNamed
<1>3. ContentIsNamed'
  BY <1>1 DEF Names, ContentIsNamed, Quiet, StillIngest
<1>4. LoadedIsFile'
  BY <1>1 DEF Names, LoadedIsFile, Quiet, StillDelete
<1>5. OthersAreOver'
  BY <1>1 DEF Names, OthersAreOver, Quiet, StillIngest
<1>6. NameIsKept'
  <2>1. \A i \in Ingests : Named(i) => Begun(i)
    BY DEF Named, Begun
  <2>2. \A i \in Ingests : Named(i)' => Begun(i)'
    BY DEF Named, Begun
  <2> QED
    BY <1>1, <2>1, <2>2 DEF Names, NameIsKept, Quiet, StillIngest
<1> QED
  BY <1>2, <1>3, <1>4, <1>5, <1>6 DEF Names

\* A quiet step breaks nothing that is said of a key nobody hurries.
LEMMA QuietKeepsCalm == ASSUME TypeOK, Life, Names, Calm, Quiet PROVE Calm'
<1> SUFFICES ASSUME NEW k \in Keys \ hasty PROVE Orderly(k)'
  BY DEF Calm, Quiet
<1>1. UNCHANGED <<request, content, file, made>> /\ \A i \in Ingests : DeletesOf(i)' = DeletesOf(i)
  BY DEF Quiet, DeletesOf
<1>2. Orderly(k)
  BY DEF Calm
<1>3. NotBothOpen(k)'
  <2>1. Open(k)' \subseteq Open(k)
    BY <1>1 DEF Open, Sent, Quiet, StillIngest, StillDelete, Requests
  <2> QED
    BY <1>2, <2>1 DEF Orderly, NotBothOpen
<1>4. BegunIsStored(k)'
  BY <1>1, <1>2 DEF Orderly, BegunIsStored, Quiet, StillIngest
<1>5. NamedIsFiled(k)'
  BY <1>1, <1>2 DEF Orderly, NamedIsFiled, Quiet, StillIngest
<1>6. StruckIsGone(k)'
  BY <1>1, <1>2 DEF Orderly, StruckIsGone, Quiet, StillDelete
<1>7. LoadedIsAlone(k)'
  <2> SUFFICES ASSUME NEW d \in Deletes, NEW j \in Ingests, request[d] = j, request[j] = k,
                      pc'[d] \in {"remove", "destroy"}
               PROVE  /\ answers'[d] = {}
                      /\ file[k].uuid = j => file[k].id = row'[d]
                      /\ content[k] \in {j, None}
                      /\ \A i \in record' \cap Ingests :
                            request[i] = k /\ "ok" \in answers'[i] => i = j
    BY <1>1 DEF LoadedIsAlone
  <2>1. pc[d] \in {"remove", "destroy"} /\ row'[d] = row[d] /\ answers'[d] = answers[d]
    BY DEF Quiet, StillDelete
  <2>2. /\ answers[d] = {}
        /\ file[k].uuid = j => file[k].id = row[d]
        /\ content[k] \in {j, None}
        /\ \A i \in record \cap Ingests : request[i] = k /\ "ok" \in answers[i] => i = j
    BY <1>2, <2>1 DEF Orderly, LoadedIsAlone
  <2>3. ASSUME NEW i \in record' \cap Ingests, request[i] = k, "ok" \in answers'[i] PROVE i = j
    <3>1. i \in record /\ ("ok" \in answers[i] \/ answers[i] = {})
      BY <2>3 DEF Quiet, StillIngest
    <3>2. d \in Open(k)
      BY <2>2, NamesAssumption DEF Open, Sent, Requests
    <3>3. answers[i] = {} => i \in Open(k)
      BY <2>3, NamesAssumption DEF Open, Sent, Requests
    <3> QED
      BY <1>2, <2>2, <2>3, <3>1, <3>2, <3>3 DEF Orderly, NotBothOpen
  <2> QED
    BY <2>1, <2>2, <2>3
<1> QED
  BY <1>3, <1>4, <1>5, <1>6, <1>7 DEF Orderly

\* A request that keeps its place is still.
LEMMA SameIsStill ==
    ASSUME NEW q \in Requests, request' = request, file' = file, content' = content,
           rows'[q] = rows[q], pc'[q] = pc[q], answers'[q] = answers[q],
           q \in record' <=> q \in record, q \in copied' <=> q \in copied,
           q \in Deletes => row'[q] = row[q]
    PROVE  /\ q \in Ingests => StillIngest(q)
           /\ q \in Deletes => StillDelete(q)
<1>1. Begun(q)' <=> Begun(q)
  BY DEF Begun
<1>2. Named(q)' <=> Named(q)
  BY DEF Named
<1>3. Struck(q)' <=> Struck(q)
  BY DEF Struck
<1> QED
  BY <1>1, <1>2, <1>3 DEF StillIngest, StillDelete

\* A step is quiet when the request it moves is still.
LEMMA MovesQuietly ==
    ASSUME TypeOK, NEW q \in Requests, Moves(q), UNCHANGED <<content, file, made, hasty, row>>,
           q \in Ingests => StillIngest(q), q \in Deletes => StillDelete(q)
    PROVE  Quiet
<1>1. \A p \in Requests \ {q} : /\ p \in Ingests => StillIngest(p)
                                /\ p \in Deletes => StillDelete(p)
  BY SameIsStill DEF Moves
<1> QED
  BY <1>1 DEF Quiet, Moves, Requests

\* The receiver touches requests no worker has seen.
LEMMA ReceiverIsQuiet ==
    ASSUME TypeOK, Life, ReceiverStep \/ ReceiverRaises \/ ReceiverDies
    PROVE  Quiet
<1> USE NamesAssumption, RequestsAssumption DEF Requests
<1>1. UNCHANGED <<request, content, file, made, hasty, pc, row, copied>>
  BY DEF ReceiverStep, Receive, Save, Enqueue, ReceiverRaises, ReceiverDies, jobs, store, history
<1>2. PICK q \in Requests :
          /\ Early(q)
          /\ q = IF receiver = Idle THEN Head(incoming) ELSE receiver.of
          /\ receiver = Idle => Receive
  BY QueuedTaken
  DEF Life, MessagesAreSent, Distinct, TypeOK, ReceiverStep, Receive, Save, Enqueue, ReceiverRaises,
      ReceiverDies, Idle, Early
<1>3. /\ rows[q].status = "absent" /\ pc[q] = "off" /\ answers[q] = {} /\ q \notin copied
      /\ \A k \in Keys : content[k] # q
  BY <1>2 DEF Life, EarlyIsUntouched
<1>4. \/ /\ record' \in {record, record \cup {q}} /\ rows' = rows
         /\ \/ answers' = answers
            \/ \E a \in {"duplicate", "refused", "unknown"} : Answer(q, a)
      \/ record' = record /\ answers' = answers /\ rows' = [rows EXCEPT ![q] = Fresh]
  BY <1>2
  DEF ReceiverStep, Receive, Save, Enqueue, ReceiverRaises, ReceiverDies, Idle, jobs, history
<1>5. ASSUME NEW p \in Requests, p # q
      PROVE  /\ p \in Ingests => StillIngest(p)
             /\ p \in Deletes => StillDelete(p)
  <2>1. rows'[p] = rows[p] /\ answers'[p] = answers[p] /\ (p \in record' <=> p \in record)
    BY <1>4, <1>5 DEF TypeOK, Answer
  <2> QED
    BY <1>1, <2>1, SameIsStill
<1>6. /\ "ok" \notin answers'[q]
      /\ answers'[q] # {} => rows'[q].status = "absent"
  BY <1>3, <1>4 DEF TypeOK, Answer
<1>7. q \in Ingests => StillIngest(q)
  <2>1. ~Begun(q)' /\ ~Named(q)'
    BY <1>1, <1>3, <1>6 DEF Begun, Named
  <2> QED
    BY <1>3, <1>6, <2>1 DEF StillIngest
<1>8. q \in Deletes => StillDelete(q)
  BY <1>1, <1>3, <1>6 DEF StillDelete, Struck
<1> QED
  BY <1>1, <1>5, <1>7, <1>8 DEF Quiet

\* Most steps of a worker are quiet.
QuietStep(q) ==
    \/ Reserve(q) \/ ReserveGone(q) \/ SendReturnMessage(q) \/ Success(q) \/ Finish(q)
    \/ Interrupt(q)
    \/ q \in Ingests /\ (SetCopied(q) \/ DoAssessment(q))
    \/ q \in Deletes /\ FilesOf(request[q]) = {} /\ Find(q)

\* These steps of a worker are quiet.
LEMMA WorkerIsQuiet ==
    ASSUME TypeOK, Life, NEW q \in Requests, QuietStep(q)
    PROVE  Quiet
<1> USE RequestsAssumption DEF jobs, store, history
<1>1. Moves(q)
  BY WorkerMoves DEF QuietStep, CommonStep, IngestStep, DeleteStep
<1>2. UNCHANGED <<content, file, made, hasty, row>>
  BY DEF QuietStep, Reserve, ReserveGone, SendReturnMessage, Success, Finish, Interrupt, SetCopied,
         DoAssessment, Find
<1>3. Place(q) /\ Place(q)' /\ (q \in copied => q \in Ingests)
  BY <1>1 DEF Moves, Life, PlacesAreKept, TypeOK
<1>4. SUFFICES /\ q \in Ingests => StillIngest(q)
               /\ q \in Deletes => StillDelete(q)
  BY <1>1, <1>2, MovesQuietly
<1>5. CASE Reserve(q)
  <2>1. /\ rows[q].status = "queued" /\ rows'[q].status = "running"
        /\ pc'[q] \in {"find", "copy"} \/ (pc'[q] = "file" /\ q \in copied)
        /\ UNCHANGED <<request, record, copied, answers>>
    BY <1>5, StatusSteps DEF TypeOK, Reserve
  <2> QED
    BY <1>3, <2>1 DEF StillIngest, StillDelete, Begun, Named, Struck
<1>6. CASE ReserveGone(q)
  <2>1. /\ rows[q].status = "queued" /\ rows'[q].status = "failed"
        /\ UNCHANGED <<request, record, copied, answers, pc>>
    BY <1>6, StatusSteps DEF TypeOK, ReserveGone
  <2> QED
    BY <1>2, <1>3, <2>1 DEF StillIngest, StillDelete, Begun, Named, Struck
<1>7. CASE SendReturnMessage(q)
  <2>1. /\ pc[q] = "answer" /\ pc'[q] = "success" /\ rows' = rows /\ rows[q].status = "running"
        /\ answers'[q] = answers[q] \cup {"ok"}
        /\ UNCHANGED <<request, record, copied>>
    BY <1>7 DEF TypeOK, SendReturnMessage, Running, Goto, Answer
  <2>2. q \in Ingests => answers[q] = {} \/ "ok" \in answers[q]
    BY <1>3, <2>1 DEF Place
  <2>3. q \in Ingests => StillIngest(q)
    BY <2>1, <2>2 DEF StillIngest, Begun, Named
  <2>4. q \in Deletes => StillDelete(q)
    BY <2>1 DEF StillDelete, Struck
  <2> QED
    BY <2>3, <2>4
<1>8. CASE Success(q)
  <2>1. /\ pc[q] = "success" /\ pc'[q] = "done" /\ rows' = rows /\ rows[q].status = "running"
        /\ record' = record \ {q} /\ copied' = copied \ {q}
        /\ UNCHANGED <<request, answers>>
    BY <1>8 DEF TypeOK, Success, Running, Goto
  <2>2. q \in Ingests => StillIngest(q)
    BY <1>3, <2>1 DEF Place, StillIngest, Begun, Named
  <2>3. q \in Deletes => StillDelete(q)
    BY <1>3, <2>1 DEF StillDelete, Struck
  <2> QED
    BY <2>2, <2>3
<1>9. CASE Finish(q)
  <2>1. /\ pc[q] = "done" /\ pc'[q] = "off" /\ rows'[q].status = "absent"
        /\ UNCHANGED <<request, answers, record, copied>>
    BY <1>9 DEF TypeOK, Finish, Running, Absent
  <2>2. q \in Ingests => StillIngest(q)
    BY <1>3, <2>1 DEF Place, StillIngest, Begun, Named
  <2>3. q \in Deletes => StillDelete(q)
    BY <1>3, <2>1 DEF StillDelete, Struck
  <2> QED
    BY <2>2, <2>3
<1>10. CASE Interrupt(q)
  <2>1. /\ rows[q].status = "running"
        /\ UNCHANGED <<request, answers, record, copied>>
    BY <1>10 DEF Interrupt
  <2>2. pc'[q] = "off"
    BY <1>10, <2>1, EndMoves DEF Interrupt
  <2> QED
    BY <1>3, <2>1, <2>2 DEF StillIngest, StillDelete, Begun, Named, Struck
<1>11. CASE q \in Ingests /\ SetCopied(q)
  <2>1. /\ pc[q] = "flag" /\ pc'[q] = "file" /\ rows' = rows /\ rows[q].status = "running"
        /\ UNCHANGED <<request, answers, record>>
    BY <1>11 DEF TypeOK, SetCopied, Running, Goto
  <2> QED
    BY <1>3, <1>11, <2>1 DEF StillIngest, Begun, Named
<1>12. CASE q \in Ingests /\ DoAssessment(q)
  <2>1. /\ rows[q].status = "running" /\ pc[q] = "assess"
        /\ Goto(q, "answer") \/ Raise(q)
        /\ UNCHANGED <<request, answers, record, copied>>
    BY <1>12 DEF DoAssessment, Running
  <2>2. pc'[q] \in {"answer", "off"}
    BY <2>1, EndMoves DEF TypeOK, Goto
  <2> QED
    BY <1>3, <1>12, <2>1, <2>2 DEF StillIngest, Begun, Named
<1>13. CASE q \in Deletes /\ FilesOf(request[q]) = {} /\ Find(q)
  <2>1. pc'[q] = "success" /\ UNCHANGED <<request, file>>
    BY <1>13 DEF TypeOK, Find, Goto
  <2>2. \A k \in Keys : file[k].uuid # request[q]
    BY <1>13 DEF FilesOf
  <2>3. answers[q] \subseteq answers'[q]
    BY <1>1 DEF Moves
  <2> QED
    BY <1>13, <2>1, <2>2, <2>3 DEF StillDelete
<1> QED
  BY <1>5, <1>6, <1>7, <1>8, <1>9, <1>10, <1>11, <1>12, <1>13 DEF QuietStep

------------------------------------------------------------------------------
(* The steps that touch content and files *)

\* The file is made after the content is stored.
LEMMA NamedIsBegun == ASSUME NEW i \in Ingests, Named(i) PROVE Begun(i)
BY DEF Named, Begun

\* A running ingest of a key is the only one with a record there.
LEMMA OneAtWork ==
    ASSUME TypeOK, Life, NEW i \in Ingests, rows[i].status = "running",
           pc[i] \notin {"off", "done"}
    PROVE  /\ i \in record /\ answers[i] \subseteq {"ok"} /\ request[i] \in Keys
           /\ \A j \in record \cap Ingests : request[j] = request[i] => j = i
BY SentIngests DEF Life, PlacesAreKept, Place, OneRecord, Requests

\* Content is stored where there is none, by the only ingest at work there.
LEMMA CopyKeeps ==
    ASSUME TypeOK, Life, Names, Calm, NEW i \in Ingests, CopyContent(i)
    PROVE  Names' /\ Calm'
<1> USE NamesAssumption, RequestsAssumption DEF Requests
<1> DEFINE k0 == request[i]
<1>1. /\ i \in record /\ answers[i] \subseteq {"ok"} /\ k0 \in Keys
      /\ \A j \in record \cap Ingests : request[j] = k0 => j = i
      /\ rows[i].status = "running" /\ pc[i] = "copy"
  BY OneAtWork DEF CopyContent, Running
<1>2. Moves(i)
  BY WorkerMoves DEF IngestStep
<1>3. UNCHANGED <<request, record, copied, row, file, made, answers, hasty>>
  BY DEF CopyContent, history
<1>4. CASE Raise(i) /\ UNCHANGED content
  <2>1. pc'[i] = "off"
    BY <1>1, <1>4, EndMoves
  <2>2. StillIngest(i)
    BY <1>1, <1>3, <2>1 DEF StillIngest, Begun, Named
  <2>3. Quiet
    BY <1>2, <1>3, <1>4, <2>2, MovesQuietly
  <2> QED
    BY <2>3, QuietKeepsNames, QuietKeepsCalm
<1>5. CASE /\ content' = [content EXCEPT ![k0] = i] /\ content[k0] \in {i, None}
           /\ Goto(i, "flag") \/ Goto(i, "file")
  <2>1. pc'[i] \in {"flag", "file"} /\ rows' = rows /\ \A p \in Requests \ {i} : pc'[p] = pc[p]
    BY <1>5 DEF TypeOK, Goto
  <2>2. /\ content'[k0] = i
        /\ \A k \in Keys : k # k0 => content'[k] = content[k]
    BY <1>1, <1>5 DEF TypeOK
  <2>3. /\ \A j \in Ingests : j # i => (Begun(j)' <=> Begun(j))
        /\ \A j \in Ingests : Named(j)' <=> Named(j)
        /\ \A d \in Deletes : Struck(d)' <=> Struck(d)
        /\ \A d \in Deletes : pc'[d] = pc[d]
        /\ \A j \in Ingests : DeletesOf(j)' = DeletesOf(j)
        /\ \A k \in Keys : Open(k)' = Open(k)
    <3>1. /\ \A j \in Ingests : j # i => (Begun(j)' <=> Begun(j))
          /\ \A j \in Ingests : Named(j)' <=> Named(j)
      BY <1>1, <1>3, <2>1 DEF Begun, Named
    <3>2. \A d \in Deletes : pc'[d] = pc[d]
      BY <2>1
    <3>3. \A d \in Deletes : Struck(d)' <=> Struck(d)
      BY <1>3, <2>1, <3>2 DEF Struck
    <3>4. /\ \A j \in Ingests : DeletesOf(j)' = DeletesOf(j)
          /\ \A k \in Keys : Open(k)' = Open(k)
      BY <1>3 DEF DeletesOf, Open, Sent
    <3> QED
      BY <3>1, <3>2, <3>3, <3>4
  <2> HIDE DEF k0
  <2>4. FilesAreNamed'
    BY <1>3 DEF Names, FilesAreNamed
  <2>5. ContentIsNamed'
    BY <1>1, <1>3, <2>2 DEF Names, ContentIsNamed, k0
  <2>6. LoadedIsFile'
    BY <1>3, <2>3 DEF Names, LoadedIsFile
  <2>7. OthersAreOver'
    BY <1>1, <1>3, <2>2, <2>3 DEF Names, OthersAreOver, k0
  <2>8. NameIsKept'
    BY <1>1, <1>3, <2>2, <2>3 DEF Names, NameIsKept, k0
  <2>9. ASSUME NEW k \in Keys \ hasty PROVE Orderly(k)'
    <3>1. Orderly(k)
      BY DEF Calm
    <3>2. NotBothOpen(k)' /\ NamedIsFiled(k)' /\ StruckIsGone(k)'
      BY <1>3, <2>3, <3>1 DEF Orderly, NotBothOpen, NamedIsFiled, StruckIsGone
    <3>3. BegunIsStored(k)'
      BY <1>1, <1>3, <1>5, <2>2, <2>3, <3>1 DEF Orderly, BegunIsStored, k0
    <3>4. LoadedIsAlone(k)'
      <4> SUFFICES ASSUME NEW d \in Deletes, NEW j \in Ingests, request[d] = j, request[j] = k,
                          pc[d] \in {"remove", "destroy"}
                   PROVE  content'[k] \in {j, None}
        BY <1>3, <2>3, <3>1 DEF Orderly, LoadedIsAlone
      <4>1. /\ answers[d] = {} /\ content[k] \in {j, None}
            /\ \A h \in record \cap Ingests : request[h] = k /\ "ok" \in answers[h] => h = j
        BY <3>1 DEF Orderly, LoadedIsAlone
      <4>2. CASE k = k0
        <5>1. d \in Open(k)
          BY <4>1 DEF Open, Sent
        <5>2. i \notin Open(k)
          BY <3>1, <5>1 DEF Orderly, NotBothOpen
        <5>3. "ok" \in answers[i]
          BY <1>1, <4>2, <5>2 DEF Open, Sent, k0
        <5> QED
          BY <1>1, <2>2, <4>1, <4>2, <5>3 DEF k0
      <4> QED
        BY <2>2, <4>1, <4>2
    <3> QED
      BY <3>2, <3>3, <3>4 DEF Orderly
  <2> QED
    BY <1>3, <2>4, <2>5, <2>6, <2>7, <2>8, <2>9 DEF Names, Calm
<1>6. content[k0] = i /\ UNCHANGED content => content' = [content EXCEPT ![k0] = i]
  BY DEF TypeOK
<1> QED
  BY <1>4, <1>5, <1>6 DEF CopyContent

\* The file gets the uuid of the ingest whose content is stored.
LEMMA CreateKeeps ==
    ASSUME TypeOK, Life, Names, Calm, NEW i \in Ingests, CreateCfsFile(i)
    PROVE  Names' /\ Calm'
<1> USE NamesAssumption, RequestsAssumption DEF Requests
<1>1. PICK k0 \in Keys : k0 = request[i]
  BY OneAtWork DEF CreateCfsFile, Running
<1>2. /\ i \in record
      /\ \A j \in record \cap Ingests : request[j] = k0 => j = i
      /\ rows[i].status = "running" /\ pc[i] = "file"
  BY <1>1, OneAtWork DEF CreateCfsFile, Running
<1>3. /\ UNCHANGED <<request, rows, record, copied, row, content, answers>>
      /\ hasty' = IF DeletesOf(i) # {} THEN hasty \cup {k0} ELSE hasty
      /\ pc' = [pc EXCEPT ![i] = "assess"]
  BY <1>1 DEF CreateCfsFile, Goto
<1>4. pc'[i] = "assess" /\ \A p \in Requests \ {i} : pc'[p] = pc[p]
  BY <1>3 DEF TypeOK
<1>5. /\ file'[k0].uuid = i
      /\ \/ file'[k0].id = made + 1 /\ made' = made + 1 /\ file[k0].id = 0
         \/ file'[k0].id = file[k0].id /\ made' = made /\ file[k0].id # 0
      /\ \A k \in Keys : k # k0 => file'[k] = file[k]
      /\ \A k \in Keys : file[k].id \in 0 .. made
  <2>1. file[k0] = NoFile <=> file[k0].id = 0
    <3>1. file[k0] = [id |-> file[k0].id, uuid |-> file[k0].uuid]
      BY DEF TypeOK
    <3> QED
      BY <3>1 DEF Names, FilesAreNamed, NoFile
  <2>2. \/ /\ file' = [file EXCEPT ![k0] = [id |-> made + 1, uuid |-> i]]
           /\ made' = made + 1 /\ file[k0].id = 0
        \/ /\ file' = [file EXCEPT ![k0] = [file[k0] EXCEPT !.uuid = i]]
           /\ made' = made /\ file[k0].id # 0
    BY <1>1, <2>1 DEF CreateCfsFile
  <2> QED
    BY <2>2 DEF TypeOK
<1>6. /\ \A j \in Ingests : Begun(j)' <=> Begun(j)
      /\ \A j \in Ingests : j # i => (Named(j)' <=> Named(j))
      /\ \A d \in Deletes : Struck(d)' <=> Struck(d)
      /\ \A d \in Deletes : pc'[d] = pc[d]
      /\ \A j \in Ingests : DeletesOf(j)' = DeletesOf(j)
      /\ \A k \in Keys : Open(k)' = Open(k)
      /\ Begun(i)
  <2>1. /\ \A j \in Ingests : Begun(j)' <=> Begun(j)
        /\ \A j \in Ingests : j # i => (Named(j)' <=> Named(j))
        /\ Begun(i)
    BY <1>2, <1>3, <1>4 DEF Begun, Named
  <2>2. \A d \in Deletes : pc'[d] = pc[d]
    BY <1>4
  <2>3. \A d \in Deletes : Struck(d)' <=> Struck(d)
    BY <1>3, <2>2 DEF Struck
  <2>4. /\ \A j \in Ingests : DeletesOf(j)' = DeletesOf(j)
        /\ \A k \in Keys : Open(k)' = Open(k)
    BY <1>3 DEF DeletesOf, Open, Sent
  <2> QED
    BY <2>1, <2>2, <2>3, <2>4
<1>7. FilesAreNamed'
  <2>1. \A k \in Keys : /\ file'[k].id = 0 <=> file'[k].uuid = None
                        /\ file'[k].uuid # None => request[file'[k].uuid] = k
    <3>1. file'[k0].id # 0
      BY <1>5 DEF TypeOK
    <3> QED
      BY <1>1, <1>5, <3>1 DEF Names, FilesAreNamed
  <2>2. \A k, l \in Keys : file'[k].id = file'[l].id /\ file'[k].id # 0 => k = l
    <3>1. \A k \in Keys : k # k0 /\ file'[k].id # 0 => file'[k].id # file'[k0].id
      BY <1>5 DEF Names, FilesAreNamed, TypeOK
    <3> QED
      BY <1>5, <3>1 DEF Names, FilesAreNamed
  <2> QED
    BY <1>3, <2>1, <2>2 DEF FilesAreNamed
<1>8. ContentIsNamed'
  BY <1>3 DEF Names, ContentIsNamed
<1>9. LoadedIsFile'
  BY <1>3, <1>5, <1>6 DEF Names, LoadedIsFile, TypeOK
<1>10. OthersAreOver'
  BY <1>3, <1>6 DEF Names, OthersAreOver
<1>11. NameIsKept'
  <2>1. ASSUME NEW j \in Ingests, request[j] = k0, j \in record \/ content[k0] = j
        PROVE  j = i
    BY <1>1, <1>2, <1>6, <2>1 DEF Names, OthersAreOver
  <2> QED
    BY <1>1, <1>3, <1>5, <1>6, <2>1 DEF Names, NameIsKept
<1>12. ASSUME NEW k \in Keys \ hasty' PROVE Orderly(k)'
  <2>1. Orderly(k)
    BY <1>3, <1>12 DEF Calm
  <2>2. NotBothOpen(k)' /\ BegunIsStored(k)'
    BY <1>3, <1>6, <2>1 DEF Orderly, NotBothOpen, BegunIsStored
  <2>3. CASE k # k0
    BY <1>1, <1>3, <1>5, <1>6, <2>1, <2>2, <2>3
    DEF Orderly, NamedIsFiled, StruckIsGone, LoadedIsAlone
  <2>4. CASE k = k0
    <3>1. DeletesOf(i) = {}
      BY <1>3, <2>4
    <3>2. NamedIsFiled(k)'
      <4>1. ASSUME NEW j \in Ingests, request[j] = k, DeletesOf(j) = {}, Named(j)', j # i
            PROVE  FALSE
        <5>1. Begun(j)
          BY <1>6, <4>1, NamedIsBegun
        <5> QED
          BY <1>1, <1>6, <2>1, <2>4, <3>1, <4>1, <5>1 DEF Orderly, BegunIsStored
      <4> QED
        BY <1>3, <1>5, <1>6, <2>4, <4>1 DEF NamedIsFiled
    <3>3. StruckIsGone(k)' /\ LoadedIsAlone(k)'
      <4>1. \A d \in Deletes : request[d] # i
        BY <3>1 DEF DeletesOf
      <4> QED
        BY <1>3, <1>5, <1>6, <2>1, <2>4, <4>1 DEF Orderly, StruckIsGone, LoadedIsAlone
    <3> QED
      BY <2>2, <3>2, <3>3 DEF Orderly
  <2> QED
    BY <2>3, <2>4
<1> QED
  BY <1>7, <1>8, <1>9, <1>10, <1>11, <1>12 DEF Names, Calm

\* A deletion that finds its file is open, so no ingest of the key is.
LEMMA FindKeeps ==
    ASSUME TypeOK, Life, Names, Calm, NEW d \in Deletes, Find(d), FilesOf(request[d]) # {}
    PROVE  Names' /\ Calm'
<1> USE NamesAssumption, RequestsAssumption DEF Requests
<1>1. PICK k0 \in Keys : file[k0].uuid = request[d] /\ row' = [row EXCEPT ![d] = file[k0].id]
  BY DEF Find, FilesOf
<1>2. /\ UNCHANGED <<request, rows, record, copied, content, file, made, answers, hasty>>
      /\ pc' = [pc EXCEPT ![d] = "remove"]
      /\ rows[d].status = "running" /\ pc[d] = "find"
  BY DEF Find, Goto, Running, store
<1>3. /\ pc'[d] = "remove" /\ \A p \in Requests \ {d} : pc'[p] = pc[p]
      /\ row'[d] = file[k0].id /\ \A e \in Deletes \ {d} : row'[e] = row[e]
  BY <1>1, <1>2 DEF TypeOK
<1>4. request[d] # None
  BY <1>2 DEF Life, EarlyIsUntouched, Early
<1>5. PICK u \in Ingests : u = request[d] /\ request[u] = k0
  <2>1. file[k0].uuid \in Ingests
    BY <1>1, <1>4 DEF TypeOK
  <2> QED
    BY <1>1, <1>4, <2>1 DEF Names, FilesAreNamed
<1>6. /\ \A j \in Ingests : Begun(j)' <=> Begun(j)
      /\ \A j \in Ingests : Named(j)' <=> Named(j)
      /\ \A e \in Deletes : Struck(e)' <=> Struck(e)
      /\ \A j \in Ingests : DeletesOf(j)' = DeletesOf(j)
      /\ \A k \in Keys : Open(k)' = Open(k)
  <2>1. \A j \in Ingests : pc'[j] = pc[j]
    BY <1>3
  <2>2. /\ \A j \in Ingests : Begun(j)' <=> Begun(j)
        /\ \A j \in Ingests : Named(j)' <=> Named(j)
    BY <1>2, <2>1 DEF Begun, Named
  <2>3. \A e \in Deletes : Struck(e)' <=> Struck(e)
    BY <1>2, <1>3 DEF Struck
  <2>4. /\ \A j \in Ingests : DeletesOf(j)' = DeletesOf(j)
        /\ \A k \in Keys : Open(k)' = Open(k)
    BY <1>2 DEF DeletesOf, Open, Sent
  <2> QED
    BY <2>2, <2>3, <2>4
<1>7. FilesAreNamed' /\ ContentIsNamed'
  BY <1>2 DEF Names, FilesAreNamed, ContentIsNamed
<1>8. LoadedIsFile'
  <2>1. row'[d] \in 1 .. made
    <3>1. file[k0].id \in 0 .. made /\ file[k0].id # 0
      BY <1>1, <1>4 DEF TypeOK, Names, FilesAreNamed
    <3> QED
      BY <1>3, <3>1 DEF TypeOK
  <2>2. \A k \in Keys : file[k].id = row'[d] => k = k0
    BY <1>3, <2>1 DEF Names, FilesAreNamed
  <2>3. \A e \in Deletes : e # d => pc'[e] = pc[e] /\ row'[e] = row[e]
    BY <1>3
  <2> QED
    BY <1>2, <1>5, <2>1, <2>2, <2>3 DEF Names, LoadedIsFile
<1>9. OthersAreOver' /\ NameIsKept'
  BY <1>2, <1>6 DEF Names, OthersAreOver, NameIsKept
<1>10. ASSUME NEW k \in Keys \ hasty PROVE Orderly(k)'
  <2>1. Orderly(k)
    BY DEF Calm
  <2>2. NotBothOpen(k)' /\ BegunIsStored(k)' /\ NamedIsFiled(k)' /\ StruckIsGone(k)'
    BY <1>2, <1>6, <2>1 DEF Orderly, NotBothOpen, BegunIsStored, NamedIsFiled, StruckIsGone
  <2>3. ASSUME k = k0
        PROVE  /\ answers[d] = {} /\ content[k] \in {u, None}
               /\ \A i \in record \cap Ingests : request[i] = k /\ "ok" \in answers[i] => i = u
    <3>1. answers[d] = {}
      BY <1>1, <1>2, <1>5, <2>1, <2>3 DEF Orderly, StruckIsGone, Struck
    <3>2. d \in Open(k)
      BY <1>5, <2>3, <3>1 DEF Open, Sent
    <3>3. ASSUME NEW i \in Ingests, request[i] = k, "ok" \in answers[i],
                 i \in record \/ content[k] = i
          PROVE  i = u
      BY <1>1, <1>5, <2>3, <3>3 DEF Names, NameIsKept, Named
    <3>4. content[k] \in Ingests => content[k] = u
      <4> SUFFICES ASSUME NEW i \in Ingests, content[k] = i PROVE i = u
        OBVIOUS
      <4>1. request[i] = k /\ ("ok" \in answers[i] \/ answers[i] = {})
        BY DEF Names, ContentIsNamed
      <4>2. answers[i] # {}
        BY <2>1, <3>2, <4>1 DEF Orderly, NotBothOpen, Open, Sent
      <4> QED
        BY <3>3, <4>1, <4>2
    <3> QED
      BY <3>1, <3>3, <3>4 DEF TypeOK
  <2>4. LoadedIsAlone(k)'
    <3>1. \A e \in Deletes : e # d => pc'[e] = pc[e] /\ row'[e] = row[e]
      BY <1>3
    <3> QED
      BY <1>1, <1>2, <1>3, <1>5, <2>1, <2>3, <3>1 DEF Orderly, LoadedIsAlone
  <2> QED
    BY <2>2, <2>4 DEF Orderly
<1> QED
  BY <1>2, <1>7, <1>8, <1>9, <1>10 DEF Names, Calm

\* What a deletion removes is the content of its file, or nothing.
LEMMA RemoveKeeps ==
    ASSUME TypeOK, Life, Names, Calm, NEW d \in Deletes, Remove(d)
    PROVE  Names' /\ Calm'
<1> USE NamesAssumption, RequestsAssumption DEF Requests
<1>1. pc[d] = "remove"
  BY DEF Remove, Running
<1>2. PICK u \in Ingests : u = request[d] /\ "ok" \in answers[u]
  BY <1>1 DEF Names, LoadedIsFile, Life, RequestsAreNamed
<1>3. PICK k0 \in Keys : k0 = request[u]
  BY <1>2, SentIngests
<1>4. /\ UNCHANGED <<request, rows, record, copied, row, file, made, answers, hasty>>
      /\ pc' = [pc EXCEPT ![d] = "destroy"]
      /\ content' = [content EXCEPT ![k0] = None]
  BY <1>2, <1>3 DEF Remove, Goto, history
<1>5. /\ pc'[d] = "destroy" /\ \A p \in Requests \ {d} : pc'[p] = pc[p]
      /\ content'[k0] = None /\ \A k \in Keys : k # k0 => content'[k] = content[k]
  BY <1>4 DEF TypeOK
<1>6. /\ \A j \in Ingests : Begun(j)' <=> Begun(j)
      /\ \A j \in Ingests : Named(j)' <=> Named(j)
      /\ \A e \in Deletes : Struck(e)' <=> Struck(e)
      /\ \A e \in Deletes : pc'[e] \in {"remove", "destroy"} <=> pc[e] \in {"remove", "destroy"}
      /\ \A j \in Ingests : DeletesOf(j)' = DeletesOf(j)
      /\ \A k \in Keys : Open(k)' = Open(k)
  <2>1. \A j \in Ingests : pc'[j] = pc[j]
    BY <1>5
  <2>2. /\ \A j \in Ingests : Begun(j)' <=> Begun(j)
        /\ \A j \in Ingests : Named(j)' <=> Named(j)
    BY <1>4, <2>1 DEF Begun, Named
  <2>3. /\ \A e \in Deletes : Struck(e)' <=> Struck(e)
        /\ \A e \in Deletes : pc'[e] \in {"remove", "destroy"} <=> pc[e] \in {"remove", "destroy"}
    BY <1>1, <1>4, <1>5 DEF Struck
  <2>4. /\ \A j \in Ingests : DeletesOf(j)' = DeletesOf(j)
        /\ \A k \in Keys : Open(k)' = Open(k)
    BY <1>4 DEF DeletesOf, Open, Sent
  <2> QED
    BY <2>2, <2>3, <2>4
<1>7. FilesAreNamed' /\ ContentIsNamed'
  BY <1>4, <1>5 DEF Names, FilesAreNamed, ContentIsNamed
<1>8. LoadedIsFile'
  BY <1>4, <1>6 DEF Names, LoadedIsFile
<1>9. OthersAreOver' /\ NameIsKept'
  BY <1>4, <1>5, <1>6 DEF Names, OthersAreOver, NameIsKept
<1>10. ASSUME NEW k \in Keys \ hasty PROVE Orderly(k)'
  <2>1. Orderly(k)
    BY DEF Calm
  <2>2. NotBothOpen(k)' /\ NamedIsFiled(k)' /\ StruckIsGone(k)'
    BY <1>4, <1>6, <2>1 DEF Orderly, NotBothOpen, NamedIsFiled, StruckIsGone
  <2>3. BegunIsStored(k)'
    <3>1. ASSUME k = k0 PROVE content[k] \in {u, None} /\ DeletesOf(u) # {}
      BY <1>1, <1>2, <1>3, <2>1, <3>1 DEF Orderly, LoadedIsAlone, DeletesOf
    <3> QED
      BY <1>4, <1>5, <1>6, <2>1, <3>1 DEF Orderly, BegunIsStored
  <2>4. LoadedIsAlone(k)'
    BY <1>4, <1>5, <1>6, <2>1 DEF Orderly, LoadedIsAlone
  <2> QED
    BY <2>2, <2>3, <2>4 DEF Orderly
<1> QED
  BY <1>4, <1>7, <1>8, <1>9, <1>10 DEF Names, Calm

\* What a deletion destroys is the file it found.
LEMMA DestroyKeeps ==
    ASSUME TypeOK, Life, Names, Calm, NEW d \in Deletes, Destroy(d)
    PROVE  Names' /\ Calm'
<1> USE NamesAssumption, RequestsAssumption DEF Requests
<1>1. pc[d] = "destroy"
  BY DEF Destroy, Running
<1>2. PICK u \in Ingests : /\ u = request[d] /\ row[d] \in 1 .. made
                           /\ \A k \in Keys : file[k].id = row[d] => k = request[u]
  BY <1>1 DEF Names, LoadedIsFile
<1>3. /\ UNCHANGED <<request, rows, record, copied, row, content, made, answers, hasty>>
      /\ pc' = [pc EXCEPT ![d] = "answer"]
      /\ \A k \in Keys : file'[k] = IF file[k].id = row[d] THEN NoFile ELSE file[k]
  BY DEF Destroy, Goto, history
<1>4. /\ pc'[d] = "answer" /\ \A p \in Requests \ {d} : pc'[p] = pc[p]
      /\ \A k \in Keys : \/ file[k].id = row[d] /\ file'[k].id = 0 /\ file'[k].uuid = None
                         \/ file[k].id # row[d] /\ file'[k] = file[k]
  BY <1>3 DEF TypeOK, NoFile
<1>5. /\ \A j \in Ingests : Begun(j)' <=> Begun(j)
      /\ \A j \in Ingests : Named(j)' <=> Named(j)
      /\ \A e \in Deletes : e # d => (Struck(e)' <=> Struck(e))
      /\ \A e \in Deletes : pc'[e] \in {"remove", "destroy"} => pc[e] \in {"remove", "destroy"}
      /\ \A j \in Ingests : DeletesOf(j)' = DeletesOf(j)
      /\ \A k \in Keys : Open(k)' = Open(k)
  <2>1. \A j \in Ingests : pc'[j] = pc[j]
    BY <1>4
  <2>2. /\ \A j \in Ingests : Begun(j)' <=> Begun(j)
        /\ \A j \in Ingests : Named(j)' <=> Named(j)
    BY <1>3, <2>1 DEF Begun, Named
  <2>3. /\ \A e \in Deletes : e # d => (Struck(e)' <=> Struck(e))
        /\ \A e \in Deletes : pc'[e] \in {"remove", "destroy"} => pc[e] \in {"remove", "destroy"}
    BY <1>3, <1>4 DEF Struck
  <2>4. /\ \A j \in Ingests : DeletesOf(j)' = DeletesOf(j)
        /\ \A k \in Keys : Open(k)' = Open(k)
    BY <1>3 DEF DeletesOf, Open, Sent
  <2> QED
    BY <2>2, <2>3, <2>4
<1>6. FilesAreNamed' /\ ContentIsNamed'
  BY <1>3, <1>4 DEF Names, FilesAreNamed, ContentIsNamed
<1>7. LoadedIsFile'
  BY <1>3, <1>4, <1>5 DEF Names, LoadedIsFile
<1>8. OthersAreOver' /\ NameIsKept'
  BY <1>3, <1>4, <1>5 DEF Names, OthersAreOver, NameIsKept
<1>9. ASSUME NEW k \in Keys \ hasty PROVE Orderly(k)'
  <2>1. Orderly(k)
    BY DEF Calm
  <2>2. NotBothOpen(k)' /\ BegunIsStored(k)'
    BY <1>3, <1>5, <2>1 DEF Orderly, NotBothOpen, BegunIsStored
  <2>3. NamedIsFiled(k)'
    <3>1. ASSUME NEW i \in Ingests, request[i] = k, DeletesOf(i) = {}, Named(i), file[k].id = row[d]
          PROVE  FALSE
      <4>1. k = request[u]
        BY <1>2, <3>1
      <4>2. content[k] = i
        BY <2>1, <3>1, NamedIsBegun DEF Orderly, BegunIsStored
      <4>3. content[k] \in {u, None}
        BY <1>1, <1>2, <2>1, <4>1 DEF Orderly, LoadedIsAlone
      <4> QED
        BY <1>2, <3>1, <4>2, <4>3 DEF DeletesOf
    <3> QED
      BY <1>3, <1>4, <1>5, <2>1, <3>1 DEF Orderly, NamedIsFiled
  <2>4. StruckIsGone(k)'
    <3>1. request[u] = k => file'[k].uuid # u
      <4> SUFFICES ASSUME request[u] = k, file[k].uuid = u PROVE file[k].id = row[d]
        BY <1>4
      <4> QED
        BY <1>1, <1>2, <2>1 DEF Orderly, LoadedIsAlone
    <3> QED
      BY <1>2, <1>3, <1>4, <1>5, <2>1, <3>1 DEF Orderly, StruckIsGone
  <2>5. LoadedIsAlone(k)'
    BY <1>3, <1>4, <1>5, <2>1 DEF Orderly, LoadedIsAlone
  <2> QED
    BY <2>2, <2>3, <2>4, <2>5 DEF Orderly
<1> QED
  BY <1>3, <1>6, <1>7, <1>8, <1>9 DEF Names, Calm

------------------------------------------------------------------------------
(* The client's steps *)

\* The client is hasty when what it sends meets an open request of the other kind.
LEMMA ClientHastens ==
    ASSUME TypeOK, Life,
           \/ \E i \in Ingests, k \in Keys : SendIngest(i, k)
           \/ \E d \in Deletes, u \in Ingests \cup {Foreign} : SendDelete(d, u),
           NEW q \in Requests, request[q] = None, request'[q] # None
    PROVE  /\ hasty \subseteq hasty'
           /\ \A k \in Keys \ hasty' :
                 /\ q \in Ingests /\ request'[q] = k => Open(k) \cap Deletes = {}
                 /\ q \in Deletes /\ request'[q] \in Ingests /\ request[request'[q]] = k =>
                       Open(k) \cap Ingests = {}
<1> USE NamesAssumption, RequestsAssumption DEF Requests
<1>1. CASE \E i \in Ingests, k \in Keys : SendIngest(i, k)
  <2>1. PICK i \in Ingests, k \in Keys : SendIngest(i, k)
    BY <1>1
  <2>2. q = i /\ request'[q] = k
    BY <2>1 DEF TypeOK, SendIngest
  <2>3. hasty' = IF Open(k) \cap Deletes # {} THEN hasty \cup {k} ELSE hasty
    BY <2>1 DEF SendIngest
  <2> QED
    BY <2>2, <2>3
<1>2. CASE \E d \in Deletes, u \in Ingests \cup {Foreign} : SendDelete(d, u)
  <2>1. PICK d \in Deletes, u \in Ingests \cup {Foreign} : SendDelete(d, u)
    BY <1>2
  <2>2. q = d /\ request'[q] = u
    BY <2>1 DEF TypeOK, SendDelete
  <2>3. hasty' = IF u # Foreign /\ Open(request[u]) \cap Ingests # {}
                 THEN hasty \cup {request[u]} ELSE hasty
    BY <2>1 DEF SendDelete
  <2> QED
    BY <2>2, <2>3
<1> QED
  BY <1>1, <1>2

\* A client that is not hasty sends what meets nothing open of the other kind.
LEMMA ClientKeeps ==
    ASSUME TypeOK, Life, Names, Calm,
           \/ \E i \in Ingests, k \in Keys : SendIngest(i, k)
           \/ \E d \in Deletes, u \in Ingests \cup {Foreign} : SendDelete(d, u)
    PROVE  Names' /\ Calm'
<1> USE NamesAssumption, RequestsAssumption DEF Requests
<1>1. PICK q \in Requests, x \in Keys \cup Ingests \cup {Foreign} : Sends(q, x)
  BY ClientSends
<1>2. /\ request[q] = None /\ request' = [request EXCEPT ![q] = x] /\ x # None
      /\ q \in Ingests => x \in Keys
      /\ q \in Deletes => x \in Ingests \cup {Foreign}
      /\ q \in Deletes /\ x \in Ingests => "ok" \in answers[x]
      /\ UNCHANGED <<receiver, rows, record, copied, pc, row, content, file, made, answers>>
  BY <1>1 DEF Sends
<1>3. request'[q] = x /\ \A p \in Requests \ {q} : request'[p] = request[p]
  BY <1>2 DEF TypeOK
<1>4. /\ pc[q] = "off" /\ answers[q] = {} /\ q \notin copied /\ rows[q].status = "absent"
      /\ q \notin record \/ receiver.of = q
  BY <1>2 DEF Life, EarlyIsUntouched, Early
<1>5. /\ \A k \in Keys : content[k] # q
      /\ \A k \in Keys : file[k].uuid # q
      /\ \A d \in Deletes : request[d] # q
  BY <1>2, <1>4 DEF Life, EarlyIsUntouched, RequestsAreNamed, Early, Names, FilesAreNamed
<1>6. /\ \A j \in Ingests : Begun(j)' <=> Begun(j)
      /\ \A j \in Ingests : Named(j)' <=> Named(j)
      /\ \A d \in Deletes : Struck(d)' <=> Struck(d)
      /\ ~Begun(q) /\ ~Named(q) /\ ~Struck(q)
      /\ \A j \in Ingests : DeletesOf(j) \subseteq DeletesOf(j)'
  <2>1. /\ \A j \in Ingests : Begun(j)' <=> Begun(j)
        /\ \A j \in Ingests : Named(j)' <=> Named(j)
        /\ \A d \in Deletes : Struck(d)' <=> Struck(d)
    BY <1>2 DEF Begun, Named, Struck
  <2>2. ~Begun(q) /\ ~Named(q) /\ ~Struck(q)
    BY <1>4 DEF Begun, Named, Struck
  <2>3. \A j \in Ingests : DeletesOf(j) \subseteq DeletesOf(j)'
    BY <1>2, <1>3 DEF DeletesOf
  <2> QED
    BY <2>1, <2>2, <2>3
<1>7. FilesAreNamed' /\ ContentIsNamed'
  BY <1>2, <1>3, <1>5 DEF Names, FilesAreNamed, ContentIsNamed, TypeOK
<1>8. LoadedIsFile'
  BY <1>2, <1>3, <1>4, <1>5 DEF Names, LoadedIsFile
<1>9. OthersAreOver' /\ NameIsKept'
  BY <1>2, <1>3, <1>5, <1>6 DEF Names, OthersAreOver, NameIsKept
<1>10. ASSUME NEW k \in Keys \ hasty' PROVE Orderly(k)'
  <2>1. /\ k \notin hasty
        /\ q \in Ingests /\ x = k => Open(k) \cap Deletes = {}
        /\ q \in Deletes /\ x \in Ingests /\ request[x] = k => Open(k) \cap Ingests = {}
    BY <1>2, <1>3, <1>10, ClientHastens
  <2>2. Orderly(k)
    BY <2>1 DEF Calm
  <2>3. NotBothOpen(k)'
    <3>1. Open(k)' \subseteq Open(k) \cup {q}
      BY <1>2, <1>3, <1>5 DEF Open, Sent
    <3>2. q \in Ingests /\ x # k => q \notin Open(k)'
      BY <1>3 DEF Open, Sent
    <3>3. q \in Deletes /\ ~(x \in Ingests /\ request[x] = k) => q \notin Open(k)'
      BY <1>2, <1>3 DEF Open, Sent
    <3> QED
      BY <2>1, <2>2, <3>1, <3>2, <3>3 DEF Orderly, NotBothOpen
  <2>4. BegunIsStored(k)' /\ NamedIsFiled(k)'
    BY <1>2, <1>3, <1>6, <2>2 DEF Orderly, BegunIsStored, NamedIsFiled
  <2>5. StruckIsGone(k)'
    BY <1>2, <1>3, <1>5, <1>6, <2>2 DEF Orderly, StruckIsGone
  <2>6. LoadedIsAlone(k)'
    BY <1>2, <1>3, <1>4, <1>5, <2>2 DEF Orderly, LoadedIsAlone
  <2> QED
    BY <2>3, <2>4, <2>5, <2>6 DEF Orderly
<1> QED
  BY <1>7, <1>8, <1>9, <1>10 DEF Names, Calm

------------------------------------------------------------------------------
(* The theorems *)

\* The invariant holds at first, and is kept.
LEMMA InvInit == ASSUME Init PROVE IInv
<1> USE NamesAssumption, RequestsAssumption, BoundsAssumption DEF Init, Requests
<1>1. TypeOK
  BY TypeInit
<1>2. Queued = {} /\ \A n \in DOMAIN incoming : FALSE
  BY DEF Queued
<1>3. /\ \A q \in Requests : ~Struck(q)
      /\ \A i \in Ingests : ~Begun(i) /\ ~Named(i)
      /\ \A k \in Keys : file[k].id = 0 /\ file[k].uuid = None
  BY DEF Struck, Begun, Named, NoFile
<1>4. Life
  BY <1>2
  DEF Life, RequestsAreNamed, MessagesAreSent, EarlyIsUntouched, PlacesAreKept, Place, OneRecord,
      Idle, Absent, Early
<1>5. Names
  BY <1>3
  DEF Names, FilesAreNamed, ContentIsNamed, LoadedIsFile, OthersAreOver, NameIsKept
<1>6. ASSUME NEW k \in Keys PROVE Orderly(k)
  <2>1. Open(k) = {}
    BY DEF Open, Sent
  <2> QED
    BY <1>3, <2>1
    DEF Orderly, NotBothOpen, BegunIsStored, NamedIsFiled, StruckIsGone, LoadedIsAlone
<1> QED
  BY <1>1, <1>4, <1>5, <1>6 DEF IInv, Calm

\* Every step keeps the inductive invariant.
LEMMA InvStep == IInv /\ [Next]_vars => IInv'
<1> SUFFICES ASSUME IInv, [Next]_vars PROVE IInv'
  OBVIOUS
<1>1. TypeOK /\ Life /\ Names /\ Calm
  BY DEF IInv
<1>2. CASE Next
  <2>1. TypeOK' /\ Life'
    BY <1>1, <1>2, LifeStep
  <2>2. Names' /\ Calm'
    <3>1. CASE \/ \E i \in Ingests, k \in Keys : SendIngest(i, k)
               \/ \E d \in Deletes, u \in Ingests \cup {Foreign} : SendDelete(d, u)
      BY <1>1, <3>1, ClientKeeps
    <3>2. Quiet => Names' /\ Calm'
      BY <1>1, QuietKeepsNames, QuietKeepsCalm
    <3>3. CASE ReceiverStep \/ ReceiverRaises \/ ReceiverDies
      BY <1>1, <3>2, <3>3, ReceiverIsQuiet
    <3>4. ASSUME NEW i \in Ingests, IngestStep(i) PROVE Names' /\ Calm'
      <4>1. CASE CopyContent(i) \/ CreateCfsFile(i)
        BY <1>1, <4>1, CopyKeeps, CreateKeeps
      <4>2. CASE SetCopied(i) \/ DoAssessment(i)
        BY <1>1, <3>2, <4>2, WorkerIsQuiet DEF QuietStep, Requests
      <4> QED
        BY <3>4, <4>1, <4>2 DEF IngestStep
    <3>5. ASSUME NEW d \in Deletes, DeleteStep(d) PROVE Names' /\ Calm'
      <4>1. CASE Find(d) /\ FilesOf(request[d]) # {}
        BY <1>1, <4>1, FindKeeps
      <4>2. CASE Find(d) /\ FilesOf(request[d]) = {}
        BY <1>1, <3>2, <4>2, WorkerIsQuiet DEF QuietStep, Requests
      <4>3. CASE Remove(d) \/ Destroy(d)
        BY <1>1, <4>3, RemoveKeeps, DestroyKeeps
      <4> QED
        BY <3>5, <4>1, <4>2, <4>3 DEF DeleteStep
    <3>6. ASSUME NEW q \in Requests, CommonStep(q) \/ Interrupt(q) PROVE Names' /\ Calm'
      BY <1>1, <3>2, <3>6, WorkerIsQuiet DEF QuietStep, CommonStep
    <3> QED
      BY <1>2, <3>1, <3>3, <3>4, <3>5, <3>6 DEF Next
  <2> QED
    BY <2>1, <2>2 DEF IInv
<1>3. CASE UNCHANGED vars
  <2>1. UNCHANGED <<request, incoming, receiver, rows, record, copied, pc, row, content, file, made,
                    answers, hasty, lost, faults>>
    BY <1>3 DEF vars, jobs, store, history
  <2>2. TypeOK'
    BY <1>1, <2>1 DEF TypeOK
  <2>3. Life'
    BY <1>1, <2>1
    DEF Life, RequestsAreNamed, MessagesAreSent, EarlyIsUntouched, PlacesAreKept, Place, OneRecord,
        Early, Queued
  <2>4. Quiet
    BY <2>1, SameIsStill DEF Quiet, Requests
  <2> QED
    BY <1>1, <2>2, <2>3, <2>4, QuietKeepsNames, QuietKeepsCalm DEF IInv
<1> QED
  BY <1>2, <1>3

\* The invariant of all that follows.
LEMMA InvHolds == Spec => []IInv
BY InvInit, InvStep, PTL DEF Spec

(***************************************************************************)
(* Every variable has its type in every reachable state; a key is named    *)
(* wherever the receiver and the workers look one up.                      *)
(***************************************************************************)
THEOREM TypeCorrect == Spec => []TypeOK
<1>1. IInv => TypeOK
  BY DEF IInv
<1> QED
  BY <1>1, InvHolds, PTL

(***************************************************************************)
(* What an ingest was answered ok for is stored and filed under its uuid   *)
(* until its deletion is asked for: neither IngestJob#perform nor          *)
(* DeleteJob#perform takes it away, done again after a raise or a crash or *)
(* for other requests of the key, unless the client was hasty.             *)
(***************************************************************************)
THEOREM OkMeansHeldHolds == Spec => []OkMeansHeld
<1>1. IInv => OkMeansHeld
  <2> SUFFICES ASSUME IInv, NEW i \in Ingests, "ok" \in answers[i], DeletesOf(i) = {},
                      request[i] \notin hasty
               PROVE  content[request[i]] = i /\ file[request[i]].uuid = i
    BY DEF OkMeansHeld
  <2>1. request[i] \in Keys
    BY SentIngests DEF IInv
  <2>2. Orderly(request[i])
    BY <2>1 DEF IInv, Calm
  <2> QED
    BY <2>2 DEF Orderly, BegunIsStored, NamedIsFiled, Begun, Named
<1> QED
  BY <1>1, InvHolds, PTL

(***************************************************************************)
(* copy_content never replaces what is stored, although it looks before it *)
(* copies, and remove_from_storage takes content only where the deletion   *)
(* is of the very file whose content it is.                                *)
(***************************************************************************)
THEOREM ContentIsKeptHolds == Spec => ContentIsKept
<1> DEFINE Kept == \A k \in Keys \ hasty : content[k] # None /\ content'[k] # content[k] =>
                      content'[k] = None /\ DeletesOf(content[k]) # {}
<1>1. IInv /\ [Next]_vars => [Kept]_vars
  <2> SUFFICES ASSUME IInv, Next PROVE Kept
    OBVIOUS
  <2> USE RequestsAssumption, NamesAssumption DEF Requests
  <2>1. CASE content' = content
    BY <2>1
  <2>2. ASSUME NEW i \in Ingests, CopyContent(i) PROVE Kept
    BY <2>2 DEF CopyContent, IInv, TypeOK
  <2>3. ASSUME NEW d \in Deletes, Remove(d) PROVE Kept
    <3>1. PICK u \in Ingests : u = request[d] /\ pc[d] = "remove"
      BY <2>3 DEF IInv, Names, LoadedIsFile, Remove, Running
    <3>2. \A k \in Keys : content'[k] = IF k = request[u] THEN None ELSE content[k]
      BY <2>3, <3>1 DEF Remove, IInv, TypeOK
    <3>3. \A k \in Keys \ hasty : k = request[u] => content[k] \in {u, None}
      BY <3>1 DEF IInv, Calm, Orderly, LoadedIsAlone
    <3> QED
      BY <3>1, <3>2, <3>3 DEF DeletesOf
  <2>4. \/ content' = content
        \/ \E i \in Ingests : CopyContent(i)
        \/ \E d \in Deletes : Remove(d)
    BY DEF Next, SendIngest, SendDelete, ReceiverStep, Receive, Save, Enqueue, ReceiverRaises,
           ReceiverDies, IngestStep, SetCopied, CreateCfsFile, DoAssessment, DeleteStep, Find,
           Destroy, CommonStep, Reserve, ReserveGone, SendReturnMessage, Success, Finish, Interrupt,
           store
  <2> QED
    BY <2>1, <2>2, <2>3, <2>4
<1>2. (Spec => []IInv) => (Spec => [][Kept]_vars)
  BY <1>1, PTL DEF Spec
<1> QED
  BY <1>2, InvHolds DEF ContentIsKept
==============================================================================
