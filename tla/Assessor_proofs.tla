---------------------------- MODULE Assessor_proofs ----------------------------
(***************************************************************************)
(* Theorems about Assessor, for any number of files, elements, batches,    *)
(* processes that handle answers, and faults.                              *)
(***************************************************************************)
EXTENDS Assessor, WellFoundedInduction, TLAPS

------------------------------------------------------------------------------
(* The inductive invariant *)

\* A handler holds one message, between receiving it and storing it.
OneMessage ==
    \A h \in Handlers :
        IF handler[h].pc = "fetched" THEN \E m \in Message : handler[h].msg = {m}
        ELSE handler[h].msg = {}

\* A batch that does nothing has no group.
IdleIsEmpty == \A b \in Batches : batch[b].pc = "idle" => batch[b].group = {}

\* What is under way is of elements that were made; responses go with theirs.
ElementsAreMade ==
    /\ cluster \cap Unused = {}
    /\ \A b \in Batches : batch[b].group \cap Unused = {}
    /\ \A m \in queue : m.elem \notin Unused
    /\ \A h \in Handlers : \A m \in Held(h) : m.elem \notin Unused
    /\ \A a \in response : a.elem \in Open

\* The answers that may still change what is recorded.
Counts(m) ==
    \/ m \in response \/ \E h \in Handlers : m \in handler[h].now \cup handler[h].list
    \/ m.elem \in Open /\ (m \in queue \/ \E h \in Handlers : m \in handler[h].msg)

Of(m) == element[m.elem].file

\* FITS in the store describe what is stored now, and so does every answer
\* that counts.
FitsAreCurrent == \A f \in Files : fits[f] \in {"none", content[f]}
AnswersAreCurrent ==
    \A m \in Message \cup Response : Counts(m) /\ Of(m) \notin raced =>
        /\ m.subtask = "checksum" => m.md5 = content[Of(m)]
        /\ m.subtask = "fits" => fits[Of(m)] # "none"

\* A file whose assessment is due has no element, nor a size.
PendingIsFresh ==
    \A f \in Files \ raced : pending[f] =>
        /\ OpenOf(f) = {} /\ ~sized[f]
        /\ \A h \in Handlers : \A a \in handler[h].now \cup handler[h].list : Of(a) # f

\* A handled FITS answer is recorded; a checksum is asked for after that.
HandledIsRecorded ==
    /\ \A a \in response : a.subtask = "fits" /\ a.status = "handled" /\ Of(a) \notin raced =>
          serialized[Of(a)]
    /\ \A e \in Open : element[e].checksum /\ element[e].file \notin raced =>
          serialized[element[e].file]

\* What is recorded, with what may still change it.
Recorded ==
    /\ FitsAreCurrent /\ AnswersAreCurrent /\ PendingIsFresh /\ HandledIsRecorded
    /\ FixityIsTruthful /\ AssessedIsDescribed

IInv ==
    /\ TypeOK /\ OneMessage /\ IdleIsEmpty /\ ElementsAreMade
    /\ Recorded /\ OnlyFailuresLose

------------------------------------------------------------------------------
(* Elements and the rows of processes *)

\* The least of a set of ids is one of them.
LEMMA LeastIsIn ==
    ASSUME NEW S, S \subseteq Nat, S # {}
    PROVE  Min(S) \in S
<1> DEFINE R == OpToRel(<, Nat)
<1>1. R = {p \in Nat \X Nat : p[1] < p[2]}
  BY Zenon DEF OpToRel
<1>2. IsWellFoundedOn(R, Nat)
  BY NatLessThanWellFounded, Zenon
<1> HIDE DEF R
<1>3. PICK x \in S : \A y \in S : <<y, x>> \notin R
  BY <1>2, WFMin
<1>4. \A y \in S : x =< y
  <2> SUFFICES ASSUME NEW y \in S, y < x PROVE FALSE
    OBVIOUS
  <2>1. <<y, x>> \in Nat \X Nat /\ <<y, x>>[1] < <<y, x>>[2]
    OBVIOUS
  <2>2. <<y, x>> \in {p \in Nat \X Nat : p[1] < p[2]}
    BY <2>1, Zenon
  <2> QED
    BY <1>1, <1>3, <2>2, Zenon
<1> QED
  BY <1>4 DEF Min

\* An element is made: it was unused, and the others stay as they are.
Made(e, f, checksum) ==
    /\ e \in Elements /\ element[e].is = "unused"
    /\ element' \in [Elements -> Element]
    /\ element'[e].file = f /\ element'[e].checksum = checksum
    /\ element'[e].sent = FALSE /\ element'[e].is = "open"
    /\ \A o \in Elements \ {e} : element'[o] = element[o]

\* Create makes one element, of the file and the kind asked for.
LEMMA CreateMakes ==
    ASSUME TypeOK, Unused # {}, NEW f \in Files, NEW checksum \in BOOLEAN,
           element' = Create(f, checksum)
    PROVE  \E e \in Elements : Made(e, f, checksum)
<1>1. Min(Unused) \in Unused
  BY LeastIsIn, ElementsAssumption DEF Unused
<1> DEFINE e == Min(Unused)
           new == [file |-> f, checksum |-> checksum, sent |-> FALSE, is |-> "open"]
<1>2. e \in Elements /\ element[e].is = "unused"
  BY <1>1 DEF Unused
<1>3. element' = [element EXCEPT ![e] = new] /\ new \in Element
  BY DEF Create, Element
<1>4. /\ new.file = f /\ new.checksum = checksum /\ new.sent = FALSE /\ new.is = "open"
  OBVIOUS
<1> HIDE DEF e, new
<1>5. /\ element' \in [Elements -> Element] /\ element'[e] = new
      /\ \A o \in Elements \ {e} : element'[o] = element[o]
  BY <1>2, <1>3 DEF TypeOK
<1> QED
  BY <1>2, <1>4, <1>5 DEF Made

\* Elements are marked sent, or not sent, and otherwise kept.
LEMMA SentKeeps ==
    ASSUME TypeOK, NEW es, element' = Sent(es)
    PROVE  /\ element' \in [Elements -> Element]
           /\ \A e \in Elements :
                 /\ element'[e].file = element[e].file /\ element'[e].is = element[e].is
                 /\ element'[e].checksum = element[e].checksum
                 /\ element'[e].sent = (element[e].sent \/ (e \in es /\ element[e].is = "open"))
<1> DEFINE new(e) == [element[e] EXCEPT !.sent = TRUE]
<1>1. \A e \in Elements : /\ new(e) \in Element /\ new(e).file = element[e].file
                          /\ new(e).is = element[e].is /\ new(e).checksum = element[e].checksum
                          /\ new(e).sent = TRUE
  BY DEF TypeOK, Element
<1>2. element' = [e \in Elements |-> IF e \in es /\ element[e].is = "open"
                                    THEN new(e) ELSE element[e]]
  BY DEF Sent
<1>3. \A e \in Elements : element[e] \in Element /\ element[e].sent \in BOOLEAN
  BY DEF TypeOK, Element
<1> HIDE DEF new
<1>4. element' \in [Elements -> Element]
  BY <1>1, <1>2, <1>3
<1>5. \A e \in Elements : element'[e] = IF e \in es /\ element[e].is = "open"
                                        THEN new(e) ELSE element[e]
  BY <1>2
<1>6. ASSUME NEW e \in Elements
      PROVE  /\ element'[e].file = element[e].file /\ element'[e].is = element[e].is
             /\ element'[e].checksum = element[e].checksum
             /\ element'[e].sent = (element[e].sent \/ (e \in es /\ element[e].is = "open"))
  <2>1. CASE e \in es /\ element[e].is = "open"
    BY <1>1, <1>5, <2>1
  <2>2. CASE ~(e \in es /\ element[e].is = "open")
    BY <1>3, <1>5, <2>2
  <2> QED
    BY <2>1, <2>2
<1> QED
  BY <1>4, <1>6

\* A reset marks elements not sent and forgets their responses.
LEMMA ResetKeeps ==
    ASSUME TypeOK, NEW es, Reset(es)
    PROVE  /\ element' \in [Elements -> Element]
           /\ \A e \in Elements :
                 /\ element'[e].file = element[e].file /\ element'[e].is = element[e].is
                 /\ element'[e].checksum = element[e].checksum
                 /\ e \in es => ~element'[e].sent
                 /\ e \notin es => element'[e] = element[e]
           /\ response' = {a \in response : a.elem \notin es}
           /\ dropped' = dropped \ es
<1> DEFINE new(e) == [element[e] EXCEPT !.sent = FALSE]
<1>1. \A e \in Elements : /\ new(e) \in Element /\ new(e).file = element[e].file
                          /\ new(e).is = element[e].is /\ new(e).checksum = element[e].checksum
                          /\ new(e).sent = FALSE
  BY DEF TypeOK, Element
<1>2. element' = [e \in Elements |-> IF e \in es THEN new(e) ELSE element[e]]
  BY DEF Reset
<1>3. \A e \in Elements : element[e] \in Element
  BY DEF TypeOK
<1>4. response' = {a \in response : a.elem \notin es} /\ dropped' = dropped \ es
  BY DEF Reset, ResponsesOf
<1> HIDE DEF new
<1>5. element' \in [Elements -> Element]
  BY <1>1, <1>2, <1>3
<1>6. \A e \in Elements : element'[e] = IF e \in es THEN new(e) ELSE element[e]
  BY <1>2
<1> QED
  BY <1>1, <1>4, <1>5, <1>6

\* save! changes the status of a row, which stays the same answer.
Same(a, c) == a.elem = c.elem /\ a.subtask = c.subtask /\ a.md5 = c.md5

LEMMA StatusKeeps ==
    ASSUME TypeOK, NEW a \in Response, NEW s \in {"fetched", "processing", "handled"},
           SetStatus(a, s)
    PROVE  /\ response' \subseteq Response
           /\ \A c \in response' : \E b \in response :
                 Same(b, c) /\ (c.status = b.status \/ (Same(a, c) /\ c.status = s))
           /\ \A b \in response : \E c \in response' : Same(b, c)
<1> DEFINE new(c) == [c EXCEPT !.status = s]
<1>1. \A c \in Response : new(c) \in Response /\ Same(c, new(c)) /\ new(c).status = s
  BY DEF Response, Same
<1>2. response' = {IF c \in RowsOf(a) /\ c.copy = a.copy THEN new(c) ELSE c : c \in response}
  BY DEF SetStatus
<1>3. response \subseteq Response /\ \A c \in RowsOf(a) : Same(a, c)
  BY DEF TypeOK, RowsOf, Same
<1> HIDE DEF new
<1>4. \A c \in response' : \E b \in response :
          \/ c = b
          \/ c = new(b) /\ b \in RowsOf(a)
  BY <1>2
<1>5. \A b \in response : b \in response' \/ new(b) \in response'
  BY <1>2
<1>6. \A b : Same(b, b)
  BY DEF Same
<1>7. \A b, c, d : Same(b, c) /\ Same(c, d) => Same(b, d)
  BY DEF Same
<1> QED
  BY <1>1, <1>3, <1>4, <1>5, <1>6, <1>7

\* The row of one process changes.
LEMMA HandlerKeeps ==
    ASSUME TypeOK, NEW h \in Handlers, NEW r \in Handler, handler' = [handler EXCEPT ![h] = r]
    PROVE  /\ handler' \in [Handlers -> Handler]
           /\ handler'[h] = r /\ \A o \in Handlers \ {h} : handler'[o] = handler[o]
BY DEF TypeOK

\* The row of one batch changes.
LEMMA BatchKeeps ==
    ASSUME TypeOK, NEW b \in Batches, NEW r \in Batch, batch' = [batch EXCEPT ![b] = r]
    PROVE  /\ batch' \in [Batches -> Batch]
           /\ batch'[b] = r /\ \A o \in Batches \ {b} : batch'[o] = batch[o]
BY DEF TypeOK

\* The fields of a row have their types.
LEMMA Fields ==
    ASSUME TypeOK
    PROVE  /\ \A h \in Handlers : /\ handler[h] \in Handler
                                  /\ handler[h].msg \subseteq Message
                                  /\ handler[h].now \subseteq Response
                                  /\ handler[h].list \subseteq Response
           /\ \A b \in Batches : batch[b] \in Batch /\ batch[b].group \subseteq Elements
           /\ \A e \in Elements : element[e] \in Element /\ element[e].file \in Files
           /\ \A m \in Message \cup Response : m.elem \in Elements /\ m.md5 \in Known
BY DEF TypeOK, Handler, Batch, Element, Message, Response

\* What each step of a process that handles answers makes of its row.
LEMMA HandlerRows ==
    ASSUME TypeOK, NEW h \in Handlers, HandlerStep(h) \/ HandlerDies(h)
    PROVE  /\ handler' \in [Handlers -> Handler]
           /\ \A o \in Handlers \ {h} : handler'[o] = handler[o]
           /\ \/ /\ Fetch(h) /\ handler'[h].pc = "fetched"
                 /\ \E m \in queue : handler'[h].msg = {m}
                 /\ handler'[h].now = handler[h].now /\ handler'[h].list = handler[h].list
              \/ /\ List(h) /\ handler'[h].pc = "listed" /\ handler'[h].msg = handler[h].msg
                 /\ handler'[h].now = handler[h].now
                 /\ handler'[h].list = {a \in response : a.status = "fetched"}
              \/ /\ Process(h) /\ handler'[h].pc = "processing"
                 /\ handler'[h].msg = handler[h].msg
                 /\ \E a \in handler[h].list :
                       /\ SetStatus(a, "processing")
                       /\ handler'[h].now = {a} /\ handler'[h].list = handler[h].list \ {a}
              \/ /\ Handle(h) /\ handler'[h].pc = "listed" /\ handler'[h].msg = handler[h].msg
                 /\ handler'[h].now = {} /\ handler'[h].list = handler[h].list
              \/ /\ Store(h) \/ Handle(h) \/ HandlerDies(h)
                 /\ handler'[h].pc = "idle" /\ handler'[h].msg = {}
                 /\ handler'[h].now = {} /\ handler'[h].list = {}
<1> DEFINE r == handler[h]
<1>0. /\ r \in Handler /\ r.msg \subseteq Message /\ r.now \subseteq Response
      /\ r.list \subseteq Response
  BY Fields
<1>1. ASSUME NEW m \in queue,
             handler' = [handler EXCEPT ![h] = [r EXCEPT !.pc = "fetched", !.msg = {m}]]
      PROVE  /\ handler' \in [Handlers -> Handler]
             /\ \A o \in Handlers \ {h} : handler'[o] = handler[o]
             /\ handler'[h].pc = "fetched" /\ handler'[h].msg = {m}
             /\ handler'[h].now = r.now /\ handler'[h].list = r.list
  <2> DEFINE new == [r EXCEPT !.pc = "fetched", !.msg = {m}]
  <2>1. /\ new \in Handler /\ new.pc = "fetched" /\ new.msg = {m} /\ new.now = r.now
        /\ new.list = r.list
    BY <1>0 DEF Handler, TypeOK
  <2> HIDE DEF new
  <2> QED
    BY <1>1, <2>1, HandlerKeeps DEF new
<1>2. ASSUME List(h)
      PROVE  /\ handler' \in [Handlers -> Handler]
             /\ \A o \in Handlers \ {h} : handler'[o] = handler[o]
             /\ handler'[h].pc = "listed" /\ handler'[h].msg = r.msg /\ handler'[h].now = r.now
             /\ handler'[h].list = {a \in response : a.status = "fetched"}
  <2> DEFINE fetched == {a \in response : a.status = "fetched"}
             new == [r EXCEPT !.pc = "listed", !.list = fetched]
  <2>1. fetched \subseteq Response
    BY DEF TypeOK
  <2>2. handler' = [handler EXCEPT ![h] = new]
    BY <1>2 DEF List
  <2> HIDE DEF fetched
  <2>3. /\ new \in Handler /\ new.pc = "listed" /\ new.msg = r.msg /\ new.now = r.now
        /\ new.list = fetched
    BY <1>0, <2>1 DEF Handler
  <2> HIDE DEF new
  <2>4. /\ handler' \in [Handlers -> Handler] /\ handler'[h] = new
        /\ \A o \in Handlers \ {h} : handler'[o] = handler[o]
    BY <2>2, <2>3, HandlerKeeps
  <2> QED
    BY <2>3, <2>4 DEF fetched
<1>3. ASSUME NEW a \in r.list, handler' = [handler EXCEPT ![h] =
                 [r EXCEPT !.pc = "processing", !.now = {a}, !.list = r.list \ {a}]]
      PROVE  /\ handler' \in [Handlers -> Handler]
             /\ \A o \in Handlers \ {h} : handler'[o] = handler[o]
             /\ handler'[h].pc = "processing" /\ handler'[h].msg = r.msg
             /\ handler'[h].now = {a} /\ handler'[h].list = r.list \ {a}
  <2> DEFINE new == [r EXCEPT !.pc = "processing", !.now = {a}, !.list = r.list \ {a}]
  <2>1. a \in Response /\ {a} \subseteq Response /\ r.list \ {a} \subseteq Response
    BY <1>0, <1>3
  <2>2. /\ new \in Handler /\ new.pc = "processing" /\ new.msg = r.msg /\ new.now = {a}
        /\ new.list = r.list \ {a}
    BY <1>0, <2>1 DEF Handler
  <2> HIDE DEF new
  <2> QED
    BY <1>3, <2>2, HandlerKeeps DEF new
<1>4. ASSUME handler' = [handler EXCEPT ![h] = [r EXCEPT !.pc = "listed", !.now = {}]]
      PROVE  /\ handler' \in [Handlers -> Handler]
             /\ \A o \in Handlers \ {h} : handler'[o] = handler[o]
             /\ handler'[h].pc = "listed" /\ handler'[h].msg = r.msg
             /\ handler'[h].now = {} /\ handler'[h].list = r.list
  <2> DEFINE new == [r EXCEPT !.pc = "listed", !.now = {}]
  <2>1. /\ new \in Handler /\ new.pc = "listed" /\ new.msg = r.msg /\ new.now = {}
        /\ new.list = r.list
    BY <1>0 DEF Handler
  <2> HIDE DEF new
  <2> QED
    BY <1>4, <2>1, HandlerKeeps DEF new
<1>5. ASSUME handler' = [handler EXCEPT ![h] = IdleHandler]
      PROVE  /\ handler' \in [Handlers -> Handler]
             /\ \A o \in Handlers \ {h} : handler'[o] = handler[o]
             /\ handler'[h].pc = "idle" /\ handler'[h].msg = {}
             /\ handler'[h].now = {} /\ handler'[h].list = {}
  <2>1. /\ IdleHandler \in Handler /\ IdleHandler.pc = "idle" /\ IdleHandler.msg = {}
        /\ IdleHandler.now = {} /\ IdleHandler.list = {}
    BY DEF IdleHandler, Handler
  <2> QED
    BY <1>5, <2>1, HandlerKeeps
<1>6. CASE Fetch(h)
  <2>1. PICK m \in queue :
            handler' = [handler EXCEPT ![h] = [r EXCEPT !.pc = "fetched", !.msg = {m}]]
    BY <1>6 DEF Fetch
  <2> HIDE DEF r
  <2> QED
    BY <1>1, <1>6, <2>1 DEF r
<1>7. CASE List(h)
  BY <1>2, <1>7
<1>8. CASE Process(h)
  <2>1. PICK a \in r.list :
            /\ SetStatus(a, "processing")
            /\ handler' = [handler EXCEPT ![h] =
                  [r EXCEPT !.pc = "processing", !.now = {a}, !.list = r.list \ {a}]]
    BY <1>8 DEF Process
  <2> HIDE DEF r
  <2> QED
    BY <1>3, <1>8, <2>1 DEF r
<1>9. CASE Handle(h)
  <2>1. \/ handler' = [handler EXCEPT ![h] = IdleHandler]
        \/ handler' = [handler EXCEPT ![h] = [r EXCEPT !.pc = "listed", !.now = {}]]
    BY <1>9 DEF Handle
  <2> HIDE DEF r
  <2> QED
    BY <1>4, <1>5, <1>9, <2>1 DEF r
<1>10. CASE Store(h) \/ HandlerDies(h)
  <2>1. handler' = [handler EXCEPT ![h] = IdleHandler]
    BY <1>10 DEF Store, HandlerDies
  <2> QED
    BY <1>5, <1>10, <2>1
<1> QED
  BY <1>6, <1>7, <1>8, <1>9, <1>10 DEF HandlerStep

\* What each step of a batch makes of its row.
LEMMA BatchRows ==
    ASSUME TypeOK, NEW b \in Batches, BatchStep(b) \/ BatchFails(b)
    PROVE  /\ batch' \in [Batches -> Batch]
           /\ \A o \in Batches \ {b} : batch'[o] = batch[o]
           /\ \/ /\ Pick(b) /\ batch'[b].group \subseteq Unsent
                 /\ batch'[b].pc = "picked"
              \/ /\ MarkSent(b) /\ batch'[b].group = batch[b].group
                 /\ batch'[b].pc = "marked"
              \/ (RunTask(b) \/ BatchFails(b)) /\ batch'[b].group = {}
<1> DEFINE r == batch[b]
<1>0. r \in Batch
  BY Fields
<1>1. CASE Pick(b)
  <2>1. Unsent # {} /\ Unsent \subseteq Elements
    BY <1>1 DEF Pick, Unsent, Open
  <2>2. Min(Unsent) \in Unsent
    BY <2>1, LeastIsIn, ElementsAssumption
  <2>3. \A g \in Groups : g \subseteq Unsent
    BY <2>2 DEF Groups, kSubset, InRange
  <2>4. PICK g \in Groups : batch' = [batch EXCEPT ![b] = [pc |-> "picked", group |-> g,
            large |-> Category(element[Min(Unsent)].file) = "large"]]
    BY <1>1 DEF Pick
  <2>5. PICK large \in BOOLEAN :
            batch' = [batch EXCEPT ![b] = [pc |-> "picked", group |-> g, large |-> large]]
    BY <2>4
  <2> DEFINE new == [pc |-> "picked", group |-> g, large |-> large]
  <2>6. new \in Batch /\ new.group = g /\ new.pc = "picked"
    BY <2>1, <2>3 DEF Batch
  <2> HIDE DEF new
  <2>7. /\ batch' \in [Batches -> Batch] /\ batch'[b] = new
        /\ \A o \in Batches \ {b} : batch'[o] = batch[o]
    BY <2>5, <2>6, BatchKeeps DEF new
  <2> QED
    BY <1>1, <2>3, <2>6, <2>7
<1>2. CASE MarkSent(b)
  <2> DEFINE new == [r EXCEPT !.pc = "marked"]
  <2>1. new \in Batch /\ new.group = r.group /\ new.pc = "marked"
    BY <1>0 DEF Batch
  <2>2. batch' = [batch EXCEPT ![b] = new]
    BY <1>2 DEF MarkSent
  <2> HIDE DEF new
  <2>3. /\ batch' \in [Batches -> Batch] /\ batch'[b] = new
        /\ \A o \in Batches \ {b} : batch'[o] = batch[o]
    BY <2>1, <2>2, BatchKeeps
  <2> QED
    BY <1>2, <2>1, <2>3
<1>3. CASE RunTask(b) \/ BatchFails(b)
  <2>1. batch' = [batch EXCEPT ![b] = IdleBatch]
    BY <1>3 DEF RunTask, BatchFails
  <2>2. IdleBatch \in Batch /\ IdleBatch.group = {}
    BY DEF IdleBatch, Batch
  <2> QED
    BY <1>3, <2>1, <2>2, BatchKeeps
<1> QED
  BY <1>1, <1>2, <1>3 DEF BatchStep

------------------------------------------------------------------------------
(* Type correctness *)

\* Where it starts.
LEMMA TypeInit == ASSUME Init PROVE TypeOK
<1>1. /\ IdleHandler \in Handler /\ IdleBatch \in Batch
  BY DEF IdleHandler, IdleBatch, Handler, Batch
<1>2. element \in [Elements -> Element]
  BY FilesAssumption DEF Init, Element
<1>3. /\ size \in [Files -> Sizes] /\ readable \in [Files -> BOOLEAN]
      /\ content \in [Files -> Versions]
      /\ md5 \in [Files -> Known] /\ fits \in [Files -> Known]
      /\ fixity \in [Files -> {"none", "ok", "bad"}]
  BY DEF Init, Versions, Known
<1>4. /\ serialized \in [Files -> BOOLEAN] /\ sized \in [Files -> BOOLEAN]
      /\ pending \in [Files -> BOOLEAN]
  BY DEF Init
<1>5. /\ cluster \subseteq Elements /\ queue \subseteq Message /\ response \subseteq Response
      /\ batch \in [Batches -> Batch] /\ handler \in [Handlers -> Handler]
      /\ raced \subseteq Files /\ dropped \subseteq Elements
      /\ faults \in 0 .. MaxFaults
  BY <1>1, BoundsAssumption DEF Init
<1> QED
  BY <1>2, <1>3, <1>4, <1>5 DEF TypeOK

\* What is recorded of a file.
LEMMA TypeFiles ==
    ASSUME TypeOK, NEW f \in Files, RunInitialAssessment(f) \/ Overwrite(f)
    PROVE  TypeOK'
<1>1. CASE RunInitialAssessment(f)
  <2>1. UNCHANGED <<size, readable, content, fixity, fits, serialized, cluster, queue, response,
                    batch, handler, raced, dropped, faults>>
    BY <1>1 DEF RunInitialAssessment, file, procs, history
  <2>2. /\ md5' \in [Files -> Known]
        /\ sized' \in [Files -> BOOLEAN] /\ pending' \in [Files -> BOOLEAN]
    BY <1>1 DEF RunInitialAssessment, TypeOK, Known
  <2>3. element' \in [Elements -> Element]
    <3>1. element' = element \/ (element' = Create(f, FALSE) /\ Unused # {})
      BY <1>1 DEF RunInitialAssessment
    <3>2. element \in [Elements -> Element]
      BY DEF TypeOK
    <3> QED
      BY <3>1, <3>2, CreateMakes DEF Made
  <2> QED
    BY <2>1, <2>2, <2>3 DEF TypeOK
<1>2. CASE Overwrite(f)
  <2>1. UNCHANGED <<size, readable, element, cluster, queue, response, batch, handler, dropped,
                    faults>>
    BY <1>2 DEF Overwrite, file, procs
  <2>2. /\ content' \in [Files -> Versions] /\ md5' \in [Files -> Known]
        /\ fixity' \in [Files -> {"none", "ok", "bad"}] /\ fits' \in [Files -> Known]
        /\ raced' \subseteq Files
    BY <1>2 DEF Overwrite, TypeOK, Known, Versions
  <2>3. /\ serialized' \in [Files -> BOOLEAN] /\ sized' \in [Files -> BOOLEAN]
        /\ pending' \in [Files -> BOOLEAN]
    BY <1>2 DEF Overwrite, TypeOK
  <2> QED
    BY <2>1, <2>2, <2>3 DEF TypeOK
<1> QED
  BY <1>1, <1>2

\* Elements, and the container that works on them.
LEMMA TypeElements ==
    ASSUME TypeOK,
           \/ ResetStale
           \/ \E e \in Elements : DestroyComplete(e) \/ Assess(e) \/ AssessFails(e)
    PROVE  TypeOK'
<1>1. CASE ResetStale
  <2>1. \E es : Reset(es)
    BY <1>1 DEF ResetStale
  <2>2. /\ element' \in [Elements -> Element] /\ response' \subseteq response
        /\ dropped' \subseteq dropped
    BY <2>1, ResetKeeps
  <2>3. UNCHANGED <<size, readable, content, md5, fixity, fits, sized, serialized, pending, cluster,
                    queue, batch, handler, raced>>
    BY <1>1 DEF ResetStale, file, record, procs
  <2>4. faults' \in 0 .. MaxFaults
    BY <1>1, BoundsAssumption DEF ResetStale, TypeOK
  <2> QED
    BY <2>2, <2>3, <2>4 DEF TypeOK
<1>2. ASSUME NEW e \in Elements, DestroyComplete(e) PROVE TypeOK'
  <2>1. UNCHANGED <<size, readable, content, md5, fixity, fits, sized, serialized, pending, cluster,
                    queue, batch, handler, raced, dropped, faults>>
    BY <1>2 DEF DestroyComplete, file, record, procs, history
  <2>2. response' \subseteq response
    BY <1>2 DEF DestroyComplete
  <2>3. element' \in [Elements -> Element]
    BY <1>2 DEF DestroyComplete, TypeOK, Element
  <2> QED
    BY <2>1, <2>2, <2>3 DEF TypeOK
<1>3. ASSUME NEW e \in Elements, Assess(e) PROVE TypeOK'
  <2>1. UNCHANGED <<size, readable, content, md5, fixity, sized, serialized, pending, element,
                    response, batch, handler, raced, dropped, faults>>
    BY <1>3 DEF Assess, file, procs, history
  <2>2. cluster' \subseteq Elements /\ fits' \in [Files -> Known]
    BY <1>3, Fields DEF Assess, TypeOK, Known
  <2>3. queue' \subseteq Message
    <3>1. \A v \in Known : Answer(e, "checksum", v) \in Message /\ Answer(e, "fits", v) \in Message
      BY DEF Answer, Message, Subtasks
    <3>2. content[element[e].file] \in Known /\ "none" \in Known /\ queue \subseteq Message
      BY Fields DEF TypeOK, Known
    <3> QED
      BY <1>3, <3>1, <3>2 DEF Assess
  <2> QED
    BY <2>1, <2>2, <2>3 DEF TypeOK
<1>4. ASSUME NEW e \in Elements, AssessFails(e) PROVE TypeOK'
  <2>1. UNCHANGED <<size, readable, content, md5, fixity, fits, sized, serialized, pending, element,
                    response, batch, handler, raced>>
    BY <1>4 DEF AssessFails, file, record, procs
  <2>2. Answer(e, "error", "none") \in Message
    BY DEF Answer, Message, Subtasks, Known
  <2>3. queue' \subseteq Message
    BY <1>4, <2>2 DEF AssessFails, TypeOK
  <2>4. cluster' \subseteq Elements /\ dropped' \subseteq Elements /\ faults' \in 0 .. MaxFaults
    BY <1>4, BoundsAssumption DEF AssessFails, TypeOK
  <2> QED
    BY <2>1, <2>3, <2>4 DEF TypeOK
<1> QED
  BY <1>1, <1>2, <1>3, <1>4

\* The runs of initiate_task_batch.
LEMMA TypeBatch ==
    ASSUME TypeOK, NEW b \in Batches, BatchStep(b) \/ BatchFails(b)
    PROVE  TypeOK'
<1>1. batch' \in [Batches -> Batch]
  BY BatchRows
<1>2. UNCHANGED <<size, readable, content, md5, fixity, fits, sized, serialized, pending, queue,
                  response, handler, raced>>
  BY DEF BatchStep, Pick, MarkSent, RunTask, BatchFails, file, record, history
<1>3. element' \in [Elements -> Element]
  <2>1. element' = element \/ \E es : element' = Sent(es)
    BY DEF BatchStep, Pick, MarkSent, RunTask, BatchFails
  <2>2. element \in [Elements -> Element]
    BY DEF TypeOK
  <2> QED
    BY <2>1, <2>2, SentKeeps
<1>4. cluster' \subseteq Elements /\ dropped' \subseteq Elements
  <2>1. /\ cluster \subseteq Elements /\ dropped \subseteq Elements
        /\ batch[b].group \subseteq Elements
    BY Fields DEF TypeOK
  <2> QED
    BY <2>1 DEF BatchStep, Pick, MarkSent, RunTask, BatchFails, history
<1>5. faults' \in 0 .. MaxFaults
  BY BoundsAssumption DEF BatchStep, Pick, MarkSent, RunTask, BatchFails, history, TypeOK
<1> QED
  BY <1>1, <1>2, <1>3, <1>4, <1>5 DEF TypeOK

\* What is recorded when an answer is handled.
HandledFits(a) ==
    LET f == Of(a) IN
    /\ a.subtask = "fits"
    /\ serialized' = [serialized EXCEPT ![f] = (fits[f] # "none")]
    /\ sized' = [sized EXCEPT ![f] = @ \/ (fits[f] # "none" /\ readable[f])]
    /\ \/ UNCHANGED <<md5, fixity>>
       \/ fits[f] # "none" /\ SetFixity(f, fits[f])
    /\ \/ UNCHANGED element
       \/ fits[f] # "none" /\ Unused # {} /\ element' = Create(f, TRUE)

HandledChecksum(a) ==
    a.subtask = "checksum" /\ SetFixity(Of(a), a.md5) /\ UNCHANGED <<sized, serialized, element>>

HandledError(a) ==
    a.subtask \notin {"fits", "checksum"} /\ UNCHANGED <<md5, fixity, sized, serialized, element>>

\* A process records one of the three for the response in its hand.
LEMMA HandleRecords ==
    ASSUME NEW h \in Handlers, Handle(h)
    PROVE  \E a \in handler[h].now :
               /\ SetStatus(a, "handled")
               /\ \/ HandledFits(a)
                  \/ HandledChecksum(a)
                  \/ HandledError(a)
<1>1. PICK a \in handler[h].now :
          LET f == element[a.elem].file IN
          /\ CASE a.subtask = "fits" -> HandleFits(f)
               [] a.subtask = "checksum" ->
                    SetFixity(f, a.md5) /\ UNCHANGED <<sized, serialized, element>>
               [] OTHER -> UNCHANGED <<md5, fixity, sized, serialized, element>>
          /\ SetStatus(a, "handled")
  BY DEF Handle
<1>2. CASE a.subtask = "fits"
  <2>1. HandleFits(Of(a))
    BY <1>1, <1>2 DEF Of
  <2>2. HandledFits(a)
    BY <1>2, <2>1 DEF HandleFits, HandledFits
  <2> QED
    BY <1>1, <2>2
<1>3. CASE a.subtask = "checksum"
  BY <1>1, <1>3 DEF HandledChecksum, Of
<1>4. CASE a.subtask \notin {"fits", "checksum"}
  BY <1>1, <1>4 DEF HandledError
<1> QED
  BY <1>2, <1>3, <1>4

\* A checksum and a status are recorded.
LEMMA FixityTypes ==
    ASSUME TypeOK, NEW f \in Files, NEW sum \in Known, SetFixity(f, sum)
    PROVE  md5' \in [Files -> Known] /\ fixity' \in [Files -> {"none", "ok", "bad"}]
BY DEF TypeOK, SetFixity

\* The processes that fetch and handle answers.
LEMMA TypeHandler ==
    ASSUME TypeOK, NEW h \in Handlers, HandlerStep(h) \/ HandlerDies(h)
    PROVE  TypeOK'
<1>1. handler' \in [Handlers -> Handler]
  BY HandlerRows
<1>2. UNCHANGED <<size, readable, content, fits, pending, cluster, batch, raced>>
  BY DEF HandlerStep, Fetch, Store, List, Process, Handle, HandlerDies, file, record, history
<1>3. queue' \subseteq queue /\ queue \subseteq Message
  BY DEF TypeOK, HandlerStep, Fetch, Store, List, Process, Handle, HandlerDies
<1>4. faults' \in 0 .. MaxFaults /\ dropped' \subseteq Elements
  <2>1. CASE Fetch(h)
    BY <2>1, BoundsAssumption DEF TypeOK, Fetch
  <2>2. CASE Store(h) \/ List(h) \/ Process(h) \/ Handle(h)
    <3>1. UNCHANGED <<dropped, faults>>
      BY <2>2 DEF Store, List, Process, Handle, history
    <3> QED
      BY <3>1 DEF TypeOK
  <2>3. CASE HandlerDies(h)
    <3>1. \A m \in handler[h].msg : m.elem \in Elements
      BY Fields
    <3>2. {m.elem : m \in handler[h].msg} \subseteq Elements
      BY <3>1
    <3> QED
      BY <2>3, <3>2, BoundsAssumption DEF TypeOK, HandlerDies
  <2> QED
    BY <2>1, <2>2, <2>3 DEF HandlerStep
<1>5. response' \subseteq Response
  <2>1. CASE Process(h) \/ Handle(h)
    <3>1. \E a \in Response, s \in {"processing", "handled"} : SetStatus(a, s)
      BY <2>1, Fields DEF Process, Handle
    <3> QED
      BY <3>1, StatusKeeps
  <2>2. CASE Store(h)
    <3>1. PICK m \in handler[h].msg :
              LET copies == Copies \ {a.copy : a \in RowsOf(m)} IN
              response' = response \cup
                  IF m.elem \notin Open \/ copies = {} THEN {}
                  ELSE {[elem |-> m.elem, subtask |-> m.subtask, md5 |-> m.md5,
                         copy |-> Min(copies), status |-> "fetched"]}
      BY <2>2 DEF Store
    <3> DEFINE copies == Copies \ {a.copy : a \in RowsOf(m)}
    <3>2. copies # {} => Min(copies) \in Copies
      BY LeastIsIn DEF Copies
    <3>3. m \in Message
      BY Fields
    <3> HIDE DEF copies
    <3>4. copies # {} => [elem |-> m.elem, subtask |-> m.subtask, md5 |-> m.md5,
                          copy |-> Min(copies), status |-> "fetched"] \in Response
      BY <3>2, <3>3 DEF Message, Response
    <3> QED
      BY <3>1, <3>4 DEF copies, TypeOK
  <2>3. CASE Fetch(h) \/ List(h) \/ HandlerDies(h)
    BY <2>3 DEF TypeOK, Fetch, List, HandlerDies
  <2> QED
    BY <2>1, <2>2, <2>3 DEF HandlerStep
<1>6. /\ md5' \in [Files -> Known] /\ fixity' \in [Files -> {"none", "ok", "bad"}]
      /\ sized' \in [Files -> BOOLEAN] /\ serialized' \in [Files -> BOOLEAN]
      /\ element' \in [Elements -> Element]
  <2>0. /\ md5 \in [Files -> Known] /\ fixity \in [Files -> {"none", "ok", "bad"}]
        /\ sized \in [Files -> BOOLEAN] /\ serialized \in [Files -> BOOLEAN]
        /\ element \in [Elements -> Element]
    BY DEF TypeOK
  <2>1. CASE ~Handle(h)
    BY <2>0, <2>1 DEF HandlerStep, Fetch, Store, List, Process, HandlerDies, record
  <2>2. CASE Handle(h)
    <3>1. PICK a \in handler[h].now :
              \/ HandledFits(a)
              \/ HandledChecksum(a)
              \/ HandledError(a)
      BY <2>2, HandleRecords
    <3>2. a \in Response /\ Of(a) \in Files /\ a.md5 \in Known
      BY Fields DEF Of
    <3>3. CASE HandledFits(a)
      <4>1. fits[Of(a)] \in Known
        BY <3>2 DEF TypeOK
      <4>2. md5' \in [Files -> Known] /\ fixity' \in [Files -> {"none", "ok", "bad"}]
        BY <2>0, <3>2, <3>3, <4>1, FixityTypes DEF HandledFits
      <4>3. sized' \in [Files -> BOOLEAN] /\ serialized' \in [Files -> BOOLEAN]
        BY <2>0, <3>3 DEF HandledFits
      <4>4. element' \in [Elements -> Element]
        BY <2>0, <3>2, <3>3, CreateMakes DEF HandledFits, Made
      <4> QED
        BY <4>2, <4>3, <4>4
    <3>4. CASE HandledChecksum(a)
      BY <2>0, <3>2, <3>4, FixityTypes DEF HandledChecksum
    <3> QED
      BY <2>0, <3>1, <3>3, <3>4 DEF HandledError
  <2> QED
    BY <2>1, <2>2
<1> QED
  BY <1>1, <1>2, <1>3, <1>4, <1>5, <1>6 DEF TypeOK

\* Every step keeps the types.
LEMMA TypeStep == TypeOK /\ [Next]_vars => TypeOK'
<1> SUFFICES ASSUME TypeOK, [Next]_vars PROVE TypeOK'
  OBVIOUS
<1>1. CASE Next
  BY <1>1, TypeFiles, TypeElements, TypeBatch, TypeHandler DEF Next
<1>2. CASE UNCHANGED vars
  BY <1>2 DEF TypeOK, vars, file, record, procs, history
<1> QED
  BY <1>1, <1>2

------------------------------------------------------------------------------
(* What is under way *)

\* Elements keep what they are, except the one that is made.
ElementsStay ==
    \A e \in Elements : /\ element'[e].file = element[e].file /\ element'[e].is = element[e].is
                        /\ element'[e].checksum = element[e].checksum

\* Then the same elements are open, and unused.
LEMMA StayedElements ==
    ASSUME ElementsStay
    PROVE  Open' = Open /\ Unused' = Unused /\ \A f \in Files : OpenOf(f)' = OpenOf(f)
BY DEF ElementsStay, Open, Unused, OpenOf

\* The one that is made is open, and of its file.
LEMMA MadeElements ==
    ASSUME NEW e, NEW f, NEW checksum, Made(e, f, checksum)
    PROVE  /\ Open' = Open \cup {e} /\ Unused' = Unused \ {e} /\ e \notin Open /\ e \in Unused
           /\ \A g \in Files : OpenOf(g)' = IF g = f THEN OpenOf(g) \cup {e} ELSE OpenOf(g)
<1>1. Open' = Open \cup {e} /\ Unused' = Unused \ {e} /\ e \notin Open /\ e \in Unused
  BY DEF Made, Open, Unused
<1> QED
  BY <1>1 DEF Made, Open, OpenOf

\* What each step does to the elements.
LEMMA ElementSteps ==
    ASSUME TypeOK, Next
    PROVE  \/ ElementsStay
           \/ \E f \in Files, checksum \in BOOLEAN : \E e \in Elements : Made(e, f, checksum)
           \/ \E e \in Elements : DestroyComplete(e)
<1>0. UNCHANGED element => ElementsStay
  BY DEF ElementsStay
<1>1. ASSUME NEW f \in Files, RunInitialAssessment(f) \/ Overwrite(f)
      PROVE  ElementsStay \/ \E e \in Elements : Made(e, f, FALSE)
  <2>1. UNCHANGED element \/ (Unused # {} /\ element' = Create(f, FALSE))
    BY <1>1 DEF RunInitialAssessment, Overwrite
  <2> QED
    BY <1>0, <2>1, CreateMakes
<1>2. CASE ResetStale
  <2>1. \E es : Reset(es)
    BY <1>2 DEF ResetStale
  <2>2. ASSUME NEW es, Reset(es) PROVE ElementsStay
    BY <2>2, ResetKeeps DEF ElementsStay
  <2> QED
    BY <2>1, <2>2
<1>3. ASSUME NEW e \in Elements, Assess(e) \/ AssessFails(e) PROVE ElementsStay
  BY <1>0, <1>3 DEF Assess, AssessFails
<1>4. ASSUME NEW b \in Batches, BatchStep(b) \/ BatchFails(b) PROVE ElementsStay
  <2>1. UNCHANGED element \/ \E es : element' = Sent(es)
    BY <1>4 DEF BatchStep, Pick, MarkSent, RunTask, BatchFails
  <2>2. ASSUME NEW es, element' = Sent(es) PROVE ElementsStay
    BY <2>2, SentKeeps DEF ElementsStay
  <2> QED
    BY <1>0, <2>1, <2>2
<1>5. ASSUME NEW h \in Handlers, HandlerStep(h) \/ HandlerDies(h)
      PROVE  ElementsStay \/ \E f \in Files, e \in Elements : Made(e, f, TRUE)
  <2>1. CASE Handle(h)
    <3>1. PICK a \in handler[h].now :
              UNCHANGED element \/ (Unused # {} /\ element' = Create(Of(a), TRUE))
      BY <2>1, HandleRecords DEF HandledFits, HandledChecksum, HandledError
    <3>2. Of(a) \in Files
      BY Fields DEF Of
    <3> QED
      BY <1>0, <3>1, <3>2, CreateMakes
  <2>2. CASE ~Handle(h)
    BY <1>0, <1>5, <2>2 DEF HandlerStep, Fetch, Store, List, Process, HandlerDies
  <2> QED
    BY <2>1, <2>2
<1> QED
  BY <1>1, <1>2, <1>3, <1>4, <1>5 DEF Next

\* Only an element that is destroyed is no longer open, with its responses.
LEMMA DestroyedElement ==
    ASSUME TypeOK, NEW e \in Elements, DestroyComplete(e)
    PROVE  /\ Open' = Open \ {e} /\ Unused' = Unused
           /\ \A o \in Elements : /\ element'[o].file = element[o].file
                                  /\ element'[o].checksum = element[o].checksum
                                  /\ element'[o].sent = element[o].sent
           /\ \A f \in Files : OpenOf(f)' = OpenOf(f) \ {e}
           /\ response' = {a \in response : a.elem # e}
           /\ UNCHANGED <<size, readable, content, md5, fixity, fits, sized, serialized, pending,
                          cluster, queue, batch, handler, raced, dropped, faults>>
<1> DEFINE new == [element[e] EXCEPT !.is = "gone"]
<1>1. /\ new.file = element[e].file /\ new.checksum = element[e].checksum
      /\ new.sent = element[e].sent /\ new.is = "gone" /\ element[e].is = "open"
  BY DEF TypeOK, Element, DestroyComplete, Open
<1>2. element' = [element EXCEPT ![e] = new]
  BY DEF DestroyComplete
<1> HIDE DEF new
<1>3. element'[e] = new /\ \A o \in Elements \ {e} : element'[o] = element[o]
  BY <1>2 DEF TypeOK
<1>4. Open' = Open \ {e} /\ Unused' = Unused
  BY <1>1, <1>3 DEF Open, Unused
<1>5. \A o \in Elements : /\ element'[o].file = element[o].file
                          /\ element'[o].checksum = element[o].checksum
                          /\ element'[o].sent = element[o].sent
  BY <1>1, <1>3
<1>6. \A f \in Files : OpenOf(f)' = OpenOf(f) \ {e}
  BY <1>4, <1>5 DEF OpenOf, Open
<1>7. /\ response' = {a \in response : a.elem # e}
      /\ UNCHANGED <<size, readable, content, md5, fixity, fits, sized, serialized, pending,
                     cluster, queue, batch, handler, raced, dropped, faults>>
  BY DEF DestroyComplete, ResponsesOf, file, record, procs, history
<1> QED
  BY <1>4, <1>5, <1>6, <1>7

\* A message is taken by a process that has none, and put down in one step.
LEMMA OneMessageStep ==
    ASSUME TypeOK, OneMessage, Next
    PROVE  OneMessage'
<1>1. CASE handler' = handler
  BY <1>1 DEF OneMessage
<1>2. ASSUME NEW h \in Handlers, HandlerStep(h) \/ HandlerDies(h) PROVE OneMessage'
  <2>1. IF handler'[h].pc = "fetched" THEN \E m \in Message : handler'[h].msg = {m}
        ELSE handler'[h].msg = {}
    <3>1. queue \subseteq Message
      BY DEF TypeOK
    <3>2. List(h) \/ Process(h) \/ Handle(h) => handler[h].pc # "fetched"
      BY DEF List, Process, Handle
    <3>3. handler[h].pc # "fetched" => handler[h].msg = {}
      BY DEF OneMessage
    <3> QED
      BY <1>2, <3>1, <3>2, <3>3, HandlerRows
  <2>2. \A o \in Handlers \ {h} : handler'[o] = handler[o]
    BY <1>2, HandlerRows
  <2> QED
    BY <2>1, <2>2 DEF OneMessage
<1>3. \/ handler' = handler
      \/ \E h \in Handlers : HandlerStep(h) \/ HandlerDies(h)
  BY DEF Next, RunInitialAssessment, Overwrite, ResetStale, DestroyComplete, Assess, AssessFails,
         BatchStep, Pick, MarkSent, RunTask, BatchFails, procs
<1> QED
  BY <1>1, <1>2, <1>3

\* A message that is stored becomes a row of its element, which is open.
LEMMA StoredResponse ==
    ASSUME TypeOK, NEW h \in Handlers, Store(h)
    PROVE  \E m \in handler[h].msg :
               /\ response \subseteq response'
               /\ \A c \in response' \ response :
                     Same(m, c) /\ m.elem \in Open /\ c.status = "fetched"
               /\ m.elem \in Open => \E c \in response' : Same(m, c)
<1>1. PICK m \in handler[h].msg :
          LET copies == Copies \ {a.copy : a \in RowsOf(m)} IN
          response' = response \cup
              IF m.elem \notin Open \/ copies = {} THEN {}
              ELSE {[elem |-> m.elem, subtask |-> m.subtask, md5 |-> m.md5,
                     copy |-> Min(copies), status |-> "fetched"]}
  BY DEF Store
<1> DEFINE copies == Copies \ {a.copy : a \in RowsOf(m)}
           new == [elem |-> m.elem, subtask |-> m.subtask, md5 |-> m.md5,
                   copy |-> Min(copies), status |-> "fetched"]
<1>2. Same(m, new) /\ new.status = "fetched"
  BY DEF Same
<1>3. response' = response \cup IF m.elem \notin Open \/ copies = {} THEN {} ELSE {new}
  BY <1>1
<1>4. copies = {} => \E c \in response : Same(m, c)
  <2> SUFFICES ASSUME copies = {} PROVE \E c \in response : Same(m, c)
    OBVIOUS
  <2>1. 1 \in Copies
    BY DEF Copies
  <2>2. PICK c \in RowsOf(m) : c.copy = 1
    BY <2>1
  <2> QED
    BY <2>2 DEF RowsOf, Same
<1> HIDE DEF copies, new
<1> QED
  BY <1>2, <1>3, <1>4

\* What a process that handles answers moves, and from where.
LEMMA HandlerMoves ==
    ASSUME TypeOK, NEW h \in Handlers, HandlerStep(h) \/ HandlerDies(h)
    PROVE  /\ queue' \subseteq queue /\ UNCHANGED <<cluster, batch>>
           /\ \A o \in Handlers :
                 /\ handler'[o].msg \subseteq handler[o].msg \cup queue
                 /\ handler'[o].now \cup handler'[o].list
                       \subseteq handler[o].now \cup handler[o].list \cup response
           /\ \A c \in response' :
                 \/ \E b \in response : Same(b, c)
                 \/ \E m \in handler[h].msg : Same(m, c) /\ m.elem \in Open
<1>1. queue' \subseteq queue /\ UNCHANGED <<cluster, batch>>
  BY DEF HandlerStep, Fetch, Store, List, Process, Handle, HandlerDies
<1>2. ASSUME NEW o \in Handlers
      PROVE  /\ handler'[o].msg \subseteq handler[o].msg \cup queue
             /\ handler'[o].now \cup handler'[o].list
                   \subseteq handler[o].now \cup handler[o].list \cup response
  <2>1. CASE o = h
    BY <2>1, HandlerRows
  <2>2. CASE o # h
    <3>1. handler'[o] = handler[o]
      BY <2>2, HandlerRows
    <3> QED
      BY <3>1
  <2> QED
    BY <2>1, <2>2
<1>3. ASSUME NEW c \in response'
      PROVE  \/ \E b \in response : Same(b, c)
             \/ \E m \in handler[h].msg : Same(m, c) /\ m.elem \in Open
  <2>0. Same(c, c)
    BY DEF Same
  <2>1. CASE Store(h)
    BY <2>0, <2>1, StoredResponse
  <2>2. CASE Process(h) \/ Handle(h)
    <3>1. PICK a \in Response, s \in {"processing", "handled"} : SetStatus(a, s)
      BY <2>2, Fields DEF Process, Handle
    <3> QED
      BY <3>1, StatusKeeps
  <2>3. CASE Fetch(h) \/ List(h) \/ HandlerDies(h)
    BY <2>0, <2>3 DEF Fetch, List, HandlerDies
  <2> QED
    BY <2>1, <2>2, <2>3 DEF HandlerStep
<1> QED
  BY <1>1, <1>2, <1>3

\* What is under way stays of elements that were made.
LEMMA ElementsAreMadeStep ==
    ASSUME TypeOK, ElementsAreMade, Next
    PROVE  ElementsAreMade'
<1>0. /\ cluster \cap Unused = {}
      /\ \A b \in Batches : batch[b].group \cap Unused = {}
      /\ \A m \in queue : m.elem \notin Unused
      /\ \A h \in Handlers : \A m \in Held(h) : m.elem \notin Unused
      /\ \A a \in response : a.elem \in Open
  BY DEF ElementsAreMade
<1>00. Open \cap Unused = {} /\ Unsent \subseteq Open
  BY DEF Open, Unused, Unsent
<1>1. CASE \E e \in Elements : DestroyComplete(e)
  <2>1. PICK e \in Elements : DestroyComplete(e)
    BY <1>1
  <2>2. /\ Open' = Open \ {e} /\ Unused' = Unused
        /\ response' = {a \in response : a.elem # e}
        /\ UNCHANGED <<cluster, queue, batch, handler>>
    BY <2>1, DestroyedElement
  <2> QED
    BY <1>0, <2>2 DEF ElementsAreMade, Held
<1>2. CASE ~\E e \in Elements : DestroyComplete(e)
  <2>1. Unused' \subseteq Unused /\ Open \subseteq Open'
    BY <1>2, ElementSteps, StayedElements, MadeElements
  <2>2. ASSUME NEW f \in Files, RunInitialAssessment(f) \/ Overwrite(f) PROVE ElementsAreMade'
    <3>1. UNCHANGED <<cluster, queue, response, batch, handler>>
      BY <2>2 DEF RunInitialAssessment, Overwrite, procs
    <3> QED
      BY <1>0, <2>1, <3>1 DEF ElementsAreMade, Held
  <2>3. CASE ResetStale
    <3>1. UNCHANGED <<cluster, queue, batch, handler>>
      BY <2>3 DEF ResetStale, procs
    <3>2. response' \subseteq response
      BY <2>3 DEF ResetStale, Reset
    <3> QED
      BY <1>0, <2>1, <3>1, <3>2 DEF ElementsAreMade, Held
  <2>4. ASSUME NEW e \in Elements, Assess(e) \/ AssessFails(e) PROVE ElementsAreMade'
    <3>1. e \in cluster /\ cluster' \subseteq cluster /\ UNCHANGED <<response, batch, handler>>
      BY <2>4 DEF Assess, AssessFails, procs
    <3>2. \A m \in queue' : m \in queue \/ m.elem = e
      BY <2>4 DEF Assess, AssessFails, Answer
    <3> QED
      BY <1>0, <2>1, <3>1, <3>2 DEF ElementsAreMade, Held
  <2>5. ASSUME NEW b \in Batches, BatchStep(b) \/ BatchFails(b) PROVE ElementsAreMade'
    <3>1. UNCHANGED <<queue, response, handler>>
      BY <2>5 DEF BatchStep, Pick, MarkSent, RunTask, BatchFails
    <3>2. cluster' \subseteq cluster \cup Open
      BY <2>5 DEF BatchStep, Pick, MarkSent, RunTask, BatchFails
    <3>3. \A o \in Batches : batch'[o].group \subseteq batch[o].group \cup Unsent
      <4>1. batch'[b].group \subseteq batch[b].group \cup Unsent
        BY <2>5, BatchRows
      <4>2. \A o \in Batches \ {b} : batch'[o] = batch[o]
        BY <2>5, BatchRows
      <4> QED
        BY <4>1, <4>2
    <3> QED
      BY <1>0, <1>00, <2>1, <3>1, <3>2, <3>3 DEF ElementsAreMade, Held
  <2>6. ASSUME NEW h \in Handlers, HandlerStep(h) \/ HandlerDies(h) PROVE ElementsAreMade'
    <3>1. /\ queue' \subseteq queue /\ UNCHANGED <<cluster, batch>>
          /\ \A o \in Handlers :
                /\ handler'[o].msg \subseteq handler[o].msg \cup queue
                /\ handler'[o].now \cup handler'[o].list
                      \subseteq handler[o].now \cup handler[o].list \cup response
          /\ \A c \in response' : c.elem \in Open
      BY <1>0, <2>6, HandlerMoves DEF Same
    <3>2. \A o \in Handlers : \A m \in Held(o)' : m \in Held(o) \cup queue \cup response
      BY <3>1 DEF Held
    <3> QED
      BY <1>0, <1>00, <2>1, <3>1, <3>2 DEF ElementsAreMade
  <2> QED
    BY <1>2, <2>2, <2>3, <2>4, <2>5, <2>6 DEF Next
<1> QED
  BY <1>1, <1>2

------------------------------------------------------------------------------
(* What is sent is not lost *)

\* The work of an element, or its answer, is somewhere.
Carried(e) ==
    \/ e \in cluster \/ \E a \in response : a.elem = e
    \/ \E b \in Batches : e \in batch[b].group
    \/ \E m \in queue : m.elem = e
    \/ \E h \in Handlers : \E m \in handler[h].msg : m.elem = e

\* The property, by the places an element's work may be.
LEMMA LoseNothing == OnlyFailuresLose <=> \A e \in Open \ dropped : element[e].sent => Carried(e)
BY DEF OnlyFailuresLose, Carried, ResponsesOf

\* Only a batch marks an element sent, and the batch has it then.
LEMMA SentIsCarried ==
    ASSUME TypeOK, OnlyFailuresLose, Next,
           NEW e \in Elements, e \in Open', e \notin dropped', element'[e].sent
    PROVE  Carried(e) /\ e \in Open /\ e \notin dropped
<1>0. \A o \in Elements : element[o].sent \in BOOLEAN
  BY Fields DEF Element
<1>1. CASE dropped \subseteq dropped' /\ e \in Open /\ element[e].sent
  BY <1>1, LoseNothing
<1>2. ASSUME NEW f \in Files, RunInitialAssessment(f) \/ Overwrite(f)
      PROVE  dropped \subseteq dropped' /\ e \in Open /\ element[e].sent
  <2>1. dropped' = dropped
    BY <1>2 DEF RunInitialAssessment, Overwrite, history
  <2>2. UNCHANGED element \/ \E o \in Elements : Made(o, f, FALSE)
    <3>1. UNCHANGED element \/ (Unused # {} /\ element' = Create(f, FALSE))
      BY <1>2 DEF RunInitialAssessment, Overwrite
    <3> QED
      BY <3>1, CreateMakes
  <2> QED
    BY <2>1, <2>2 DEF Made, Open
<1>3. CASE ResetStale
  <2>1. PICK es : Reset(es)
    BY <1>3 DEF ResetStale
  <2>2. /\ dropped' = dropped \ es /\ e \notin es /\ element'[e] = element[e]
    BY <2>1, ResetKeeps
  <2>3. e \in Open /\ e \notin dropped /\ element[e].sent
    BY <2>2 DEF Open
  <2> QED
    BY <2>3, LoseNothing
<1>4. ASSUME NEW o \in Elements, DestroyComplete(o) \/ Assess(o) \/ AssessFails(o)
      PROVE  dropped \subseteq dropped' /\ e \in Open /\ element[e].sent
  <2>1. CASE DestroyComplete(o)
    BY <2>1, DestroyedElement
  <2>2. CASE Assess(o) \/ AssessFails(o)
    BY <2>2 DEF Assess, AssessFails, Open, history
  <2> QED
    BY <1>4, <2>1, <2>2
<1>5. ASSUME NEW b \in Batches, BatchStep(b) \/ BatchFails(b)
      PROVE  Carried(e) /\ e \in Open /\ e \notin dropped
  <2>1. dropped \subseteq dropped'
    BY <1>5 DEF BatchStep, Pick, MarkSent, RunTask, BatchFails, history
  <2>2. CASE UNCHANGED element
    <3>1. e \in Open /\ element[e].sent
      BY <2>2 DEF Open
    <3> QED
      BY <1>1, <2>1, <3>1
  <2>3. CASE element' = Sent(batch[b].group)
    <3>1. /\ element'[e].is = element[e].is
          /\ element'[e].sent =
                (element[e].sent \/ (e \in batch[b].group /\ element[e].is = "open"))
      BY <2>3, SentKeeps
    <3>2. e \in Open /\ (element[e].sent \/ e \in batch[b].group)
      BY <3>1 DEF Open
    <3>3. CASE element[e].sent
      BY <1>1, <2>1, <3>2, <3>3
    <3>4. CASE e \in batch[b].group
      BY <2>1, <3>2, <3>4 DEF Carried
    <3> QED
      BY <3>2, <3>3, <3>4
  <2> QED
    BY <1>5, <2>2, <2>3 DEF BatchStep, Pick, MarkSent, RunTask, BatchFails
<1>6. ASSUME NEW h \in Handlers, HandlerStep(h) \/ HandlerDies(h)
      PROVE  dropped \subseteq dropped' /\ e \in Open /\ element[e].sent
  <2>1. dropped \subseteq dropped'
    BY <1>6 DEF HandlerStep, Fetch, Store, List, Process, Handle, HandlerDies, history
  <2>2. UNCHANGED element \/ \E f \in Files, o \in Elements : Made(o, f, TRUE)
    <3>1. CASE Handle(h)
      <4>1. PICK a \in handler[h].now :
                UNCHANGED element \/ (Unused # {} /\ element' = Create(Of(a), TRUE))
        BY <3>1, HandleRecords DEF HandledFits, HandledChecksum, HandledError
      <4>2. Of(a) \in Files
        BY Fields DEF Of
      <4> QED
        BY <4>1, <4>2, CreateMakes
    <3>2. CASE ~Handle(h)
      BY <1>6, <3>2 DEF HandlerStep, Fetch, Store, List, Process, HandlerDies
    <3> QED
      BY <3>1, <3>2
  <2> QED
    BY <2>1, <2>2 DEF Made, Open
<1> QED
  BY <1>1, <1>2, <1>3, <1>4, <1>5, <1>6 DEF Next

\* Each step hands on what it takes, or a failure records that it is lost.
LEMMA CarriedStep ==
    ASSUME TypeOK, OneMessage, IdleIsEmpty, Next,
           NEW e \in Elements, Carried(e), e \in Open, e \in Open', e \notin dropped',
           element'[e].sent
    PROVE  Carried(e)'
<1>1. ASSUME NEW f \in Files, RunInitialAssessment(f) \/ Overwrite(f) PROVE Carried(e)'
  <2>1. UNCHANGED <<cluster, queue, response, batch, handler>>
    BY <1>1 DEF RunInitialAssessment, Overwrite, procs
  <2> QED
    BY <2>1 DEF Carried
<1>2. CASE ResetStale
  <2>1. PICK es : Reset(es)
    BY <1>2 DEF ResetStale
  <2>2. response' = {a \in response : a.elem \notin es} /\ e \notin es
    BY <2>1, ResetKeeps
  <2>3. UNCHANGED <<cluster, queue, batch, handler>>
    BY <1>2 DEF ResetStale, procs
  <2> QED
    BY <2>2, <2>3 DEF Carried
<1>3. ASSUME NEW o \in Elements, DestroyComplete(o) PROVE Carried(e)'
  <2>1. /\ o # e /\ response' = {a \in response : a.elem # o}
        /\ UNCHANGED <<cluster, queue, batch, handler>>
    BY <1>3, DestroyedElement
  <2> QED
    BY <2>1 DEF Carried
<1>4. ASSUME NEW o \in Elements, Assess(o) \/ AssessFails(o) PROVE Carried(e)'
  <2>1. /\ cluster' = cluster \ {o} /\ queue \subseteq queue'
        /\ UNCHANGED <<response, batch, handler>>
    BY <1>4 DEF Assess, AssessFails, procs
  <2>2. CASE Assess(o)
    <3>1. PICK subtask, v : Answer(o, subtask, v) \in queue'
      BY <2>2 DEF Assess
    <3>2. Answer(o, subtask, v).elem = o
      BY DEF Answer
    <3> QED
      BY <2>1, <3>1, <3>2 DEF Carried
  <2>3. CASE AssessFails(o)
    <3>1. o # e
      BY <2>3 DEF AssessFails
    <3> QED
      BY <2>1, <3>1 DEF Carried
  <2> QED
    BY <1>4, <2>2, <2>3
<1>5. ASSUME NEW b \in Batches, BatchStep(b) \/ BatchFails(b) PROVE Carried(e)'
  <2>1. UNCHANGED <<queue, response, handler>> /\ cluster \subseteq cluster'
    BY <1>5 DEF BatchStep, Pick, MarkSent, RunTask, BatchFails
  <2>2. \A c \in Batches \ {b} : batch'[c] = batch[c]
    BY <1>5, BatchRows
  <2>3. e \in batch[b].group => e \in batch'[b].group \/ e \in cluster'
    <3>1. CASE Pick(b)
      BY <3>1 DEF Pick, IdleIsEmpty
    <3>2. CASE ~Pick(b)
      <4>1. CASE MarkSent(b) /\ batch'[b].group = batch[b].group
        BY <4>1
      <4>2. CASE RunTask(b)
        BY <4>2 DEF RunTask
      <4>3. CASE BatchFails(b)
        <5>1. element[e].sent
          BY <4>3 DEF BatchFails
        <5>2. e \in batch[b].group => e \in cluster'
          BY <4>3, <5>1 DEF BatchFails
        <5> QED
          BY <5>2
      <4> QED
        BY <1>5, <3>2, <4>1, <4>2, <4>3, BatchRows
    <3> QED
      BY <3>1, <3>2
  <2> QED
    BY <2>1, <2>2, <2>3 DEF Carried
<1>6. ASSUME NEW h \in Handlers, HandlerStep(h) \/ HandlerDies(h) PROVE Carried(e)'
  <2>1. UNCHANGED <<cluster, batch>>
    BY <1>6, HandlerMoves
  <2>2. (\E a \in response : a.elem = e) => \E a \in response' : a.elem = e
    <3>1. CASE Store(h)
      BY <3>1, StoredResponse
    <3>2. CASE Process(h) \/ Handle(h)
      <4>1. PICK a \in Response, s \in {"processing", "handled"} : SetStatus(a, s)
        BY <3>2, Fields DEF Process, Handle
      <4> QED
        BY <4>1, StatusKeeps DEF Same
    <3>3. CASE Fetch(h) \/ List(h) \/ HandlerDies(h)
      BY <3>3 DEF Fetch, List, HandlerDies
    <3> QED
      BY <1>6, <3>1, <3>2, <3>3 DEF HandlerStep
  <2>3. \A m \in queue : m \in queue' \/ \E o \in Handlers : m \in handler'[o].msg
    <3>1. CASE Fetch(h)
      <4>1. PICK m \in queue : /\ queue' = queue \/ queue' = queue \ {m}
                              /\ handler' = [handler EXCEPT ![h].pc = "fetched", ![h].msg = {m}]
        BY <3>1 DEF Fetch
      <4>2. m \in handler'[h].msg
        BY <4>1, Fields DEF TypeOK, Handler
      <4> QED
        BY <4>1, <4>2
    <3>2. CASE ~Fetch(h)
      BY <1>6, <3>2 DEF HandlerStep, Store, List, Process, Handle, HandlerDies
    <3> QED
      BY <3>1, <3>2
  <2>4. ASSUME NEW o \in Handlers, NEW m \in handler[o].msg, m.elem = e
        PROVE  \/ m \in handler'[o].msg
               \/ \E a \in response' : a.elem = e
    <3>1. CASE o # h
      BY <1>6, <3>1, HandlerRows
    <3>2. CASE o = h /\ Store(h)
      <4>1. handler[h].msg = {m}
        BY <2>4, <3>2 DEF OneMessage
      <4> QED
        BY <2>4, <3>2, <4>1, StoredResponse DEF Same
    <3>3. CASE o = h /\ HandlerDies(h)
      BY <2>4, <3>3 DEF HandlerDies
    <3>4. CASE o = h /\ ~Store(h) /\ ~HandlerDies(h)
      <4>1. handler[h].pc = "fetched"
        BY <2>4, <3>4 DEF OneMessage
      <4> QED
        BY <1>6, <3>4, <4>1 DEF HandlerStep, Fetch, List, Process, Handle
    <3> QED
      BY <3>1, <3>2, <3>3, <3>4
  <2> QED
    BY <2>1, <2>2, <2>3, <2>4 DEF Carried
<1> QED
  BY <1>1, <1>2, <1>3, <1>4, <1>5, <1>6 DEF Next

\* What is marked sent is carried, and stays so.
LEMMA OnlyFailuresLoseStep ==
    ASSUME TypeOK, OneMessage, IdleIsEmpty, OnlyFailuresLose, Next
    PROVE  OnlyFailuresLose'
<1>1. ASSUME NEW e \in Elements, e \in Open', e \notin dropped', element'[e].sent
      PROVE  Carried(e)'
  BY <1>1, SentIsCarried, CarriedStep
<1>2. Open' \subseteq Elements
  BY DEF Open
<1>3. \A e \in (Open \ dropped)' : element'[e].sent => Carried(e)'
  BY <1>1, <1>2
<1> QED
  BY <1>3 DEF OnlyFailuresLose, Carried, ResponsesOf

\* A batch puts its group down when it ends.
LEMMA IdleIsEmptyStep ==
    ASSUME TypeOK, IdleIsEmpty, Next
    PROVE  IdleIsEmpty'
<1>1. CASE batch' = batch
  BY <1>1 DEF IdleIsEmpty
<1>2. ASSUME NEW b \in Batches, BatchStep(b) \/ BatchFails(b) PROVE IdleIsEmpty'
  <2>1. batch'[b].pc = "idle" => batch'[b].group = {}
    BY <1>2, BatchRows
  <2>2. \A c \in Batches \ {b} : batch'[c] = batch[c]
    BY <1>2, BatchRows
  <2> QED
    BY <2>1, <2>2 DEF IdleIsEmpty
<1>3. batch' = batch \/ \E b \in Batches : BatchStep(b) \/ BatchFails(b)
  BY DEF Next, RunInitialAssessment, Overwrite, ResetStale, DestroyComplete, Assess, AssessFails,
         HandlerStep, Fetch, Store, List, Process, Handle, HandlerDies, procs
<1> QED
  BY <1>1, <1>2, <1>3

------------------------------------------------------------------------------
(* Steps that record nothing *)

\* Nothing recorded changes, and no answer comes about that was not there.
Quiet ==
    /\ UNCHANGED <<content, md5, fixity, fits, sized, serialized, pending, raced>>
    /\ ElementsStay
    /\ \A m \in Message \cup Response : Counts(m)' /\ m.subtask # "error" =>
          \E c \in Message \cup Response : Same(c, m) /\ Counts(c)
    /\ \A c \in response' : c.status = "handled" =>
          \E b \in response : Same(b, c) /\ b.status = "handled"
    /\ \A h \in Handlers : \A a \in handler'[h].now \cup handler'[h].list :
          a \in response \/ \E o \in Handlers : a \in handler[o].now \cup handler[o].list

\* Such a step breaks nothing that is said of what is recorded.
LEMMA QuietKeeps ==
    ASSUME TypeOK, TypeOK', ElementsAreMade, Recorded, Quiet
    PROVE  Recorded'
<1>0. /\ FitsAreCurrent /\ AnswersAreCurrent /\ PendingIsFresh /\ HandledIsRecorded
      /\ FixityIsTruthful /\ AssessedIsDescribed
  BY DEF Recorded
<1>1. UNCHANGED <<content, md5, fixity, fits, sized, serialized, pending, raced>>
  BY DEF Quiet
<1>2. /\ \A e \in Elements : /\ element'[e].file = element[e].file
                             /\ element'[e].checksum = element[e].checksum
      /\ Open' = Open /\ \A f \in Files : OpenOf(f)' = OpenOf(f)
  BY StayedElements DEF Quiet, ElementsStay
<1>3. \A m \in Message \cup Response : Of(m)' = Of(m)
  BY <1>2, Fields DEF Of
<1>4. FitsAreCurrent'
  BY <1>0, <1>1 DEF FitsAreCurrent
<1>5. AnswersAreCurrent'
  <2> SUFFICES ASSUME NEW m \in Message \cup Response, Counts(m)', Of(m)' \notin raced'
               PROVE  /\ m.subtask = "checksum" => m.md5 = content'[Of(m)']
                      /\ m.subtask = "fits" => fits'[Of(m)'] # "none"
    BY DEF AnswersAreCurrent
  <2>1. CASE m.subtask # "error"
    <3>1. PICK c \in Message \cup Response : Same(c, m) /\ Counts(c)
      BY <2>1 DEF Quiet
    <3>2. Of(c) = Of(m) /\ c.subtask = m.subtask /\ c.md5 = m.md5
      BY <3>1 DEF Same, Of
    <3>3. Of(c) \notin raced
      BY <1>1, <1>3, <3>2
    <3> QED
      BY <1>0, <1>1, <1>3, <3>1, <3>2, <3>3 DEF AnswersAreCurrent
  <2> QED
    BY <2>1
<1>6. PendingIsFresh'
  <2> SUFFICES ASSUME NEW f \in Files, f \notin raced, pending[f]
               PROVE  /\ OpenOf(f) = {} /\ ~sized[f]
                      /\ \A h \in Handlers : \A a \in handler'[h].now \cup handler'[h].list :
                            Of(a)' # f
    BY <1>1, <1>2 DEF PendingIsFresh
  <2>1. /\ OpenOf(f) = {} /\ ~sized[f]
        /\ \A h \in Handlers : \A a \in handler[h].now \cup handler[h].list : Of(a) # f
    BY <1>0 DEF PendingIsFresh
  <2>2. ASSUME NEW a \in response PROVE Of(a) # f
    BY <2>1 DEF ElementsAreMade, OpenOf, Of
  <2>3. ASSUME NEW h \in Handlers, NEW a \in handler'[h].now \cup handler'[h].list
        PROVE  Of(a)' # f
    <3>1. a \in response \/ \E o \in Handlers : a \in handler[o].now \cup handler[o].list
      BY DEF Quiet
    <3>2. a \in Response
      BY <3>1, Fields DEF TypeOK
    <3> QED
      BY <1>3, <2>1, <2>2, <3>1, <3>2
  <2> QED
    BY <2>1, <2>3
<1>7. HandledIsRecorded'
  <2>1. ASSUME NEW c \in response', c.subtask = "fits", c.status = "handled", Of(c)' \notin raced
        PROVE  serialized[Of(c)']
    <3>1. PICK b \in response : Same(b, c) /\ b.status = "handled"
      BY <2>1 DEF Quiet
    <3>2. Of(c) = Of(b) /\ b.subtask = "fits"
      BY <2>1, <3>1 DEF Same, Of
    <3>3. Of(c)' = Of(c)
      BY <1>3 DEF TypeOK
    <3> QED
      BY <1>0, <2>1, <3>1, <3>2, <3>3 DEF HandledIsRecorded
  <2>2. \A e \in Open : element'[e].checksum /\ element'[e].file \notin raced =>
            serialized[element'[e].file]
    BY <1>0, <1>2 DEF HandledIsRecorded, Open
  <2> QED
    BY <1>1, <1>2, <2>1, <2>2 DEF HandledIsRecorded
<1>8. FixityIsTruthful'
  BY <1>0, <1>1 DEF FixityIsTruthful
<1>9. AssessedIsDescribed'
  BY <1>0, <1>1, <1>2 DEF AssessedIsDescribed
<1> QED
  BY <1>4, <1>5, <1>6, <1>7, <1>8, <1>9 DEF Recorded

\* Most steps are such.
LEMMA QuietSteps ==
    ASSUME TypeOK, TypeOK', ElementsAreMade,
           \/ ResetStale
           \/ \E e \in Elements : AssessFails(e)
           \/ \E b \in Batches : BatchStep(b) \/ BatchFails(b)
           \/ \E h \in Handlers : (HandlerStep(h) /\ ~Handle(h)) \/ HandlerDies(h)
    PROVE  Quiet
<1>0. \A c : Same(c, c)
  BY DEF Same
<1>1. CASE ResetStale
  <2>1. PICK es : Reset(es)
    BY <1>1 DEF ResetStale
  <2>2. ElementsStay /\ response' = {a \in response : a.elem \notin es}
    BY <2>1, ResetKeeps DEF ElementsStay
  <2>3. UNCHANGED <<content, md5, fixity, fits, sized, serialized, pending, raced, queue, handler>>
    BY <1>1 DEF ResetStale, record, procs
  <2>4. \A m : Counts(m)' => Counts(m)
    BY <2>2, <2>3, StayedElements DEF Counts
  <2> QED
    BY <1>0, <2>2, <2>3, <2>4 DEF Quiet
<1>2. ASSUME NEW e \in Elements, AssessFails(e) PROVE Quiet
  <2>1. UNCHANGED <<content, md5, fixity, fits, sized, serialized, pending, raced, element,
                    response, handler>>
    BY <1>2 DEF AssessFails, record, procs
  <2>2. ElementsStay
    BY <2>1 DEF ElementsStay
  <2>3. \A m \in queue' : m \in queue \/ m.subtask = "error"
    BY <1>2 DEF AssessFails, Answer
  <2>4. \A m : Counts(m)' /\ m.subtask # "error" => Counts(m)
    BY <2>1, <2>2, <2>3, StayedElements DEF Counts
  <2> QED
    BY <1>0, <2>1, <2>2, <2>4 DEF Quiet
<1>3. ASSUME NEW b \in Batches, BatchStep(b) \/ BatchFails(b) PROVE Quiet
  <2>1. UNCHANGED <<content, md5, fixity, fits, sized, serialized, pending, raced, queue, response,
                    handler>>
    BY <1>3 DEF BatchStep, Pick, MarkSent, RunTask, BatchFails, record, history
  <2>2. ElementsStay
    <3>1. UNCHANGED element \/ \E es : element' = Sent(es)
      BY <1>3 DEF BatchStep, Pick, MarkSent, RunTask, BatchFails
    <3>2. ASSUME NEW es, element' = Sent(es) PROVE ElementsStay
      BY <3>2, SentKeeps DEF ElementsStay
    <3> QED
      BY <3>1, <3>2 DEF ElementsStay
  <2>3. \A m : Counts(m)' => Counts(m)
    BY <2>1, <2>2, StayedElements DEF Counts
  <2> QED
    BY <1>0, <2>1, <2>2, <2>3 DEF Quiet
<1>4. ASSUME NEW h \in Handlers, (HandlerStep(h) /\ ~Handle(h)) \/ HandlerDies(h) PROVE Quiet
  <2>1. UNCHANGED <<content, md5, fixity, fits, sized, serialized, pending, raced, element>>
    BY <1>4 DEF HandlerStep, Fetch, Store, List, Process, HandlerDies, record, history
  <2>2. ElementsStay
    BY <2>1 DEF ElementsStay
  <2>3. /\ queue' \subseteq queue
        /\ \A o \in Handlers :
              /\ handler'[o].msg \subseteq handler[o].msg \cup queue
              /\ handler'[o].now \cup handler'[o].list
                    \subseteq handler[o].now \cup handler[o].list \cup response
        /\ \A c \in response' :
              \/ \E b \in response : Same(b, c)
              \/ \E m \in handler[h].msg : Same(m, c) /\ m.elem \in Open
    BY <1>4, HandlerMoves
  <2>4. ASSUME NEW m \in Message \cup Response, Counts(m)'
        PROVE  \E c \in Message \cup Response : Same(c, m) /\ Counts(c)
    <3>1. /\ \A o \in Handlers : handler[o].msg \subseteq Message
          /\ response \subseteq Response
      BY Fields DEF TypeOK
    <3>2. CASE m \in response'
      BY <2>3, <3>1, <3>2 DEF Counts
    <3>3. CASE m \notin response'
      <4>1. Counts(m)
        BY <2>2, <2>3, <2>4, <3>3, StayedElements DEF Counts
      <4> QED
        BY <1>0, <4>1
    <3> QED
      BY <3>2, <3>3
  <2>5. ASSUME NEW c \in response', c.status = "handled"
        PROVE  \E b \in response : Same(b, c) /\ b.status = "handled"
    <3>1. CASE Store(h)
      BY <1>0, <2>5, <3>1, StoredResponse
    <3>2. CASE Process(h)
      <4>1. PICK a \in Response : SetStatus(a, "processing")
        BY <3>2, Fields DEF Process
      <4> QED
        BY <2>5, <4>1, StatusKeeps
    <3>3. CASE Fetch(h) \/ List(h) \/ HandlerDies(h)
      BY <1>0, <2>5, <3>3 DEF Fetch, List, HandlerDies
    <3> QED
      BY <1>4, <3>1, <3>2, <3>3 DEF HandlerStep
  <2> QED
    BY <2>1, <2>2, <2>3, <2>4, <2>5 DEF Quiet
<1> QED
  BY <1>1, <1>2, <1>3, <1>4

------------------------------------------------------------------------------
(* Steps that record *)

\* An element that is made had no answers: what counts is of the same file.
LEMMA MadeHasNoAnswer ==
    ASSUME TypeOK, ElementsAreMade,
           NEW e, NEW f, NEW checksum, Made(e, f, checksum) \/ UNCHANGED element
    PROVE  /\ \A m \in queue : Of(m)' = Of(m) /\ (m.elem \in Open' => m.elem \in Open)
           /\ \A h \in Handlers : \A m \in Held(h) :
                 Of(m)' = Of(m) /\ (m.elem \in Open' => m.elem \in Open)
           /\ \A a \in response : Of(a)' = Of(a) /\ a.elem \in Open
<1>0. ASSUME NEW m, m.elem \in Elements, m.elem \notin Unused
      PROVE  Of(m)' = Of(m) /\ (m.elem \in Open' => m.elem \in Open)
  <2>1. CASE UNCHANGED element
    BY <2>1 DEF Of, Open
  <2>2. CASE Made(e, f, checksum)
    <3>1. m.elem # e
      BY <1>0, <2>2 DEF Made, Unused
    <3>2. element'[m.elem] = element[m.elem]
      BY <1>0, <2>2, <3>1 DEF Made
    <3> QED
      BY <3>2 DEF Of, Open
  <2> QED
    BY <2>1, <2>2
<1>1. Open \cap Unused = {}
  BY DEF Open, Unused
<1>2. ASSUME NEW m \in queue PROVE m.elem \in Elements /\ m.elem \notin Unused
  BY Fields DEF ElementsAreMade, TypeOK
<1>3. ASSUME NEW h \in Handlers, NEW m \in Held(h) PROVE m.elem \in Elements /\ m.elem \notin Unused
  <2>1. m \in Message \cup Response
    BY Fields DEF Held
  <2> QED
    BY <2>1, Fields DEF ElementsAreMade
<1>4. ASSUME NEW a \in response PROVE a.elem \in Elements /\ a.elem \notin Unused /\ a.elem \in Open
  BY <1>1 DEF ElementsAreMade, Open
<1> QED
  BY <1>0, <1>2, <1>3, <1>4

\* An assessment that is due makes an element: the file has no size yet.
LEMMA InitialAssessmentKeeps ==
    ASSUME TypeOK, ElementsAreMade, Recorded, NEW f \in Files, RunInitialAssessment(f)
    PROVE  Recorded'
<1>0. /\ FitsAreCurrent /\ AnswersAreCurrent /\ PendingIsFresh /\ HandledIsRecorded
      /\ FixityIsTruthful /\ AssessedIsDescribed
  BY DEF Recorded
<1>1. /\ UNCHANGED <<content, fixity, fits, serialized, queue, response, handler, raced>>
      /\ pending' = [pending EXCEPT ![f] = FALSE] /\ pending[f] /\ OpenOf(f) = {}
  BY DEF RunInitialAssessment, procs, history
<1>2. /\ ~pending'[f] /\ \A g \in Files \ {f} : pending'[g] = pending[g]
      /\ \A g \in Files \ {f} : sized'[g] = sized[g] /\ md5'[g] = md5[g]
      /\ md5'[f] \in {md5[f], content[f]}
  BY <1>1 DEF RunInitialAssessment, TypeOK
<1>3. \/ UNCHANGED element /\ sized[f]
      \/ \E e \in Elements : Made(e, f, FALSE)
  <2>1. (UNCHANGED element /\ sized[f]) \/ (Unused # {} /\ element' = Create(f, FALSE))
    BY DEF RunInitialAssessment
  <2> QED
    BY <2>1, CreateMakes
<1>4. PICK e \in Elements : \/ UNCHANGED element /\ sized[f]
                            \/ Made(e, f, FALSE)
  <2>1. Elements # {}
    BY DEF RunInitialAssessment, Unused
  <2> QED
    BY <1>3, <2>1
<1>5. /\ \A m \in queue : Of(m)' = Of(m) /\ (m.elem \in Open' => m.elem \in Open)
      /\ \A h \in Handlers : \A m \in Held(h) :
            Of(m)' = Of(m) /\ (m.elem \in Open' => m.elem \in Open)
      /\ \A a \in response : Of(a)' = Of(a)
  BY <1>4, MadeHasNoAnswer
<1>6. \A m : Counts(m)' => Counts(m) /\ Of(m)' = Of(m)
  BY <1>1, <1>5 DEF Counts, Held
<1>7. /\ \A g \in Files \ {f} : OpenOf(g)' = OpenOf(g)
      /\ sized[f] \/ OpenOf(f)' # {}
      /\ Open' \subseteq Open \cup {o \in Elements : ~element'[o].checksum}
      /\ \A o \in Open : element'[o] = element[o]
  <2>1. CASE UNCHANGED element /\ sized[f]
    BY <2>1 DEF OpenOf, Open
  <2>2. CASE Made(e, f, FALSE)
    <3>1. /\ Open' = Open \cup {e} /\ e \notin Open /\ ~element'[e].checksum
          /\ \A o \in Elements \ {e} : element'[o] = element[o]
      BY <2>2, MadeElements DEF Made
    <3> QED
      BY <2>2, <3>1, MadeElements DEF Open
  <2> QED
    BY <1>4, <2>1, <2>2
<1>8. FitsAreCurrent'
  BY <1>0, <1>1 DEF FitsAreCurrent
<1>9. AnswersAreCurrent'
  BY <1>0, <1>1, <1>6 DEF AnswersAreCurrent
<1>10. PendingIsFresh'
  <2> SUFFICES ASSUME NEW g \in Files, g \notin raced, pending'[g]
               PROVE  /\ OpenOf(g)' = {} /\ ~sized'[g]
                      /\ \A h \in Handlers : \A a \in handler[h].now \cup handler[h].list :
                            Of(a)' # g
    BY <1>1 DEF PendingIsFresh
  <2>1. g # f /\ pending[g]
    BY <1>2
  <2> QED
    BY <1>0, <1>2, <1>5, <1>7, <2>1 DEF PendingIsFresh, Held
<1>11. HandledIsRecorded'
  <2>1. \A a \in response : a.subtask = "fits" /\ a.status = "handled" /\ Of(a)' \notin raced =>
            serialized[Of(a)']
    BY <1>0, <1>5 DEF HandledIsRecorded
  <2>2. \A o \in Open' : element'[o].checksum /\ element'[o].file \notin raced =>
            serialized[element'[o].file]
    BY <1>0, <1>7 DEF HandledIsRecorded
  <2> QED
    BY <1>1, <2>1, <2>2 DEF HandledIsRecorded
<1>12. FixityIsTruthful'
  BY <1>0, <1>1, <1>2 DEF FixityIsTruthful
<1>13. AssessedIsDescribed'
  <2> SUFFICES ASSUME NEW g \in Files, g \notin raced, ~pending'[g], OpenOf(g)' = {}
               PROVE  md5'[g] # "none" /\ serialized[g]
    BY <1>1 DEF AssessedIsDescribed
  <2>1. CASE g = f
    BY <1>0, <1>1, <1>7, <2>1 DEF PendingIsFresh
  <2>2. CASE g # f
    BY <1>0, <1>2, <1>7, <2>2 DEF AssessedIsDescribed
  <2> QED
    BY <2>1, <2>2
<1> QED
  BY <1>8, <1>9, <1>10, <1>11, <1>12, <1>13 DEF Recorded

\* Content that is replaced has nothing under way, or its file is raced.
LEMMA OverwriteKeeps ==
    ASSUME TypeOK, ElementsAreMade, Recorded, NEW f \in Files, Overwrite(f)
    PROVE  Recorded'
<1>0. /\ FitsAreCurrent /\ AnswersAreCurrent /\ PendingIsFresh /\ HandledIsRecorded
      /\ FixityIsTruthful /\ AssessedIsDescribed
  BY DEF Recorded
<1>1. /\ UNCHANGED <<element, queue, response, handler>>
      /\ raced' = IF UnderWay(f) THEN raced \cup {f} ELSE raced
  BY DEF Overwrite, procs
<1>2. \A g \in Files \ {f} : /\ content'[g] = content[g] /\ md5'[g] = md5[g]
                             /\ fixity'[g] = fixity[g] /\ fits'[g] = fits[g]
                             /\ serialized'[g] = serialized[g] /\ sized'[g] = sized[g]
                             /\ pending'[g] = pending[g] /\ (g \in raced' <=> g \in raced)
  BY <1>1 DEF Overwrite, TypeOK
<1>3. /\ md5'[f] = "none" /\ fixity'[f] = "none" /\ fits'[f] = "none" /\ ~sized'[f] /\ pending'[f]
  BY DEF Overwrite, TypeOK
<1>4. /\ Open' = Open /\ \A g \in Files : OpenOf(g)' = OpenOf(g)
      /\ \A m : (Of(m)' = Of(m)) /\ (Counts(m)' <=> Counts(m))
  BY <1>1 DEF Open, OpenOf, Of, Counts
<1>5. f \notin raced' =>
          /\ OpenOf(f) = {}
          /\ \A h \in Handlers : \A a \in handler[h].now \cup handler[h].list : Of(a) # f
          /\ \A m : m.elem \in Open => Of(m) # f
  BY <1>1 DEF UnderWay, Held, Of, OpenOf
<1>6. \A m \in Message \cup Response : Counts(m) /\ Of(m) = f => f \in raced'
  BY <1>5 DEF Counts, ElementsAreMade
<1>7. \A m \in Message \cup Response : Of(m) \in Files
  BY Fields DEF Of
<1>8. FitsAreCurrent'
  BY <1>0, <1>2, <1>3 DEF FitsAreCurrent
<1>9. AnswersAreCurrent'
  <2> SUFFICES ASSUME NEW m \in Message \cup Response, Counts(m), Of(m) \notin raced'
               PROVE  /\ m.subtask = "checksum" => m.md5 = content'[Of(m)]
                      /\ m.subtask = "fits" => fits'[Of(m)] # "none"
    BY <1>4 DEF AnswersAreCurrent
  <2>1. Of(m) \in Files \ {f}
    BY <1>6, <1>7
  <2> QED
    BY <1>0, <1>2, <2>1 DEF AnswersAreCurrent
<1>10. PendingIsFresh'
  <2> SUFFICES ASSUME NEW g \in Files, g \notin raced', pending'[g]
               PROVE  /\ OpenOf(g) = {} /\ ~sized'[g]
                      /\ \A h \in Handlers : \A a \in handler[h].now \cup handler[h].list :
                            Of(a) # g
    BY <1>1, <1>4 DEF PendingIsFresh
  <2>1. CASE g = f
    BY <1>3, <1>5, <2>1
  <2>2. CASE g # f
    BY <1>0, <1>2, <2>2 DEF PendingIsFresh
  <2> QED
    BY <2>1, <2>2
<1>11. HandledIsRecorded'
  <2>1. ASSUME NEW a \in response, a.subtask = "fits", a.status = "handled", Of(a) \notin raced'
        PROVE  serialized'[Of(a)]
    <3>1. Counts(a) /\ a \in Response
      BY DEF Counts, TypeOK
    <3>2. Of(a) \in Files \ {f}
      BY <1>6, <1>7, <2>1, <3>1
    <3> QED
      BY <1>0, <1>2, <2>1, <3>2 DEF HandledIsRecorded
  <2>2. ASSUME NEW e \in Open, element[e].checksum, element[e].file \notin raced'
        PROVE  serialized'[element[e].file]
    <3>1. element[e].file \in Files \ {f}
      BY <1>5, <2>2, Fields DEF OpenOf, Open
    <3> QED
      BY <1>0, <1>2, <2>2, <3>1 DEF HandledIsRecorded
  <2> QED
    BY <1>1, <1>4, <2>1, <2>2 DEF HandledIsRecorded
<1>12. FixityIsTruthful'
  BY <1>0, <1>2, <1>3 DEF FixityIsTruthful
<1>13. AssessedIsDescribed'
  BY <1>0, <1>2, <1>3, <1>4 DEF AssessedIsDescribed
<1> QED
  BY <1>8, <1>9, <1>10, <1>11, <1>12, <1>13 DEF Recorded

\* A complete element was handled, and what it asked for is recorded.
LEMMA DestroyKeeps ==
    ASSUME TypeOK, Recorded, NEW e \in Elements, DestroyComplete(e)
    PROVE  Recorded'
<1>0. /\ FitsAreCurrent /\ AnswersAreCurrent /\ PendingIsFresh /\ HandledIsRecorded
      /\ FixityIsTruthful /\ AssessedIsDescribed
  BY DEF Recorded
<1>1. /\ Open' = Open \ {e}
      /\ \A o \in Elements : element'[o].file = element[o].file
                             /\ element'[o].checksum = element[o].checksum
      /\ \A f \in Files : OpenOf(f)' = OpenOf(f) \ {e}
      /\ response' \subseteq response
      /\ UNCHANGED <<content, md5, fixity, fits, sized, serialized, pending, queue, handler, raced>>
  BY DestroyedElement
<1>2. \A m \in Message \cup Response : Of(m)' = Of(m)
  BY <1>1, Fields DEF Of
<1>3. \A m : Counts(m)' => Counts(m)
  BY <1>1 DEF Counts
<1>4. FitsAreCurrent' /\ FixityIsTruthful'
  BY <1>0, <1>1 DEF FitsAreCurrent, FixityIsTruthful
<1>5. AnswersAreCurrent'
  BY <1>0, <1>1, <1>2, <1>3 DEF AnswersAreCurrent
<1>6. PendingIsFresh'
  <2>1. \A h \in Handlers : \A a \in handler[h].now \cup handler[h].list : Of(a)' = Of(a)
    BY <1>2, Fields
  <2> QED
    BY <1>0, <1>1, <2>1 DEF PendingIsFresh
<1>7. HandledIsRecorded'
  <2>1. \A a \in response : Of(a)' = Of(a)
    BY <1>2 DEF TypeOK
  <2>2. Open \subseteq Elements
    BY DEF Open
  <2> QED
    BY <1>0, <1>1, <2>1, <2>2 DEF HandledIsRecorded
<1>8. AssessedIsDescribed'
  <2> SUFFICES ASSUME NEW f \in Files, f \notin raced, ~pending[f], OpenOf(f) \subseteq {e}
               PROVE  md5[f] # "none" /\ serialized[f]
    BY <1>1 DEF AssessedIsDescribed
  <2>1. CASE OpenOf(f) = {}
    BY <1>0, <2>1 DEF AssessedIsDescribed
  <2>2. CASE e \in OpenOf(f)
    <3>1. /\ element[e].file = f /\ e \in Open /\ md5[f] # "none"
          /\ Handled(e, IF element[e].checksum THEN "checksum" ELSE "fits")
      BY <2>2 DEF OpenOf, DestroyComplete, Complete, Answered
    <3>2. CASE element[e].checksum
      BY <1>0, <3>1, <3>2 DEF HandledIsRecorded
    <3>3. CASE ~element[e].checksum
      BY <1>0, <3>1, <3>3 DEF HandledIsRecorded, Handled, Of
    <3> QED
      BY <3>1, <3>2, <3>3
  <2> QED
    BY <2>1, <2>2
<1> QED
  BY <1>4, <1>5, <1>6, <1>7, <1>8 DEF Recorded

\* The container reads what is stored now.
LEMMA AssessKeeps ==
    ASSUME TypeOK, TypeOK', Recorded, NEW e \in Elements, Assess(e)
    PROVE  Recorded'
<1>0. /\ FitsAreCurrent /\ AnswersAreCurrent /\ PendingIsFresh /\ HandledIsRecorded
      /\ FixityIsTruthful /\ AssessedIsDescribed
  BY DEF Recorded
<1> DEFINE f == element[e].file
<1>1. UNCHANGED <<content, md5, fixity, sized, serialized, pending, element, response, handler,
                raced>>
  BY DEF Assess, procs, history
<1>2. f \in Files /\ content[f] # "none"
  <2>1. f \in Files
    BY Fields
  <2> QED
    BY <2>1 DEF TypeOK, Versions
<1>3. \/ UNCHANGED fits /\ queue' = queue \cup {Answer(e, "checksum", content[f])}
      \/ /\ fits' = [fits EXCEPT ![f] = content[f]]
         /\ queue' = queue \cup {Answer(e, "fits", "none")}
  BY DEF Assess
<1>4. /\ Open' = Open /\ \A g \in Files : OpenOf(g)' = OpenOf(g)
      /\ \A m : Of(m)' = Of(m)
  BY <1>1 DEF Open, OpenOf, Of
<1> HIDE DEF f
<1>5. \A g \in Files : fits'[g] = fits[g] \/ fits'[g] = content[g]
  BY <1>2, <1>3 DEF TypeOK
<1>6. \A g \in Files : content[g] # "none"
  BY DEF TypeOK, Versions
<1>7. FitsAreCurrent' /\ FixityIsTruthful'
  BY <1>0, <1>1, <1>5 DEF FitsAreCurrent, FixityIsTruthful
<1>8. AnswersAreCurrent'
  <2> SUFFICES ASSUME NEW m \in Message \cup Response, Counts(m)', Of(m) \notin raced
               PROVE  /\ m.subtask = "checksum" => m.md5 = content[Of(m)]
                      /\ m.subtask = "fits" => fits'[Of(m)] # "none"
    BY <1>1, <1>4 DEF AnswersAreCurrent
  <2>1. Of(m) \in Files
    BY Fields DEF Of
  <2>2. CASE Counts(m)
    BY <1>0, <1>5, <1>6, <2>1, <2>2 DEF AnswersAreCurrent
  <2>3. CASE ~Counts(m)
    <3>1. m \in queue' /\ m \notin queue
      BY <1>1, <1>4, <2>3 DEF Counts
    <3>2. CASE UNCHANGED fits /\ queue' = queue \cup {Answer(e, "checksum", content[f])}
      <4>1. m = Answer(e, "checksum", content[f])
        BY <3>1, <3>2
      <4>2. m.subtask = "checksum" /\ m.md5 = content[f] /\ m.elem = e
        BY <4>1 DEF Answer
      <4> QED
        BY <4>2 DEF Of, f
    <3>3. CASE /\ fits' = [fits EXCEPT ![f] = content[f]]
               /\ queue' = queue \cup {Answer(e, "fits", "none")}
      <4>1. m = Answer(e, "fits", "none")
        BY <3>1, <3>3
      <4>2. m.subtask = "fits" /\ m.elem = e
        BY <4>1 DEF Answer
      <4>3. fits'[f] = content[f]
        BY <1>2, <3>3 DEF TypeOK
      <4> QED
        BY <1>2, <4>2, <4>3 DEF Of, f
    <3> QED
      BY <1>3, <3>2, <3>3
  <2> QED
    BY <2>2, <2>3
<1>9. PendingIsFresh'
  BY <1>0, <1>1, <1>4 DEF PendingIsFresh
<1>10. HandledIsRecorded'
  BY <1>0, <1>1, <1>4 DEF HandledIsRecorded
<1>11. AssessedIsDescribed'
  BY <1>0, <1>1, <1>4 DEF AssessedIsDescribed
<1> QED
  BY <1>7, <1>8, <1>9, <1>10, <1>11 DEF Recorded

\* Of the file of an answer, what is handled is recorded; the other files stay.
RecordsOne(a, f) ==
    /\ \A g \in Files \ {f} : /\ md5'[g] = md5[g] /\ fixity'[g] = fixity[g]
                              /\ sized'[g] = sized[g] /\ serialized'[g] = serialized[g]
    /\ \/ md5'[f] = md5[f] /\ fixity'[f] = fixity[f]
       \/ \E sum \in Known :
             /\ \/ a.subtask = "checksum" /\ sum = a.md5
                \/ a.subtask = "fits" /\ sum = fits[f]
             /\ md5'[f] = (IF md5[f] = "none" THEN sum ELSE md5[f])
             /\ fixity'[f] = (IF md5[f] \in {"none", sum} THEN "ok" ELSE "bad")
    /\ IF a.subtask = "fits" THEN serialized'[f] = (fits[f] # "none")
       ELSE serialized'[f] = serialized[f]
    /\ \/ UNCHANGED element
       \/ a.subtask = "fits" /\ fits[f] # "none" /\ \E e \in Elements : Made(e, f, TRUE)

LEMMA HandleRecordsOne ==
    ASSUME TypeOK, NEW a \in Response, HandledFits(a) \/ HandledChecksum(a) \/ HandledError(a),
           NEW f \in Files, f = Of(a)
    PROVE  RecordsOne(a, f)
<1>1. ASSUME NEW sum \in Known, SetFixity(f, sum)
      PROVE  /\ \A g \in Files \ {f} : md5'[g] = md5[g] /\ fixity'[g] = fixity[g]
             /\ md5'[f] = (IF md5[f] = "none" THEN sum ELSE md5[f])
             /\ fixity'[f] = (IF md5[f] \in {"none", sum} THEN "ok" ELSE "bad")
  BY <1>1 DEF SetFixity, TypeOK
<1>2. a.md5 \in Known /\ fits[f] \in Known
  BY DEF TypeOK, Response
<1>3. CASE HandledFits(a)
  <2>1. /\ a.subtask = "fits"
        /\ serialized' = [serialized EXCEPT ![f] = (fits[f] # "none")]
        /\ sized' = [sized EXCEPT ![f] = @ \/ (fits[f] # "none" /\ readable[f])]
        /\ UNCHANGED <<md5, fixity>> \/ SetFixity(f, fits[f])
        /\ \/ UNCHANGED element
           \/ fits[f] # "none" /\ Unused # {} /\ element' = Create(f, TRUE)
    BY <1>3 DEF HandledFits
  <2>2. /\ serialized'[f] = (fits[f] # "none")
        /\ \A g \in Files \ {f} : sized'[g] = sized[g] /\ serialized'[g] = serialized[g]
    BY <2>1 DEF TypeOK
  <2>3. UNCHANGED element \/ (fits[f] # "none" /\ \E e \in Elements : Made(e, f, TRUE))
    BY <2>1, CreateMakes
  <2> QED
    BY <1>1, <1>2, <2>1, <2>2, <2>3 DEF RecordsOne
<1>4. CASE HandledChecksum(a)
  BY <1>1, <1>2, <1>4 DEF HandledChecksum, RecordsOne
<1>5. CASE HandledError(a)
  BY <1>5 DEF HandledError, RecordsOne
<1> QED
  BY <1>3, <1>4, <1>5

\* What is handled is of the content that is stored.
LEMMA HandleKeeps ==
    ASSUME TypeOK, TypeOK', ElementsAreMade, Recorded, NEW h \in Handlers, Handle(h)
    PROVE  Recorded'
<1>0. /\ FitsAreCurrent /\ AnswersAreCurrent /\ PendingIsFresh /\ HandledIsRecorded
      /\ FixityIsTruthful /\ AssessedIsDescribed
  BY DEF Recorded
<1>1. UNCHANGED <<content, fits, pending, raced>>
  BY DEF Handle, history
<1>2. PICK a \in handler[h].now :
          /\ SetStatus(a, "handled")
          /\ HandledFits(a) \/ HandledChecksum(a) \/ HandledError(a)
  BY HandleRecords
<1>3. PICK f \in Files : f = Of(a) /\ a \in Response /\ Counts(a)
  BY Fields DEF Of, Counts
<1>4. /\ \A g \in Files \ {f} : /\ md5'[g] = md5[g] /\ fixity'[g] = fixity[g]
                                /\ sized'[g] = sized[g] /\ serialized'[g] = serialized[g]
      /\ \/ md5'[f] = md5[f] /\ fixity'[f] = fixity[f]
         \/ \E sum \in Known :
               /\ \/ a.subtask = "checksum" /\ sum = a.md5
                  \/ a.subtask = "fits" /\ sum = fits[f]
               /\ md5'[f] = (IF md5[f] = "none" THEN sum ELSE md5[f])
               /\ fixity'[f] = (IF md5[f] \in {"none", sum} THEN "ok" ELSE "bad")
      /\ IF a.subtask = "fits" THEN serialized'[f] = (fits[f] # "none")
         ELSE serialized'[f] = serialized[f]
      /\ \/ UNCHANGED element
         \/ a.subtask = "fits" /\ fits[f] # "none" /\ \E e \in Elements : Made(e, f, TRUE)
  <2>1. RecordsOne(a, f)
    BY <1>2, <1>3, HandleRecordsOne
  <2> QED
    BY <2>1 DEF RecordsOne
\* The answer is of what is stored, and the assessment of its file is not due.
<1>5. f \notin raced =>
          /\ a.subtask = "checksum" => a.md5 = content[f]
          /\ a.subtask = "fits" => fits[f] = content[f] /\ fits[f] # "none"
          /\ ~pending[f]
  <2> SUFFICES ASSUME f \notin raced
               PROVE  /\ a.subtask = "checksum" => a.md5 = content[f]
                      /\ a.subtask = "fits" => fits[f] = content[f] /\ fits[f] # "none"
                      /\ ~pending[f]
    OBVIOUS
  <2>1. /\ a.subtask = "checksum" => a.md5 = content[f]
        /\ a.subtask = "fits" => fits[f] # "none"
    BY <1>0, <1>3 DEF AnswersAreCurrent
  <2>2. fits[f] \in {"none", content[f]}
    BY <1>0, <1>3 DEF FitsAreCurrent
  <2>3. ~pending[f]
    BY <1>0, <1>3 DEF PendingIsFresh
  <2> QED
    BY <2>1, <2>2, <2>3
<1>6. PICK e : UNCHANGED element \/ (Made(e, f, TRUE) /\ e \in Elements)
  BY <1>4
<1>7. /\ \A m \in queue : Of(m)' = Of(m) /\ (m.elem \in Open' => m.elem \in Open)
      /\ \A o \in Handlers : \A m \in Held(o) :
            Of(m)' = Of(m) /\ (m.elem \in Open' => m.elem \in Open)
      /\ \A c \in response : Of(c)' = Of(c) /\ c.elem \in Open
  BY <1>6, MadeHasNoAnswer
\* Answers are handed on; a row that is saved is the same answer.
<1>8. /\ queue' \subseteq queue
      /\ \A o \in Handlers :
            /\ handler'[o].msg \subseteq handler[o].msg
            /\ handler'[o].now \cup handler'[o].list \subseteq handler[o].now \cup handler[o].list
  <2>1. queue' = queue
    BY DEF Handle
  <2>2. \A o \in Handlers \ {h} : handler'[o] = handler[o]
    BY HandlerRows DEF HandlerStep
  <2>3. ~Fetch(h) /\ ~List(h) /\ ~Process(h)
    BY DEF Handle, Fetch, List, Process
  <2>4. /\ handler'[h].msg \subseteq handler[h].msg
        /\ handler'[h].now \cup handler'[h].list \subseteq handler[h].now \cup handler[h].list
    BY <2>3, HandlerRows DEF HandlerStep
  <2> QED
    BY <2>1, <2>2, <2>4
<1>9. \A c \in response' : \E b \in response :
          Same(b, c) /\ (c.status = b.status \/ Same(a, c))
  BY <1>2, <1>3, StatusKeeps
<1>10. ASSUME NEW m \in Message \cup Response, Counts(m)'
       PROVE  \E c \in Message \cup Response : Same(c, m) /\ Counts(c) /\ Of(c) = Of(m)'
  <2>1. CASE m \in response'
    <3>1. PICK b \in response : Same(b, m)
      BY <1>9, <2>1
    <3>2. Of(b) = Of(m)' /\ Counts(b) /\ b \in Response
      BY <1>7, <3>1 DEF Counts, Same, Of, TypeOK
    <3> QED
      BY <3>1, <3>2
  <2>2. CASE m \notin response'
    <3>1. Counts(m) /\ Of(m) = Of(m)'
      BY <1>7, <1>8, <1>10, <2>2 DEF Counts, Held
    <3> QED
      BY <3>1 DEF Same
  <2> QED
    BY <2>1, <2>2
<1>11. /\ \A g \in Files \ {f} : OpenOf(g)' = OpenOf(g)
       /\ OpenOf(f) \subseteq OpenOf(f)'
       /\ \A o \in Open : element'[o] = element[o]
       /\ \A o \in Open' : o \in Open \/ (element'[o].file = f /\ serialized'[f])
  <2>1. CASE UNCHANGED element
    BY <2>1 DEF OpenOf, Open
  <2>2. CASE ~UNCHANGED element
    <3>1. Made(e, f, TRUE) /\ serialized'[f]
      BY <1>4, <1>6, <2>2
    <3>2. /\ Open' = Open \cup {e} /\ e \notin Open /\ element'[e].file = f
          /\ \A o \in Elements \ {e} : element'[o] = element[o]
      BY <3>1, MadeElements DEF Made
    <3> QED
      BY <1>3, <3>1, <3>2, MadeElements DEF Open
  <2> QED
    BY <2>1, <2>2
<1>12. \A g \in Files : serialized[g] /\ g \notin raced => serialized'[g]
  BY <1>4, <1>5
<1>13. FitsAreCurrent'
  BY <1>0, <1>1 DEF FitsAreCurrent
<1>14. AnswersAreCurrent'
  <2> SUFFICES ASSUME NEW m \in Message \cup Response, Counts(m)', Of(m)' \notin raced
               PROVE  /\ m.subtask = "checksum" => m.md5 = content[Of(m)']
                      /\ m.subtask = "fits" => fits[Of(m)'] # "none"
    BY <1>1 DEF AnswersAreCurrent
  <2>1. PICK c \in Message \cup Response : Same(c, m) /\ Counts(c) /\ Of(c) = Of(m)'
    BY <1>10
  <2>2. c.subtask = m.subtask /\ c.md5 = m.md5
    BY <2>1 DEF Same
  <2> QED
    BY <1>0, <2>1, <2>2 DEF AnswersAreCurrent
<1>15. PendingIsFresh'
  <2> SUFFICES ASSUME NEW g \in Files, g \notin raced, pending[g]
               PROVE  /\ OpenOf(g)' = {} /\ ~sized'[g]
                      /\ \A o \in Handlers : \A c \in handler'[o].now \cup handler'[o].list :
                            Of(c)' # g
    BY <1>1 DEF PendingIsFresh
  <2>1. g # f
    BY <1>5
  <2>2. /\ OpenOf(g) = {} /\ ~sized[g]
        /\ \A o \in Handlers : \A c \in handler[o].now \cup handler[o].list : Of(c) # g
    BY <1>0 DEF PendingIsFresh
  <2>3. \A o \in Handlers : \A c \in handler[o].now \cup handler[o].list : Of(c)' = Of(c)
    BY <1>7 DEF Held
  <2> QED
    BY <1>4, <1>8, <1>11, <2>1, <2>2, <2>3
<1>16. HandledIsRecorded'
  <2>1. ASSUME NEW c \in response', c.subtask = "fits", c.status = "handled", Of(c)' \notin raced
        PROVE  serialized'[Of(c)']
    <3>1. PICK b \in response : Same(b, c) /\ (c.status = b.status \/ Same(a, c))
      BY <1>9
    <3>2. Of(c)' = Of(b) /\ Of(b) \in Files /\ b.subtask = "fits"
      BY <1>7, <2>1, <3>1, Fields DEF Same, Of, TypeOK
    <3>3. CASE c.status = b.status
      BY <1>0, <1>12, <2>1, <3>2, <3>3 DEF HandledIsRecorded
    <3>4. CASE Same(a, c)
      <4>1. Of(b) = f /\ a.subtask = "fits"
        BY <1>3, <2>1, <3>1, <3>4 DEF Same, Of
      <4>2. serialized'[f]
        BY <1>4, <1>5, <2>1, <3>2, <4>1
      <4> QED
        BY <3>2, <4>1, <4>2
    <3> QED
      BY <3>1, <3>3, <3>4
  <2>2. ASSUME NEW o \in Open', element'[o].checksum, element'[o].file \notin raced
        PROVE  serialized'[element'[o].file]
    <3>1. CASE o \in Open
      <4>1. element'[o] = element[o] /\ element[o].file \in Files
        BY <1>11, <3>1, Fields DEF Open
      <4> QED
        BY <1>0, <1>12, <2>2, <3>1, <4>1 DEF HandledIsRecorded
    <3>2. CASE o \notin Open
      BY <1>11, <3>2
    <3> QED
      BY <3>1, <3>2
  <2> QED
    BY <1>1, <2>1, <2>2 DEF HandledIsRecorded
<1>17. FixityIsTruthful'
  <2> SUFFICES ASSUME NEW g \in Files, g \notin raced
               PROVE  md5'[g] \in {"none", content[g]} /\ fixity'[g] # "bad"
    BY <1>1 DEF FixityIsTruthful
  <2>1. md5[g] \in {"none", content[g]} /\ fixity[g] # "bad"
    BY <1>0 DEF FixityIsTruthful
  <2>2. CASE g = f /\ ~(md5'[f] = md5[f] /\ fixity'[f] = fixity[f])
    <3>1. /\ md5'[f] = (IF md5[f] = "none" THEN content[f] ELSE md5[f])
          /\ fixity'[f] = (IF md5[f] \in {"none", content[f]} THEN "ok" ELSE "bad")
      BY <1>4, <1>5, <2>2
    <3> QED
      BY <2>1, <2>2, <3>1
  <2> QED
    BY <1>4, <2>1, <2>2
<1>18. AssessedIsDescribed'
  <2> SUFFICES ASSUME NEW g \in Files, g \notin raced, ~pending[g], OpenOf(g)' = {}
               PROVE  md5'[g] # "none" /\ serialized'[g]
    BY <1>1 DEF AssessedIsDescribed
  <2>1. md5[g] # "none" /\ serialized[g]
    BY <1>0, <1>11 DEF AssessedIsDescribed
  <2> QED
    BY <1>4, <1>12, <2>1
<1> QED
  BY <1>13, <1>14, <1>15, <1>16, <1>17, <1>18 DEF Recorded

------------------------------------------------------------------------------
(* Theorems *)

\* The inductive invariant holds at first.
LEMMA InvInit == ASSUME Init PROVE IInv
<1>1. TypeOK
  BY TypeInit
<1>2. \A h \in Handlers : handler[h] = IdleHandler
  BY DEF Init
<1>3. OneMessage /\ IdleIsEmpty /\ \A h \in Handlers : Held(h) = {}
  BY <1>2 DEF Init, OneMessage, IdleIsEmpty, IdleHandler, IdleBatch, Held
<1>4. ElementsAreMade
  BY <1>3 DEF Init, ElementsAreMade, IdleBatch
<1>5. /\ \A m : ~Counts(m)
      /\ Open = {} /\ \A f \in Files : OpenOf(f) = {}
  BY <1>3 DEF Init, Counts, Held, Open, OpenOf
<1>6. FitsAreCurrent /\ FixityIsTruthful
  BY DEF Init, FitsAreCurrent, FixityIsTruthful
<1>7. AnswersAreCurrent /\ AssessedIsDescribed /\ OnlyFailuresLose
  BY <1>5 DEF Init, AnswersAreCurrent, AssessedIsDescribed, OnlyFailuresLose
<1>8. PendingIsFresh /\ HandledIsRecorded
  BY <1>3, <1>5 DEF Init, PendingIsFresh, HandledIsRecorded, Held
<1> QED
  BY <1>1, <1>3, <1>4, <1>6, <1>7, <1>8 DEF IInv, Recorded

\* Every step keeps the inductive invariant.
LEMMA InvStep == IInv /\ [Next]_vars => IInv'
<1> SUFFICES ASSUME IInv, [Next]_vars PROVE IInv'
  OBVIOUS
<1>0. /\ TypeOK /\ OneMessage /\ IdleIsEmpty /\ ElementsAreMade /\ Recorded /\ OnlyFailuresLose
      /\ TypeOK'
  BY TypeStep DEF IInv
<1>1. CASE Next
  <2>1. OneMessage' /\ IdleIsEmpty' /\ ElementsAreMade' /\ OnlyFailuresLose'
    BY <1>0, <1>1, OneMessageStep, IdleIsEmptyStep, ElementsAreMadeStep, OnlyFailuresLoseStep
  <2>2. Recorded'
    <3>1. ASSUME NEW f \in Files, RunInitialAssessment(f) \/ Overwrite(f) PROVE Recorded'
      BY <1>0, <3>1, InitialAssessmentKeeps, OverwriteKeeps
    <3>2. ASSUME NEW e \in Elements, DestroyComplete(e) \/ Assess(e) PROVE Recorded'
      BY <1>0, <3>2, DestroyKeeps, AssessKeeps
    <3>3. ASSUME NEW h \in Handlers, Handle(h) PROVE Recorded'
      BY <1>0, <3>3, HandleKeeps
    <3>4. CASE \/ ResetStale
               \/ \E e \in Elements : AssessFails(e)
               \/ \E b \in Batches : BatchStep(b) \/ BatchFails(b)
               \/ \E h \in Handlers : (HandlerStep(h) /\ ~Handle(h)) \/ HandlerDies(h)
      BY <1>0, <3>4, QuietSteps, QuietKeeps
    <3> QED
      BY <1>1, <3>1, <3>2, <3>3, <3>4 DEF Next
  <2> QED
    BY <1>0, <2>1, <2>2 DEF IInv
<1>2. CASE UNCHANGED vars
  <2>1. UNCHANGED <<size, readable, content, md5, fixity, fits, sized, serialized, pending, element,
                    cluster, queue, response, batch, handler, raced, dropped, faults>>
    BY <1>2 DEF vars, file, record, procs, history
  <2> QED
    BY <1>0, <2>1 DEF IInv, OneMessage, IdleIsEmpty, ElementsAreMade, OnlyFailuresLose, Recorded,
                      FitsAreCurrent, AnswersAreCurrent, PendingIsFresh, HandledIsRecorded,
                      FixityIsTruthful, AssessedIsDescribed, Counts, Of, Held, Open, OpenOf, Unused,
                      ResponsesOf
<1> QED
  BY <1>1, <1>2

\* It holds for ever.
LEMMA Invariant == Spec => []IInv
<1> QED
  BY InvInit, InvStep, PTL DEF Spec

(***************************************************************************)
(* The state of the files, the task elements, the messages and every       *)
(* process that works on them has its type.                                *)
(***************************************************************************)
THEOREM TypeCorrect == Spec => []TypeOK
<1>1. IInv => TypeOK
  BY DEF IInv
<1> QED
  BY <1>1, Invariant, PTL

(***************************************************************************)
(* However many processes run batches, fetch answers and handle them, in   *)
(* whatever order and however often an answer is delivered, and whichever  *)
(* of them fails: the checksum recorded of a file is that of its content   *)
(* and no file is reported damaged that is not, but for files overwritten  *)
(* while an answer was under way.                                          *)
(***************************************************************************)
THEOREM FixityIsTruthfulHolds == Spec => []FixityIsTruthful
<1>1. IInv => FixityIsTruthful
  BY DEF IInv, Recorded
<1> QED
  BY <1>1, Invariant, PTL

(***************************************************************************)
(* An element is destroyed only after what it asked for is recorded: a     *)
(* file with no element and no assessment due has its checksum and FITS.   *)
(***************************************************************************)
THEOREM AssessedIsDescribedHolds == Spec => []AssessedIsDescribed
<1>1. IInv => AssessedIsDescribed
  BY DEF IInv, Recorded
<1> QED
  BY <1>1, Invariant, PTL

(***************************************************************************)
(* The work of an element that is marked sent, or its answer, is always    *)
(* somewhere, unless a failure lost it: the processes that run the tasks,  *)
(* fetch, handle and destroy side by side never lose it by themselves.     *)
(***************************************************************************)
THEOREM OnlyFailuresLoseHolds == Spec => []OnlyFailuresLose
<1>1. IInv => OnlyFailuresLose
  BY DEF IInv
<1> QED
  BY <1>1, Invariant, PTL
==============================================================================
