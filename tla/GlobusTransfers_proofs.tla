------------------------ MODULE GlobusTransfers_proofs ------------------------
(***************************************************************************)
(* Theorems about GlobusTransfers, for any number of keys, rows, tasks at  *)
(* Globus, overlapping runs of the scheduled task and faults.              *)
(***************************************************************************)
EXTENDS GlobusTransfers, FiniteSetTheorems, TLAPS

------------------------------------------------------------------------------
(* The inductive invariant *)

\* A row that was submitted names a task at Globus that copies its key.
SentRowsHaveTasks ==
    \A t \in Transfers : row[t].state \notin {"unused", "new", "destroyed"} =>
        row[t].task \in TasksOf(row[t].key)

\* A row is believed: SUCCEEDED with the content in place, FAILED or INACTIVE
\* with a task of its key that Globus gave up.
RowsTellTruth ==
    \A t \in Transfers :
        /\ row[t].state = "SUCCEEDED" => target[row[t].key] = "present"
        /\ row[t].state \in {"FAILED", "INACTIVE"} => row[t].key \in GivenUp

\* So is a task at Globus.
TasksTellTruth ==
    \A g \in GlobusTasks : task[g].state = "SUCCEEDED" => target[task[g].key] = "present"

\* What a run loaded may be stale, but its rows exist and, past submission, its
\* task ids are of tasks that copy the row's key.
BatchIsOfRows ==
    \A r \in Rakes : \A e \in rake[r].batch :
        /\ row[e.row].state # "unused"
        /\ rake[r].pc \in {"reap", "poll"} =>
              row[e.row].state # "new" /\ e.id \in TasksOf(row[e.row].key)

\* A run between its submission and its commits holds the row and the task.
HeldIsSubmitted ==
    \A r \in Rakes : rake[r].pc \in {"posted", "saved"} =>
        /\ rake[r].cur \in Transfers /\ row[rake[r].cur].state # "unused"
        /\ rake[r].held \in TasksOf(row[rake[r].cur].key)

IInv == /\ TypeOK /\ RequestedIsSubmitted /\ SentRowsHaveTasks /\ RowsTellTruth
        /\ TasksTellTruth /\ BatchIsOfRows /\ HeldIsSubmitted

------------------------------------------------------------------------------
(* Type correctness *)

\* A run that holds nothing is a run.
LEMMA IdleRuns == Off \in Run /\ Idle \in Run
<1>1. Cardinality(Transfers) \in Nat
  BY SizesAssumption, FS_CardinalityType
<1> QED
  BY <1>1 DEF Off, Idle, Run, Places

\* What an update of a row or of a run keeps well formed.
LEMMA RowUpdate ==
    ASSUME NEW x \in Row, NEW s \in RowStates, NEW g \in GlobusTasks \cup {NoTask}
    PROVE  [x EXCEPT !.state = s] \in Row /\ [x EXCEPT !.state = s, !.task = g] \in Row
BY DEF Row

\* A run keeps its type with another batch of loaded rows.
LEMMA RunUpdate ==
    ASSUME NEW x \in Run, NEW b \in SUBSET Loaded PROVE [x EXCEPT !.batch = b] \in Run
BY DEF Run

\* And with another count of looks.
LEMMA LooksUpdate ==
    ASSUME NEW x \in Run, NEW b \in SUBSET Loaded, NEW n \in 0 .. Cardinality(Transfers)
    PROVE  [x EXCEPT !.batch = b, !.looks = n] \in Run
BY DEF Run

\* A batch that goes on without one of its entries.
LEMMA WithoutType == ASSUME NEW x \in Run, NEW e PROVE Without(x, e) \in Run
<1>1. x.batch \ {e} \in SUBSET Loaded
  BY DEF Run
<1> QED
  BY <1>1, RunUpdate, IdleRuns DEF Without

\* What a look at a counted row, and at a polled one, does to one row and one run.
LEMMA ReapLookSteps ==
    ASSUME TypeOK, NEW r \in Rakes, ReapLook(r)
    PROVE  \E e \in rake[r].batch :
           /\ row' = [row EXCEPT ![e.row] = [row[e.row] EXCEPT !.state =
                 IF ~Gone(e.row) /\ target[row[e.row].key] = "present" THEN "SUCCEEDED"
                 ELSE row[e.row].state]]
           /\ rake' = [rake EXCEPT ![r] = [rake[r] EXCEPT !.batch = rake[r].batch \ {e},
                 !.looks = IF rake[r].looks = 0 THEN 0 ELSE rake[r].looks - 1]]
<1>1. PICK e \in rake[r].batch :
           /\ row' = [row EXCEPT ![e.row] = [row[e.row] EXCEPT !.state =
                 IF ~Gone(e.row) /\ target[row[e.row].key] = "present" THEN "SUCCEEDED"
                 ELSE row[e.row].state]]
           /\ rake' = [rake EXCEPT ![r].batch = @ \ {e}, ![r].looks = IF @ = 0 THEN 0 ELSE @ - 1]
  BY Zenon DEF ReapLook
<1>2. rake' = [rake EXCEPT ![r] = [rake[r] EXCEPT !.batch = rake[r].batch \ {e},
                 !.looks = IF rake[r].looks = 0 THEN 0 ELSE rake[r].looks - 1]]
  BY <1>1 DEF TypeOK, Run
<1> QED
  BY <1>1, <1>2

\* A poll saves the state it read at Globus, or the one it held.
LEMMA PollSteps ==
    ASSUME NEW r \in Rakes, Poll(r)
    PROVE  \E e \in rake[r].batch, s \in RowStates :
           /\ s = task[e.id].state \/ s \in {"ERROR", "ACTIVE"}
           /\ row' = [row EXCEPT ![e.row] = [row[e.row] EXCEPT !.state =
                         IF Gone(e.row) THEN row[e.row].state ELSE s]]
           /\ rake' = [rake EXCEPT ![r] = Without(rake[r], e)]
BY Zenon DEF Poll

\* What a run loads is a batch.
LEMMA LoadType == ASSUME TypeOK, NEW ts \in SUBSET Transfers PROVE Load(ts) \subseteq Loaded
BY DEF TypeOK, Load, Loaded, Row

\* The rows a run counts are no more than there are rows.
LEMMA LooksType ==
    ASSUME NEW ts \in SUBSET Transfers
    PROVE  Cardinality(ts) \in 0 .. Cardinality(Transfers)
<1>1. IsFiniteSet(ts) /\ Cardinality(ts) <= Cardinality(Transfers)
  BY SizesAssumption, FS_Subset
<1> QED
  BY <1>1, SizesAssumption, FS_CardinalityType

\* A step of the accrual.
LEMMA TypeAccrual ==
    ASSUME TypeOK,
           \/ \E k \in Keys : SendKey(k) \/ AwaitCopied(k) \/ AwaitFailed(k)
           \/ SendDone \/ SendAgain \/ RetryFailedCopies
    PROVE  TypeOK'
<1> USE BoundsAssumption DEF TypeOK, table, history, bounds
<1>1. ASSUME NEW k \in Keys, SendKey(k) PROVE TypeOK'
  BY <1>1, NoneAssumption DEF SendKey, InState, RowStates, Row
<1>2. ASSUME NEW k \in Keys, AwaitCopied(k) PROVE TypeOK'
  <2>1. PICK t \in Transfers : row' = [row EXCEPT ![t] = [row[t] EXCEPT !.state = "destroyed"]]
    BY <1>2 DEF AwaitCopied, RowsOf
  <2>2. row' \in [Transfers -> Row]
    BY <2>1, RowUpdate, "destroyed" \in RowStates DEF RowStates
  <2> QED
    BY <1>2, <2>2 DEF AwaitCopied
<1>3. ASSUME NEW k \in Keys, AwaitFailed(k) PROVE TypeOK'
  BY <1>3 DEF AwaitFailed
<1>4. CASE SendDone
  BY <1>4 DEF SendDone
<1>5. CASE SendAgain
  BY <1>5 DEF SendAgain, Unrequested
<1>6. CASE RetryFailedCopies
  BY <1>6 DEF RetryFailedCopies, Unrequested
<1> QED
  BY <1>1, <1>2, <1>3, <1>4, <1>5, <1>6

\* A step of a run of the scheduled task.
LEMMA TypeRake ==
    ASSUME TypeOK, HeldIsSubmitted, NEW r \in Rakes,
           Start(r) \/ RakeStep(r) \/ Finish(r) \/ SubmitFails(r) \/ Skip(r) \/ Die(r)
    PROVE  TypeOK'
<1> USE BoundsAssumption, IdleRuns DEF TypeOK, table, history, bounds
<1>Start. CASE Start(r)
  <2>1. row' \in [Transfers -> Row]
    <3>1. ASSUME NEW t \in Transfers PROVE [row[t] EXCEPT !.state = "destroyed"] \in Row
      BY RowUpdate, NoneAssumption DEF RowStates
    <3> QED
      BY <1>Start, <3>1 DEF Start
  <2>2. Cardinality({t \in Transfers : row'[t].state = "SENT"}) \in 0 .. Cardinality(Transfers)
    BY LooksType
  <2>3. rake' \in [Rakes -> Run]
    BY <1>Start, <2>2 DEF Start, Run, Places
  <2> QED
    BY <1>Start, <2>1, <2>3 DEF Start
<1>ReapRead. CASE ReapRead(r)
  BY <1>ReapRead, LoadType DEF ReapRead, Run, InState
<1>ReapLook. CASE ReapLook(r)
  <2>1. PICK e \in rake[r].batch :
           /\ row' = [row EXCEPT ![e.row] = [row[e.row] EXCEPT !.state =
                 IF ~Gone(e.row) /\ target[row[e.row].key] = "present" THEN "SUCCEEDED"
                 ELSE row[e.row].state]]
           /\ rake' = [rake EXCEPT ![r] = [rake[r] EXCEPT !.batch = rake[r].batch \ {e},
                 !.looks = IF rake[r].looks = 0 THEN 0 ELSE rake[r].looks - 1]]
    BY <1>ReapLook, ReapLookSteps DEF IInv
  <2>2. row' \in [Transfers -> Row]
    <3>1. row[e.row] \in Row /\ row[e.row].state \in RowStates /\ "SUCCEEDED" \in RowStates
      BY <2>1 DEF Row, RowStates, Run, Loaded
    <3> QED
      BY <2>1, <3>1, RowUpdate, NoneAssumption
  <2>3. rake' \in [Rakes -> Run]
    <3>1. (IF rake[r].looks = 0 THEN 0 ELSE rake[r].looks - 1) \in 0 .. Cardinality(Transfers)
      BY SizesAssumption, FS_CardinalityType DEF Run
    <3>2. rake[r].batch \ {e} \in SUBSET Loaded
      BY DEF Run
    <3> QED
      BY <2>1, <3>1, <3>2, LooksUpdate
  <2> QED
    BY <1>ReapLook, <2>2, <2>3 DEF ReapLook
<1>ReapDone. CASE ReapDone(r)
  BY <1>ReapDone DEF ReapDone
<1>TakeBatch. CASE TakeBatch(r)
  <2>1. ASSUME NEW ts \in SUBSET Transfers, NEW p \in Places
        PROVE  [Off EXCEPT !.pc = p, !.batch = Load(ts)] \in Run
    BY <2>1, LoadType DEF Run
  <2> QED
    BY <1>TakeBatch, <2>1 DEF TakeBatch, InState, Places
<1>SubmitOrphan. CASE SubmitOrphan(r)
  BY <1>SubmitOrphan DEF SubmitOrphan
<1>Post. CASE Post(r)
  BY <1>Post, SMTT(30) DEF Post, NewTask, FreeTasks, Run, Loaded, Places, TaskStates, Row
<1>SaveSent. CASE SaveSent(r)
  <2>1. row' \in [Transfers -> Row]
    <3>1. row[rake[r].cur] \in Row => [row[rake[r].cur] EXCEPT !.state = "SENT", !.task = rake[r].held] \in Row
      BY RowUpdate DEF Run, RowStates
    <3> QED
      BY <1>SaveSent, <3>1 DEF SaveSent
  <2>2. rake' \in [Rakes -> Run]
    BY <1>SaveSent, SMTT(30) DEF SaveSent, Run, Places
  <2> QED
    BY <1>SaveSent, <2>1, <2>2 DEF SaveSent
<1>MarkRequested. CASE MarkRequested(r)
  BY <1>MarkRequested, ZenonT(30) DEF MarkRequested, NextSubmit, Run, Places
<1>Poll. CASE Poll(r)
  <2>1. PICK e \in rake[r].batch, s \in RowStates :
           /\ row' = [row EXCEPT ![e.row] = [row[e.row] EXCEPT !.state =
                         IF Gone(e.row) THEN row[e.row].state ELSE s]]
           /\ rake' = [rake EXCEPT ![r] = Without(rake[r], e)]
    BY <1>Poll, PollSteps
  <2>2. row' \in [Transfers -> Row]
    <3>1. row[e.row] \in Row /\ row[e.row].state \in RowStates
      BY <2>1 DEF Row, Run, Loaded
    <3> QED
      BY <2>1, <3>1, RowUpdate, NoneAssumption
  <2>3. rake' \in [Rakes -> Run]
    BY <2>1, WithoutType
  <2>4. faults' \in 0 .. MaxFaults
    BY <1>Poll DEF Poll
  <2> QED
    BY <1>Poll, <2>2, <2>3, <2>4 DEF Poll
<1>Finish. CASE Finish(r)
  BY <1>Finish DEF Finish
<1>SubmitFails. CASE SubmitFails(r)
  <2>1. task' \in [GlobusTasks -> [key : Keys, state : TaskStates]]
    BY <1>SubmitFails, SMTT(30) DEF SubmitFails, NewTask, FreeTasks, Run, Loaded, Row, TaskStates
  <2> QED
    BY <1>SubmitFails, <2>1 DEF SubmitFails
<1>Skip. CASE Skip(r)
  BY <1>Skip, WithoutType DEF Skip
<1>Die. CASE Die(r)
  <2>1. rake[r].pc = "saved" => {row[rake[r].cur].key} \subseteq Keys
    BY DEF HeldIsSubmitted, Row
  <2> QED
    BY <1>Die, <2>1 DEF Die
<1> QED
  BY <1>Start, <1>ReapRead, <1>ReapLook, <1>ReapDone, <1>TakeBatch, <1>SubmitOrphan, <1>Post,
     <1>SaveSent, <1>MarkRequested, <1>Poll, <1>Finish, <1>SubmitFails, <1>Skip, <1>Die
  DEF RakeStep

\* A task at Globus ends.
LEMMA TypeGlobus ==
    ASSUME TypeOK, NEW g \in GlobusTasks, Deliver(g) \/ GiveUp(g) PROVE TypeOK'
BY BoundsAssumption DEF TypeOK, Deliver, GiveUp, TaskStates, table, history, bounds

------------------------------------------------------------------------------
(* What a step does to each row, run and task *)

\* What a row may become: it is created, dropped, submitted with a task of its
\* key, or told the truth about it.
RowMoves(t) ==
    \/ row'[t] = row[t]
    \/ row[t].state = "unused" /\ row'[t].state = "new"
    \/ row[t].state # "unused" /\ row'[t].state = "destroyed" /\ row'[t].key = row[t].key
    \/ /\ row[t].state # "unused" /\ row'[t].state = "SENT" /\ row'[t].key = row[t].key
       /\ row'[t].task \in TasksOf(row[t].key)
    \/ /\ row[t].state \notin {"unused", "new", "destroyed"}
       /\ row'[t].key = row[t].key /\ row'[t].task = row[t].task
       /\ row'[t].state \in {"ACTIVE", "SUCCEEDED", "FAILED", "INACTIVE", "ERROR"}
       /\ row'[t].state = "SUCCEEDED" => target[row[t].key] = "present"
       /\ row'[t].state \in {"FAILED", "INACTIVE"} => row[t].key \in GivenUp

\* A batch shrinks, or is loaded.
BatchMoves(r) ==
    \A e \in rake'[r].batch :
        \/ e \in rake[r].batch /\ (rake'[r].pc \in {"reap", "poll"} => rake[r].pc \in {"reap", "poll"})
        \/ row[e.row].state \in {"SENT", "ACTIVE"} /\ e.id = row[e.row].task
        \/ row[e.row].state = "new" /\ rake'[r].pc = "submit"

\* What a run holds it has just submitted, or held before.
HeldMoves(r) ==
    rake'[r].pc \in {"posted", "saved"} =>
        \/ /\ rake[r].pc \in {"posted", "saved"}
           /\ rake'[r].cur = rake[r].cur /\ rake'[r].held = rake[r].held
        \/ /\ rake'[r].cur \in Transfers /\ row[rake'[r].cur].state # "unused"
           /\ rake'[r].held \in GlobusTasks /\ task'[rake'[r].held].state # "none"
           /\ task'[rake'[r].held].key = row[rake'[r].cur].key

\* A task keeps its key and is settled once.
TaskMoves(g) ==
    \/ task'[g] = task[g]
    \/ task[g].state = "none" /\ task'[g].state = "ACTIVE"
    \/ /\ task[g].state = "ACTIVE" /\ task'[g].key = task[g].key
       /\ \/ task'[g].state \in {"FAILED", "INACTIVE"}
          \/ task'[g].state = "SUCCEEDED" /\ target'[task[g].key] = "present"

RowsMove     == \A t \in Transfers : RowMoves(t)
RunsMove     == \A r \in Rakes : BatchMoves(r) /\ HeldMoves(r)
TasksMove    == \A g \in GlobusTasks : TaskMoves(g)
TargetMoves  == \A k \in Keys : target[k] = "present" => target'[k] = "present"
RequestMoves == \A k \in Keys : requested'[k] => requested[k] \/ TasksOf(k) # {}
Moves == RowsMove /\ RunsMove /\ TasksMove /\ TargetMoves /\ RequestMoves

\* What is left alone has moved rightly.
LEMMA Still ==
    /\ row' = row => RowsMove
    /\ rake' = rake => RunsMove
    /\ task' = task => TasksMove
    /\ target' = target => TargetMoves
    /\ requested' = requested => RequestMoves
BY DEF RowsMove, RunsMove, TasksMove, TargetMoves, RequestMoves, RowMoves, BatchMoves,
       HeldMoves, TaskMoves

\* The steps of the accrual.
LEMMA AccrualMoves ==
    ASSUME IInv,
           \/ \E k \in Keys : SendKey(k) \/ AwaitCopied(k) \/ AwaitFailed(k)
           \/ SendDone \/ SendAgain \/ RetryFailedCopies
    PROVE  Moves
<1> USE Still DEF Moves, IInv, table
<1>1. ASSUME NEW k \in Keys, SendKey(k) PROVE Moves
  BY <1>1 DEF SendKey, RowsMove, RowMoves, InState, TypeOK, Row
<1>2. ASSUME NEW k \in Keys, AwaitCopied(k) PROVE Moves
  BY <1>2 DEF AwaitCopied, RowsMove, RowMoves, RowsOf, Gone, TypeOK, Row
<1>3. ASSUME NEW k \in Keys, AwaitFailed(k) PROVE Moves
  BY <1>3 DEF AwaitFailed, RequestMoves, TypeOK
<1>4. CASE SendDone
  BY <1>4 DEF SendDone
<1>5. CASE SendAgain
  BY <1>5 DEF SendAgain
<1>6. CASE RetryFailedCopies
  BY <1>6 DEF RetryFailedCopies, RequestMoves, TypeOK
<1> QED
  BY <1>1, <1>2, <1>3, <1>4, <1>5, <1>6

\* The steps of Globus.
LEMMA GlobusMoves ==
    ASSUME IInv, NEW g \in GlobusTasks, Deliver(g) \/ GiveUp(g) PROVE Moves
<1> USE Still DEF Moves, IInv, table, TypeOK
<1>1. CASE Deliver(g)
  BY <1>1 DEF Deliver, TasksMove, TaskMoves, TargetMoves
<1>2. CASE GiveUp(g)
  BY <1>2 DEF GiveUp, TasksMove, TaskMoves
<1> QED
  BY <1>1, <1>2

\* The steps of a run of the scheduled task.
LEMMA RakeMoves ==
    ASSUME IInv, NEW r \in Rakes,
           Start(r) \/ RakeStep(r) \/ Finish(r) \/ SubmitFails(r) \/ Skip(r) \/ Die(r)
    PROVE  Moves
<1> USE Still DEF Moves, IInv, table
<1>Off. ASSUME rake' = [rake EXCEPT ![r] = Off] \/ rake' = [rake EXCEPT ![r] = Idle] PROVE RunsMove
  BY <1>Off DEF RunsMove, BatchMoves, HeldMoves, Off, Idle, TypeOK
<1>Shrink. ASSUME NEW x, rake' = [rake EXCEPT ![r] = x],
                  \/ x = Idle
                  \/ /\ x.batch \subseteq rake[r].batch /\ x.pc = rake[r].pc
                     /\ x.cur = rake[r].cur /\ x.held = rake[r].held
           PROVE  RunsMove
  BY <1>Shrink DEF RunsMove, BatchMoves, HeldMoves, Off, Idle, TypeOK
<1>WithoutShrinks. ASSUME NEW e
                   PROVE  LET x == Without(rake[r], e) IN
                          \/ x = Idle
                          \/ /\ x.batch \subseteq rake[r].batch /\ x.pc = rake[r].pc
                             /\ x.cur = rake[r].cur /\ x.held = rake[r].held
  BY DEF Without, TypeOK, Run
<1>Load. ASSUME NEW ts \in SUBSET Transfers, NEW x, rake' = [rake EXCEPT ![r] = x],
                x.batch = Load(ts), x.pc \in {"reap", "submit", "poll"},
                \A t \in ts : \/ row[t].state \in {"SENT", "ACTIVE"}
                              \/ row[t].state = "new" /\ x.pc = "submit"
         PROVE  RunsMove
  BY <1>Load DEF RunsMove, BatchMoves, HeldMoves, Load, TypeOK
<1>Start. CASE Start(r)
  <2>1. RowsMove
    BY <1>Start DEF Start, RowsMove, RowMoves, Gone, TypeOK, Row
  <2>2. RunsMove
    BY <1>Start DEF Start, RunsMove, BatchMoves, HeldMoves, Off, TypeOK
  <2> QED
    BY <1>Start, <2>1, <2>2 DEF Start
<1>ReapRead. CASE ReapRead(r)
  <2>1. RunsMove
    <3> DEFINE x == [rake[r] EXCEPT !.batch = Load(InState({"SENT"}))]
    <3>1. x.batch = Load(InState({"SENT"})) /\ x.pc = "reap"
      BY <1>ReapRead DEF ReapRead, TypeOK, Run
    <3>2. rake' = [rake EXCEPT ![r] = x] /\ InState({"SENT"}) \in SUBSET Transfers
      BY <1>ReapRead DEF ReapRead, InState
    <3> HIDE DEF x
    <3> QED
      BY <1>Load, <3>1, <3>2 DEF InState
  <2> QED
    BY <1>ReapRead, <2>1 DEF ReapRead
<1>ReapLook. CASE ReapLook(r)
  <2>1. PICK e \in rake[r].batch :
           /\ row' = [row EXCEPT ![e.row] = [row[e.row] EXCEPT !.state =
                 IF ~Gone(e.row) /\ target[row[e.row].key] = "present" THEN "SUCCEEDED"
                 ELSE row[e.row].state]]
           /\ rake' = [rake EXCEPT ![r] = [rake[r] EXCEPT !.batch = rake[r].batch \ {e},
                 !.looks = IF rake[r].looks = 0 THEN 0 ELSE rake[r].looks - 1]]
    BY <1>ReapLook, ReapLookSteps DEF IInv
  <2>2. RowsMove
    <3>1. e.row \in Transfers /\ row[e.row].state \notin {"unused", "new"}
      BY <1>ReapLook DEF BatchIsOfRows, ReapLook, TypeOK, Run, Loaded
    <3> QED
      BY <2>1, <3>1 DEF RowsMove, RowMoves, Gone, TypeOK, Row
  <2>3. RunsMove
    BY <2>1, <1>Shrink DEF TypeOK, Run
  <2> QED
    BY <1>ReapLook, <2>2, <2>3 DEF ReapLook
<1>ReapDone. CASE ReapDone(r)
  BY <1>ReapDone, <1>Off DEF ReapDone
<1>TakeBatch. CASE TakeBatch(r)
  <2>1. RunsMove
    <3> DEFINE ts == IF InState({"new"}) # {} THEN InState({"new"}) ELSE InState({"SENT", "ACTIVE"})
               p == IF InState({"new"}) # {} THEN "submit" ELSE "poll"
               x == [Off EXCEPT !.pc = p, !.batch = Load(ts)]
    <3>1. rake' = [rake EXCEPT ![r] = x]
      BY <1>TakeBatch DEF TakeBatch
    <3>2. x.batch = Load(ts) /\ x.pc = p
      BY DEF Off
    <3>3. ts \in SUBSET Transfers
      BY DEF InState
    <3>4. \A t \in ts : \/ row[t].state \in {"SENT", "ACTIVE"}
                        \/ row[t].state = "new" /\ p = "submit"
      <4>1. CASE InState({"new"}) # {}
        <5>1. \A t \in InState({"new"}) : row[t].state = "new"
          BY DEF InState
        <5> QED
          BY <4>1, <5>1, Zenon
      <4>2. CASE ~(InState({"new"}) # {})
        <5>1. \A t \in InState({"SENT", "ACTIVE"}) : row[t].state \in {"SENT", "ACTIVE"}
          BY DEF InState
        <5>2. ts = InState({"SENT", "ACTIVE"})
          BY <4>2
        <5> HIDE DEF ts
        <5> QED
          BY <5>1, <5>2
      <4> QED
        BY <4>1, <4>2, Zenon
    <3>5. p \in {"reap", "submit", "poll"}
      OBVIOUS
    <3> HIDE DEF x, ts, p
    <3> QED
      BY <1>Load, <3>1, <3>2, <3>3, <3>4, <3>5
  <2> QED
    BY <1>TakeBatch, <2>1 DEF TakeBatch
<1>SubmitOrphan. CASE SubmitOrphan(r)
  BY <1>SubmitOrphan, <1>Off DEF SubmitOrphan
<1>Post. CASE Post(r)
  <2>1. PICK e \in rake[r].batch, g \in FreeTasks :
           /\ NewTask(g, row[e.row].key)
           /\ rake' = [rake EXCEPT ![r].pc = "posted", ![r].batch = @ \ {e},
                                   ![r].cur = e.row, ![r].held = g]
    BY <1>Post DEF Post
  <2>2. TasksMove
    BY <2>1 DEF TasksMove, TaskMoves, NewTask, FreeTasks, TypeOK
  <2>3. g \in GlobusTasks /\ task'[g].state = "ACTIVE" /\ task'[g].key = row[e.row].key
    BY <2>1 DEF NewTask, FreeTasks, TypeOK
  <2>4. e.row \in Transfers /\ row[e.row].state # "unused"
    BY DEF BatchIsOfRows, TypeOK, Run, Loaded
  <2>5. RunsMove
    <3>1. /\ rake'[r].pc = "posted" /\ rake'[r].batch = rake[r].batch \ {e}
          /\ rake'[r].cur = e.row /\ rake'[r].held = g
          /\ \A s \in Rakes \ {r} : rake'[s] = rake[s]
      BY <2>1 DEF TypeOK, Run
    <3>2. BatchMoves(r) /\ HeldMoves(r)
      BY <2>3, <2>4, <3>1 DEF BatchMoves, HeldMoves
    <3>3. \A s \in Rakes \ {r} : BatchMoves(s) /\ HeldMoves(s)
      BY <3>1 DEF BatchMoves, HeldMoves
    <3> QED
      BY <3>2, <3>3 DEF RunsMove
  <2> QED
    BY <1>Post, <2>2, <2>5 DEF Post
<1>SaveSent. CASE SaveSent(r)
  <2>1. RowsMove
    <3> DEFINE t == rake[r].cur
    <3>1. /\ t \in Transfers /\ row[t].state # "unused"
          /\ rake[r].held \in TasksOf(row[t].key)
      BY <1>SaveSent DEF SaveSent, HeldIsSubmitted
    <3>2. row' = [row EXCEPT ![t] = IF Gone(t) THEN @
                                    ELSE [@ EXCEPT !.state = "SENT", !.task = rake[r].held]]
      BY <1>SaveSent DEF SaveSent
    <3>3. row \in [Transfers -> Row] /\ row[t] \in Row
      BY <3>1 DEF TypeOK
    <3> HIDE DEF t
    <3>4. \A u \in Transfers \ {t} : row'[u] = row[u]
      BY <3>2, <3>3
    <3>5. \/ row'[t] = row[t]
          \/ /\ row'[t].state = "SENT" /\ row'[t].key = row[t].key
             /\ row'[t].task = rake[r].held
      BY <3>1, <3>2, <3>3 DEF Row
    <3>6. RowMoves(t)
      BY <3>1, <3>5 DEF RowMoves
    <3> QED
      BY <3>4, <3>6 DEF RowsMove, RowMoves
  <2>2. RunsMove
    BY <1>SaveSent DEF SaveSent, RunsMove, BatchMoves, HeldMoves, TypeOK, Run
  <2> QED
    BY <1>SaveSent, <2>1, <2>2 DEF SaveSent
<1>MarkRequested. CASE MarkRequested(r)
  <2>1. RequestMoves
    BY <1>MarkRequested DEF MarkRequested, RequestMoves, HeldIsSubmitted, TypeOK
  <2>2. RunsMove
    BY <1>MarkRequested
    DEF MarkRequested, NextSubmit, RunsMove, BatchMoves, HeldMoves, Off, Idle, TypeOK, Run
  <2> QED
    BY <1>MarkRequested, <2>1, <2>2 DEF MarkRequested
<1>Poll. CASE Poll(r)
  <2>1. PICK e \in rake[r].batch, s \in RowStates :
           /\ s = task[e.id].state \/ s \in {"ERROR", "ACTIVE"}
           /\ row' = [row EXCEPT ![e.row] = [row[e.row] EXCEPT !.state =
                         IF Gone(e.row) THEN row[e.row].state ELSE s]]
           /\ rake' = [rake EXCEPT ![r] = Without(rake[r], e)]
    BY <1>Poll, PollSteps
  <2>2. /\ e.row \in Transfers /\ row[e.row].state \notin {"unused", "new"}
        /\ e.id \in TasksOf(row[e.row].key)
    BY <1>Poll DEF Poll, BatchIsOfRows, TypeOK, Run, Loaded
  <2>3. /\ s \in {"ACTIVE", "SUCCEEDED", "FAILED", "INACTIVE", "ERROR"}
        /\ s = "SUCCEEDED" => target[row[e.row].key] = "present"
        /\ s \in {"FAILED", "INACTIVE"} => row[e.row].key \in GivenUp
    BY <2>1, <2>2 DEF TasksOf, TasksTellTruth, GivenUp, TypeOK, TaskStates, Row
  <2>4. RowsMove
    <3> HIDE DEF IInv
    <3>1. row \in [Transfers -> Row]
      BY DEF IInv, TypeOK
    <3> QED
      BY <2>1, <2>2, <2>3, <3>1 DEF RowsMove, RowMoves, Gone, Row
  <2>5. RunsMove
    BY <2>1, <1>WithoutShrinks, <1>Shrink
  <2> QED
    BY <1>Poll, <2>4, <2>5 DEF Poll
<1>Finish. CASE Finish(r)
  BY <1>Finish, <1>Off DEF Finish
<1>SubmitFails. CASE SubmitFails(r)
  BY <1>SubmitFails, <1>Off DEF SubmitFails, TasksMove, TaskMoves, NewTask, FreeTasks, TypeOK
<1>Skip. CASE Skip(r)
  <2>1. PICK e \in rake[r].batch : rake' = [rake EXCEPT ![r] = Without(rake[r], e)]
    BY <1>Skip DEF Skip
  <2>2. RunsMove
    BY <2>1, <1>WithoutShrinks, <1>Shrink
  <2> QED
    BY <1>Skip, <2>2 DEF Skip
<1>Die. CASE Die(r)
  BY <1>Die, <1>Off DEF Die
<1> QED
  BY <1>Start, <1>ReapRead, <1>ReapLook, <1>ReapDone, <1>TakeBatch, <1>SubmitOrphan, <1>Post,
     <1>SaveSent, <1>MarkRequested, <1>Poll, <1>Finish, <1>SubmitFails, <1>Skip, <1>Die
  DEF RakeStep

------------------------------------------------------------------------------
(* The inductive invariant is preserved *)

\* Every step keeps the types and only moves rows and tasks forward.
LEMMA AnyMoves == ASSUME IInv, Next PROVE TypeOK' /\ Moves
BY TypeAccrual, TypeRake, TypeGlobus, AccrualMoves, GlobusMoves, RakeMoves DEF Next, IInv

\* A key's tasks are kept, and one that was given up stays so.
LEMMA TasksKept ==
    ASSUME TypeOK, TasksMove, NEW k \in Keys
    PROVE  TasksOf(k) \subseteq TasksOf(k)' /\ (k \in GivenUp => k \in GivenUp')
BY DEF TasksMove, TaskMoves, TasksOf, GivenUp

\* Every step keeps the inductive invariant.
LEMMA InvStep == ASSUME IInv, Next PROVE IInv'
<1>1. TypeOK' /\ Moves /\ TypeOK
  BY AnyMoves DEF IInv
<1>2. \A k \in Keys : TasksOf(k) \subseteq TasksOf(k)' /\ (k \in GivenUp => k \in GivenUp')
  BY <1>1, TasksKept DEF Moves
<1>3. RequestedIsSubmitted'
  BY <1>1, <1>2 DEF Moves, RequestMoves, IInv, RequestedIsSubmitted
<1>4. \A t \in Transfers : row[t].state # "unused" =>
          row'[t].state # "unused" /\ row'[t].key = row[t].key
  BY <1>1 DEF Moves, RowsMove, RowMoves
<1>5. \A t \in Transfers : row[t].state \notin {"unused", "new"} => row'[t].state # "new"
  BY <1>1 DEF Moves, RowsMove, RowMoves
<1>6. SentRowsHaveTasks'
  <2> SUFFICES ASSUME NEW t \in Transfers, row'[t].state \notin {"unused", "new", "destroyed"}
               PROVE  /\ row'[t].task \in GlobusTasks /\ task'[row'[t].task].state # "none"
                      /\ task'[row'[t].task].key = row'[t].key
    BY DEF SentRowsHaveTasks, TasksOf
  <2>1. RowMoves(t) /\ row[t].key \in Keys
    BY <1>1 DEF Moves, RowsMove, TypeOK, Row
  <2>2. row'[t].key = row[t].key /\ row'[t].task \in TasksOf(row[t].key)
    BY <2>1 DEF RowMoves, IInv, SentRowsHaveTasks
  <2> QED
    BY <1>2, <2>1, <2>2 DEF TasksOf
<1>7. RowsTellTruth'
  <2> SUFFICES ASSUME NEW t \in Transfers
               PROVE  /\ row'[t].state = "SUCCEEDED" => target'[row'[t].key] = "present"
                      /\ row'[t].state \in {"FAILED", "INACTIVE"} => row'[t].key \in GivenUp'
    BY DEF RowsTellTruth
  <2>1. RowMoves(t) /\ row[t].key \in Keys
    BY <1>1 DEF Moves, RowsMove, TypeOK, Row
  <2> QED
    BY <1>1, <1>2, <2>1 DEF RowMoves, IInv, RowsTellTruth, Moves, TargetMoves
<1>8. TasksTellTruth'
  BY <1>1 DEF Moves, TasksMove, TaskMoves, TargetMoves, IInv, TasksTellTruth, TypeOK
<1>9. BatchIsOfRows'
  <2> SUFFICES ASSUME NEW r \in Rakes, NEW e \in rake'[r].batch
               PROVE  /\ row'[e.row].state # "unused"
                      /\ rake'[r].pc \in {"reap", "poll"} =>
                            /\ row'[e.row].state # "new" /\ e.id \in GlobusTasks
                            /\ task'[e.id].state # "none" /\ task'[e.id].key = row'[e.row].key
    BY DEF BatchIsOfRows, TasksOf
  <2>1. e.row \in Transfers /\ row[e.row].key \in Keys
    BY <1>1 DEF TypeOK, Run, Loaded, Row
  <2>2. BatchMoves(r)
    BY <1>1 DEF Moves, RunsMove
  <2>3. /\ row[e.row].state # "unused"
        /\ rake'[r].pc \in {"reap", "poll"} =>
              row[e.row].state # "new" /\ e.id \in TasksOf(row[e.row].key)
    BY <2>1, <2>2 DEF BatchMoves, IInv, BatchIsOfRows, SentRowsHaveTasks
  <2> QED
    BY <1>2, <1>4, <1>5, <2>1, <2>3 DEF TasksOf
<1>10. HeldIsSubmitted'
  <2> SUFFICES ASSUME NEW r \in Rakes, rake'[r].pc \in {"posted", "saved"}
               PROVE  /\ rake'[r].cur \in Transfers /\ row'[rake'[r].cur].state # "unused"
                      /\ rake'[r].held \in GlobusTasks /\ task'[rake'[r].held].state # "none"
                      /\ task'[rake'[r].held].key = row'[rake'[r].cur].key
    BY DEF HeldIsSubmitted, TasksOf
  <2>1. HeldMoves(r)
    BY <1>1 DEF Moves, RunsMove
  <2>2. /\ rake'[r].cur \in Transfers /\ row[rake'[r].cur].state # "unused"
        /\ rake'[r].held \in GlobusTasks /\ task'[rake'[r].held].state # "none"
        /\ task'[rake'[r].held].key = row[rake'[r].cur].key
    <3>1. CASE rake[r].pc \in {"posted", "saved"} /\ rake'[r].cur = rake[r].cur
               /\ rake'[r].held = rake[r].held
      <4>1. /\ rake'[r].cur \in Transfers /\ row[rake'[r].cur].state # "unused"
            /\ rake'[r].held \in TasksOf(row[rake'[r].cur].key)
        BY <3>1 DEF IInv, HeldIsSubmitted
      <4>2. row[rake'[r].cur].key \in Keys
        BY <1>1, <4>1 DEF TypeOK, Row
      <4> QED
        BY <1>2, <4>1, <4>2 DEF TasksOf
    <3> QED
      BY <2>1, <3>1 DEF HeldMoves
  <2> QED
    BY <1>4, <2>2
<1> QED
  BY <1>1, <1>3, <1>6, <1>7, <1>8, <1>9, <1>10 DEF IInv

\* It holds at first.
LEMMA InvInit == ASSUME Init PROVE IInv
<1>1. TypeOK
  <2>1. AnyKey \in Keys
    BY SizesAssumption DEF AnyKey
  <2>2. [key |-> AnyKey, state |-> "unused", task |-> NoTask] \in Row
    BY <2>1 DEF Row, RowStates
  <2>3. row \in [Transfers -> Row] /\ rake \in [Rakes -> Run]
    BY <2>2, IdleRuns DEF Init
  <2>4. accrual \in [state : {"send", "await"}, left : SUBSET Keys]
    BY DEF Init
  <2>5. task \in [GlobusTasks -> [key : Keys, state : TaskStates]]
    BY <2>1 DEF Init, TaskStates
  <2>6. retries \in 0 .. MaxRetries /\ faults \in 0 .. MaxFaults
    BY BoundsAssumption DEF Init
  <2> QED
    BY <2>3, <2>4, <2>5, <2>6 DEF Init, TypeOK
<1>2. \A r \in Rakes : rake[r].batch = {} /\ rake[r].pc = "off"
  BY DEF Init, Off
<1> QED
  BY <1>1, <1>2
  DEF Init, IInv, RequestedIsSubmitted, SentRowsHaveTasks, RowsTellTruth, TasksTellTruth,
      BatchIsOfRows, HeldIsSubmitted

\* It holds for ever.
LEMMA Invariance == Spec => []IInv
<1>1. Init => IInv
  BY InvInit
<1>2. IInv /\ [Next]_vars => IInv'
  <2>1. ASSUME IInv, UNCHANGED vars PROVE IInv'
    BY <2>1
    DEF vars, table, history, bounds, IInv, TypeOK, RequestedIsSubmitted, SentRowsHaveTasks,
        RowsTellTruth, TasksTellTruth, BatchIsOfRows, HeldIsSubmitted, TasksOf, GivenUp
  <2> QED
    BY <2>1, InvStep
<1> QED
  BY <1>1, <1>2, PTL DEF Spec

(***************************************************************************)
(* The rows, tasks, batches and keys of the Globus transfers keep their    *)
(* types: a run counts its looks down to zero and no further.              *)
(***************************************************************************)
THEOREM TypeCorrect == Spec => []TypeOK
<1>1. IInv => TypeOK
  BY DEF IInv
<1> QED
  BY <1>1, Invariance, PTL

(***************************************************************************)
(* A key that counts as requested was submitted: process_transfers sets    *)
(* copy_requested only after Globus accepted the transfer, and no death,   *)
(* refusal or overlapping run makes the accrual wait for a copy that was   *)
(* never asked for.                                                        *)
(***************************************************************************)
THEOREM RequestedKeysAreSubmitted == Spec => []RequestedIsSubmitted
<1>1. IInv => RequestedIsSubmitted
  BY DEF IInv
<1> QED
  BY <1>1, Invariance, PTL

------------------------------------------------------------------------------
(* The refinement *)

\* What the accrual knows of each key, written out.
LEMMA FateOf ==
    ASSUME TypeOK
    PROVE  /\ DOMAIN Fate = Keys
           /\ \A k \in Keys : /\ Fate[k] = "waiting" <=> key[k] = "present"
                              /\ Fate[k] = "copied" <=> key[k] = "done"
                              /\ Fate[k] = "failed" <=> key[k] = "error"
BY DEF Fate, TypeOK

\* The abstract state it starts from is an initial one.
LEMMA PromiseInit == ASSUME Init PROVE Promise!Init
<1>1. GivenUp = {}
  BY DEF Init, GivenUp, TasksOf
<1>2. Fate = [k \in Keys |-> "waiting"]
  BY DEF Init, Fate
<1> QED
  BY <1>1, <1>2 DEF Init, Promise!Init

\* A step that leaves keys, tasks and contents alone.
LEMMA PromiseStutters ==
    ASSUME key' = key, target' = target, task' = task PROVE UNCHANGED Promise!vars
BY DEF Promise!vars, Fate, GivenUp, TasksOf

\* Submission adds a task at Globus; nothing is given up by it.
LEMMA PromiseSubmits ==
    ASSUME IInv, key' = key, target' = target,
           NEW g \in FreeTasks, NEW k, NewTask(g, k)
    PROVE  UNCHANGED Promise!vars
<1>1. task \in [GlobusTasks -> [key : Keys, state : TaskStates]]
  BY DEF IInv, TypeOK
<1>2. GivenUp' = GivenUp
  BY <1>1 DEF GivenUp, TasksOf, FreeTasks, NewTask
<1> QED
  BY <1>2 DEF Promise!vars, Fate

\* What the accrual does is a step of the promise, or none of it.
LEMMA PromiseAccrual ==
    ASSUME IInv,
           \/ \E k \in Keys : SendKey(k) \/ AwaitCopied(k) \/ AwaitFailed(k)
           \/ SendDone \/ SendAgain \/ RetryFailedCopies
    PROVE  [Promise!Next]_(Promise!vars)
<1> USE DEF table
<1>0. TypeOK /\ (task' = task => GivenUp' = GivenUp)
  BY DEF IInv, GivenUp, TasksOf
<1>1. ASSUME NEW k \in Keys, SendKey(k) PROVE UNCHANGED Promise!vars
  BY <1>1, PromiseStutters DEF SendKey
<1>2. ASSUME NEW k \in Keys, AwaitCopied(k) PROVE Promise!Next
  <2>1. target[k] = "present"
    BY <1>2 DEF AwaitCopied, RowsOf, IInv, RowsTellTruth
  <2>2. Fate[k] = "waiting" /\ Fate' = [Fate EXCEPT ![k] = "copied"]
    BY <1>0, <1>2 DEF AwaitCopied, TypeOK, Fate
  <2>3. Promise!Confirm(k)
    BY <1>0, <1>2, <2>1, <2>2 DEF AwaitCopied, Promise!Confirm
  <2> QED
    BY <2>3 DEF Promise!Next
<1>3. ASSUME NEW k \in Keys, AwaitFailed(k) PROVE Promise!Next
  <2>1. k \in GivenUp
    BY <1>3 DEF AwaitFailed, RowsOf, IInv, RowsTellTruth
  <2>2. Fate[k] = "waiting" /\ Fate' = [Fate EXCEPT ![k] = "failed"]
    BY <1>0, <1>3 DEF AwaitFailed, TypeOK, Fate
  <2>3. Promise!Blame(k)
    BY <1>0, <1>3, <2>1, <2>2 DEF AwaitFailed, Promise!Blame
  <2> QED
    BY <2>3 DEF Promise!Next
<1>4. CASE SendDone
  BY <1>4, PromiseStutters DEF SendDone
<1>5. CASE SendAgain
  BY <1>5, PromiseStutters DEF SendAgain
<1>6. CASE RetryFailedCopies
  <2>1. Fate' = [k \in Keys |-> IF Fate[k] = "failed" THEN "waiting" ELSE Fate[k]]
    BY <1>0, <1>6 DEF RetryFailedCopies, TypeOK, Fate
  <2>2. Promise!Retry
    BY <1>0, <1>6, <2>1 DEF RetryFailedCopies, Promise!Retry
  <2> QED
    BY <2>2 DEF Promise!Next
<1> QED
  BY <1>1, <1>2, <1>3, <1>4, <1>5, <1>6

\* What Globus does is a step of the promise, or none of it.
LEMMA PromiseGlobus ==
    ASSUME IInv, NEW g \in GlobusTasks, Deliver(g) \/ GiveUp(g)
    PROVE  [Promise!Next]_(Promise!vars)
<1>1. task \in [GlobusTasks -> [key : Keys, state : TaskStates]] /\ task[g].key \in Keys
  BY DEF IInv, TypeOK
<1>2. key' = key => Fate' = Fate
  BY DEF Fate
<1>3. CASE Deliver(g)
  <2>1. GivenUp' = GivenUp
    BY <1>1, <1>3 DEF Deliver, GivenUp, TasksOf
  <2>2. Promise!Deliver(task[g].key)
    BY <1>2, <1>3, <2>1 DEF Deliver, Promise!Deliver, table
  <2> QED
    BY <1>1, <2>2 DEF Promise!Next
<1>4. CASE GiveUp(g)
  <2>1. GivenUp' = GivenUp \cup {task[g].key}
    BY <1>1, <1>4 DEF GiveUp, GivenUp, TasksOf
  <2>2. Promise!GiveUp(task[g].key)
    BY <1>2, <1>4, <2>1 DEF GiveUp, Promise!GiveUp, table
  <2> QED
    BY <1>1, <2>2 DEF Promise!Next
<1> QED
  BY <1>3, <1>4

\* The scheduled task changes nothing of what is promised.
LEMMA PromiseRake ==
    ASSUME IInv, NEW r \in Rakes,
           Start(r) \/ RakeStep(r) \/ Finish(r) \/ SubmitFails(r) \/ Skip(r) \/ Die(r)
    PROVE  UNCHANGED Promise!vars
<1>1. CASE Post(r)
  <2>1. /\ key' = key /\ target' = target
        /\ \E e \in rake[r].batch, g \in FreeTasks : NewTask(g, row[e.row].key)
    BY <1>1 DEF Post, table
  <2> QED
    BY <2>1, PromiseSubmits
<1>2. CASE SubmitFails(r)
  <2>1. /\ key' = key /\ target' = target
        /\ \/ task' = task
           \/ \E e \in rake[r].batch, g \in FreeTasks : NewTask(g, row[e.row].key)
    BY <1>2 DEF SubmitFails, table
  <2> QED
    BY <2>1, PromiseSubmits, PromiseStutters
<1> QED
  BY <1>1, <1>2, PromiseStutters
  DEF RakeStep, Start, ReapRead, ReapLook, ReapDone, TakeBatch, SubmitOrphan, SaveSent,
      MarkRequested, Poll, Finish, Skip, Die, table

(***************************************************************************)
(* The Globus transfers keep TransferPromise: an accrual is told that a    *)
(* key is copied only with content at its destination and that it failed   *)
(* only if Globus gave one of its tasks up, and a copied key is never      *)
(* taken up again, however many runs overlap, die or act on stale rows.    *)
(***************************************************************************)
THEOREM TransfersKeepPromise == Spec => ImplementsPromise
<1>1. Init => Promise!Init
  BY PromiseInit
<1>2. IInv /\ [Next]_vars => [Promise!Next]_(Promise!vars)
  <2>1. ASSUME IInv, Next PROVE [Promise!Next]_(Promise!vars)
    BY <2>1, PromiseAccrual, PromiseGlobus, PromiseRake DEF Next
  <2>2. ASSUME UNCHANGED vars PROVE UNCHANGED Promise!vars
    BY <2>2, PromiseStutters DEF vars, table
  <2> QED
    BY <2>1, <2>2
<1> QED
  BY <1>1, <1>2, Invariance, PTL DEF Spec, ImplementsPromise, Promise!Spec

------------------------------------------------------------------------------
(* A key is copied once where nothing disturbs its transfer *)

Used(t) == row[t].state # "unused"
Live(g) == task[g].state # "none"

Undisturbed == ~overlapped /\ faults = 0 /\ retries = 0

\* One run of the scheduled task is at work.
OneRun == \A r, s \in Rakes : Working(r) /\ Working(s) => r = s

\* A key has one row, and none while it is still to send.
OneRow ==
    /\ \A t, u \in Transfers : Used(t) /\ Used(u) /\ row[t].key = row[u].key => t = u
    /\ accrual.state = "send" => \A t \in Transfers : Used(t) => row[t].key \notin accrual.left

\* A key has one task, and a row if it has a task.
OneTask ==
    /\ \A g, h \in GlobusTasks : Live(g) /\ Live(h) /\ task[g].key = task[h].key => g = h
    /\ \A g \in GlobusTasks : Live(g) =>
           \E t \in Transfers : Used(t) /\ row[t].key = task[g].key

\* A row that is new was not submitted, but for the one between its two commits.
Posting(t) == \E r \in Rakes : rake[r].pc = "posted" /\ rake[r].cur = t

NewIsUntouched ==
    \A t \in Transfers : row[t].state = "new" /\ ~Posting(t) => TasksOf(row[t].key) = {}

\* What is left of a batch to submit is new, and each row is in it once.
Fresh(r) ==
    rake[r].pc \in {"submit", "posted", "saved"} =>
        /\ \A e \in rake[r].batch : /\ row[e.row].state = "new"
                                    /\ rake[r].pc = "posted" => e.row # rake[r].cur
        /\ \A e, f \in rake[r].batch : e.row = f.row => e = f

BatchIsNew == \A r \in Rakes : Fresh(r)

CopyInv == OneRun /\ OneRow /\ OneTask /\ NewIsUntouched /\ BatchIsNew

\* The steps that are possible while nothing disturbs the transfers.
LEMMA QuietSteps ==
    ASSUME IInv, Next, Undisturbed'
    PROVE  /\ Undisturbed
           /\ \/ \E k \in Keys : SendKey(k)
              \/ (\E k \in Keys : AwaitCopied(k) \/ AwaitFailed(k)) \/ SendDone
              \/ \E r \in Rakes : \/ Start(r) /\ \A s \in Rakes : ~Working(s)
                                  \/ RakeStep(r) \/ Finish(r)
              \/ \E g \in GlobusTasks : Deliver(g)
<1> USE DEF Undisturbed, history, bounds
<1>0. faults \in Nat /\ retries \in Nat /\ overlapped \in BOOLEAN
  BY BoundsAssumption DEF IInv, TypeOK
<1>1. ASSUME NEW k \in Keys, SendKey(k) \/ AwaitCopied(k) \/ AwaitFailed(k) PROVE Undisturbed
  BY <1>1 DEF SendKey, AwaitCopied, AwaitFailed
<1>2. CASE SendDone
  BY <1>2 DEF SendDone
<1>3. ~SendAgain /\ ~RetryFailedCopies
  BY <1>0 DEF SendAgain, RetryFailedCopies
<1>4. ASSUME NEW r \in Rakes, Start(r) PROVE Undisturbed /\ \A s \in Rakes : ~Working(s)
  BY <1>0, <1>4 DEF Start
<1>5. ASSUME NEW r \in Rakes, Poll(r) PROVE Undisturbed
  BY <1>0, <1>5 DEF Poll
<1>6. ASSUME NEW r \in Rakes, RakeStep(r) \/ Finish(r) PROVE Undisturbed
  <2>1. CASE ReapRead(r) \/ ReapLook(r) \/ ReapDone(r) \/ SubmitOrphan(r)
    BY <2>1 DEF ReapRead, ReapLook, ReapDone, SubmitOrphan
  <2>2. CASE TakeBatch(r) \/ SaveSent(r)
    BY <2>2 DEF TakeBatch, SaveSent
  <2>3. CASE Post(r)
    BY <2>3 DEF Post
  <2>4. CASE MarkRequested(r) \/ Finish(r)
    BY <2>4 DEF MarkRequested, Finish
  <2> QED
    BY <1>5, <1>6, <2>1, <2>2, <2>3, <2>4 DEF RakeStep
<1>7. ASSUME NEW r \in Rakes PROVE ~SubmitFails(r) /\ ~Skip(r) /\ ~Die(r)
  BY <1>0 DEF SubmitFails, Skip, Die
<1>8. ASSUME NEW g \in GlobusTasks PROVE ~GiveUp(g)
  BY <1>0 DEF GiveUp
<1>9. ASSUME NEW g \in GlobusTasks, Deliver(g) PROVE Undisturbed
  BY <1>9 DEF Deliver
<1> HIDE DEF Undisturbed, history, bounds
<1> QED
  BY <1>1, <1>2, <1>3, <1>4, <1>6, <1>7, <1>8, <1>9 DEF Next

\* Rows keep their keys and none is created; no task is created.
RowsRemain ==
    \A t \in Transfers : /\ row'[t].key = row[t].key /\ (Used(t)' <=> Used(t))
                         /\ row'[t].state = "new" => row[t].state = "new"
TasksRemain ==
    \A g \in GlobusTasks : (Live(g)' <=> Live(g)) /\ task'[g].key = task[g].key
PostingRemains == \A t \in Transfers : row'[t].state = "new" /\ Posting(t) => Posting(t)'

\* Where rows, tasks and submissions remain, a key keeps its one copy.
LEMMA Remaining ==
    ASSUME TypeOK, OneRow, OneTask, NewIsUntouched, RowsRemain, TasksRemain, PostingRemains,
           accrual' = accrual \/ accrual'.state = "await"
    PROVE  OneRow' /\ OneTask' /\ NewIsUntouched'
<1>1. OneRow'
  BY DEF OneRow, RowsRemain
<1>2. OneTask'
  BY DEF OneTask, RowsRemain, TasksRemain
<1>3. NewIsUntouched'
  <2> SUFFICES ASSUME NEW t \in Transfers, row'[t].state = "new", ~Posting(t)'
               PROVE  \A g \in GlobusTasks : Live(g)' => task'[g].key # row'[t].key
    BY DEF NewIsUntouched, TasksOf, Live
  <2>1. TasksOf(row[t].key) = {} /\ row'[t].key = row[t].key
    BY DEF NewIsUntouched, RowsRemain, PostingRemains
  <2> QED
    BY <2>1 DEF TasksOf, TasksRemain, Live
<1> QED
  BY <1>1, <1>2, <1>3

\* The accrual and Globus leave the runs alone.
LEMMA RunsLeftAlone ==
    ASSUME TypeOK, OneRun, BatchIsNew, rake' = rake,
           \A t \in Transfers : row[t].state = "new" => row'[t].state = "new"
    PROVE  OneRun' /\ BatchIsNew' /\ PostingRemains
<1>1. \A r \in Rakes : \A e \in rake[r].batch : e.row \in Transfers
  BY DEF TypeOK, Run, Loaded
<1> QED
  BY <1>1 DEF OneRun, Working, BatchIsNew, Fresh, PostingRemains, Posting

\* These steps submit nothing.
LEMMA CopyBystander ==
    ASSUME IInv, CopyInv,
           \/ \E k \in Keys : AwaitCopied(k) \/ AwaitFailed(k)
           \/ SendDone \/ \E g \in GlobusTasks : Deliver(g)
    PROVE  CopyInv'
<1> USE DEF table
<1>0. TypeOK
  BY DEF IInv
<1>1. rake' = rake
  BY DEF AwaitCopied, AwaitFailed, SendDone, Deliver
<1>2. \A t \in Transfers : /\ row'[t].key = row[t].key /\ (Used(t)' <=> Used(t))
                           /\ row'[t].state = "new" <=> row[t].state = "new"
  <2>1. ASSUME NEW k \in Keys, AwaitCopied(k)
        PROVE  \E u \in Transfers : /\ row[u].state = "SUCCEEDED"
                                    /\ row' = [row EXCEPT ![u] = [row[u] EXCEPT !.state = "destroyed"]]
    BY <2>1, Zenon DEF AwaitCopied, RowsOf
  <2>2. row' = row \/ \E u \in Transfers :
            /\ row[u].state = "SUCCEEDED"
            /\ row' = [row EXCEPT ![u] = [row[u] EXCEPT !.state = "destroyed"]]
    BY <2>1 DEF AwaitFailed, SendDone, Deliver
  <2> QED
    BY <1>0, <2>2 DEF TypeOK, Row, Used
<1>3. TasksRemain
  BY <1>0 DEF TypeOK, TasksRemain, Live, AwaitCopied, AwaitFailed, SendDone, Deliver
<1>4. accrual' = accrual \/ accrual'.state = "await"
  BY <1>0 DEF TypeOK, AwaitCopied, AwaitFailed, SendDone, Deliver
<1>5. OneRun' /\ BatchIsNew' /\ PostingRemains
  BY <1>0, <1>1, <1>2, RunsLeftAlone DEF CopyInv
<1> QED
  BY <1>0, <1>2, <1>3, <1>4, <1>5, Remaining DEF CopyInv, RowsRemain

\* A row is written for a key that has none, and so no task.
LEMMA CopySendKey ==
    ASSUME IInv, CopyInv, NEW k \in Keys, SendKey(k) PROVE CopyInv'
<1> USE DEF table
<1>0. TypeOK
  BY DEF IInv
<1>1. PICK u \in Transfers :
          /\ row[u].state = "unused"
          /\ row' = [row EXCEPT ![u] = [key |-> k, state |-> "new", task |-> NoTask]]
  BY DEF SendKey, InState
<1>2. /\ row'[u].key = k /\ row'[u].state = "new"
      /\ \A t \in Transfers \ {u} : row'[t] = row[t]
  BY <1>0, <1>1 DEF TypeOK
<1>3. /\ rake' = rake /\ task' = task
      /\ accrual.state = "send" /\ k \in accrual.left
      /\ accrual'.state = "send" /\ accrual'.left = accrual.left \ {k}
  BY <1>0 DEF SendKey, TypeOK
<1>4. OneRun' /\ BatchIsNew' /\ PostingRemains
  BY <1>0, <1>2, <1>3, RunsLeftAlone DEF CopyInv
<1>5. \A t \in Transfers : Used(t) => row[t].key \in Keys /\ row[t].key # k
  BY <1>0, <1>3 DEF CopyInv, OneRow, TypeOK, Row
<1>6. OneRow'
  BY <1>1, <1>2, <1>3, <1>5 DEF CopyInv, OneRow, Used
<1>7. OneTask'
  BY <1>1, <1>2, <1>3 DEF CopyInv, OneTask, Used, Live
<1>8. TasksOf(k) = {}
  BY <1>5 DEF CopyInv, OneTask, TasksOf, Live
<1>9. NewIsUntouched'
  BY <1>2, <1>3, <1>4, <1>8
  DEF CopyInv, NewIsUntouched, PostingRemains, TasksOf
<1> QED
  BY <1>4, <1>6, <1>7, <1>9 DEF CopyInv

\* A run that is at work is alone; one that becomes idle has nothing in hand.
LEMMA Alone ==
    ASSUME TypeOK, OneRun, NEW r \in Rakes, Working(r) \/ \A s \in Rakes : ~Working(s),
           NEW x, rake' = [rake EXCEPT ![r] = x]
    PROVE  /\ OneRun'
           /\ \A s \in Rakes \ {r} : Fresh(s)'
           /\ rake'[r] = x
           /\ \A t \in Transfers : Posting(t) => rake[r].pc = "posted" /\ rake[r].cur = t
           /\ \A t \in Transfers : x.pc = "posted" /\ x.cur = t => Posting(t)'
<1>1. \A s \in Rakes \ {r} : rake[s].pc = "off" /\ rake'[s].pc = "off"
  BY DEF TypeOK, OneRun, Working
<1> QED
  BY <1>1 DEF TypeOK, OneRun, Working, Fresh, Posting

\* The first run starts: it drops rows whose key is gone.
LEMMA CopyStart ==
    ASSUME IInv, CopyInv, NEW r \in Rakes, Start(r), \A s \in Rakes : ~Working(s)
    PROVE  CopyInv'
<1>0. TypeOK
  BY DEF IInv
<1>1. PICK n : rake' = [rake EXCEPT ![r] = [Off EXCEPT !.pc = "reap", !.looks = n]]
  BY DEF Start
<1> DEFINE x == [Off EXCEPT !.pc = "reap", !.looks = n]
<1>2. x.pc = "reap"
  BY DEF Off
<1>3. rake' = [rake EXCEPT ![r] = x]
  BY <1>1
<1> HIDE DEF x
<1>4. /\ OneRun' /\ rake'[r] = x /\ \A s \in Rakes \ {r} : Fresh(s)'
      /\ \A t \in Transfers : ~Posting(t)
  BY <1>0, <1>3, Alone DEF CopyInv, Working
<1>5. BatchIsNew' /\ PostingRemains
  BY <1>2, <1>4 DEF BatchIsNew, Fresh, PostingRemains
<1>6. RowsRemain
  BY <1>0 DEF Start, RowsRemain, Used, Gone, TypeOK, Row
<1>7. TasksRemain /\ accrual' = accrual
  BY DEF Start, TasksRemain, Live
<1> QED
  BY <1>0, <1>4, <1>5, <1>6, <1>7, Remaining DEF CopyInv

\* A run reads, looks, polls, takes its next batch or ends one.
LEMMA CopyWorks ==
    ASSUME IInv, CopyInv, NEW r \in Rakes,
           \/ ReapRead(r) \/ ReapLook(r) \/ ReapDone(r) \/ TakeBatch(r)
           \/ SubmitOrphan(r) \/ MarkRequested(r) \/ Poll(r) \/ Finish(r)
    PROVE  CopyInv'
<1> USE DEF table
<1>0. TypeOK
  BY DEF IInv
<1>1. Working(r) /\ rake[r].pc # "posted"
  BY DEF Working, ReapRead, ReapLook, ReapDone, TakeBatch, SubmitOrphan, MarkRequested, Poll, Finish
<1>2. RowsRemain
  <2>1. CASE ReapLook(r)
    <3>1. PICK e \in rake[r].batch :
               row' = [row EXCEPT ![e.row] = [row[e.row] EXCEPT !.state =
                 IF ~Gone(e.row) /\ target[row[e.row].key] = "present" THEN "SUCCEEDED"
                 ELSE row[e.row].state]]
      BY <1>0, <2>1, ReapLookSteps
    <3>2. e.row \in Transfers /\ rake[r].pc = "reap"
      <4>1. rake[r].pc = "reap"
        BY <2>1 DEF ReapLook
      <4> QED
        BY <1>0, <4>1 DEF TypeOK, Run, Loaded
    <3>3. row[e.row].state \notin {"unused", "new"}
      BY <3>2 DEF IInv, BatchIsOfRows
    <3> QED
      BY <1>0, <3>1, <3>2, <3>3 DEF RowsRemain, Used, TypeOK, Row
  <2>2. CASE Poll(r)
    <3>1. PICK e \in rake[r].batch, s \in RowStates :
               /\ s = task[e.id].state \/ s \in {"ERROR", "ACTIVE"}
               /\ row' = [row EXCEPT ![e.row] = [row[e.row] EXCEPT !.state =
                             IF Gone(e.row) THEN row[e.row].state ELSE s]]
      BY <2>2, PollSteps
    <3>2. /\ e.row \in Transfers /\ row[e.row].state \notin {"unused", "new"}
          /\ e.id \in TasksOf(row[e.row].key)
      BY <2>2 DEF Poll, IInv, BatchIsOfRows, TypeOK, Run, Loaded
    <3>3. s \notin {"unused", "new"}
      BY <1>0, <3>1, <3>2 DEF TasksOf, TypeOK, TaskStates
    <3> QED
      BY <1>0, <3>1, <3>2, <3>3 DEF RowsRemain, Used, TypeOK, Row
  <2>3. CASE ~ReapLook(r) /\ ~Poll(r)
    <3>1. row' = row
      BY <2>3 DEF ReapRead, ReapDone, TakeBatch, SubmitOrphan, MarkRequested, Finish
    <3> QED
      BY <3>1 DEF RowsRemain, Used
  <2> QED
    BY <2>1, <2>2, <2>3
<1>3. TasksRemain /\ accrual' = accrual
  BY DEF TasksRemain, Live, ReapRead, ReapLook, ReapDone, TakeBatch, SubmitOrphan,
         MarkRequested, Poll, Finish
<1> DEFINE Sound(x) ==
              /\ x.pc = "submit" =>
                    /\ row' = row /\ \A e \in x.batch : row[e.row].state = "new"
                    /\ \A e, f \in x.batch : e.row = f.row => e = f
              /\ x.pc \notin {"posted", "saved"}
<1>4. PICK x : rake' = [rake EXCEPT ![r] = x] /\ Sound(x)
  <2>1. Sound(Off) /\ Sound(Idle) /\ \A x : x.pc = "reap" \/ x.pc = "poll" => Sound(x)
    BY DEF Off, Idle
  <2>2. CASE ReapRead(r)
    <3> DEFINE y == [rake[r] EXCEPT !.batch = Load(InState({"SENT"}))]
    <3>1. y.pc = "reap" /\ rake' = [rake EXCEPT ![r] = y]
      BY <1>0, <2>2 DEF ReapRead, TypeOK, Run
    <3> HIDE DEF y, Sound
    <3> QED
      BY <2>1, <3>1
  <2>3. CASE ReapLook(r)
    <3> DEFINE y(e) == [rake[r] EXCEPT !.batch = rake[r].batch \ {e},
                           !.looks = IF rake[r].looks = 0 THEN 0 ELSE rake[r].looks - 1]
    <3>1. \A e : y(e).pc = "reap"
      <4>1. rake[r].pc = "reap"
        BY <2>3 DEF ReapLook
      <4> QED
        BY <1>0, <4>1 DEF TypeOK, Run
    <3>2. \E e \in rake[r].batch : rake' = [rake EXCEPT ![r] = y(e)]
      BY <1>0, <2>3, ReapLookSteps
    <3> HIDE DEF y, Sound
    <3> QED
      BY <2>1, <3>1, <3>2
  <2>4. CASE ReapDone(r) \/ SubmitOrphan(r) \/ Finish(r)
    <3>1. rake' = [rake EXCEPT ![r] = Off] \/ rake' = [rake EXCEPT ![r] = Idle]
      BY <2>4 DEF ReapDone, SubmitOrphan, Finish
    <3> HIDE DEF Sound
    <3> QED
      BY <2>1, <3>1
  <2>5. CASE TakeBatch(r)
    <3> DEFINE new == InState({"new"})
               ts == IF new # {} THEN new ELSE InState({"SENT", "ACTIVE"})
               y == [Off EXCEPT !.pc = IF new # {} THEN "submit" ELSE "poll", !.batch = Load(ts)]
    <3>1. rake' = [rake EXCEPT ![r] = y] /\ row' = row
      BY <2>5 DEF TakeBatch
    <3>2. y.pc \in {"submit", "poll"} /\ y.batch = Load(ts) /\ (y.pc = "submit" => ts = new)
      BY DEF Off
    <3>3. /\ \A e \in Load(new) : row[e.row].state = "new"
          /\ \A e, f \in Load(new) : e.row = f.row => e = f
      BY DEF Load, InState
    <3>4. Sound(y)
      <4> HIDE DEF y, ts, new
      <4> QED
        BY <3>1, <3>2, <3>3
    <3> HIDE DEF y, Sound
    <3> QED
      BY <3>1, <3>4
  <2>6. CASE MarkRequested(r)
    <3> DEFINE y == [rake[r] EXCEPT !.pc = "submit", !.cur = NoTransfer, !.held = NoTask]
    <3>1. row' = row /\ (rake' = [rake EXCEPT ![r] = y] \/ rake' = [rake EXCEPT ![r] = Idle])
      BY <2>6 DEF MarkRequested, NextSubmit
    <3>2. y.pc = "submit" /\ y.batch = rake[r].batch
      BY <1>0 DEF TypeOK, Run
    <3>3. Fresh(r) /\ rake[r].pc = "saved"
      BY <2>6 DEF MarkRequested, CopyInv, BatchIsNew
    <3>4. Sound(y)
      <4> HIDE DEF y
      <4> QED
        BY <3>1, <3>2, <3>3 DEF Fresh
    <3> HIDE DEF y, Sound
    <3> QED
      BY <2>1, <3>1, <3>4
  <2>7. CASE Poll(r)
    <3>1. PICK e \in rake[r].batch : rake' = [rake EXCEPT ![r] = Without(rake[r], e)]
      BY <2>7, PollSteps
    <3>2. Without(rake[r], e) = Idle \/ Without(rake[r], e).pc = "poll"
      BY <1>0, <2>7 DEF Poll, Without, TypeOK, Run
    <3> HIDE DEF Sound
    <3> QED
      BY <2>1, <3>1, <3>2
  <2> QED
    BY <2>2, <2>3, <2>4, <2>5, <2>6, <2>7
<1>5. /\ OneRun' /\ rake'[r] = x /\ \A s \in Rakes \ {r} : Fresh(s)'
      /\ \A t \in Transfers : ~Posting(t)
  BY <1>0, <1>1, <1>4, Alone DEF CopyInv
<1>6. BatchIsNew' /\ PostingRemains
  BY <1>4, <1>5 DEF BatchIsNew, Fresh, PostingRemains
<1> QED
  BY <1>0, <1>2, <1>3, <1>5, <1>6, Remaining DEF CopyInv

\* A new row is submitted: nobody asked for its key before.
LEMMA CopyPost ==
    ASSUME IInv, CopyInv, NEW r \in Rakes, Post(r) PROVE CopyInv'
<1> USE DEF table
<1>0. TypeOK
  BY DEF IInv
<1>1. PICK e \in rake[r].batch, g \in FreeTasks :
         /\ NewTask(g, row[e.row].key)
         /\ rake' = [rake EXCEPT ![r].pc = "posted", ![r].batch = @ \ {e},
                                 ![r].cur = e.row, ![r].held = g]
  BY DEF Post
<1>2. rake[r].pc = "submit" /\ row' = row /\ accrual' = accrual
  BY DEF Post
<1> DEFINE x == [rake[r] EXCEPT !.pc = "posted", !.batch = rake[r].batch \ {e},
                                !.cur = e.row, !.held = g]
<1>3. /\ x.pc = "posted" /\ x.batch = rake[r].batch \ {e} /\ x.cur = e.row
      /\ rake' = [rake EXCEPT ![r] = x]
  BY <1>0, <1>1 DEF TypeOK, Run
<1> HIDE DEF x
<1>4. /\ OneRun' /\ rake'[r] = x /\ \A s \in Rakes \ {r} : Fresh(s)'
      /\ \A t \in Transfers : ~Posting(t)
      /\ e.row \in Transfers => Posting(e.row)'
  BY <1>0, <1>2, <1>3, Alone DEF CopyInv, Working
<1>5. /\ \A f \in rake[r].batch : row[f.row].state = "new"
      /\ \A f, h \in rake[r].batch : f.row = h.row => f = h
      /\ e.row \in Transfers
  BY <1>0, <1>2 DEF CopyInv, BatchIsNew, Fresh, TypeOK, Run, Loaded
<1>6. BatchIsNew'
  BY <1>2, <1>3, <1>4, <1>5 DEF BatchIsNew, Fresh
<1>7. TasksOf(row[e.row].key) = {}
  BY <1>4, <1>5 DEF CopyInv, NewIsUntouched
<1>8. /\ ~Live(g) /\ Live(g)' /\ task'[g].key = row[e.row].key
      /\ \A h \in GlobusTasks \ {g} : task'[h] = task[h]
  BY <1>0, <1>1 DEF FreeTasks, NewTask, TypeOK, Live
<1>9. OneRow'
  BY <1>2 DEF CopyInv, OneRow, Used
<1>10. \A h \in GlobusTasks : Live(h) => task[h].key # row[e.row].key
  BY <1>7 DEF TasksOf, Live
<1>11. OneTask'
  <2>1. \A h \in GlobusTasks \ {g} : Live(h)' <=> Live(h)
    BY <1>8 DEF Live
  <2>2. Used(e.row) /\ \A t \in Transfers : Used(t)' <=> Used(t)
    BY <1>2, <1>5 DEF Used
  <2> QED
    BY <1>2, <1>5, <1>8, <1>10, <2>1, <2>2 DEF CopyInv, OneTask
<1>12. NewIsUntouched'
  <2> SUFFICES ASSUME NEW t \in Transfers, row[t].state = "new", ~Posting(t)',
                      NEW h \in GlobusTasks, Live(h)', task'[h].key = row[t].key
               PROVE  FALSE
    BY <1>2 DEF NewIsUntouched, TasksOf, Live
  <2>1. t # e.row
    BY <1>4
  <2>2. row[t].key # row[e.row].key
    BY <1>5, <2>1 DEF CopyInv, OneRow, Used
  <2>3. Live(h) /\ task[h].key = row[t].key
    BY <1>8, <2>2 DEF Live
  <2> QED
    BY <1>4, <2>3 DEF CopyInv, NewIsUntouched, TasksOf, Live
<1> QED
  BY <1>4, <1>6, <1>9, <1>11, <1>12 DEF CopyInv

\* The row it submitted is new no longer; the others of the batch still are.
LEMMA CopySaveSent ==
    ASSUME IInv, CopyInv, NEW r \in Rakes, SaveSent(r) PROVE CopyInv'
<1> USE DEF table
<1> DEFINE u == rake[r].cur
           x == [rake[r] EXCEPT !.pc = "saved"]
<1>0. TypeOK
  BY DEF IInv
<1>1. /\ rake[r].pc = "posted" /\ task' = task /\ accrual' = accrual
      /\ row' = [row EXCEPT ![u] = IF Gone(u) THEN @
                                   ELSE [@ EXCEPT !.state = "SENT", !.task = rake[r].held]]
      /\ rake' = [rake EXCEPT ![r].pc = "saved"]
  BY DEF SaveSent
<1>2. u \in Transfers /\ Used(u)
  BY <1>1 DEF IInv, HeldIsSubmitted, Used
<1>3. /\ x.pc = "saved" /\ x.batch = rake[r].batch /\ x.cur = u
      /\ rake' = [rake EXCEPT ![r] = x]
  BY <1>0, <1>1 DEF TypeOK, Run
<1>4. row'[u].key = row[u].key /\ row'[u].state \notin {"new", "unused"}
  BY <1>0, <1>1, <1>2 DEF TypeOK, Row, Gone, Used
<1>5. \A t \in Transfers \ {u} : row'[t] = row[t]
  BY <1>0, <1>1 DEF TypeOK
<1> HIDE DEF x, u
<1>6. /\ OneRun' /\ rake'[r] = x /\ \A s \in Rakes \ {r} : Fresh(s)'
      /\ \A t \in Transfers : Posting(t) => t = u
  BY <1>0, <1>1, <1>3, Alone DEF CopyInv, Working, u
<1>7. /\ \A f \in rake[r].batch : row[f.row].state = "new" /\ f.row # u /\ f.row \in Transfers
      /\ \A f, h \in rake[r].batch : f.row = h.row => f = h
  BY <1>0, <1>1 DEF CopyInv, BatchIsNew, Fresh, TypeOK, Run, Loaded, u
<1>8. BatchIsNew'
  BY <1>3, <1>5, <1>6, <1>7 DEF BatchIsNew, Fresh
<1>9. RowsRemain /\ PostingRemains
  BY <1>2, <1>4, <1>5, <1>6 DEF RowsRemain, PostingRemains, Used
<1>10. TasksRemain
  BY <1>1 DEF TasksRemain, Live
<1> QED
  BY <1>0, <1>1, <1>6, <1>8, <1>9, <1>10, Remaining DEF CopyInv

\* Undisturbed, every step keeps one copy of a key.
LEMMA CopyStep == ASSUME IInv, Undisturbed => CopyInv, Next PROVE (Undisturbed => CopyInv)'
<1> SUFFICES ASSUME Undisturbed' PROVE CopyInv'
  OBVIOUS
<1>1. CopyInv
  BY QuietSteps
<1>2. ASSUME NEW r \in Rakes, RakeStep(r) \/ Finish(r) PROVE CopyInv'
  BY <1>1, <1>2, CopyPost, CopySaveSent, CopyWorks DEF RakeStep
<1> QED
  BY <1>1, <1>2, QuietSteps, CopySendKey, CopyBystander, CopyStart

\* At first nothing was submitted.
LEMMA CopyInitially == ASSUME Init PROVE CopyInv
<1>1. /\ \A r \in Rakes : rake[r].pc = "off"
      /\ \A t \in Transfers : row[t].state = "unused"
      /\ \A g \in GlobusTasks : task[g].state = "none"
  BY DEF Init, Off
<1> QED
  BY <1>1 DEF CopyInv, OneRun, Working, OneRow, Used, OneTask, Live, NewIsUntouched, BatchIsNew, Fresh

\* Two tasks of a key are one.
LEMMA OneTaskOfAKey == ASSUME OneTask, NEW k \in Keys PROVE Cardinality(TasksOf(k)) <= 1
<1>1. CASE TasksOf(k) = {}
  BY <1>1, FS_EmptySet
<1>2. CASE TasksOf(k) # {}
  <2>1. PICK g \in TasksOf(k) : TRUE
    BY <1>2
  <2>2. TasksOf(k) = {g}
    BY <2>1 DEF OneTask, TasksOf, Live
  <2> QED
    BY <2>2, FS_Singleton
<1> QED
  BY <1>1, <1>2

(***************************************************************************)
(* A key is copied by two tasks only when two runs of the scheduled task   *)
(* were at work at once, a run or a call failed, or an operator had keys   *)
(* sent again: process_transfers locks no row, and yet nothing else makes  *)
(* it submit a key twice, however the accrual's own writes and polls fall  *)
(* between its steps.                                                      *)
(***************************************************************************)
THEOREM CopiedOnceUnlessDisturbed == Spec => []CopiedTwiceOnlyIfDisturbed
<1>1. Init => (Undisturbed => CopyInv)
  BY CopyInitially
<1>2. IInv /\ (Undisturbed => CopyInv) /\ [Next]_vars => (Undisturbed => CopyInv)'
  <2>1. ASSUME Undisturbed => CopyInv, UNCHANGED vars PROVE (Undisturbed => CopyInv)'
    BY <2>1
    DEF vars, table, history, bounds, Undisturbed, CopyInv, OneRun, Working, OneRow, Used,
        OneTask, Live, NewIsUntouched, Posting, TasksOf, BatchIsNew, Fresh
  <2> QED
    BY <2>1, CopyStep
<1>3. (Undisturbed => CopyInv) => CopiedTwiceOnlyIfDisturbed
  BY OneTaskOfAKey DEF CopiedTwiceOnlyIfDisturbed, Undisturbed, CopyInv
<1> QED
  BY <1>1, <1>2, <1>3, Invariance, PTL DEF Spec
==============================================================================
