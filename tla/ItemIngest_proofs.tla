--------------------------- MODULE ItemIngest_proofs ---------------------------
(***************************************************************************)
(* Theorems about ItemIngest, for any number of items, workflows, managers *)
(* and rows, and for any number of faults.                                 *)
(***************************************************************************)
EXTENDS ItemIngest, DelayedJobs_proofs

------------------------------------------------------------------------------
(* The inductive invariant *)

\* A row is of a workflow that was created.
RowsHaveFlows == \A d \in Rows : rows[d].status # "absent" =>
                     of[d] \in Flows /\ state[of[d]] # "unborn"

\* Only a row that is being performed holds anything.
IdleRows == \A d \in Rows : IF d \in BeingWorked THEN run[d].pc # "idle" ELSE run[d] = Free

Phases == {"items", "copy", "copied", "create", "assess", "save", "event"}

\* The places of a perform belong to its state, and only an ingest has items to do.
PlacesInStep ==
    \A d \in Rows : /\ run[d].pc \in Phases => run[d].mem = "ingest"
                    /\ run[d].pc = "destroy" => run[d].mem = "end" /\ rows[d].status = "orphan"
                    /\ run[d].todo # {} => run[d].mem = "ingest" /\ run[d].pc \in Phases

\* What a worker has done for its item is there.
ItemInStep ==
    \A d \in Rows : /\ run[d].pc \in {"create", "assess", "save"} => stored[run[d].item] = "all"
                    /\ run[d].pc = "save" => record[run[d].item] = "filled"

Late == {"email_progress", "email_done", "email_staging_directory_missing",
         "email_target_directory_missing", "end"}

\* Past the ingest a workflow has its event, or was told that a directory is missing.
LateIsRecorded ==
    /\ \A f \in Flows : state[f] \in Late \cup {"gone"} => f \in events \cup cancelled
    /\ \A d \in Rows : run[d].mem \in Late \/ run[d].pc = "event" => of[d] \in events \cup cancelled

\* A row that may still move its workflow on.
Live(d) == rows[d].status # "absent" /\ run[d].pc \notin {"done", "destroy"}

\* A workflow has one such row, unless a death doubled it.
OneLiveRow ==
    \A d \in Rows, e \in Rows :
        of[d] = of[e] /\ of[d] \notin doubled /\ Live(d) /\ Live(e) => d = e

\* Its worker knows the workflow's state, and what came to the end stays there.
StateInStep ==
    \A d \in BeingWorked : of[d] \notin doubled =>
        /\ Live(d) => \/ run[d].mem = state[of[d]]
                      \/ run[d].mem = "end" /\ state[of[d]] = "gone"
        /\ run[d].mem = "end" /\ ~Live(d) => state[of[d]] \in {"end", "gone"}

\* The items a worker holds are requested in its workflow and not ingested yet.
Hand(d) == IF d \in Ingesting THEN {run[d].item} ELSE {}
ItemsAreRequested ==
    \A d \in BeingWorked : of[d] \notin doubled =>
        /\ \A i \in run[d].todo \cup Hand(d) :
              request[i] = of[d] /\ (i \in ingested => by[i] \in doubled)
        /\ run[d].todo \cap Hand(d) = {}

JobTypes == /\ rows \in [Rows -> Row] /\ of \in [Rows -> Flows \cup {None}]
            /\ run \in [Rows -> Run] /\ state \in [Flows -> States \cup {"unborn", "gone"}]

QInv == /\ JobTypes /\ RowsHaveFlows /\ IdleRows /\ PlacesInStep
        /\ OneLiveRow /\ StateInStep
IInv == /\ TypeOK /\ QInv /\ IngestedIsHeld /\ ItemInStep /\ LateIsRecorded
        /\ ItemsAreRequested

------------------------------------------------------------------------------
(* Steps of the queue *)

\* A worker without a row, and a manager who asks for nothing, have their types.
LEMMA Constants == Free \in Run /\ Quiet \in [pc : {"ask", "create", "over"}, items : SUBSET Items]
BY NamesAssumption DEF Free, Quiet, Run, States, Pc, AnyItem

\* A new row, wherever it is put.
LEMMA NewRowIsFree == ASSUME FreeRows # {} PROVE NewRow \in Rows /\ rows[NewRow].status = "absent"
BY DEF NewRow, FreeRows

\* A row that is put in the queue has its type.
LEMMA QueueType ==
    ASSUME JobTypes, NEW f \in Flows, PutInQueue(f)
    PROVE  rows' \in [Rows -> Row] /\ of' \in [Rows -> Flows \cup {None}]
BY NewRowIsFree, RowConstants DEF PutInQueue, JobTypes

\* What a perform goes on to.
LEMMA Successors ==
    /\ DOMAIN Successor = {"start", "email_started", "email_progress", "email_done",
                           "email_staging_directory_missing", "email_target_directory_missing"}
    /\ Successor["start"] = "email_started" /\ Successor["email_started"] = "ingest"
    /\ Successor["email_progress"] = "email_done" /\ Successor["email_done"] = "end"
    /\ Successor["email_staging_directory_missing"] = "end"
    /\ Successor["email_target_directory_missing"] = "end"
BY DEF Successor

\* The perform hands its workflow on to a new row.
Requeues(d, s) ==
    /\ d \in BeingWorked /\ run[d].pc \in {"begin", "event"} /\ run[d].mem # "end"
    /\ BeInStateAndRequeue(d, s)

\* The perform goes on with its items.
Works(d) ==
    /\ d \in BeingWorked /\ run[d].mem = "ingest" /\ run[d].pc \in Phases \cup {"begin"}
    /\ run' \in [Rows -> Run] /\ \A e \in Rows \ {d} : run'[e] = run[e]
    /\ run'[d].mem = "ingest" /\ run'[d].pc \in Phases
    /\ rows' = rows /\ of' = of /\ state' = state

\* The perform is given up, to be repeated or not.
Fails(d) ==
    /\ d \in BeingWorked
    /\ rows' = [rows EXCEPT ![d] = AfterRaise(@)] \/ rows' = [rows EXCEPT ![d] = AfterCrash(@)]
    /\ run' = [run EXCEPT ![d] = Free]
    /\ of' = IF rows'[d] = Absent THEN [of EXCEPT ![d] = None] ELSE of
    /\ run[d].pc = "done" => of[d] \in doubled'
    /\ state' = state

\* What a step means for the rows is only how many of each flow are live and what they know.
LEMMA QWorks == ASSUME QInv, NEW d \in Rows, Works(d), doubled' = doubled PROVE QInv'
<1> DEFINE x == run'[d]
<1>2. /\ x \in Run /\ x.mem = "ingest" /\ x.pc \in Phases /\ x.pc \notin {"idle", "done", "destroy"}
  BY DEF Works, Phases
<1>3. /\ run' \in [Rows -> Run] /\ run \in [Rows -> Run]
      /\ rows' = rows /\ of' = of /\ state' = state
  BY DEF Works, QInv, JobTypes
<1>4. \A e \in Rows : run'[e] = IF e = d THEN x ELSE run[e]
  BY DEF Works
<1> HIDE DEF x
<1>5. d \in BeingWorked /\ Live(d) /\ run[d].mem = "ingest" /\ BeingWorked' = BeingWorked
  BY <1>3 DEF Works, Live, Phases, BeingWorked
<1>6. \A e \in Rows : Live(e)' <=> Live(e)
  BY <1>2, <1>3, <1>4, <1>5 DEF Live
<1>7. JobTypes' /\ RowsHaveFlows'
  BY <1>2, <1>3 DEF QInv, JobTypes, RowsHaveFlows
<1>8. IdleRows' /\ PlacesInStep'
  BY <1>2, <1>3, <1>4, <1>5 DEF QInv, IdleRows, PlacesInStep
<1>9. OneLiveRow'
  BY <1>3, <1>6 DEF QInv, OneLiveRow
<1>10. StateInStep'
  BY <1>2, <1>3, <1>4, <1>5, <1>6 DEF QInv, StateInStep, BeingWorked
<1> QED
  BY <1>7, <1>8, <1>9, <1>10 DEF QInv

\* A perform that raises, or dies, keeps its row or loses its place.
LEMMA QFails == ASSUME QInv, NEW d \in Rows, Fails(d), doubled \subseteq doubled' PROVE QInv'
<1>1. run' = [run EXCEPT ![d] = Free] /\ run \in [Rows -> Run] /\ state' = state
  BY DEF Fails, QInv, JobTypes
<1>2. /\ rows' \in [Rows -> Row] /\ rows \in [Rows -> Row]
      /\ \A e \in Rows \ {d} : rows'[e] = rows[e] /\ run'[e] = run[e] /\ of'[e] = of[e]
      /\ rows'[d].status \in {"absent", "queued", "failed"} /\ run'[d] = Free
      /\ rows'[d].status # "absent" => of'[d] = of[d] /\ rows[d].status # "orphan"
  <2>1. rows \in [Rows -> Row] /\ of \in [Rows -> Flows \cup {None}] /\ rows[d] \in Row
    BY DEF QInv, JobTypes
  <2>2. rows' = [rows EXCEPT ![d] = AfterRaise(rows[d])] \/ rows' = [rows EXCEPT ![d] = AfterCrash(rows[d])]
    BY DEF Fails
  <2>3. /\ rows' \in [Rows -> Row] /\ \A e \in Rows \ {d} : rows'[e] = rows[e]
        /\ rows'[d] = AfterRaise(rows[d]) \/ rows'[d] = AfterCrash(rows[d])
    BY <2>1, <2>2, RowSteps
  <2>4. /\ rows'[d].status \in {"absent", "queued", "failed"}
        /\ rows[d].status = "orphan" => rows'[d].status = "absent"
    BY <2>1, <2>3, StatusSteps
  <2>5. /\ \A e \in Rows \ {d} : of'[e] = of[e]
        /\ rows'[d].status # "absent" => of'[d] = of[d]
    BY <2>1, StatusSteps DEF Fails
  <2> QED
    BY <1>1, <2>1, <2>3, <2>4, <2>5
<1>3. of' \in [Rows -> Flows \cup {None}]
  BY DEF Fails, QInv, JobTypes
<1>4. Free \in Run /\ Free.pc = "idle" /\ Free.mem = "start" /\ Free.todo = {}
  BY Constants DEF Free
<1>5. JobTypes'
  BY <1>1, <1>2, <1>3, <1>4 DEF QInv, JobTypes
<1>6. d \in BeingWorked /\ BeingWorked' = BeingWorked \ {d}
  BY <1>2 DEF Fails, BeingWorked
<1>7. RowsHaveFlows' /\ IdleRows' /\ PlacesInStep'
  BY <1>1, <1>2, <1>4, <1>6 DEF QInv, RowsHaveFlows, IdleRows, PlacesInStep, BeingWorked, Phases
<1>8. \A e \in Rows \ {d} : Live(e)' <=> Live(e)
  BY <1>2 DEF Live
<1>9. Live(d)' => \/ of'[d] \in doubled'
                  \/ Live(d) /\ of'[d] = of[d]
  BY <1>2, <1>6 DEF Live, Fails, QInv, PlacesInStep, BeingWorked
<1>10. OneLiveRow'
  BY <1>2, <1>8, <1>9 DEF QInv, OneLiveRow
<1>11. StateInStep'
  <2> SUFFICES ASSUME NEW e \in BeingWorked', of'[e] \notin doubled'
               PROVE  /\ Live(e)' => \/ run'[e].mem = state'[of'[e]]
                                     \/ run'[e].mem = "end" /\ state'[of'[e]] = "gone"
                      /\ run'[e].mem = "end" /\ ~Live(e)' => state'[of'[e]] \in {"end", "gone"}
    BY DEF StateInStep
  <2>1. e \in BeingWorked /\ e \in Rows \ {d} /\ of[e] \notin doubled
    BY <1>2, <1>6 DEF BeingWorked
  <2> QED
    BY <1>1, <1>2, <1>8, <2>1 DEF QInv, StateInStep
<1> QED
  BY <1>5, <1>7, <1>10, <1>11 DEF QInv

\* A perform that ends requeues its own workflow, and no other.
LEMMA QRequeues ==
    ASSUME QInv, NEW d \in Rows, NEW s \in States, s # "start", Requeues(d, s), doubled' = doubled
    PROVE  QInv'
<1> DEFINE n == NewRow
           f == of[d]
           x == [Free EXCEPT !.mem = s, !.pc = "done"]
<1>1. /\ x \in Run /\ x.mem = s /\ x.pc = "done" /\ x.todo = {}
  BY Constants DEF Run, Free, Pc
<1>2. n \in Rows /\ rows[n].status = "absent" /\ n # d /\ d \in BeingWorked
  BY NewRowIsFree DEF Requeues, BeInStateAndRequeue, PutInQueue, BeingWorked
<1>3. f \in Flows /\ state[f] # "unborn" /\ state[f] \in States \cup {"gone"}
  BY <1>2 DEF QInv, RowsHaveFlows, BeingWorked, JobTypes
<1>4. JobTypes /\ rows[d].status # "absent"
  BY <1>2 DEF QInv, BeingWorked
<1>5. /\ rows' = [rows EXCEPT ![n] = Fresh] /\ of' = [of EXCEPT ![n] = f]
      /\ run' = [run EXCEPT ![d] = x]
      /\ state' = [state EXCEPT ![f] = IF @ = "gone" THEN "gone" ELSE s]
  BY DEF Requeues, BeInStateAndRequeue, PutInQueue
<1>6. run[n] = Free /\ n \notin BeingWorked
  BY <1>2 DEF QInv, IdleRows, BeingWorked
<1>7. Fresh.status = "queued" /\ Free.pc = "idle" /\ Free.mem = "start" /\ Free.todo = {} /\ Fresh \in Row
  BY RowConstants DEF Fresh, Free
<1> HIDE DEF n, f, x
<1>8. /\ \A e \in Rows \ {n} : rows'[e] = rows[e] /\ of'[e] = of[e]
      /\ rows'[n] = Fresh /\ of'[n] = f
      /\ \A e \in Rows \ {d} : run'[e] = run[e]
      /\ run'[d] = x
      /\ \A g \in Flows \ {f} : state'[g] = state[g]
      /\ state'[f] = IF state[f] = "gone" THEN "gone" ELSE s
  BY <1>2, <1>3, <1>4, <1>5 DEF JobTypes
<1>9. JobTypes'
  BY <1>1, <1>3, <1>4, <1>5, <1>7 DEF JobTypes
<1>10. BeingWorked' = BeingWorked
  BY <1>2, <1>6, <1>7, <1>8 DEF BeingWorked
<1>11. RowsHaveFlows'
  BY <1>3, <1>4, <1>8 DEF QInv, RowsHaveFlows, JobTypes, States
<1>12. IdleRows' /\ PlacesInStep'
  BY <1>1, <1>2, <1>6, <1>7, <1>8, <1>10 DEF QInv, IdleRows, PlacesInStep, Phases
<1>13. Live(d) /\ ~Live(d)' /\ ~Live(n)
  BY <1>1, <1>2, <1>4, <1>8 DEF Live, Requeues
<1>14. \A e \in Rows \ {d, n} : Live(e)' <=> Live(e)
  BY <1>8 DEF Live
<1>15. OneLiveRow'
  <2> SUFFICES ASSUME NEW e \in Rows, NEW g \in Rows, of'[e] = of'[g], of'[e] \notin doubled,
                      Live(e)', Live(g)', e # g
               PROVE  FALSE
    BY DEF OneLiveRow
  <2>1. e # d /\ g # d
    BY <1>13
  <2>2. CASE e # n /\ g # n
    BY <1>8, <1>14, <2>1, <2>2 DEF QInv, OneLiveRow
  <2>3. ASSUME NEW h \in Rows \ {d, n}, Live(h)', of'[h] = f, f \notin doubled PROVE FALSE
    BY <1>8, <1>13, <1>14, <2>3 DEF QInv, OneLiveRow, f
  <2> QED
    BY <1>8, <2>1, <2>2, <2>3
<1>16. f \notin doubled => run[d].mem = state[f]
  BY <1>2, <1>13 DEF QInv, StateInStep, Requeues, f
<1>17. StateInStep'
  <2> SUFFICES ASSUME NEW e \in BeingWorked, of'[e] \notin doubled
               PROVE  /\ Live(e)' => \/ run'[e].mem = state'[of'[e]]
                                     \/ run'[e].mem = "end" /\ state'[of'[e]] = "gone"
                      /\ run'[e].mem = "end" /\ ~Live(e)' => state'[of'[e]] \in {"end", "gone"}
    BY <1>10 DEF StateInStep
  <2>1. e \in Rows /\ e # n /\ of'[e] = of[e] /\ of[e] \in Flows
    BY <1>6, <1>8 DEF BeingWorked, QInv, RowsHaveFlows
  <2>2. CASE e = d
    BY <1>1, <1>8, <1>13, <2>2 DEF f
  <2>3. CASE e # d /\ of[e] # f
    BY <1>8, <1>14, <2>1, <2>3 DEF QInv, StateInStep
  <2>4. CASE e # d /\ of[e] = f
    <3>1. ~Live(e)
      BY <1>13, <2>1, <2>4 DEF QInv, OneLiveRow, f
    <3>2. run[e].mem = "end" => state[f] \in {"end", "gone"}
      BY <2>1, <2>4, <3>1 DEF QInv, StateInStep
    <3>3. run[d].mem # "end" /\ run[d].mem # "gone"
      BY <1>4 DEF Requeues, JobTypes, Run, States
    <3> QED
      BY <1>8, <1>14, <1>16, <2>1, <2>4, <3>1, <3>2, <3>3
  <2> QED
    BY <2>2, <2>3, <2>4
<1> QED
  BY <1>9, <1>11, <1>12, <1>15, <1>17 DEF QInv

\* A worker that takes a row knows the state of its workflow.
LEMMA QReserve == ASSUME QInv, NEW d \in Rows, Reserve(d) PROVE QInv'
<1> DEFINE x == [Free EXCEPT !.mem = state[of[d]], !.pc = "begin"]
<1>1. JobTypes /\ rows[d].status = "queued" /\ of[d] \in Flows /\ state[of[d]] \in States
  BY DEF Reserve, QInv, RowsHaveFlows, JobTypes
<1>2. x \in Run /\ x.mem = state[of[d]] /\ x.pc = "begin" /\ x.todo = {}
  BY <1>1, Constants DEF Run, Free, Pc
<1>3. /\ run' = [run EXCEPT ![d] = x] /\ rows' = [rows EXCEPT ![d] = Locked(rows[d])]
      /\ of' = of /\ state' = state /\ doubled' = doubled
  BY DEF Reserve, history
<1>4. Locked(rows[d]) \in Row /\ Locked(rows[d]).status = "running"
  BY <1>1, RowSteps, StatusSteps DEF JobTypes
<1> HIDE DEF x
<1>5. /\ \A e \in Rows \ {d} : rows'[e] = rows[e] /\ run'[e] = run[e]
      /\ rows'[d].status = "running" /\ run'[d] = x
  BY <1>1, <1>3, <1>4 DEF JobTypes
<1>6. d \notin BeingWorked /\ BeingWorked' = BeingWorked \cup {d}
  BY <1>1, <1>5 DEF BeingWorked
<1>7. JobTypes' /\ RowsHaveFlows'
  BY <1>1, <1>2, <1>3, <1>4, <1>5 DEF QInv, JobTypes, RowsHaveFlows
<1>8. IdleRows' /\ PlacesInStep'
  BY <1>2, <1>5, <1>6 DEF QInv, IdleRows, PlacesInStep, Phases
<1>9. run[d].pc = "idle"
  BY <1>6 DEF QInv, IdleRows, Free
<1>10. \A e \in Rows : Live(e)' <=> Live(e)
  BY <1>1, <1>2, <1>5, <1>9 DEF Live
<1>11. OneLiveRow'
  BY <1>3, <1>10 DEF QInv, OneLiveRow
<1>12. StateInStep'
  <2>1. Live(d)'
    BY <1>2, <1>5 DEF Live
  <2> QED
    BY <1>2, <1>3, <1>5, <1>6, <1>10, <2>1 DEF QInv, StateInStep, BeingWorked
<1> QED
  BY <1>7, <1>8, <1>11, <1>12 DEF QInv

\* A row whose workflow is gone moves nothing on.
LEMMA QReserveGone == ASSUME QInv, NEW d \in Rows, ReserveGone(d) PROVE QInv'
<1>1. /\ rows' = [rows EXCEPT ![d] = AfterDeserializationError] /\ rows[d].status = "queued"
      /\ of' = of /\ state' = state /\ doubled' = doubled /\ run' = run
      /\ AfterDeserializationError \in Row /\ AfterDeserializationError.status = "failed"
  BY RowConstants DEF ReserveGone, history, AfterDeserializationError
<1>2. JobTypes
  BY DEF QInv
<1>3. JobTypes' /\ (\A e \in Rows \ {d} : rows'[e] = rows[e]) /\ rows'[d].status = "failed"
  BY <1>1, <1>2 DEF JobTypes
<1>4. BeingWorked' = BeingWorked /\ \A e \in Rows : Live(e)' <=> Live(e)
  BY <1>1, <1>3 DEF BeingWorked, Live
<1>5. RowsHaveFlows' /\ IdleRows' /\ PlacesInStep'
  BY <1>1, <1>3, <1>4 DEF QInv, RowsHaveFlows, IdleRows, PlacesInStep
<1>6. OneLiveRow' /\ StateInStep'
  BY <1>1, <1>4 DEF QInv, OneLiveRow, StateInStep, BeingWorked
<1> QED
  BY <1>3, <1>5, <1>6 DEF QInv

\* A row is deleted by the worker that performed it.
LEMMA QDelete ==
    ASSUME QInv, NEW d \in BeingWorked,
           rows' = [rows EXCEPT ![d] = Absent], run' = [run EXCEPT ![d] = Free],
           of' = [of EXCEPT ![d] = None], doubled' = doubled,
           \/ state' = state
           \/ run[d].pc = "destroy" /\ state' = [state EXCEPT ![of[d]] = "gone"]
    PROVE  QInv'
<1>1. JobTypes /\ d \in Rows /\ of[d] \in Flows /\ state[of[d]] # "unborn"
  BY DEF QInv, BeingWorked, RowsHaveFlows
<1>2. /\ Absent \in Row /\ Absent.status = "absent" /\ Free \in Run
      /\ Free.pc = "idle" /\ Free.mem = "start" /\ Free.todo = {}
  BY RowConstants, Constants DEF Absent, Free
<1>3. /\ \A e \in Rows \ {d} : rows'[e] = rows[e] /\ run'[e] = run[e] /\ of'[e] = of[e]
      /\ rows'[d] = Absent /\ run'[d] = Free
  BY <1>1 DEF JobTypes
<1>4. JobTypes'
  BY <1>1, <1>2 DEF JobTypes
<1>5. BeingWorked' = BeingWorked \ {d}
  BY <1>1, <1>2, <1>3 DEF BeingWorked
<1>6. \A f \in Flows : state'[f] = state[f] \/ state'[f] = "gone"
  BY <1>1 DEF JobTypes
<1>7. RowsHaveFlows' /\ IdleRows' /\ PlacesInStep'
  BY <1>2, <1>3, <1>5, <1>6 DEF QInv, RowsHaveFlows, IdleRows, PlacesInStep, BeingWorked, Phases
<1>8. ~Live(d)' /\ \A e \in Rows \ {d} : Live(e)' <=> Live(e)
  BY <1>2, <1>3 DEF Live
<1>9. OneLiveRow'
  BY <1>3, <1>8 DEF QInv, OneLiveRow
<1>10. StateInStep'
  <2> SUFFICES ASSUME NEW e \in BeingWorked', of'[e] \notin doubled
               PROVE  /\ Live(e)' => \/ run'[e].mem = state'[of'[e]]
                                     \/ run'[e].mem = "end" /\ state'[of'[e]] = "gone"
                      /\ run'[e].mem = "end" /\ ~Live(e)' => state'[of'[e]] \in {"end", "gone"}
    BY DEF StateInStep
  <2>1. /\ e \in BeingWorked /\ e \in Rows \ {d} /\ of'[e] = of[e] /\ of[e] \in Flows
        /\ run'[e] = run[e] /\ (Live(e)' <=> Live(e))
    BY <1>3, <1>5, <1>8 DEF BeingWorked, QInv, RowsHaveFlows
  <2>2. CASE state'[of[e]] = state[of[e]]
    BY <2>1, <2>2 DEF QInv, StateInStep
  <2>3. CASE state'[of[e]] # state[of[e]]
    <3>1. of[e] = of[d] /\ run[d].pc = "destroy" /\ state'[of[d]] = "gone"
      BY <1>1, <2>1, <2>3 DEF JobTypes
    <3>2. run[d].mem = "end" /\ ~Live(d)
      BY <1>1, <3>1 DEF QInv, PlacesInStep, Live
    <3>3. state[of[d]] \in {"end", "gone"}
      BY <2>1, <3>1, <3>2 DEF QInv, StateInStep
    <3>4. Live(e) => run[e].mem = "end"
      BY <1>1, <2>1, <3>1, <3>3 DEF QInv, StateInStep, JobTypes, Run, States
    <3> QED
      BY <2>1, <3>1, <3>4
  <2> QED
    BY <2>2, <2>3
<1> QED
  BY <1>4, <1>7, <1>9, <1>10 DEF QInv

\* What destroy_queued_jobs does to every row.
LEMMA DestroyedRows ==
    ASSUME JobTypes, NEW d \in Rows, DestroyQueuedJobs(d), NEW e \in Rows
    PROVE  /\ rows'[e].status = IF of[e] = of[d] /\ rows[e].status # "absent"
                                THEN IF rows[e].status \in {"running", "orphan"} THEN "orphan" ELSE "absent"
                                ELSE rows[e].status
           /\ rows'[e].status # "absent" => of'[e] = of[e]
<1>1. /\ rows'[e] = IF of[e] = of[d] /\ rows[e].status # "absent"
                    THEN Destroyed(rows[e]) ELSE rows[e]
      /\ of'[e] = IF rows'[e] = Absent THEN None ELSE of[e]
  BY DEF DestroyQueuedJobs
<1>2. rows[e] \in Row /\ Absent.status = "absent"
  BY DEF JobTypes, Absent
<1> QED
  BY <1>1, <1>2, StatusSteps

\* A workflow that ends has no row left but the one worked on.
LEMMA QDestroyQueuedJobs == ASSUME QInv, NEW d \in Rows, DestroyQueuedJobs(d) PROVE QInv'
<1>1. JobTypes /\ d \in BeingWorked /\ run[d].mem = "end" /\ run[d].pc \in {"done", "begin"}
  BY DEF QInv, DestroyQueuedJobs, At
<1>2. /\ state' = state /\ doubled' = doubled
      /\ run' = [run EXCEPT ![d].pc = "destroy"]
      /\ \A e \in Rows : rows'[e] = IF of[e] = of[d] /\ rows[e].status # "absent"
                                    THEN Destroyed(rows[e]) ELSE rows[e]
      /\ \A e \in Rows : of'[e] = IF rows'[e] = Absent THEN None ELSE of[e]
  BY DEF DestroyQueuedJobs, history
<1>3. rows' \in [Rows -> Row] /\ of' \in [Rows -> Flows \cup {None}]
  BY <1>1, RowSteps DEF DestroyQueuedJobs, JobTypes
<1>4. /\ run' \in [Rows -> Run] /\ \A e \in Rows \ {d} : run'[e] = run[e]
      /\ run'[d].pc = "destroy" /\ run'[d].mem = "end" /\ run'[d].todo = run[d].todo
  <2>1. run \in [Rows -> Run] /\ d \in Rows /\ "destroy" \in Pc
    BY <1>1 DEF JobTypes, Pc
  <2>2. run' \in [Rows -> Run] /\ \A e \in Rows \ {d} : run'[e] = run[e]
    BY <1>2, <2>1 DEF Run
  <2>3. run'[d].pc = "destroy" /\ run'[d].mem = "end" /\ run'[d].todo = run[d].todo
    BY <1>1, <1>2, <2>1 DEF Run
  <2> QED
    BY <2>2, <2>3
<1>5. JobTypes'
  BY <1>1, <1>2, <1>3, <1>4 DEF JobTypes
<1>6. \A e \in Rows :
          /\ rows'[e].status = IF of[e] = of[d] /\ rows[e].status # "absent"
                               THEN IF rows[e].status \in {"running", "orphan"} THEN "orphan" ELSE "absent"
                               ELSE rows[e].status
          /\ rows'[e].status # "absent" => of'[e] = of[e]
  BY <1>1, DestroyedRows
<1>7. BeingWorked' = BeingWorked /\ rows'[d].status = "orphan"
  BY <1>1, <1>6 DEF BeingWorked
<1>8. run[d].todo = {}
  BY <1>1 DEF QInv, PlacesInStep, BeingWorked
<1>9. RowsHaveFlows' /\ IdleRows'
  <2>1. RowsHaveFlows'
    <3> SUFFICES ASSUME NEW e \in Rows, rows'[e].status # "absent"
                 PROVE  of'[e] \in Flows /\ state[of'[e]] # "unborn"
      BY <1>2 DEF RowsHaveFlows
    <3>1. rows[e].status # "absent" /\ of'[e] = of[e]
      BY <1>6
    <3> QED
      BY <3>1 DEF QInv, RowsHaveFlows
  <2>2. IdleRows'
    BY <1>1, <1>4, <1>7 DEF QInv, IdleRows
  <2> QED
    BY <2>1, <2>2
<1>10. PlacesInStep'
  <2>1. \A e \in Rows : rows[e].status = "orphan" => rows'[e].status = "orphan"
    BY <1>6 DEF BeingWorked
  <2> QED
    BY <1>4, <1>7, <1>8, <2>1 DEF QInv, PlacesInStep, Phases
<1>11. ~Live(d)' /\ \A e \in Rows : Live(e)' => Live(e) /\ of'[e] = of[e]
  BY <1>4, <1>6 DEF Live
<1>12. OneLiveRow'
  BY <1>2, <1>11 DEF QInv, OneLiveRow
<1>13. StateInStep'
  <2> SUFFICES ASSUME NEW e \in BeingWorked, of'[e] \notin doubled
               PROVE  /\ Live(e)' => \/ run'[e].mem = state[of'[e]]
                                     \/ run'[e].mem = "end" /\ state[of'[e]] = "gone"
                      /\ run'[e].mem = "end" /\ ~Live(e)' => state[of'[e]] \in {"end", "gone"}
    BY <1>2, <1>7 DEF StateInStep
  <2>1. e \in Rows /\ of'[e] = of[e] /\ rows'[e].status \in {"running", "orphan"}
    BY <1>6, <1>7 DEF BeingWorked
  <2>2. e # d => run'[e] = run[e] /\ (Live(e)' <=> Live(e))
    BY <1>4, <1>11, <2>1 DEF Live, BeingWorked
  <2>3. CASE e = d
    BY <1>1, <1>4, <1>11, <2>1, <2>3 DEF QInv, StateInStep, JobTypes
  <2> QED
    BY <2>1, <2>2, <2>3 DEF QInv, StateInStep
<1> QED
  BY <1>5, <1>9, <1>10, <1>12, <1>13 DEF QInv

\* A manager's workflow, when no request is in the way of it.
Creates(m) ==
    /\ Unborn # {} /\ \A i \in asked[m].items : request[i] = None
    /\ state' = [state EXCEPT ![NewFlow] = "start"]
    /\ request' = [i \in Items |-> IF i \in asked[m].items THEN NewFlow ELSE request[i]]
    /\ PutInQueue(NewFlow) /\ run' = run

\* A new workflow has one row.
LEMMA QCreates == ASSUME QInv, NEW m \in Managers, Creates(m), doubled' = doubled PROVE QInv'
<1> DEFINE n == NewRow
           f == NewFlow
<1>1. n \in Rows /\ rows[n].status = "absent"
  BY NewRowIsFree DEF Creates, PutInQueue
<1>2. f \in Flows /\ state[f] = "unborn"
  BY DEF Creates, NewFlow, Unborn
<1>3. /\ rows' = [rows EXCEPT ![n] = Fresh] /\ of' = [of EXCEPT ![n] = f]
      /\ run' = run /\ state' = [state EXCEPT ![f] = "start"]
  BY DEF Creates, PutInQueue
<1>4. run[n] = Free /\ n \notin BeingWorked /\ JobTypes
  BY <1>1 DEF QInv, IdleRows, BeingWorked
<1>5. Fresh.status = "queued" /\ Free.pc = "idle" /\ Free.mem = "start" /\ Free.todo = {} /\ Fresh \in Row
  BY RowConstants DEF Fresh, Free
<1> HIDE DEF n, f
<1>6. /\ \A e \in Rows \ {n} : rows'[e] = rows[e] /\ of'[e] = of[e]
      /\ rows'[n] = Fresh /\ of'[n] = f
      /\ \A g \in Flows \ {f} : state'[g] = state[g]
      /\ state'[f] = "start"
  BY <1>1, <1>2, <1>3, <1>4 DEF JobTypes
<1>7. JobTypes'
  BY <1>2, <1>3, <1>4, <1>5 DEF JobTypes, States
<1>8. BeingWorked' = BeingWorked
  BY <1>4, <1>5, <1>6 DEF BeingWorked
<1>9. \A e \in Rows : rows[e].status # "absent" => of[e] # f /\ e # n
  BY <1>1, <1>2 DEF QInv, RowsHaveFlows
<1>10. RowsHaveFlows' /\ IdleRows' /\ PlacesInStep'
  BY <1>1, <1>2, <1>3, <1>4, <1>5, <1>6, <1>8, <1>9 DEF QInv, RowsHaveFlows, IdleRows, PlacesInStep, Phases
<1>11. \A e \in Rows \ {n} : Live(e)' <=> Live(e)
  BY <1>3, <1>6 DEF Live
<1>12. OneLiveRow'
  BY <1>6, <1>9, <1>11 DEF QInv, OneLiveRow, Live
<1>13. StateInStep'
  <2>1. \A e \in BeingWorked : /\ e \in Rows \ {n} /\ of'[e] = of[e] /\ of[e] \in Flows \ {f}
                               /\ (Live(e)' <=> Live(e)) /\ run'[e] = run[e]
    BY <1>3, <1>6, <1>9, <1>11 DEF BeingWorked, QInv, RowsHaveFlows
  <2> QED
    BY <1>6, <1>8, <2>1 DEF QInv, StateInStep
<1> QED
  BY <1>7, <1>10, <1>12, <1>13 DEF QInv

\* What leaves the queue alone.
LEMMA QStill == ASSUME QInv, UNCHANGED jobs, doubled' = doubled PROVE QInv'
BY DEF jobs, QInv, JobTypes, RowsHaveFlows, IdleRows, PlacesInStep, OneLiveRow, StateInStep,
       BeingWorked, Live

------------------------------------------------------------------------------
(* The steps of a worker, as steps of the queue *)

\* A move inside a perform leaves queue and state alone.
LEMMA MovesAt ==
    ASSUME JobTypes, NEW d \in BeingWorked, run[d].mem = "ingest", run[d].pc \in Phases \cup {"begin"},
           NEW pc \in Phases, Move(d, pc), rows' = rows, of' = of, state' = state
    PROVE  Works(d)
BY DEF Works, Move, JobTypes, Run, Phases, Pc, BeingWorked

\* Every step of a worker is one of these to the queue.
LEMMA WorkerSteps ==
    ASSUME QInv, NEW d \in Rows, WorkerStep(d) \/ TargetMissing(d) \/ SkipItem(d) \/ Interrupt(d)
    PROVE  \/ \E s \in States \ {"start"} : Requeues(d, s)
           \/ Works(d) \/ Fails(d) \/ Reserve(d) \/ ReserveGone(d)
           \/ Finish(d) \/ DestroyQueuedJobs(d) \/ DestroySelf(d)
<1>0. JobTypes /\ PlacesInStep
  BY DEF QInv
<1>Fail. ASSUME Raise(d), d \in BeingWorked, run[d].pc # "done", state' = state PROVE Fails(d)
  BY <1>Fail DEF Raise, Fails
<1>PerformEmail. CASE PerformEmail(d)
  <2>1. PICK s \in DOMAIN Successor : At(d, s, "begin") /\ BeInStateAndRequeue(d, Successor[s])
    BY <1>PerformEmail DEF PerformEmail
  <2>2. Successor[s] \in States \ {"start"} /\ s # "end"
    BY Successors DEF States
  <2>3. Requeues(d, Successor[s])
    BY <2>1, <2>2 DEF Requeues, At
  <2> QED
    BY <2>2, <2>3
<1>TargetMissing. CASE TargetMissing(d)
  BY <1>TargetMissing DEF TargetMissing, Cancel, At, Requeues, States
<1>StagingMissing. CASE StagingMissing(d)
  BY <1>StagingMissing DEF StagingMissing, Cancel, At, Requeues, States
<1>IngestDone. CASE IngestDone(d)
  BY <1>IngestDone DEF IngestDone, At, Requeues, States
<1>LoadItems. CASE LoadItems(d)
  <2> DEFINE todo == {i \in Items \ ingested : request[i] = of[d]}
  <2>1. /\ run[d] \in Run /\ run[d].item \in Items /\ run[d].mem = "ingest"
        /\ rows' = rows /\ of' = of /\ state' = state
        /\ run' = [run EXCEPT ![d].pc = "items", ![d].todo = todo]
        /\ d \in BeingWorked /\ run[d].pc \in Phases \cup {"begin"}
    BY <1>0, <1>LoadItems DEF LoadItems, At, JobTypes, Run
  <2>2. todo \in SUBSET Items /\ "items" \in Phases
    BY DEF Phases
  <2> HIDE DEF todo
  <2>3. /\ run' \in [Rows -> Run] /\ \A e \in Rows \ {d} : run'[e] = run[e]
        /\ run'[d].mem = "ingest" /\ run'[d].pc = "items"
    BY <1>0, <2>1, <2>2 DEF JobTypes, Run, Pc
  <2> QED
    BY <2>1, <2>2, <2>3 DEF Works
<1>NextItem. CASE NextItem(d)
  <2>1. PICK i \in run[d].todo :
           run' = [run EXCEPT ![d].todo = @ \ {i}, ![d].item = i,
                              ![d].pc = IF i \in staged THEN "copy" ELSE "items"]
    BY <1>NextItem DEF NextItem
  <2> DEFINE pc == IF i \in staged THEN "copy" ELSE "items"
             todo == run[d].todo \ {i}
  <2>2. /\ run[d] \in Run /\ run[d].mem = "ingest" /\ todo \in SUBSET Items /\ i \in Items
        /\ rows' = rows /\ of' = of /\ state' = state
        /\ d \in BeingWorked /\ run[d].pc \in Phases \cup {"begin"} /\ pc \in Phases
    BY <1>0, <1>NextItem DEF NextItem, At, JobTypes, Run, Phases
  <2>3. run' = [run EXCEPT ![d].todo = todo, ![d].item = i, ![d].pc = pc]
    BY <2>1, Zenon
  <2> HIDE DEF pc, todo
  <2>4. /\ run' \in [Rows -> Run] /\ \A e \in Rows \ {d} : run'[e] = run[e]
        /\ run'[d].mem = "ingest" /\ run'[d].pc = pc
    BY <1>0, <2>2, <2>3 DEF JobTypes, Run, Phases, Pc
  <2> QED
    BY <2>2, <2>4 DEF Works
<1>CopyItem. CASE CopyItem(d)
  BY <1>0, <1>Fail, <1>CopyItem, MovesAt DEF CopyItem, At, Phases
<1>FindDirectory. CASE FindDirectory(d)
  BY <1>0, <1>Fail, <1>FindDirectory, MovesAt DEF FindDirectory, At, Phases
<1>CreateDirectory. CASE CreateDirectory(d)
  BY <1>0, <1>Fail, <1>CreateDirectory, MovesAt DEF CreateDirectory, At, Phases
<1>AssessItem. CASE AssessItem(d)
  BY <1>0, <1>AssessItem, MovesAt DEF AssessItem, At, Phases
<1>MarkIngested. CASE MarkIngested(d)
  BY <1>0, <1>MarkIngested, MovesAt DEF MarkIngested, At, Phases
<1>SkipItem. CASE SkipItem(d)
  BY <1>0, <1>SkipItem, MovesAt DEF SkipItem, Ingesting, Phases, PlacesInStep
<1>AddFileGroupEvent. CASE AddFileGroupEvent(d)
  BY <1>0, <1>AddFileGroupEvent, MovesAt DEF AddFileGroupEvent, At, Phases
<1>Interrupt. CASE Interrupt(d)
  BY <1>Interrupt DEF Interrupt, Fails
<1> QED
  BY <1>PerformEmail, <1>TargetMissing, <1>StagingMissing, <1>IngestDone, <1>LoadItems,
     <1>NextItem, <1>CopyItem, <1>FindDirectory, <1>CreateDirectory, <1>AssessItem,
     <1>MarkIngested, <1>SkipItem, <1>AddFileGroupEvent, <1>Interrupt
  DEF WorkerStep

\* Only a death counts a workflow as doubled.
LEMMA DoubledGrows ==
    /\ \A d \in Rows : WorkerStep(d) \/ TargetMissing(d) \/ SkipItem(d) => doubled' = doubled
    /\ \A d \in Rows : Interrupt(d) => doubled \subseteq doubled'
<1>1. ASSUME NEW d \in Rows, WorkerStep(d) PROVE doubled' = doubled
  <2> USE DEF history
  <2>1. CASE StagingMissing(d) \/ PerformEmail(d) \/ IngestDone(d)
    BY <2>1 DEF StagingMissing, Cancel, PerformEmail, IngestDone
  <2>2. CASE CopyItem(d) \/ FindDirectory(d) \/ CreateDirectory(d) \/ AssessItem(d) \/ MarkIngested(d)
    BY <2>2 DEF CopyItem, FindDirectory, CreateDirectory, AssessItem, MarkIngested
  <2>3. CASE LoadItems(d) \/ NextItem(d) \/ AddFileGroupEvent(d)
    BY <2>3 DEF LoadItems, NextItem, AddFileGroupEvent
  <2>4. CASE Reserve(d) \/ ReserveGone(d) \/ Finish(d) \/ DestroyQueuedJobs(d) \/ DestroySelf(d)
    BY <2>4 DEF Reserve, ReserveGone, Finish, DestroyQueuedJobs, DestroySelf
  <2> QED
    BY <1>1, <2>1, <2>2, <2>3, <2>4 DEF WorkerStep
<1>2. \A d \in Rows : TargetMissing(d) \/ SkipItem(d) => doubled' = doubled
  BY DEF TargetMissing, Cancel, SkipItem, history
<1>3. \A d \in Rows : Interrupt(d) => doubled \subseteq doubled'
  BY DEF Interrupt
<1> QED
  BY <1>1, <1>2, <1>3

\* Every step keeps what is said of the queue.
LEMMA QStep == ASSUME QInv, Next PROVE QInv'
<1>1. ASSUME NEW d \in Rows, WorkerStep(d) \/ TargetMissing(d) \/ SkipItem(d) \/ Interrupt(d)
      PROVE  QInv'
  <2>1. CASE Interrupt(d)
    <3>1. Fails(d) /\ doubled \subseteq doubled'
      BY <2>1, DoubledGrows DEF Interrupt, Fails
    <3> QED
      BY <3>1, QFails
  <2>2. CASE ~Interrupt(d)
    <3>1. doubled' = doubled
      BY <1>1, <2>2, DoubledGrows
    <3>2. CASE Finish(d)
      BY <3>1, <3>2, QDelete DEF Finish
    <3>3. CASE DestroySelf(d)
      BY <3>1, <3>3, QDelete DEF DestroySelf, At
    <3> QED
      BY <1>1, <3>1, <3>2, <3>3, WorkerSteps, QRequeues, QWorks, QFails, QReserve, QReserveGone,
         QDestroyQueuedJobs
  <2> QED
    BY <2>1, <2>2
<1>2. ASSUME NEW m \in Managers, Ask(m) PROVE QInv'
  BY <1>2, QStill DEF Ask, history
<1>3. ASSUME NEW m \in Managers, CreateWorkflow(m) PROVE QInv'
  <2>1. doubled' = doubled /\ (UNCHANGED jobs \/ Creates(m))
    BY <1>3 DEF CreateWorkflow, Creates, history, jobs
  <2> QED
    BY <2>1, QStill, QCreates
<1>4. ASSUME NEW i \in Items, ClearStaging(i) PROVE QInv'
  BY <1>4, QStill DEF ClearStaging, history
<1> QED
  BY <1>1, <1>2, <1>3, <1>4 DEF Next

------------------------------------------------------------------------------
(* Contents *)

ContentTypes ==
    /\ staged \subseteq Items /\ stored \in [Items -> {"none", "part", "all"}]
    /\ record \in [Items -> {"none", "made", "filled"}]
    /\ ingested \subseteq Items /\ by \in [Items -> Flows \cup {None}]
CInv == ContentTypes /\ IngestedIsHeld /\ ItemInStep

\* Workers that hold what they held, or nothing, need no more content than before.
LEMMA ContentKept ==
    ASSUME CInv, UNCHANGED content,
           \A d \in Rows : run'[d].pc \in {"create", "assess", "save"} => run'[d] = run[d]
    PROVE  CInv'
BY DEF CInv, ContentTypes, IngestedIsHeld, ItemInStep, content

\* A worker's step keeps what it has passed, and others' items.
LEMMA ContentStep ==
    ASSUME QInv, CInv, NEW d \in Rows,
           WorkerStep(d) \/ TargetMissing(d) \/ SkipItem(d) \/ Interrupt(d)
    PROVE  CInv'
<1>0. JobTypes /\ run \in [Rows -> Run] /\ Free.pc = "idle"
  BY DEF QInv, JobTypes, Free
<1>1. d \in BeingWorked => of[d] \in Flows /\ run[d] \in Run /\ run[d].item \in Items
  BY DEF QInv, JobTypes, RowsHaveFlows, BeingWorked, Run
<1> USE DEF CInv
<1>Kept. ASSUME UNCHANGED content, NEW x, run' = [run EXCEPT ![d] = x],
                x.pc \notin {"create", "assess", "save"}
         PROVE  CInv'
  BY <1>0, <1>Kept, ContentKept
<1>Requeue. ASSUME UNCHANGED content, NEW s, BeInStateAndRequeue(d, s) PROVE CInv'
  <2> DEFINE x == [Free EXCEPT !.mem = s, !.pc = "done"]
  <2>1. x.pc = "done" /\ run' = [run EXCEPT ![d] = x]
    BY <1>Requeue DEF BeInStateAndRequeue, Free
  <2> HIDE DEF x
  <2> QED
    BY <1>Kept, <1>Requeue, <2>1
<1>Move. ASSUME UNCHANGED content, NEW pc, Move(d, pc), pc \notin {"create", "assess", "save"}
         PROVE  CInv'
  <2>1. \A e \in Rows : run'[e].pc \in {"create", "assess", "save"} => run'[e] = run[e]
    BY <1>0, <1>Move DEF Move, Run
  <2> QED
    BY <1>Move, <2>1, ContentKept
<1>Reserve. CASE Reserve(d)
  <2> DEFINE x == [Free EXCEPT !.mem = state[of[d]], !.pc = "begin"]
  <2>1. x.pc = "begin" /\ run' = [run EXCEPT ![d] = x]
    BY <1>Reserve DEF Reserve, Free
  <2> HIDE DEF x
  <2> QED
    BY <1>Kept, <1>Reserve, <2>1 DEF Reserve
<1>ReserveGone. CASE ReserveGone(d)
  BY <1>ReserveGone, ContentKept DEF ReserveGone
<1>PerformEmail. CASE PerformEmail(d)
  BY <1>PerformEmail, <1>Requeue DEF PerformEmail
<1>Missing. CASE TargetMissing(d) \/ StagingMissing(d)
  BY <1>Missing, <1>Requeue DEF TargetMissing, StagingMissing, Cancel
<1>LoadItems. CASE LoadItems(d)
  <2>1. \A e \in Rows : run'[e].pc \in {"create", "assess", "save"} => run'[e] = run[e]
    BY <1>0, <1>LoadItems DEF LoadItems, Run
  <2> QED
    BY <1>LoadItems, <2>1, ContentKept DEF LoadItems
<1>NextItem. CASE NextItem(d)
  <2>1. \A e \in Rows : run'[e].pc \in {"create", "assess", "save"} => run'[e] = run[e]
    BY <1>0, <1>NextItem DEF NextItem, Run
  <2> QED
    BY <1>NextItem, <2>1, ContentKept DEF NextItem
<1>Raise. ASSUME UNCHANGED content, Raise(d) PROVE CInv'
  BY <1>0, <1>Kept, <1>Raise DEF Raise
<1>CopyItem. CASE CopyItem(d)
  <2>1. CASE Raise(d) /\ UNCHANGED stored
    BY <1>CopyItem, <1>Raise, <2>1 DEF CopyItem, content
  <2>2. CASE Move(d, "copied")
    <3>1. \A e \in Rows : run'[e].pc \in {"create", "assess", "save"} => run'[e] = run[e]
      BY <1>0, <2>2 DEF Move, Run
    <3>2. /\ record' = record /\ ingested' = ingested /\ staged' = staged /\ by' = by
          /\ stored' \in [Items -> {"none", "part", "all"}]
          /\ \A i \in Items : stored[i] = "all" => stored'[i] = "all"
      BY <1>1, <1>CopyItem DEF CopyItem, ContentTypes, At
    <3>3. \A e \in Rows : run[e].item \in Items
      BY <1>0 DEF Run
    <3> QED
      BY <3>1, <3>2, <3>3 DEF ContentTypes, IngestedIsHeld, ItemInStep
  <2> QED
    BY <1>CopyItem, <2>1, <2>2 DEF CopyItem
<1>FindDirectory. CASE FindDirectory(d)
  <2>1. CASE Raise(d) /\ UNCHANGED stored
    BY <1>FindDirectory, <1>Raise, <2>1 DEF FindDirectory, content
  <2>2. ASSUME NEW pc, Move(d, pc), pc \in {"create", "assess"},
               stored' = [stored EXCEPT ![run[d].item] = "all"]
        PROVE  CInv'
    <3>1. \A e \in Rows : /\ e # d => run'[e] = run[e]
                          /\ run'[d].pc # "save" /\ run'[d].item = run[d].item
      BY <1>0, <2>2 DEF Move, Run
    <3>2. /\ record' = record /\ ingested' = ingested /\ staged' = staged /\ by' = by
          /\ stored' \in [Items -> {"none", "part", "all"}]
          /\ \A i \in Items : stored[i] = "all" => stored'[i] = "all"
          /\ stored'[run[d].item] = "all"
      BY <1>1, <1>FindDirectory, <2>2 DEF FindDirectory, ContentTypes, At
    <3>3. \A e \in Rows : run[e].item \in Items
      BY <1>0 DEF Run
    <3> QED
      BY <3>1, <3>2, <3>3 DEF ContentTypes, IngestedIsHeld, ItemInStep
  <2>3. (IF record[run[d].item] = "none" THEN "create" ELSE "assess") \in {"create", "assess"}
    OBVIOUS
  <2> QED
    BY <1>FindDirectory, <2>1, <2>2, <2>3 DEF FindDirectory
<1>CreateDirectory. CASE CreateDirectory(d)
  <2>1. CASE Raise(d) /\ UNCHANGED record
    BY <1>CreateDirectory, <1>Raise, <2>1 DEF CreateDirectory, content
  <2>2. CASE Move(d, "assess") /\ record[run[d].item] = "none"
             /\ record' = [record EXCEPT ![run[d].item] = "made"]
    <3>1. \A e \in Rows : /\ e # d => run'[e] = run[e]
                          /\ run'[d].pc = "assess" /\ run'[d].item = run[d].item
      BY <1>0, <2>2 DEF Move, Run
    <3>2. /\ stored' = stored /\ ingested' = ingested /\ staged' = staged /\ by' = by
          /\ record' \in [Items -> {"none", "made", "filled"}]
          /\ \A i \in Items : record[i] = "filled" => record'[i] = "filled"
          /\ run[d].pc = "create"
      BY <1>1, <1>CreateDirectory, <2>2 DEF CreateDirectory, ContentTypes, At
    <3>3. \A e \in Rows : run[e].item \in Items
      BY <1>0 DEF Run
    <3> QED
      BY <3>1, <3>2, <3>3 DEF ContentTypes, IngestedIsHeld, ItemInStep
  <2> QED
    BY <1>CreateDirectory, <2>1, <2>2 DEF CreateDirectory
<1>AssessItem. CASE AssessItem(d)
  <2>1. \A e \in Rows : /\ e # d => run'[e] = run[e]
                        /\ run'[d].pc = "save" /\ run'[d].item = run[d].item
    BY <1>0, <1>AssessItem DEF AssessItem, Move, Run
  <2>2. /\ stored' = stored /\ ingested' = ingested /\ staged' = staged /\ by' = by
        /\ record' \in [Items -> {"none", "made", "filled"}]
        /\ \A i \in Items : record[i] = "filled" => record'[i] = "filled"
        /\ record'[run[d].item] = "filled" /\ run[d].pc = "assess"
    BY <1>1, <1>AssessItem DEF AssessItem, ContentTypes, At
  <2>3. \A e \in Rows : run[e].item \in Items
    BY <1>0 DEF Run
  <2> QED
    BY <2>1, <2>2, <2>3 DEF ContentTypes, IngestedIsHeld, ItemInStep
<1>MarkIngested. CASE MarkIngested(d)
  <2>1. \A e \in Rows : run'[e].pc \in {"create", "assess", "save"} => run'[e] = run[e]
    BY <1>0, <1>MarkIngested DEF MarkIngested, Move, Run
  <2>2. /\ stored' = stored /\ record' = record /\ staged' = staged /\ run[d].pc = "save"
        /\ ingested' = ingested \cup {run[d].item} /\ run[d].item \in Items
        /\ by' \in [Items -> Flows \cup {None}]
    BY <1>1, <1>MarkIngested DEF MarkIngested, ContentTypes, At
  <2> QED
    BY <2>1, <2>2 DEF ContentTypes, IngestedIsHeld, ItemInStep
<1>SkipItem. CASE SkipItem(d)
  BY <1>SkipItem, <1>Move DEF SkipItem
<1>AddFileGroupEvent. CASE AddFileGroupEvent(d)
  BY <1>AddFileGroupEvent, <1>Move DEF AddFileGroupEvent
<1>IngestDone. CASE IngestDone(d)
  BY <1>IngestDone, <1>Requeue DEF IngestDone
<1>Finish. CASE Finish(d)
  BY <1>0, <1>Finish, <1>Kept DEF Finish
<1>DestroyQueuedJobs. CASE DestroyQueuedJobs(d)
  <2>1. Move(d, "destroy")
    BY <1>DestroyQueuedJobs DEF DestroyQueuedJobs, Move
  <2> QED
    BY <1>DestroyQueuedJobs, <1>Move, <2>1 DEF DestroyQueuedJobs
<1>DestroySelf. CASE DestroySelf(d)
  BY <1>0, <1>DestroySelf, <1>Kept DEF DestroySelf
<1>Interrupt. CASE Interrupt(d)
  BY <1>0, <1>Interrupt, <1>Kept DEF Interrupt
<1> QED
  BY <1>Reserve, <1>ReserveGone, <1>PerformEmail, <1>Missing, <1>LoadItems, <1>NextItem,
     <1>CopyItem, <1>FindDirectory, <1>CreateDirectory, <1>AssessItem, <1>MarkIngested,
     <1>SkipItem, <1>AddFileGroupEvent, <1>IngestDone, <1>Finish, <1>DestroyQueuedJobs,
     <1>DestroySelf, <1>Interrupt
  DEF WorkerStep

------------------------------------------------------------------------------
(* The rest of the types *)

\* Every step keeps the types.
LEMMA TypeStep == ASSUME TypeOK, QInv, CInv, Next PROVE TypeOK'
<1>1. JobTypes'
  BY QStep DEF QInv
<1>2. QInv /\ JobTypes /\ \A d \in BeingWorked : of[d] \in Flows
  BY DEF QInv, JobTypes, RowsHaveFlows, BeingWorked
<1> USE BoundsAssumption DEF TypeOK, content, history
<1> HIDE DEF QInv
<1> SUFFICES /\ CInv' /\ request' \in [Items -> Flows \cup {None}]
             /\ asked' \in [Managers -> [pc : {"ask", "create", "over"}, items : SUBSET Items]]
             /\ events' \cup cancelled' \cup doubled' \cup torn' \subseteq Flows
             /\ faults' \in 0 .. MaxFaults
  BY <1>1 DEF JobTypes, CInv, ContentTypes
<1>3. ASSUME NEW d \in Rows, WorkerStep(d) \/ TargetMissing(d) \/ SkipItem(d) \/ Interrupt(d)
      PROVE  /\ CInv' /\ request' \in [Items -> Flows \cup {None}]
             /\ asked' \in [Managers -> [pc : {"ask", "create", "over"}, items : SUBSET Items]]
             /\ events' \cup cancelled' \cup doubled' \cup torn' \subseteq Flows
             /\ faults' \in 0 .. MaxFaults
  <2>1. CInv'
    BY <1>2, <1>3, ContentStep
  <2>2. request' \in [Items -> Flows \cup {None}] /\ asked' = asked
    <3>1. CASE DestroySelf(d)
      BY <3>1 DEF DestroySelf
    <3>2. CASE UNCHANGED <<request, asked>>
      BY <3>2
    <3>3. CASE TargetMissing(d) \/ StagingMissing(d) \/ PerformEmail(d) \/ IngestDone(d)
      BY <3>2, <3>3 DEF TargetMissing, StagingMissing, Cancel, PerformEmail, IngestDone
    <3>4. CASE CopyItem(d) \/ FindDirectory(d) \/ CreateDirectory(d) \/ AssessItem(d) \/ MarkIngested(d)
      BY <3>2, <3>4 DEF CopyItem, FindDirectory, CreateDirectory, AssessItem, MarkIngested
    <3>5. CASE LoadItems(d) \/ NextItem(d) \/ AddFileGroupEvent(d) \/ SkipItem(d)
      BY <3>2, <3>5 DEF LoadItems, NextItem, AddFileGroupEvent, SkipItem
    <3>6. CASE Reserve(d) \/ ReserveGone(d) \/ Finish(d) \/ DestroyQueuedJobs(d) \/ Interrupt(d)
      BY <3>2, <3>6 DEF Reserve, ReserveGone, Finish, DestroyQueuedJobs, Interrupt
    <3> QED
      BY <1>3, <3>1, <3>3, <3>4, <3>5, <3>6 DEF WorkerStep
  <2>3. /\ events' \cup cancelled' \cup doubled' \cup torn' \subseteq Flows
        /\ faults' \in 0 .. MaxFaults
    <3>1. CASE Interrupt(d)
      BY <1>2, <3>1 DEF Interrupt
    <3>2. CASE TargetMissing(d) \/ StagingMissing(d)
      BY <1>2, <3>2 DEF TargetMissing, StagingMissing, Cancel, At
    <3>3. CASE AddFileGroupEvent(d) \/ DestroySelf(d) \/ SkipItem(d)
      BY <1>2, <3>3 DEF AddFileGroupEvent, DestroySelf, SkipItem, At
    <3>4. CASE UNCHANGED <<history, faults>>
      BY <3>4
    <3> QED
      BY <1>3, <3>1, <3>2, <3>3, <3>4
      DEF WorkerStep, Reserve, ReserveGone, PerformEmail, LoadItems, NextItem, CopyItem,
          FindDirectory, CreateDirectory, AssessItem, MarkIngested, IngestDone, Finish,
          DestroyQueuedJobs
  <2> QED
    BY <2>1, <2>2, <2>3
<1>4. ASSUME NEW m \in Managers, Ask(m)
      PROVE  /\ CInv' /\ request' \in [Items -> Flows \cup {None}]
             /\ asked' \in [Managers -> [pc : {"ask", "create", "over"}, items : SUBSET Items]]
             /\ UNCHANGED <<history, faults>>
  <2>1. CInv'
    BY <1>4, ContentKept DEF Ask, jobs
  <2>2. asked' \in [Managers -> [pc : {"ask", "create", "over"}, items : SUBSET Items]]
    BY <1>4, Constants DEF Ask
  <2> QED
    BY <1>4, <2>1, <2>2 DEF Ask
<1>5. ASSUME NEW m \in Managers, CreateWorkflow(m)
      PROVE  /\ CInv' /\ request' \in [Items -> Flows \cup {None}]
             /\ asked' \in [Managers -> [pc : {"ask", "create", "over"}, items : SUBSET Items]]
             /\ UNCHANGED <<history, faults>>
  <2>1. CInv'
    BY <1>5, ContentKept DEF CreateWorkflow
  <2>2. Unborn # {} => NewFlow \in Flows
    BY DEF Unborn, NewFlow
  <2> QED
    BY <1>5, <2>1, <2>2, Constants DEF CreateWorkflow
<1>6. ASSUME NEW i \in Items, ClearStaging(i)
      PROVE  CInv' /\ UNCHANGED <<request, asked, history, faults>>
  BY <1>6 DEF ClearStaging, CInv, ContentTypes, IngestedIsHeld, ItemInStep, jobs
<1> QED
  BY <1>3, <1>4, <1>5, <1>6 DEF Next

\* Every step keeps what is said of the content.
LEMMA CStep == ASSUME QInv, CInv, Next PROVE CInv'
<1>1. ASSUME NEW m \in Managers, Ask(m) \/ CreateWorkflow(m) PROVE CInv'
  BY <1>1, ContentKept DEF Ask, CreateWorkflow, jobs, content
<1>2. ASSUME NEW i \in Items, ClearStaging(i) PROVE CInv'
  BY <1>2 DEF ClearStaging, CInv, ContentTypes, IngestedIsHeld, ItemInStep, jobs
<1> QED
  BY <1>1, <1>2, ContentStep DEF Next

------------------------------------------------------------------------------
(* What the file group is told *)

\* A workflow gets late only by way of its event or its mail.
LEMMA LateStep == ASSUME QInv, LateIsRecorded, Next PROVE LateIsRecorded'
<1>0. JobTypes /\ Free.pc = "idle" /\ Free.mem = "start" /\ "start" \notin Late /\ "ingest" \notin Late
  BY DEF QInv, Free, Late
<1>1. ASSUME NEW d \in Rows, WorkerStep(d) \/ TargetMissing(d) \/ SkipItem(d) \/ Interrupt(d)
      PROVE  LateIsRecorded'
  <2>0. events \subseteq events' /\ cancelled \subseteq cancelled'
    BY <1>1
    DEF WorkerStep, Reserve, ReserveGone, PerformEmail, StagingMissing, TargetMissing, Cancel,
        LoadItems, NextItem, CopyItem, FindDirectory, CreateDirectory, AssessItem, MarkIngested,
        AddFileGroupEvent, IngestDone, Finish, DestroyQueuedJobs, DestroySelf, SkipItem, Interrupt,
        history
  <2>Quiet. ASSUME state' = state,
                   \A e \in Rows \ {d} : run'[e] = run[e] /\ (of'[e] = of[e] \/ run[e] = Free),
                   run'[d].mem \in Late \/ run'[d].pc = "event" =>
                      \/ of'[d] = of[d] /\ (run[d].mem \in Late \/ run[d].pc = "event")
                      \/ of'[d] \in events' \cup cancelled'
            PROVE  LateIsRecorded'
    BY <1>0, <2>0, <2>Quiet DEF LateIsRecorded
  <2>Requeue. ASSUME NEW s \in States, BeInStateAndRequeue(d, s), d \in BeingWorked,
                     s \in Late => of[d] \in events' \cup cancelled'
              PROVE  LateIsRecorded'
    <3> DEFINE x == [Free EXCEPT !.mem = s, !.pc = "done"]
    <3>1. x.mem = s /\ x.pc = "done"
      BY DEF Free
    <3>2. run' = [run EXCEPT ![d] = x] /\ of' = [of EXCEPT ![NewRow] = of[d]] /\ FreeRows # {}
      BY <2>Requeue DEF BeInStateAndRequeue, PutInQueue
    <3> HIDE DEF x
    <3>3. NewRow \in Rows /\ NewRow # d /\ run[NewRow] = Free /\ of[d] \in Flows
      BY <2>Requeue, <3>2, NewRowIsFree DEF BeingWorked, QInv, IdleRows, RowsHaveFlows
    <3>4. \A f \in Flows : state'[f] = state[f] \/ (f = of[d] /\ state'[f] = s)
      BY <1>0, <2>Requeue DEF BeInStateAndRequeue, JobTypes
    <3>5. \A e \in Rows : run'[e] = (IF e = d THEN x ELSE run[e]) /\ (e # NewRow => of'[e] = of[e])
      BY <1>0, <3>2 DEF JobTypes
    <3>6. s # "gone"
      BY DEF States
    <3> QED
      BY <1>0, <2>0, <2>Requeue, <3>1, <3>3, <3>4, <3>5, <3>6 DEF LateIsRecorded
  <2>Free. ASSUME run' = [run EXCEPT ![d] = Free], state' = state,
                  of' = [of EXCEPT ![d] = None] \/ of' = of
           PROVE  LateIsRecorded'
    BY <1>0, <2>Free, <2>Quiet DEF JobTypes
  <2>Move. ASSUME NEW pc, Move(d, pc), state' = state, of' = of,
                  pc = "event" => of[d] \in events' \cup cancelled'
           PROVE  LateIsRecorded'
    <3>1. /\ \A e \in Rows \ {d} : run'[e] = run[e]
          /\ run'[d].mem = run[d].mem /\ run'[d].pc = pc
      BY <1>0, <2>Move DEF Move, JobTypes, Run
    <3> QED
      BY <2>Move, <2>Quiet, <3>1
  <2>Raise. ASSUME Raise(d), state' = state PROVE LateIsRecorded'
    BY <2>Free, <2>Raise DEF Raise
  <2>Reserve. CASE Reserve(d)
    <3> DEFINE x == [Free EXCEPT !.mem = state[of[d]], !.pc = "begin"]
    <3>1. run' = [run EXCEPT ![d] = x] /\ of' = of /\ state' = state /\ of[d] \in Flows
      BY <2>Reserve DEF Reserve, QInv, RowsHaveFlows
    <3>2. x.mem = state[of[d]] /\ x.pc = "begin"
      BY DEF Free
    <3> HIDE DEF x
    <3>3. x.mem \in Late => of[d] \in events \cup cancelled
      BY <3>1, <3>2 DEF LateIsRecorded
    <3> QED
      BY <1>0, <2>0, <2>Quiet, <3>1, <3>2, <3>3 DEF JobTypes
  <2>ReserveGone. CASE ReserveGone(d)
    BY <2>ReserveGone, <2>Quiet DEF ReserveGone
  <2>PerformEmail. CASE PerformEmail(d)
    <3>1. PICK s \in DOMAIN Successor : At(d, s, "begin") /\ BeInStateAndRequeue(d, Successor[s])
      BY <2>PerformEmail DEF PerformEmail
    <3>2. Successor[s] \in States /\ (Successor[s] \in Late => s \in Late)
      BY Successors DEF States, Late
    <3>3. run[d].mem = s /\ d \in BeingWorked
      BY <3>1 DEF At
    <3> QED
      BY <2>0, <2>Requeue, <3>1, <3>2, <3>3 DEF LateIsRecorded
  <2>TargetMissing. CASE TargetMissing(d)
    BY <2>TargetMissing, <2>Requeue DEF TargetMissing, Cancel, At, States
  <2>StagingMissing. CASE StagingMissing(d)
    BY <2>StagingMissing, <2>Requeue DEF StagingMissing, Cancel, At, States
  <2>IngestDone. CASE IngestDone(d)
    BY <2>0, <2>IngestDone, <2>Requeue DEF IngestDone, At, LateIsRecorded, States
  <2>LoadItems. CASE LoadItems(d)
    BY <1>0, <2>LoadItems, <2>Quiet DEF LoadItems, At, JobTypes, Run
  <2>NextItem. CASE NextItem(d)
    BY <1>0, <2>NextItem, <2>Quiet DEF NextItem, At, JobTypes, Run
  <2>CopyItem. CASE CopyItem(d)
    BY <2>CopyItem, <2>Move, <2>Raise DEF CopyItem
  <2>FindDirectory. CASE FindDirectory(d)
    BY <2>FindDirectory, <2>Move, <2>Raise DEF FindDirectory
  <2>CreateDirectory. CASE CreateDirectory(d)
    BY <2>CreateDirectory, <2>Move, <2>Raise DEF CreateDirectory
  <2>AssessItem. CASE AssessItem(d)
    BY <2>AssessItem, <2>Move DEF AssessItem
  <2>MarkIngested. CASE MarkIngested(d)
    BY <2>MarkIngested, <2>Move DEF MarkIngested
  <2>SkipItem. CASE SkipItem(d)
    BY <2>SkipItem, <2>Move DEF SkipItem
  <2>AddFileGroupEvent. CASE AddFileGroupEvent(d)
    BY <2>AddFileGroupEvent, <2>Move DEF AddFileGroupEvent
  <2>Finish. CASE Finish(d)
    BY <2>Finish, <2>Free DEF Finish
  <2>DestroyQueuedJobs. CASE DestroyQueuedJobs(d)
    <3>1. \A e \in Rows : of'[e] = of[e] \/ rows'[e].status = "absent"
      BY DestroyedRows, <2>DestroyQueuedJobs, <1>0
    <3>2. \A e \in Rows \ {d} : run'[e] = run[e] /\ (of'[e] = of[e] \/ run[e] = Free)
      <4>1. IdleRows' /\ \A e \in Rows \ {d} : run'[e] = run[e]
        BY <1>0, <2>DestroyQueuedJobs, QDestroyQueuedJobs DEF QInv, DestroyQueuedJobs, JobTypes
      <4> QED
        BY <3>1, <4>1 DEF IdleRows, BeingWorked
    <3>3. run'[d].pc = "destroy" /\ run'[d].mem = run[d].mem
      BY <1>0, <2>DestroyQueuedJobs DEF DestroyQueuedJobs, JobTypes, Run
    <3>4. of'[d] = of[d]
      <4>1. rows'[d].status # "absent"
        BY <1>0, <2>DestroyQueuedJobs, DestroyedRows DEF DestroyQueuedJobs, At, BeingWorked
      <4> QED
        BY <3>1, <4>1
    <3> QED
      BY <2>DestroyQueuedJobs, <2>Quiet, <3>2, <3>3, <3>4 DEF DestroyQueuedJobs
  <2>DestroySelf. CASE DestroySelf(d)
    <3>1. /\ d \in BeingWorked /\ run[d].mem = "end" /\ of[d] \in Flows /\ "end" \in Late
      BY <2>DestroySelf DEF DestroySelf, At, QInv, RowsHaveFlows, BeingWorked, Late
    <3>2. of[d] \in events' \cup cancelled'
      BY <2>0, <3>1 DEF LateIsRecorded
    <3>3. /\ run' = [run EXCEPT ![d] = Free] /\ of' = [of EXCEPT ![d] = None]
          /\ state' = [state EXCEPT ![of[d]] = "gone"]
      BY <2>DestroySelf DEF DestroySelf
    <3> QED
      BY <1>0, <2>0, <3>2, <3>3 DEF LateIsRecorded, JobTypes
  <2>Interrupt. CASE Interrupt(d)
    BY <2>Interrupt, <2>Free DEF Interrupt
  <2> QED
    BY <1>1, <2>Reserve, <2>ReserveGone, <2>PerformEmail, <2>TargetMissing, <2>StagingMissing,
       <2>LoadItems, <2>NextItem, <2>CopyItem, <2>FindDirectory, <2>CreateDirectory,
       <2>AssessItem, <2>MarkIngested, <2>SkipItem, <2>AddFileGroupEvent, <2>IngestDone,
       <2>Finish, <2>DestroyQueuedJobs, <2>DestroySelf, <2>Interrupt
    DEF WorkerStep
<1>2. ASSUME NEW m \in Managers, Ask(m) PROVE LateIsRecorded'
  BY <1>2 DEF Ask, LateIsRecorded, jobs, history
<1>3. ASSUME NEW m \in Managers, CreateWorkflow(m) PROVE LateIsRecorded'
  <2>1. CASE Creates(m)
    <3>1. NewFlow \in Flows /\ NewRow \in Rows /\ run[NewRow] = Free
      BY <2>1, NewRowIsFree DEF Creates, PutInQueue, Unborn, NewFlow, QInv, IdleRows, BeingWorked
    <3>2. /\ of' = [of EXCEPT ![NewRow] = NewFlow] /\ state' = [state EXCEPT ![NewFlow] = "start"]
          /\ run' = run /\ events' = events /\ cancelled' = cancelled
      BY <1>3, <2>1 DEF CreateWorkflow, Creates, PutInQueue, history
    <3> QED
      BY <1>0, <3>1, <3>2 DEF LateIsRecorded, JobTypes
  <2>2. CASE UNCHANGED jobs
    BY <1>3, <2>2 DEF CreateWorkflow, LateIsRecorded, jobs, history
  <2> QED
    BY <1>3, <2>1, <2>2 DEF CreateWorkflow, Creates, jobs
<1>4. ASSUME NEW i \in Items, ClearStaging(i) PROVE LateIsRecorded'
  BY <1>4 DEF ClearStaging, LateIsRecorded, jobs, history
<1> QED
  BY <1>1, <1>2, <1>3, <1>4 DEF Next

------------------------------------------------------------------------------
(* One worker for an item *)

\* Two workers of one workflow that is not doubled are one, when both have items.
LEMMA OneHolder ==
    ASSUME QInv, NEW d \in BeingWorked, NEW e \in BeingWorked, of[d] = of[e], of[d] \notin doubled,
           run[d].pc \in Phases, run[e].pc \in Phases
    PROVE  d = e
BY DEF QInv, OneLiveRow, Live, BeingWorked, Phases

\* What a worker may hold is held in a place of an ingest.
LEMMA Holders ==
    ASSUME QInv, NEW d \in BeingWorked, run[d].todo \cup Hand(d) # {}
    PROVE  run[d].pc \in Phases /\ run[d].mem = "ingest"
BY DEF QInv, PlacesInStep, Hand, Ingesting, Phases, BeingWorked

\* A step of one row leaves the workers of the others alone.
LEMMA OthersKept ==
    ASSUME QInv, NEW d \in Rows, WorkerStep(d) \/ TargetMissing(d) \/ SkipItem(d) \/ Interrupt(d)
    PROVE  \A e \in BeingWorked' \ {d} : e \in BeingWorked /\ of'[e] = of[e] /\ run'[e] = run[e]
<1>0. JobTypes
  BY DEF QInv
<1>1. CASE Reserve(d)
  BY <1>0, <1>1 DEF Reserve, BeingWorked, JobTypes
<1>2. CASE ReserveGone(d)
  BY <1>0, <1>2 DEF ReserveGone, BeingWorked, JobTypes
<1>3. CASE Finish(d)
  BY <1>0, <1>3 DEF Finish, BeingWorked, JobTypes
<1>4. CASE DestroySelf(d)
  BY <1>0, <1>4 DEF DestroySelf, BeingWorked, JobTypes
<1>5. CASE Fails(d)
  BY <1>0, <1>5 DEF Fails, BeingWorked, JobTypes
<1>6. CASE Works(d)
  BY <1>0, <1>6 DEF Works, BeingWorked, JobTypes
<1>7. CASE DestroyQueuedJobs(d)
  <2>1. \A e \in Rows \ {d} : run'[e] = run[e]
    BY <1>0, <1>7 DEF DestroyQueuedJobs, JobTypes
  <2>2. \A e \in BeingWorked' : e \in BeingWorked /\ of'[e] = of[e]
    <3> SUFFICES ASSUME NEW e \in Rows, rows'[e].status \in {"running", "orphan"}
                 PROVE  rows[e].status \in {"running", "orphan"} /\ of'[e] = of[e]
      BY DEF BeingWorked
    <3> QED
      BY <1>0, <1>7, DestroyedRows
  <2> QED
    BY <2>1, <2>2 DEF BeingWorked
<1>8. ASSUME NEW s, Requeues(d, s)
      PROVE  \A e \in BeingWorked' \ {d} : e \in BeingWorked /\ of'[e] = of[e] /\ run'[e] = run[e]
  <2>1. /\ rows' = [rows EXCEPT ![NewRow] = Fresh] /\ of' = [of EXCEPT ![NewRow] = of[d]]
        /\ NewRow \in Rows /\ \A e \in Rows \ {d} : run'[e] = run[e]
    BY <1>0, <1>8, NewRowIsFree DEF Requeues, BeInStateAndRequeue, PutInQueue, JobTypes
  <2>2. Fresh.status = "queued"
    BY DEF Fresh
  <2> QED
    BY <1>0, <2>1, <2>2 DEF BeingWorked, JobTypes
<1> QED
  BY <1>1, <1>2, <1>3, <1>4, <1>5, <1>6, <1>7, <1>8, WorkerSteps

\* Nobody comes to hold more.
LEMMA ItemsKept ==
    ASSUME ItemsAreRequested, request' = request, ingested' = ingested, by' = by,
           doubled \subseteq doubled',
           \A e \in BeingWorked' :
              \/ e \in BeingWorked /\ of'[e] = of[e] /\ run'[e] = run[e]
              \/ /\ e \in BeingWorked /\ of'[e] = of[e]
                 /\ \/ run'[e].todo \cap Hand(e)' = {}
                    \/ run'[e].todo = run[e].todo /\ Hand(e)' \subseteq Hand(e)
                 /\ run'[e].todo \cup Hand(e)' \subseteq run[e].todo \cup Hand(e)
              \/ run'[e].todo = {} /\ Hand(e)' = {}
    PROVE  ItemsAreRequested'
<1> SUFFICES ASSUME NEW e \in BeingWorked', of'[e] \notin doubled'
             PROVE  /\ \A i \in run'[e].todo \cup Hand(e)' :
                          request[i] = of'[e] /\ (i \in ingested => by[i] \in doubled')
                    /\ run'[e].todo \cap Hand(e)' = {}
  BY DEF ItemsAreRequested
<1>1. CASE e \in BeingWorked /\ of'[e] = of[e] /\ run'[e] = run[e]
  <2>1. Hand(e)' = Hand(e)
    BY <1>1 DEF Hand, Ingesting
  <2> QED
    BY <1>1, <2>1 DEF ItemsAreRequested
<1> QED
  BY <1>1 DEF ItemsAreRequested

\* In place of a worker's items.
LEMMA HandOf ==
    ASSUME NEW d \in BeingWorked'
    PROVE  Hand(d)' = IF run'[d].pc \in {"copy", "copied", "create", "assess", "save"}
                      THEN {run'[d].item} ELSE {}
BY DEF Hand, Ingesting

\* A worker takes up only what its workflow asked for.
LEMMA ItemsStep ==
    ASSUME QInv, TypeOK, ItemsAreRequested, NEW d \in Rows,
           WorkerStep(d) \/ TargetMissing(d) \/ SkipItem(d) \/ Interrupt(d)
    PROVE  ItemsAreRequested'
<1>0. /\ JobTypes /\ Free.pc = "idle" /\ Free.todo = {} /\ doubled \subseteq doubled'
      /\ \A e \in BeingWorked' \ {d} : e \in BeingWorked /\ of'[e] = of[e] /\ run'[e] = run[e]
  BY OthersKept, DoubledGrows DEF QInv, Free
<1>Empty. ASSUME request' = request, ingested' = ingested, by' = by,
                 run'[d].todo = {}, run'[d].pc \notin {"copy", "copied", "create", "assess", "save"}
          PROVE  ItemsAreRequested'
  BY <1>0, <1>Empty, ItemsKept, HandOf
<1>Free. ASSUME request' = request, ingested' = ingested, by' = by, run' = [run EXCEPT ![d] = Free]
         PROVE  ItemsAreRequested'
  BY <1>0, <1>Empty, <1>Free DEF JobTypes
<1>Requeue. ASSUME request' = request, ingested' = ingested, by' = by, NEW s, BeInStateAndRequeue(d, s)
            PROVE  ItemsAreRequested'
  <2>1. run'[d].todo = {} /\ run'[d].pc = "done"
    BY <1>0, <1>Requeue DEF BeInStateAndRequeue, Free, JobTypes
  <2> QED
    BY <1>Empty, <1>Requeue, <2>1
<1>Move. ASSUME request' = request, ingested' = ingested, by' = by, d \in BeingWorked, of'[d] = of[d],
                NEW pc, Move(d, pc), pc \in {"copied", "create", "assess", "save"} => d \in Ingesting,
                pc # "copy"
         PROVE  ItemsAreRequested'
  <2>1. run'[d].todo = run[d].todo /\ run'[d].item = run[d].item /\ run'[d].pc = pc
    BY <1>0, <1>Move DEF Move, JobTypes, Run
  <2>2. d \in BeingWorked' => Hand(d)' \subseteq Hand(d)
    BY <1>Move, <2>1, HandOf DEF Hand
  <2> QED
    BY <1>0, <1>Move, <2>1, <2>2, ItemsKept
<1>Raise. ASSUME request' = request, ingested' = ingested, by' = by, Raise(d) PROVE ItemsAreRequested'
  BY <1>Free, <1>Raise DEF Raise
<1>Reserve. CASE Reserve(d)
  <2> DEFINE x == [Free EXCEPT !.mem = state[of[d]], !.pc = "begin"]
  <2>1. run' = [run EXCEPT ![d] = x] /\ x.todo = {} /\ x.pc = "begin"
    BY <1>Reserve DEF Reserve, Free
  <2> HIDE DEF x
  <2>2. run'[d] = x
    BY <1>0, <2>1 DEF JobTypes
  <2> QED
    BY <1>Reserve, <1>Empty, <2>1, <2>2 DEF Reserve, content
<1>ReserveGone. CASE ReserveGone(d)
  <2>1. rows'[d].status = "failed"
    BY <1>0, <1>ReserveGone DEF ReserveGone, JobTypes, AfterDeserializationError
  <2>2. d \notin BeingWorked'
    BY <2>1 DEF BeingWorked
  <2> QED
    BY <1>0, <1>ReserveGone, <2>2, ItemsKept DEF ReserveGone, content
<1>PerformEmail. CASE PerformEmail(d)
  BY <1>PerformEmail, <1>Requeue DEF PerformEmail, content
<1>Missing. CASE TargetMissing(d) \/ StagingMissing(d)
  BY <1>Missing, <1>Requeue DEF TargetMissing, StagingMissing, Cancel, content
<1>IngestDone. CASE IngestDone(d)
  BY <1>IngestDone, <1>Requeue DEF IngestDone, content
<1>LoadItems. CASE LoadItems(d)
  <2> DEFINE todo == {i \in Items \ ingested : request[i] = of[d]}
  <2>1. /\ request' = request /\ ingested' = ingested /\ by' = by /\ of' = of
        /\ run' = [run EXCEPT ![d].pc = "items", ![d].todo = todo]
    BY <1>LoadItems DEF LoadItems, content
  <2>2. \A i \in todo : request[i] = of[d] /\ i \notin ingested
    OBVIOUS
  <2> HIDE DEF todo
  <2>3. run'[d].todo = todo /\ run'[d].pc = "items"
    BY <1>0, <2>1 DEF JobTypes, Run
  <2>4. d \in BeingWorked' => Hand(d)' = {}
    BY <2>3, HandOf
  <2>5. \A e \in BeingWorked' \ {d} : Hand(e)' = Hand(e)
    BY <1>0 DEF Hand, Ingesting
  <2> QED
    <3> SUFFICES ASSUME NEW e \in BeingWorked', of'[e] \notin doubled'
                 PROVE  /\ \A i \in run'[e].todo \cup Hand(e)' :
                              request[i] = of[e] /\ (i \in ingested => by[i] \in doubled')
                        /\ run'[e].todo \cap Hand(e)' = {}
      BY <2>1 DEF ItemsAreRequested
    <3>1. CASE e = d
      BY <2>2, <2>3, <2>4, <3>1
    <3>2. CASE e # d
      <4>1. e \in BeingWorked /\ of[e] \notin doubled /\ run'[e] = run[e] /\ Hand(e)' = Hand(e)
        BY <1>0, <2>1, <2>5, <3>2
      <4>2. /\ \A i \in run[e].todo \cup Hand(e) :
                  request[i] = of[e] /\ (i \in ingested => by[i] \in doubled)
            /\ run[e].todo \cap Hand(e) = {}
        BY <4>1 DEF ItemsAreRequested
      <4> QED
        BY <1>0, <4>1, <4>2
    <3> QED
      BY <3>1, <3>2
<1>NextItem. CASE NextItem(d)
  <2>1. PICK i \in run[d].todo :
           run' = [run EXCEPT ![d].todo = @ \ {i}, ![d].item = i,
                              ![d].pc = IF i \in staged THEN "copy" ELSE "items"]
    BY <1>NextItem DEF NextItem
  <2>2. run'[d].todo = run[d].todo \ {i} /\ run'[d].item = i
    BY <1>0, <2>1 DEF JobTypes, Run
  <2>3. /\ request' = request /\ ingested' = ingested /\ by' = by /\ of' = of
        /\ d \in BeingWorked
    BY <1>NextItem DEF NextItem, At, content
  <2>4. d \in BeingWorked' => Hand(d)' \subseteq {i}
    BY <2>2, HandOf
  <2>5. d \in BeingWorked' => /\ run'[d].todo \cap Hand(d)' = {}
                              /\ run'[d].todo \cup Hand(d)' \subseteq run[d].todo \cup Hand(d)
    BY <2>1, <2>2, <2>4
  <2> QED
    BY <1>0, <2>3, <2>5, ItemsKept
<1>CopyItem. CASE CopyItem(d)
  BY <1>CopyItem, <1>Move, <1>Raise DEF CopyItem, At, Ingesting
<1>FindDirectory. CASE FindDirectory(d)
  BY <1>FindDirectory, <1>Move, <1>Raise DEF FindDirectory, At, Ingesting
<1>CreateDirectory. CASE CreateDirectory(d)
  BY <1>CreateDirectory, <1>Move, <1>Raise DEF CreateDirectory, At, Ingesting
<1>AssessItem. CASE AssessItem(d)
  BY <1>AssessItem, <1>Move DEF AssessItem, At, Ingesting
<1>SkipItem. CASE SkipItem(d)
  <2>1. d \in BeingWorked
    BY <1>SkipItem DEF SkipItem, Ingesting
  <2> QED
    BY <1>SkipItem, <1>Move, <2>1 DEF SkipItem, jobs, content
<1>AddFileGroupEvent. CASE AddFileGroupEvent(d)
  BY <1>AddFileGroupEvent, <1>Move DEF AddFileGroupEvent, At, content
<1>MarkIngested. CASE MarkIngested(d)
  <2> DEFINE i == run[d].item
  <2>1. /\ d \in BeingWorked /\ d \in Ingesting /\ run[d].pc \in Phases
        /\ request' = request /\ of' = of /\ rows' = rows /\ i \in Items
        /\ ingested' = ingested \cup {i} /\ doubled' = doubled
        /\ by' = [by EXCEPT ![i] = of[d]]
    BY <1>0, <1>MarkIngested DEF MarkIngested, At, Ingesting, Phases, JobTypes, Run, history
  <2>2. run'[d].todo = run[d].todo /\ run'[d].pc = "items"
    BY <1>0, <1>MarkIngested DEF MarkIngested, Move, JobTypes, Run
  <2>3. by'[i] = of[d] /\ \A j \in Items \ {i} : by'[j] = by[j]
    BY <2>1 DEF TypeOK
  <2>4. i \in Hand(d)
    BY <2>1 DEF Hand
  <2> HIDE DEF i
  <2>5. \A e \in BeingWorked : run[e].todo \cup Hand(e) \subseteq Items
    BY <1>0 DEF JobTypes, Run, BeingWorked, Hand, Ingesting
  <2>6. BeingWorked' = BeingWorked
    BY <2>1 DEF BeingWorked
  <2>7. Hand(d)' = {}
    BY <2>1, <2>2, <2>6, HandOf
  <2>8. \A e \in BeingWorked \ {d} : Hand(e)' = Hand(e)
    BY <1>0, <2>6 DEF Hand, Ingesting
  <2>9. ASSUME NEW e \in BeingWorked \ {d}, of[e] \notin doubled, i \in run[e].todo \cup Hand(e)
        PROVE  of[d] \in doubled
    <3> SUFFICES ASSUME of[d] \notin doubled PROVE FALSE
      OBVIOUS
    <3>1. request[i] = of[e] /\ request[i] = of[d]
      BY <2>1, <2>4, <2>9 DEF ItemsAreRequested
    <3>2. run[e].pc \in Phases
      BY <2>9, Holders
    <3> QED
      BY <2>1, <2>9, <3>1, <3>2, OneHolder
  <2> SUFFICES ASSUME NEW e \in BeingWorked, of[e] \notin doubled
               PROVE  /\ \A j \in run'[e].todo \cup Hand(e)' :
                            request[j] = of[e] /\ (j \in ingested' => by'[j] \in doubled)
                      /\ run'[e].todo \cap Hand(e)' = {}
    BY <2>1, <2>6 DEF ItemsAreRequested
  <2>10. CASE e = d
    <3>1. \A j \in run[d].todo : request[j] = of[d] /\ j # i /\ (j \in ingested => by[j] \in doubled)
      BY <2>1, <2>4, <2>10 DEF ItemsAreRequested
    <3> QED
      BY <2>1, <2>2, <2>3, <2>5, <2>7, <2>10, <3>1
  <2>11. CASE e # d
    <3>1. run'[e] = run[e] /\ Hand(e)' = Hand(e)
      BY <1>0, <2>6, <2>8, <2>11
    <3>2. \A j \in run[e].todo \cup Hand(e) : request[j] = of[e] /\ (j \in ingested => by[j] \in doubled)
      BY DEF ItemsAreRequested
    <3>3. run[e].todo \cap Hand(e) = {}
      BY DEF ItemsAreRequested
    <3> QED
      BY <2>1, <2>3, <2>5, <2>9, <2>11, <3>1, <3>2, <3>3
  <2> QED
    BY <2>10, <2>11
<1>Finish. CASE Finish(d)
  BY <1>Finish, <1>Free DEF Finish, content
<1>DestroyQueuedJobs. CASE DestroyQueuedJobs(d)
  <2>1. d \in BeingWorked /\ rows[d].status # "absent"
    BY <1>DestroyQueuedJobs DEF DestroyQueuedJobs, At, BeingWorked
  <2>2. of'[d] = of[d]
    BY <1>0, <1>DestroyQueuedJobs, <2>1, DestroyedRows DEF BeingWorked
  <2>3. Move(d, "destroy")
    BY <1>DestroyQueuedJobs DEF DestroyQueuedJobs, Move
  <2> QED
    BY <1>DestroyQueuedJobs, <1>Move, <2>1, <2>2, <2>3 DEF DestroyQueuedJobs, content
<1>DestroySelf. CASE DestroySelf(d)
  <2>1. /\ d \in BeingWorked /\ run[d].mem = "end" /\ run[d].pc = "destroy"
        /\ request' = [i \in Items |-> IF request[i] = of[d] THEN None ELSE request[i]]
        /\ ingested' = ingested /\ by' = by /\ doubled' = doubled
        /\ rows' = [rows EXCEPT ![d] = Absent]
    BY <1>DestroySelf DEF DestroySelf, At, content
  <2>2. d \notin BeingWorked'
    BY <1>0, <2>1 DEF BeingWorked, JobTypes, Absent
  <2> SUFFICES ASSUME NEW e \in BeingWorked' \ {d}, of'[e] \notin doubled
               PROVE  /\ \A i \in run'[e].todo \cup Hand(e)' :
                            request'[i] = of'[e] /\ (i \in ingested => by[i] \in doubled)
                      /\ run'[e].todo \cap Hand(e)' = {}
    BY <2>1, <2>2 DEF ItemsAreRequested
  <2>3. e \in BeingWorked /\ of'[e] = of[e] /\ run'[e] = run[e] /\ Hand(e)' = Hand(e)
    BY <1>0 DEF Hand, Ingesting
  <2>4. ASSUME run[e].todo \cup Hand(e) # {} PROVE of[e] # of[d]
    <3> SUFFICES ASSUME of[e] = of[d] PROVE FALSE
      OBVIOUS
    <3>1. run[e].pc \in Phases /\ run[e].mem = "ingest"
      BY <2>3, <2>4, Holders
    <3>2. Live(e) /\ ~Live(d)
      BY <2>1, <2>3, <3>1 DEF Live, BeingWorked, Phases
    <3>3. state[of[d]] \in {"end", "gone"}
      BY <2>1, <2>3, <3>2 DEF QInv, StateInStep
    <3> QED
      BY <2>3, <3>1, <3>2, <3>3 DEF QInv, StateInStep
  <2>5. run[e].todo \cup Hand(e) \subseteq Items
    BY <1>0, <2>3 DEF JobTypes, Run, BeingWorked, Hand, Ingesting
  <2>6. /\ \A i \in run[e].todo \cup Hand(e) : request[i] = of[e] /\ (i \in ingested => by[i] \in doubled)
        /\ run[e].todo \cap Hand(e) = {}
    BY <2>1, <2>3 DEF ItemsAreRequested
  <2>7. \A i \in run[e].todo \cup Hand(e) : request'[i] = of[e]
    BY <2>1, <2>4, <2>5, <2>6
  <2> QED
    BY <2>3, <2>6, <2>7
<1>Interrupt. CASE Interrupt(d)
  BY <1>Interrupt, <1>Free DEF Interrupt, content
<1> QED
  BY <1>Reserve, <1>ReserveGone, <1>PerformEmail, <1>Missing, <1>LoadItems, <1>NextItem,
     <1>CopyItem, <1>FindDirectory, <1>CreateDirectory, <1>AssessItem, <1>MarkIngested,
     <1>SkipItem, <1>AddFileGroupEvent, <1>IngestDone, <1>Finish, <1>DestroyQueuedJobs,
     <1>DestroySelf, <1>Interrupt
  DEF WorkerStep

\* A manager's new workflow takes only items that nobody holds.
LEMMA RequestsStep == ASSUME QInv, TypeOK, ItemsAreRequested, Next PROVE ItemsAreRequested'
<1>0. JobTypes
  BY DEF QInv
<1>1. ASSUME NEW d \in Rows, WorkerStep(d) \/ TargetMissing(d) \/ SkipItem(d) \/ Interrupt(d)
      PROVE  ItemsAreRequested'
  BY <1>1, ItemsStep
<1>2. ASSUME UNCHANGED <<jobs, request, ingested, by, doubled>> PROVE ItemsAreRequested'
  BY <1>2 DEF jobs, ItemsAreRequested, Hand, Ingesting, BeingWorked
<1>3. ASSUME NEW m \in Managers, CreateWorkflow(m) PROVE ItemsAreRequested'
  <2>1. CASE UNCHANGED <<jobs, request>>
    BY <1>2, <1>3, <2>1 DEF CreateWorkflow, content, history, jobs
  <2>2. CASE Creates(m)
    <3>1. /\ rows' = [rows EXCEPT ![NewRow] = Fresh] /\ of' = [of EXCEPT ![NewRow] = NewFlow]
          /\ run' = run /\ ingested' = ingested /\ by' = by /\ doubled' = doubled
          /\ NewRow \in Rows /\ rows[NewRow].status = "absent" /\ Fresh.status = "queued"
      BY <1>3, <2>2, NewRowIsFree DEF CreateWorkflow, Creates, PutInQueue, content, history, Fresh
    <3>2. BeingWorked' = BeingWorked /\ \A e \in BeingWorked : of'[e] = of[e]
      BY <1>0, <3>1 DEF BeingWorked, JobTypes
    <3>3. \A e \in BeingWorked : Hand(e)' = Hand(e)
      BY <3>1, <3>2 DEF Hand, Ingesting
    <3>4. \A e \in BeingWorked : of[e] # None /\ run[e].todo \cup Hand(e) \subseteq Items
      BY <1>0, NamesAssumption DEF QInv, RowsHaveFlows, BeingWorked, JobTypes, Run, Hand, Ingesting
    <3>5. \A i \in Items : request[i] # None => request'[i] = request[i]
      BY <2>2 DEF Creates
    <3> QED
      BY <3>1, <3>2, <3>3, <3>4, <3>5 DEF ItemsAreRequested
  <2> QED
    BY <1>3, <2>1, <2>2 DEF CreateWorkflow, Creates, jobs
<1> QED
  BY <1>1, <1>2, <1>3 DEF Next, Ask, ClearStaging, content, history

------------------------------------------------------------------------------
(* The invariant, and what it is for *)

\* The inductive invariant holds at first.
LEMMA InvInit == Init => IInv
<1> SUFFICES ASSUME Init PROVE IInv
  OBVIOUS
<1>1. /\ \A d \in Rows : rows[d].status = "absent" /\ run[d] = Free
      /\ Free.pc = "idle" /\ Free.mem = "start" /\ Free.todo = {}
      /\ BeingWorked = {}
  BY DEF Init, Absent, Free, BeingWorked
<1>2. JobTypes
  BY RowConstants, Constants DEF Init, JobTypes
<1>3. TypeOK
  BY <1>2, Constants, BoundsAssumption DEF Init, TypeOK, JobTypes
<1>4. QInv
  BY <1>1, <1>2 DEF QInv, RowsHaveFlows, IdleRows, PlacesInStep, OneLiveRow, StateInStep, Live, Phases
<1>5. IngestedIsHeld
  BY DEF Init, IngestedIsHeld
<1>6. ItemInStep /\ LateIsRecorded /\ ItemsAreRequested
  BY <1>1 DEF Init, ItemInStep, LateIsRecorded, ItemsAreRequested, Late
<1> QED
  BY <1>3, <1>4, <1>5, <1>6 DEF IInv

\* Every step keeps it.
LEMMA InvStep == IInv /\ [Next]_vars => IInv'
<1> SUFFICES ASSUME IInv, [Next]_vars PROVE IInv'
  OBVIOUS
<1>1. CASE Next
  <2>1. CInv
    BY DEF IInv, CInv, ContentTypes, TypeOK
  <2> QED
    BY <1>1, <2>1, QStep, CStep, TypeStep, LateStep, RequestsStep DEF IInv, CInv
<1>2. CASE UNCHANGED vars
  BY <1>2 DEF IInv, TypeOK, QInv, JobTypes, RowsHaveFlows, IdleRows, PlacesInStep, OneLiveRow,
     StateInStep, IngestedIsHeld, ItemInStep, LateIsRecorded, ItemsAreRequested, Hand, Ingesting,
     BeingWorked, Live, vars, jobs, content, history
<1> QED
  BY <1>1, <1>2

\* It holds for ever.
LEMMA Invariance == Spec => []IInv
BY InvInit, InvStep, PTL DEF Spec

(***************************************************************************)
(* Every column of the workflows' and items' tables stays within what the  *)
(* code can write in it, whatever fails and is repeated.                   *)
(***************************************************************************)
THEOREM TypeCorrect == Spec => []TypeOK
<1>1. IInv => TypeOK
  BY DEF IInv
<1> QED
  BY <1>1, Invariance, PTL

(***************************************************************************)
(* perform_ingest marks an item only when all of its content is at the     *)
(* destination and its directory's files are recorded, however many        *)
(* workers copy it and whichever of them is skipped or dies.               *)
(***************************************************************************)
THEOREM IngestedItemsAreHeld == Spec => []IngestedIsHeld
<1>1. IInv => IngestedIsHeld
  BY DEF IInv
<1> QED
  BY <1>1, Invariance, PTL

(***************************************************************************)
(* A workflow destroyed in state end has left its event in the file group, *)
(* or told somebody that a directory was missing.                          *)
(***************************************************************************)
THEOREM IngestsAreRecorded == Spec => []IngestIsRecorded
<1>1. IInv => IngestIsRecorded
  BY DEF IInv, TypeOK, LateIsRecorded, IngestIsRecorded
<1> QED
  BY <1>1, Invariance, PTL

(***************************************************************************)
(* The unique index of the requests, and the one live row of a workflow,   *)
(* keep the workers from ingesting an item twice, but for what a workflow  *)
(* with two rows does.                                                     *)
(***************************************************************************)
THEOREM ItemsAreIngestedOnce == Spec => []IngestedOnce
<1>1. IInv => IngestedOnce
  <2> SUFFICES ASSUME IInv, NEW d \in Ingesting, of[d] \notin doubled
               PROVE  /\ run[d].item \in ingested => by[run[d].item] \in doubled
                      /\ \A e \in Ingesting \ {d} : run[e].item = run[d].item => of[e] \in doubled
    BY DEF IngestedOnce
  <2>1. \A e \in Ingesting : e \in BeingWorked /\ run[e].item \in Hand(e) /\ run[e].pc \in Phases
    BY DEF Ingesting, Hand, Phases
  <2>2. \A e \in Ingesting : of[e] \notin doubled =>
           request[run[e].item] = of[e] /\ (run[e].item \in ingested => by[run[e].item] \in doubled)
    BY <2>1 DEF IInv, ItemsAreRequested
  <2>3. ASSUME NEW e \in Ingesting \ {d}, run[e].item = run[d].item, of[e] \notin doubled PROVE FALSE
    <3>1. of[e] = of[d]
      BY <2>2, <2>3
    <3> QED
      BY <2>1, <2>3, <3>1, OneHolder DEF IInv
  <2> QED
    BY <2>2, <2>3
<1> QED
  BY <1>1, Invariance, PTL
==============================================================================
