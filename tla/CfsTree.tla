-------------------------------- MODULE CfsTree --------------------------------
(***************************************************************************)
(* The records of one file group made to match what is on storage.  An     *)
(* assessment job of a directory lists it on storage, makes the records    *)
(* that are missing, destroys those of what it did not see, sizes the      *)
(* files and schedules a job of each subdirectory.  Jobs are scheduled by  *)
(* people, by an accrual that has copied its content, and by each other; a *)
(* job is a record and a delayed-job row, made in two commits, and a       *)
(* directory that has a job record gets no second one.  Meanwhile single   *)
(* files arrive with records of their own, over AMQP.                      *)
(*                                                                         *)
(* The environment stores content and never removes any; content removed   *)
(* before is what Init starts from.  Left out: the assessor's share (see   *)
(* Assessor), excluded names, events, the search index, and the moving of  *)
(* a root to another group.                                                *)
(***************************************************************************)
EXTENDS DelayedJobs, CfsRecords

CONSTANTS
    Accrued,      \* files the accrual, into the root directory, copies
    Direct,       \* files that may arrive with a record of their own
    Requests,     \* requests of people to assess
    Accrual,      \* the process of the accrual
    MaxFaults     \* bound on raises and deaths

Callers == Rows \cup Requests \cup {Accrual}

ASSUME ProcessAssumption ==
    /\ Accrued \cup Direct \subseteq Files
    /\ Accrual \notin Rows \cup Requests /\ Rows \cap Requests = {}
ASSUME BoundsAssumption == MaxFaults \in Nat

VARIABLES
    stored,     \* the size of the content stored of each file, None if there is none
    tree,       \* the rows of directories and files, and the group's totals
    made,       \* ids of directories given out
    target,     \* of each job record: its directory or the group; None: no record
    work,       \* what the worker of a row is at
    call,       \* where a caller of schedule_assessment_job is
    accrual,    \* where the accrual is
    direct,     \* where the ingest of each single file is
    swept,      \* history: files whose records a job with an older listing got wrong
    restored,   \* history: the group was deleted and restored
    faults

jobs    == <<rows, target, work, call>>
records == <<tree, made>>
others  == <<accrual, direct, swept, restored, faults>>
vars    == <<stored, records, jobs, others>>

Idle   == [pc |-> "idle", at |-> None, path |-> RootPath, seen |-> {}, todo |-> {}]
NoCall == [pc |-> "none", at |-> None, job |-> None]
Answered == [NoCall EXCEPT !.pc = "over"]    \* of a request
WorkPc == {"idle", "subdirs", "make_dirs", "destroy_dirs", "files", "make_files",
           "destroy_files", "assess", "schedule"}
Names  == Ids \cup Paths \cup Files

TypeOK ==
    /\ rows \in [Rows -> Row]
    /\ stored \in [Files -> Sizes \cup {None}]
    /\ Records(tree.dirs, tree.files, tree.total) /\ made \subseteq Ids
    /\ target \in [Rows -> Ids \cup {Group, None}]
    /\ work \in [Rows -> [pc : WorkPc, at : Ids \cup {None}, path : Paths,
                            seen : SUBSET Names, todo : SUBSET Names]]
    /\ call \in [Callers -> [pc : {"none", "look", "create", "enqueue", "over"},
                             at : Ids \cup {Group, None}, job : Rows \cup {None}]]
    /\ accrual \in [pc : {"copy", "ids", "jobs", "schedule", "await", "dead"},
                    copied : SUBSET Accrued, ids : SUBSET Ids]
    /\ direct \in [Direct -> [pc : {"never", "new", "copied", "placed", "recorded", "done"},
                                at : Ids \cup {None}]]
    /\ swept \subseteq Files /\ restored \in BOOLEAN /\ faults \in 0 .. MaxFaults

\* Before: directories and files recorded at some time, with and without sizes,
\* and whatever has come to be stored since.
ASSUME IdsAssumption ==
    \E id \in [Paths -> Ids] :
        id[RootPath] = RootId /\ \A p, q \in Paths : id[p] = id[q] => p = q
IdOf == CHOOSE id \in [Paths -> Ids] :
            id[RootPath] = RootId /\ \A p, q \in Paths : id[p] = id[q] => p = q
Recorded(paths, files, size) ==
    Restored([dirs  |-> [i \in Ids |->
                  IF \E p \in paths : IdOf[p] = i
                  THEN LET p == CHOOSE q \in paths : IdOf[q] = i
                       IN [path |-> p, count |-> 0, size |-> 0,
                           parent |-> IF p = RootPath THEN Group ELSE IdOf[ParentPath[p]]]
                  ELSE None],
              files |-> {[file |-> f, dir |-> IdOf[Folder[f]], size |-> size] : f \in files},
              total |-> Nothing])

\* Who will act: people, the accrual, clients sending single files.
Start(asking, accruing, arriving) ==
    /\ stored \in [Files -> Sizes \cup {None}]
    /\ \E paths \in SUBSET Paths, files \in SUBSET Files, size \in Sizes \cup {None} :
        /\ RootPath \in paths /\ \A p \in paths \ {RootPath} : ParentPath[p] \in paths
        /\ \A f \in files : Folder[f] \in paths
        /\ tree = Recorded(paths, files, size)
        /\ made = {IdOf[p] : p \in paths}
    /\ rows = [j \in Rows |-> Absent] /\ target = [j \in Rows |-> None]
    /\ work = [j \in Rows |-> Idle]
    /\ call = [c \in Callers |-> IF c \in Requests \ asking THEN Answered ELSE NoCall]
    /\ accrual = [pc |-> IF accruing THEN "copy" ELSE "dead", copied |-> {}, ids |-> {}]
    /\ direct = [f \in Direct |-> [pc |-> IF f \in arriving THEN "new" ELSE "never", at |-> None]]
    /\ swept = {} /\ restored = FALSE /\ faults = 0

Init == Start(Requests, TRUE, Direct)

------------------------------------------------------------------------------
(* schedule_assessment_job and schedule_initial_cfs_assessment *)

Calls(c, x)  == call' = [call EXCEPT ![c] = [pc |-> "look", at |-> x, job |-> None]]
Returns(c)   == call' = [call EXCEPT ![c] = IF c \in Requests THEN Answered ELSE NoCall]
Scheduled(x) == \E j \in Rows : target[j] = x

\* Nothing is scheduled where a record is found: of the directory, or, when the
\* whole group is to be assessed, of anything in it.  The looks of the caller, of
\* create_for and of the validation are one.
Look(c) ==
    LET x == call[c].at IN
    /\ call[c].pc = "look"
    /\ IF Scheduled(x) \/ (x = Group /\ \E i \in Ids : Scheduled(i))
       THEN Returns(c)
       ELSE call' = [call EXCEPT ![c].pc = "create"]
    /\ UNCHANGED <<stored, records, rows, target, work, others>>

CreateJob(c) ==
    /\ call[c].pc = "create"
    /\ LET free == {j \in FreeRows : target[j] = None /\ \A b \in Callers : call[b].job # j}
           j == CHOOSE k \in free : TRUE
       IN
        /\ free # {}
        /\ target' = [target EXCEPT ![j] = call[c].at]
        /\ call' = [call EXCEPT ![c].pc = "enqueue", ![c].job = j]
    /\ UNCHANGED <<stored, records, rows, work, others>>

EnqueueJob(c) ==
    /\ call[c].pc = "enqueue"
    /\ rows' = [rows EXCEPT ![call[c].job] = Fresh]
    /\ Returns(c)
    /\ UNCHANGED <<stored, records, target, work, others>>

\* The web process of a request, or the accrual's worker, dies in between.
CallDies(c) ==
    /\ c \notin Rows /\ call[c].pc \notin {"none", "over"} /\ faults < MaxFaults
    /\ Returns(c)
    /\ accrual' = IF c = Accrual THEN [accrual EXCEPT !.pc = "dead"] ELSE accrual
    /\ faults' = faults + 1
    /\ UNCHANGED <<stored, records, rows, target, work, direct, swept, restored>>

------------------------------------------------------------------------------
(* Job::CfsInitialDirectoryAssessment and CfsInitialFileGroupAssessment *)

At(j, pc)  == rows[j].status = "running" /\ work[j].pc = pc
Me(j)      == work[j].at
Do(j, pc, todo) == work' = [work EXCEPT ![j].pc = pc, ![j].todo = todo]
Did(j, x)  == work' = [work EXCEPT ![j].todo = @ \ {x}]
Raise(j)   == /\ rows' = [rows EXCEPT ![j] = AfterRaise(@)]
              /\ work' = [work EXCEPT ![j] = Idle]

\* The job of a group schedules that of its root; a directory that is gone is no error.
Reserve(j) ==
    /\ rows[j].status = "queued" /\ target[j] # None
    /\ rows' = [rows EXCEPT ![j] = Locked(@)]
    /\ LET x == target[j] IN
       work' = [work EXCEPT ![j] =
           IF x = Group THEN [Idle EXCEPT !.pc = "schedule", !.todo = {RootId}]
           ELSE IF tree.dirs[x] = None THEN [Idle EXCEPT !.pc = "schedule"]
           ELSE [Idle EXCEPT !.pc = "subdirs", !.at = x, !.path = tree.dirs[x].path]]
    /\ UNCHANGED <<stored, records, target, call, others>>

\* The job's record was destroyed with its directory, or by a worker that died before
\* the row was deleted: the row can not be loaded.
ReserveGone(j) ==
    /\ rows[j].status = "queued" /\ target[j] = None
    /\ rows' = [rows EXCEPT ![j] = AfterDeserializationError]
    /\ UNCHANGED <<stored, records, target, work, call, others>>

Performed(j) == At(j, "schedule") /\ work[j].todo = {} /\ call[j].pc = "none"

\* Anything of a perform raises, or its process dies, at the last between the
\* success hook and the deletion of the row.
Interrupt(j) ==
    /\ rows[j].status = "running" /\ faults < MaxFaults
    /\ \/ rows' = [rows EXCEPT ![j] = AfterRaise(@)] /\ UNCHANGED target
       \/ rows' = [rows EXCEPT ![j] = AfterCrash(@)] /\ UNCHANGED target
       \/ /\ Performed(j)
          /\ rows' = [rows EXCEPT ![j] = AfterCrash(@)] /\ target' = [target EXCEPT ![j] = None]
    /\ work' = [work EXCEPT ![j] = Idle]
    /\ Returns(j)
    /\ faults' = faults + 1
    /\ UNCHANGED <<stored, records, accrual, direct, swept, restored>>

\* The path and the paths above it: the least set of paths with p and each one's parent.
Ancestors(p) ==
    {q \in Paths : \A s \in SUBSET Paths :
        p \in s /\ (\A x \in s \ {RootPath} : ParentPath[x] \in s) => q \in s}
ASSUME PathsAssumption == \A p \in Paths : RootPath \in Ancestors(p)
OnStorage(p) == \E f \in Files : stored[f] # None /\ p \in Ancestors(Folder[f])
Subpaths(p)  == {q \in Paths \ {RootPath} : ParentPath[q] = p}

\* A directory that is not on storage ends the job (InvalidDirectory).
List(j, pc, next, seen) ==
    /\ At(j, pc)
    /\ work' = [work EXCEPT ![j] =
           IF OnStorage(@.path) THEN [@ EXCEPT !.pc = next, !.seen = seen, !.todo = seen]
           ELSE [Idle EXCEPT !.pc = "schedule"]]
    /\ UNCHANGED <<stored, records, rows, target, call, others>>

ListSubdirectories(j) ==
    List(j, "subdirs", "make_dirs",
         {q \in Subpaths(work[j].path) : OnStorage(q)})

NewId == CHOOSE i \in Ids \ made : TRUE

MakeDirectory(j) ==
    /\ At(j, "make_dirs")
    /\ \E p \in work[j].todo :
        /\ Did(j, p)
        /\ IF \E i \in Children(tree, Me(j)) : tree.dirs[i].path = p
           THEN UNCHANGED records
           ELSE /\ made # Ids
                /\ tree' = InsertDirectory(tree, NewId, p, Me(j))
                /\ made' = made \cup {NewId}
    /\ UNCHANGED <<stored, rows, target, call, others>>

LoadSubdirectories(j) ==
    /\ At(j, "make_dirs") /\ work[j].todo = {}
    /\ Do(j, "destroy_dirs", {i \in Children(tree, Me(j)) : tree.dirs[i].path \notin work[j].seen})
    /\ UNCHANGED <<stored, records, rows, target, call, others>>

\* Content that is stored loses its record: the worker's listing was older.
Sweep(files) == swept' = swept \cup {f \in files : stored[f] # None}

\* Mutant: directories are deleted without what is in them.
DestroyInTreeBare(j) ==
    /\ At(j, "destroy_dirs")
    /\ \E i \in work[j].todo :
        /\ tree.dirs[i] # None
        /\ tree' = DeleteDirectory(tree, i) /\ Did(j, i)
    /\ UNCHANGED <<stored, made, rows, target, call, accrual, direct, swept, restored, faults>>

\* A worker of a directory above has perhaps found directory i already, and left what is
\* below it to another job.
AnotherAbove(j, i) ==
    \E k \in Rows \ {j} : rows[k].status = "running" /\ Me(k) \in Chain(tree, i) \ {i}

\* destroy_tree_from_leaves, a row at a time: the files of a directory without
\* subdirectories, then the directory with its job's record.
DestroyInTree(j) ==
    /\ At(j, "destroy_dirs")
    /\ \E top \in work[j].todo, i \in Ids :
        /\ top \in Chain(tree, i) /\ Children(tree, i) = {}
        /\ IF FilesIn(tree, i) # {}
           THEN \E r \in FilesIn(tree, i) :
                    /\ tree' = DeleteFile(tree, r) /\ Sweep({r.file})
                    /\ UNCHANGED <<target, work>>
           ELSE /\ tree' = DeleteDirectory(tree, i)
                /\ IF Scheduled(i)
                   THEN \E k \in Rows : target[k] = i /\ target' = [target EXCEPT ![k] = None]
                   ELSE UNCHANGED target
                /\ Did(j, i)
                /\ IF AnotherAbove(j, i)
                   THEN Sweep({f \in Files : tree.dirs[i].path \in Ancestors(Folder[f])})
                   ELSE UNCHANGED swept
    /\ UNCHANGED <<stored, made, rows, call, accrual, direct, restored, faults>>

\* What another worker has destroyed meanwhile.
SubdirectoriesDestroyed(j) ==
    /\ At(j, "destroy_dirs") /\ \A i \in work[j].todo : tree.dirs[i] = None
    /\ Do(j, "files", {})
    /\ UNCHANGED <<stored, records, rows, target, call, others>>

ListFiles(j) ==
    List(j, "files", "make_files", {f \in Files : Folder[f] = work[j].path /\ stored[f] # None})

\* A row made under a directory that has been destroyed is nobody's.
Insert(f, i) ==
    IF \E r \in FilesIn(tree, i) : r.file = f THEN UNCHANGED <<tree, swept>>
    ELSE /\ tree' = InsertFile(tree, [file |-> f, dir |-> i, size |-> None])
         /\ IF InTree(tree, i) THEN UNCHANGED swept ELSE Sweep({f})

MakeFile(j) ==
    /\ At(j, "make_files")
    /\ \E f \in work[j].todo : Did(j, f) /\ Insert(f, Me(j))
    /\ UNCHANGED <<stored, made, rows, target, call, accrual, direct, restored, faults>>

LoadFiles(j) ==
    /\ At(j, "make_files") /\ work[j].todo = {}
    /\ Do(j, "destroy_files", {r.file : r \in FilesIn(tree, Me(j))} \ work[j].seen)
    /\ UNCHANGED <<stored, records, rows, target, call, others>>

DestroyFile(j) ==
    /\ At(j, "destroy_files")
    /\ \E f \in work[j].todo :
        /\ Did(j, f)
        /\ IF \E r \in FilesIn(tree, Me(j)) : r.file = f
           THEN /\ tree' = DeleteFile(tree, CHOOSE r \in FilesIn(tree, Me(j)) : r.file = f)
                /\ Sweep({f})
           ELSE UNCHANGED <<tree, swept>>
    /\ UNCHANGED <<stored, made, rows, target, call, accrual, direct, restored, faults>>

FilesDestroyed(j) ==
    /\ At(j, "destroy_files") /\ work[j].todo = {}
    /\ Do(j, "assess", {r.file : r \in FilesIn(tree, Me(j))})
    /\ UNCHANGED <<stored, records, rows, target, call, others>>

\* run_initial_assessment; it raises for content or a record that is gone.
AssessFile(j) ==
    /\ At(j, "assess")
    /\ \E f \in work[j].todo :
        IF stored[f] # None /\ \E r \in FilesIn(tree, Me(j)) : r.file = f
        THEN /\ tree' = UpdateSize(tree, CHOOSE r \in FilesIn(tree, Me(j)) : r.file = f, stored[f])
             /\ Did(j, f) /\ UNCHANGED rows
        ELSE Raise(j) /\ UNCHANGED tree
    /\ UNCHANGED <<stored, made, target, call, others>>

FilesAssessed(j) ==
    /\ At(j, "assess") /\ work[j].todo = {}
    /\ Do(j, "schedule", Children(tree, Me(j)))
    /\ UNCHANGED <<stored, records, rows, target, call, others>>

ScheduleSubdirectory(j) ==
    /\ At(j, "schedule") /\ call[j].pc = "none"
    /\ \E i \in work[j].todo : Did(j, i) /\ Calls(j, i)
    /\ UNCHANGED <<stored, records, rows, target, others>>

\* The success hook destroys the record, and the row goes.
Finish(j) ==
    /\ Performed(j)
    /\ target' = [target EXCEPT ![j] = None]
    /\ rows' = [rows EXCEPT ![j] = Absent]
    /\ work' = [work EXCEPT ![j] = Idle]
    /\ UNCHANGED <<stored, records, call, others>>

Perform(j) ==
    \/ ListSubdirectories(j) \/ MakeDirectory(j) \/ LoadSubdirectories(j)
    \/ DestroyInTree(j) \/ SubdirectoriesDestroyed(j)
    \/ ListFiles(j) \/ MakeFile(j) \/ LoadFiles(j) \/ DestroyFile(j) \/ FilesDestroyed(j)
    \/ AssessFile(j) \/ FilesAssessed(j) \/ ScheduleSubdirectory(j)
    \/ Finish(j)

------------------------------------------------------------------------------
(* Who asks for assessments, and what arrives meanwhile *)

Request(q) ==
    /\ call[q].pc = "none" /\ q \in Requests
    /\ \E x \in {Group} \cup {i \in Ids : InTree(tree, i)} : Calls(q, x)
    /\ UNCHANGED <<stored, records, rows, target, work, others>>

\* perform_copying or Globus.
AccrualCopies(f) ==
    /\ accrual.pc = "copy" /\ f \in Accrued \ accrual.copied
    /\ \E size \in Sizes : stored' = [stored EXCEPT ![f] = size]
    /\ accrual' = [accrual EXCEPT !.copied = @ \cup {f}]
    /\ UNCHANGED <<records, jobs, direct, swept, restored, faults>>

AccrualMoves(pc, ids) ==
    /\ accrual' = [accrual EXCEPT !.pc = pc, !.ids = ids]
    /\ UNCHANGED <<stored, records, rows, target, work, direct, swept, restored, faults>>

\* perform_assessing: has_pending_assessment_jobs? reads the tree and then the
\* records of jobs; with one pending it raises, to be tried again.
AccrualReadsTree ==
    /\ (accrual.pc = "copy" /\ accrual.copied = Accrued) \/ accrual.pc = "ids"
    /\ AccrualMoves("jobs", {i \in Ids : InTree(tree, i)}) /\ UNCHANGED call

\* Mutant: the assessment is scheduled whatever is pending.
AccrualReadsNoJobs ==
    /\ accrual.pc = "jobs"
    /\ AccrualMoves("schedule", {}) /\ Calls(Accrual, RootId)

AccrualReadsJobs ==
    /\ accrual.pc = "jobs"
    /\ IF \E i \in accrual.ids : Scheduled(i)
       THEN AccrualMoves("ids", {}) /\ UNCHANGED call
       ELSE AccrualMoves("schedule", {}) /\ Calls(Accrual, RootId)

AccrualAwaits ==
    /\ accrual.pc = "schedule" /\ call[Accrual].pc = "none"
    /\ AccrualMoves("await", {}) /\ UNCHANGED call

\* AmqpAccrual::IngestJob: content is copied only where there is none.
DirectMoves(f, pc, i) == direct' = [direct EXCEPT ![f] = [pc |-> pc, at |-> i]]

\* Directories that are on storage once f is, while a job that did not find them there
\* has yet to end: until it does it keeps others from taking their records up.
Revived(f) ==
    {p \in Ancestors(Folder[f]) :
        /\ ~OnStorage(p)
        /\ \E j \in Rows : /\ rows[j].status = "running" /\ Me(j) = None
                          /\ target[j] \in Ids /\ InTree(tree, target[j])
                          /\ tree.dirs[target[j]].path = p}

IngestContent(f) ==
    /\ direct[f].pc = "new" /\ stored[f] = None
    /\ \E size \in Sizes : stored' = [stored EXCEPT ![f] = size]
    /\ DirectMoves(f, "copied", None)
    /\ swept' = swept \cup {g \in Files : /\ stored[g] = None /\ \E r \in tree.files : r.file = g
                                         /\ Ancestors(Folder[g]) \cap Revived(f) # {}}
    /\ UNCHANGED <<records, jobs, accrual, restored, faults>>

\* ensure_cfs_directory_parents, a row at a time, then the directory is looked up.
IngestParents(f) ==
    /\ direct[f].pc = "copied"
    /\ \/ \E p \in Ancestors(Folder[f]) \ {RootPath} :
            /\ Found(tree, p) = None /\ Found(tree, ParentPath[p]) # None /\ made # Ids
            /\ tree' = InsertDirectory(tree, NewId, p, Found(tree, ParentPath[p]))
            /\ made' = made \cup {NewId}
            /\ UNCHANGED direct
       \/ /\ Found(tree, Folder[f]) # None
          /\ DirectMoves(f, "placed", Found(tree, Folder[f])) /\ UNCHANGED records
    /\ UNCHANGED <<stored, jobs, accrual, swept, restored, faults>>

IngestRecord(f) ==
    /\ direct[f].pc = "placed"
    /\ Insert(f, direct[f].at)
    /\ DirectMoves(f, "recorded", direct[f].at)
    /\ UNCHANGED <<stored, made, jobs, accrual, restored, faults>>

\* do_assessment, of the record if there still is one.
IngestAssesses(f) ==
    /\ direct[f].pc = "recorded"
    /\ LET mine == {r \in FilesIn(tree, direct[f].at) : r.file = f} IN
       tree' = IF mine = {} THEN tree
               ELSE UpdateSize(tree, CHOOSE r \in mine : TRUE, stored[f])
    /\ DirectMoves(f, "done", None)
    /\ UNCHANGED <<stored, made, jobs, accrual, swept, restored, faults>>

\* The group is deleted and restored, at a moment when nothing else works on it.
Resting == /\ \A j \in Rows : target[j] = None /\ rows[j].status \in {"absent", "failed"}
           /\ \A c \in Callers : call[c].pc \in {"none", "over"}
           /\ \A f \in Direct : direct[f].pc \in {"never", "new", "done"}

DeleteAndRestore ==
    /\ Resting /\ accrual.pc \in {"await", "dead"} /\ ~restored
    /\ \A r \in tree.files : InTree(tree, r.dir)
    /\ tree' = Restored(tree) /\ restored' = TRUE
    /\ UNCHANGED <<stored, made, jobs, accrual, direct, swept, faults>>

------------------------------------------------------------------------------
WorkerStep(j) == Reserve(j) \/ ReserveGone(j) \/ Perform(j)
CallStep(c)   == Look(c) \/ CreateJob(c) \/ EnqueueJob(c)
AccrualStep   == AccrualReadsTree \/ AccrualReadsJobs \/ AccrualAwaits
                 \/ \E f \in Accrued : AccrualCopies(f)
IngestStep(f) == IngestParents(f) \/ IngestRecord(f) \/ IngestAssesses(f)

Next ==
    \/ \E j \in Rows : WorkerStep(j) \/ Interrupt(j)
    \/ \E c \in Callers : CallStep(c) \/ CallDies(c)
    \/ \E q \in Requests : Request(q)
    \/ AccrualStep
    \/ \E f \in Direct : IngestContent(f) \/ IngestStep(f)
    \/ DeleteAndRestore

Spec == Init /\ [][Next]_vars

\* Workers take rows and finish what they took; what was begun is ended.
Fairness ==
    /\ \A j \in Rows : WF_vars(WorkerStep(j))
    /\ \A c \in Callers : WF_vars(CallStep(c))
    /\ \A f \in Direct : WF_vars(IngestStep(f))
FairSpec == Spec /\ Fairness

------------------------------------------------------------------------------
(***************************************************************************)
(* The sums of every directory, and those of the group, are those of the   *)
(* files below it, whatever workers make and destroy rows where and in     *)
(* whatever order, sizes unknown yet included; also after a restoration.   *)
(***************************************************************************)
StatisticsAreTrue ==
    /\ \A i \in Ids : tree.dirs[i] # None =>
           Of(tree.dirs[i].count, tree.dirs[i].size) = Summed(FilesBelow(tree, i))
    /\ tree.total = Summed(FilesBelow(tree, RootId))

\* A row failed, or a record was made and never queued: seen on the dashboard, and
\* for people to mend.
Broken ==
    \E j \in Rows :
        \/ rows[j].status = "failed"
        \/ target[j] # None /\ rows[j].status = "absent" /\ \A c \in Callers : call[c].job # j

IsRecorded(f) ==
    \E r \in tree.files : r.file = f /\ InTree(tree, r.dir) /\ r.size = stored[f]

(***************************************************************************)
(* The jobs an accrual starts "make the Medusa records match what exists   *)
(* in storage": once all jobs are done, everything stored is recorded with *)
(* its size, nothing else is, and no row is left under a destroyed         *)
(* directory; but for files that arrived, or whose directories came or     *)
(* went, while a worker was at work on an older listing.                   *)
(***************************************************************************)
RecordsMatchStorage ==
    Resting =>
        /\ \A f \in Files \ swept :
               CASE f \in Direct \ Accrued /\ direct[f].pc = "done" -> IsRecorded(f)
                 [] OTHER -> accrual.pc = "await" /\ accrual.copied # {} =>
                                IF stored[f] = None THEN \A r \in tree.files : r.file # f
                                ELSE IsRecorded(f)
        /\ \A r \in tree.files : r.file \in swept \/ InTree(tree, r.dir)

(***************************************************************************)
(* What an accrual has copied is recorded some time after its assessment   *)
(* was scheduled, and stays so: no job that had listed the directory       *)
(* before the copying is left to destroy it, and none that is pending      *)
(* keeps a new one from being made.  Or something is visibly broken.       *)
(***************************************************************************)
ScheduledIsRecorded ==
    accrual.pc = "await" ~> [](Broken \/ \A f \in Accrued : IsRecorded(f))
================================================================================
