------------------------------ MODULE CfsRecords ------------------------------
(***************************************************************************)
(* The rows of cfs_directories and cfs_files of one file group and the     *)
(* sizes and counts the database keeps of them.  No query ever adds files  *)
(* up: triggers on the two tables pass every change up from a directory to *)
(* its parents and at the root on to the file group.  This module has no   *)
(* state: it says what one INSERT, UPDATE or DELETE makes of the rows.     *)
(*                                                                         *)
(* The totals by content type and extension are kept the same way and left *)
(* out; a group's size is kept in bytes here and in gigabytes in the code. *)
(***************************************************************************)
EXTENDS Naturals, FiniteSets, FiniteSetsExt

CONSTANTS
    Ids,          \* ids of directories; an id is never given out twice
    RootId,       \* the group's root directory
    Paths,        \* paths of directories in the group
    RootPath,
    ParentPath,   \* [Paths \ {RootPath} -> Paths]
    Files,        \* files, by their full path
    Folder,       \* [Files -> Paths]
    Sizes,        \* sizes of content
    Group,        \* the file group
    None          \* no row, no content, no size

ASSUME TreeAssumption ==
    /\ RootId \in Ids /\ RootPath \in Paths
    /\ ParentPath \in [Paths \ {RootPath} -> Paths]
    /\ Folder \in [Files -> Paths]
ASSUME SizesAssumption == Sizes \subseteq Nat
ASSUME FilesAssumption == IsFiniteSet(Files)

Directory == [path : Paths, parent : Ids \cup {Group}, count : Nat, size : Nat]
CfsFile   == [file : Files, dir : Ids, size : Sizes \cup {None}]
Totals    == [count : Nat, size : Nat]

ASSUME NamesAssumption ==
    Group \notin Ids \cup {None} /\ None \notin Ids \cup Sizes \cup Directory

Records(dirs, files, total) ==
    /\ dirs \in [Ids -> Directory \cup {None}]
    /\ files \subseteq CfsFile
    /\ total \in Totals

\* COALESCE(size, 0)
Coalesce(size) == IF size = None THEN 0 ELSE size

\* The directories an UPDATE of directory i reaches, itself and its ancestors up to
\* one whose row is gone: the least set of rows with i and the parents of its members.
Present(t)     == {j \in Ids : t.dirs[j] # None}
UpClosed(t, s) == \A j \in s : LET p == t.dirs[j].parent
                               IN p = Group \/ t.dirs[p] = None \/ p \in s
Chain(t, i) ==
    LET above == {s \in SUBSET Present(t) : i \in s /\ UpClosed(t, s)}
    IN {j \in UNION above : \A s \in above : j \in s}

InTree(t, i)   == RootId \in Chain(t, i)
Children(t, i) == {j \in Ids : t.dirs[j] # None /\ t.dirs[j].parent = i}
FilesIn(t, i)  == {r \in t.files : r.dir = i}

\* find_by(path:) from the root down: the directory's id, None if there is none.
Found(t, p) ==
    LET at == {i \in Ids : InTree(t, i) /\ t.dirs[i].path = p}
    IN IF at = {} THEN None ELSE CHOOSE i \in at : TRUE

------------------------------------------------------------------------------
(* The triggers *)

Of(count, size) == [count |-> count, size |-> size]
Nothing == Of(0, 0)

\* UPDATE of the sums of directory i: passed on to its parents, and by the root
\* to the group.
Cascade(t, i, plus, minus) ==
    LET dirs == [j \in Ids |->
            IF j \in Chain(t, i)
            THEN [t.dirs[j] EXCEPT !.count = @ + plus.count - minus.count,
                                   !.size = @ + plus.size - minus.size]
            ELSE t.dirs[j]]
    IN [t EXCEPT !.dirs = dirs,
                 !.total = IF InTree(t, i) THEN Of(dirs[RootId].count, dirs[RootId].size)
                           ELSE @]

InsertDirectory(t, i, path, parent) ==
    [t EXCEPT !.dirs[i] = [path |-> path, parent |-> parent, count |-> 0, size |-> 0],
              !.total = IF parent = Group THEN Nothing ELSE @]

DeleteDirectory(t, i) ==
    LET row == t.dirs[i]
        gone == [t EXCEPT !.dirs[i] = None]
    IN IF row.parent = Group THEN [gone EXCEPT !.total = Nothing]
       ELSE Cascade(gone, row.parent, Nothing, Of(row.count, row.size))

InsertFile(t, r) ==
    Cascade([t EXCEPT !.files = @ \cup {r}], r.dir, Of(1, Coalesce(r.size)), Nothing)

\* Mutant: without COALESCE a comparison with NULL is never true.
UpdateSizeUncoalesced(t, r, size) ==
    LET updated == [t EXCEPT !.files = (@ \ {r}) \cup {[r EXCEPT !.size = size]}]
    IN IF r.size = None THEN updated ELSE Cascade(updated, r.dir, Of(0, size), Of(0, r.size))

\* Mutant: the old and the new size are confused.
UpdateSizeReversed(t, r, size) ==
    Cascade([t EXCEPT !.files = (@ \ {r}) \cup {[r EXCEPT !.size = size]}],
            r.dir, Of(0, Coalesce(r.size)), Of(0, size))

UpdateSize(t, r, size) ==
    Cascade([t EXCEPT !.files = (@ \ {r}) \cup {[r EXCEPT !.size = size]}],
            r.dir, Of(0, size), Of(0, Coalesce(r.size)))

DeleteFile(t, r) ==
    Cascade([t EXCEPT !.files = @ \ {r}], r.dir, Nothing, Of(1, Coalesce(r.size)))

------------------------------------------------------------------------------
(* A deleted file group brought back from its holding schema *)

\* The sums are held as zero; the triggers of the files inserted last make them again.
Restored(held) ==
    LET zeroed == [held EXCEPT
            !.dirs  = [i \in Ids |-> IF held.dirs[i] = None THEN None
                                     ELSE [held.dirs[i] EXCEPT !.count = 0, !.size = 0]],
            !.files = {}, !.total = Nothing]
    IN FoldSet(LAMBDA r, t : InsertFile(t, r), zeroed, held.files)

------------------------------------------------------------------------------
(* What the sums should be *)

FilesBelow(t, i) == {r \in t.files : i \in Chain(t, r.dir)}
Summed(files)    == Of(Cardinality(files), MapThenSumSet(LAMBDA r : Coalesce(r.size), files))
===============================================================================
