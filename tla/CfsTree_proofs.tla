---------------------------- MODULE CfsTree_proofs ----------------------------
(***************************************************************************)
(* Theorems about CfsTree, for any number of directories, files, jobs,     *)
(* requests and faults.  Whatever is made and destroyed by whom, the rows  *)
(* keep their types and the sums kept by the triggers are those of the     *)
(* files below a directory (IInv, the first half); and once all jobs are   *)
(* done the records are those of what is on storage (MatchInv, the second  *)
(* half: Sound says that workers, callers, single files and the accrual    *)
(* have in hand what is so; Answers says who has yet to see to each file). *)
(***************************************************************************)
EXTENDS CfsTree, DelayedJobs_proofs, FiniteSetTheorems, WellFoundedInduction

------------------------------------------------------------------------------
(* Folds over finite sets *)

\* Finite sets have no endless descent, so every set of subsets has a least one.
LEMMA LeastSubset ==
    ASSUME NEW S, IsFiniteSet(S), NEW T, T \subseteq SUBSET S, T # {}
    PROVE  \E x \in T : \A y \in T : y \subseteq x => y = x
<1> DEFINE R == StrictSubsetOrdering(S)
<1>1. IsWellFoundedOn(R, SUBSET S)
  BY FS_StrictSubsetOrderingWellFounded, FS_FiniteSubsetsOfFinite, Zenon
<1>2. \A x, y \in T : y \subseteq x /\ y # x => <<y, x>> \in R
  BY DEF StrictSubsetOrdering
<1> HIDE DEF R
<1>3. PICK x \in T : \A y \in T : <<y, x>> \notin R
  BY <1>1, WFMin
<1> QED
  BY <1>2, <1>3

Pick(s) == CHOOSE x \in s : TRUE

\* A set loses its picked element.
LEMMA PickIsIn == \A s : s # {} => Pick(s) \in s /\ s \ {Pick(s)} # s
  BY DEF Pick

\* The function g folds the function step over the subsets of u.
Folds(g, u, base, step) ==
    g = [s \in SUBSET u |->
            IF s = {} THEN base ELSE step[<<Pick(s), g[s \ {Pick(s)}]>>]]

\* Two folds agree wherever both are defined.
LEMMA FoldsAgree ==
    ASSUME NEW S, IsFiniteSet(S), NEW u \in SUBSET S, NEW v \in SUBSET S, NEW base, NEW step,
           NEW g, NEW h, Folds(g, u, base, step), Folds(h, v, base, step),
           NEW w, w \subseteq u, w \subseteq v
    PROVE  g[w] = h[w]
<1> DEFINE bad == {s \in SUBSET (u \cap v) : g[s] # h[s]}
<1>1. \A s \in SUBSET u : g[s] = IF s = {} THEN base ELSE step[<<Pick(s), g[s \ {Pick(s)}]>>]
  BY Zenon DEF Folds
<1>2. \A s \in SUBSET v : h[s] = IF s = {} THEN base ELSE step[<<Pick(s), h[s \ {Pick(s)}]>>]
  BY Zenon DEF Folds
<1>3. CASE bad # {}
  <2>1. PICK s \in bad : \A t \in bad : t \subseteq s => t = s
    <3>1. bad \subseteq SUBSET S
      OBVIOUS
    <3> HIDE DEF bad
    <3> QED
      BY <1>3, <3>1, LeastSubset
  <2>2. s # {}
    BY <1>1, <1>2, <2>1
  <2> DEFINE t == s \ {Pick(s)}
  <2>3. t \subseteq s /\ t # s
    BY <2>2, PickIsIn
  <2>4. g[t] = h[t]
    BY <2>1, <2>3
  <2> QED
    BY <1>1, <1>2, <2>1, <2>2, <2>4
<1> QED
  BY <1>3

\* Every step can be folded over a finite set.
LEMMA FoldExists ==
    ASSUME NEW S, IsFiniteSet(S), NEW base, NEW step
    PROVE  \E g : Folds(g, S, base, step)
<1> DEFINE bad == {u \in SUBSET S : ~ \E g : Folds(g, u, base, step)}
<1>1. SUFFICES bad = {}
  OBVIOUS
<1>2. SUFFICES ASSUME bad # {} PROVE FALSE
  OBVIOUS
<1>3. PICK u \in bad : \A t \in bad : t \subseteq u => t = u
  <2>1. bad \subseteq SUBSET S
    OBVIOUS
  <2> HIDE DEF bad
  <2> QED
    BY <1>2, <2>1, LeastSubset
<1> DEFINE F(w) == CHOOSE g : Folds(g, w, base, step)
           Rest(s) == s \ {Pick(s)}
           G == [s \in SUBSET u |->
                    IF s = {} THEN base ELSE step[<<Pick(s), F(Rest(s))[Rest(s)]>>]]
<1>4. \A w \in SUBSET u : w # u => Folds(F(w), w, base, step)
  BY <1>3, Zenon
<1>5. \A s \in SUBSET u : s # {} => Rest(s) \subseteq s /\ Rest(s) # s /\ Rest(s) # u
  BY PickIsIn
<1>6. ASSUME NEW w \in SUBSET u, w # u PROVE G[w] = F(w)[w]
  <2>1. F(w)[w] = IF w = {} THEN base ELSE step[<<Pick(w), F(w)[Rest(w)]>>]
    <3>1. Folds(F(w), w, base, step) /\ w \in SUBSET w
      BY <1>4, <1>6
    <3> HIDE DEF F
    <3> QED
      BY <3>1, Zenon DEF Folds
  <2>2. CASE w # {}
    <3>1. F(w)[Rest(w)] = F(Rest(w))[Rest(w)]
      <4>1. Rest(w) \subseteq w /\ Rest(w) \in SUBSET u /\ Rest(w) # u
        BY <1>5, <2>2
      <4>2. Folds(F(w), w, base, step) /\ Folds(F(Rest(w)), Rest(w), base, step)
        BY <1>4, <1>6, <4>1
      <4>3. w \in SUBSET S /\ Rest(w) \in SUBSET S
        BY <1>3
      <4> HIDE DEF F, Rest
      <4> QED
        BY <4>1, <4>2, <4>3, FoldsAgree
    <3> QED
      BY <2>1, <2>2, <3>1
  <2> QED
    BY <2>1, <2>2
<1>7. Folds(G, u, base, step)
  <2>1. \A s \in SUBSET u : s # {} => G[Rest(s)] = F(Rest(s))[Rest(s)]
    <3> SUFFICES ASSUME NEW s \in SUBSET u, s # {} PROVE G[Rest(s)] = F(Rest(s))[Rest(s)]
      OBVIOUS
    <3>1. Rest(s) \in SUBSET u /\ Rest(s) # u
      BY <1>5
    <3> HIDE DEF G, F, Rest
    <3> QED
      BY <1>6, <3>1
  <2> DEFINE V(s) == IF s = {} THEN base ELSE step[<<Pick(s), F(Rest(s))[Rest(s)]>>]
             W(s) == IF s = {} THEN base ELSE step[<<Pick(s), G[Rest(s)]>>]
  <2>2. \A s \in SUBSET u : V(s) = W(s)
    <3> HIDE DEF G, F, Rest
    <3> QED
      BY <2>1
  <2>3. [s \in SUBSET u |-> V(s)] = [s \in SUBSET u |-> W(s)]
    <3> HIDE DEF V, W
    <3> QED
      BY <2>2
  <2>4. G = [s \in SUBSET u |-> V(s)]
    OBVIOUS
  <2>5. G = [s \in SUBSET u |-> W(s)]
    <3> HIDE DEF G, V, W
    <3> QED
      BY <2>3, <2>4
  <2> HIDE DEF G
  <2> QED
    BY <2>5, Zenon DEF Folds
<1> QED
  BY <1>3, <1>7

\* What holds of the empty set, and of a set once it holds of the set without
\* the element a fold takes first, holds of every subset.
LEMMA SubsetInduction ==
    ASSUME NEW S, IsFiniteSet(S), NEW P, {} \in P,
           \A s \in SUBSET S : s # {} /\ s \ {Pick(s)} \in P => s \in P
    PROVE  SUBSET S \subseteq P
<1> DEFINE bad == {s \in SUBSET S : s \notin P}
<1>1. CASE bad # {}
  <2>1. PICK s \in bad : \A t \in bad : t \subseteq s => t = s
    <3>1. bad \subseteq SUBSET S
      OBVIOUS
    <3> HIDE DEF bad
    <3> QED
      BY <1>1, <3>1, LeastSubset
  <2>2. s # {} /\ s \ {Pick(s)} \subseteq s /\ s \ {Pick(s)} # s
    BY <2>1, PickIsIn
  <2>3. s \ {Pick(s)} \in P
    BY <2>1, <2>2
  <2> QED
    BY <2>1, <2>2, <2>3
<1> QED
  BY <1>1

\* The size of a set of files.
SizeOf(files) == MapThenSumSet(LAMBDA r : Coalesce(r.size), files)

\* Its sums, as MapThenSumSet makes them one after the other.
Sums(g, u) ==
    g = [s \in SUBSET u |->
            IF s = {} THEN 0 ELSE LET x == CHOOSE x \in s : TRUE
                                  IN Coalesce(x.size) + g[s \ {x}]]

SumStep == [p \in CfsFile \X Nat |-> Coalesce(p[1].size) + p[2]]

\* COALESCE(size, 0) is a number.
LEMMA CoalesceNat ==
    \A r \in CfsFile : Coalesce(r.size) \in Nat
BY SizesAssumption DEF CfsFile, Coalesce

\* A function that sums sizes is a fold, and a fold of sizes sums them.
LEMMA SumsAreFolds ==
    ASSUME NEW u, IsFiniteSet(u), u \subseteq CfsFile, NEW g
    PROVE  /\ Sums(g, u) => Folds(g, u, 0, SumStep) /\ g \in [SUBSET u -> Nat]
           /\ Folds(g, u, 0, SumStep) => Sums(g, u)
<1> DEFINE P == {s \in SUBSET u : g[s] \in Nat}
<1>1. ASSUME \A s \in SUBSET u : s # {} /\ g[s \ {Pick(s)}] \in Nat => g[s] \in Nat,
             g[{}] \in Nat
      PROVE  \A s \in SUBSET u : g[s] \in Nat
  <2>1. {} \in P /\ \A s \in SUBSET u : s # {} /\ s \ {Pick(s)} \in P => s \in P
    BY <1>1
  <2> HIDE DEF P
  <2>2. SUBSET u \subseteq P
    BY <2>1, SubsetInduction
  <2> QED
    BY <2>2 DEF P
<1> DEFINE V(s) == IF s = {} THEN 0 ELSE Coalesce(Pick(s).size) + g[s \ {Pick(s)}]
           W(s) == IF s = {} THEN 0 ELSE SumStep[<<Pick(s), g[s \ {Pick(s)}]>>]
<1>2. Sums(g, u) <=> g = [s \in SUBSET u |-> V(s)]
  BY Zenon DEF Sums, Pick
<1>3. Folds(g, u, 0, SumStep) <=> g = [s \in SUBSET u |-> W(s)]
  BY Zenon DEF Folds
<1>4. ASSUME NEW s \in SUBSET u, s # {}, g[s \ {Pick(s)}] \in Nat
      PROVE  V(s) = W(s) /\ V(s) \in Nat
  <2>1. Pick(s) \in CfsFile
    BY <1>4, PickIsIn
  <2>2. Coalesce(Pick(s).size) \in Nat
    BY <2>1, CoalesceNat
  <2> QED
    BY <1>4, <2>1, <2>2 DEF SumStep
<1>5. V({}) = 0 /\ W({}) = 0 /\ \A s \in SUBSET u : s # {} => s \ {Pick(s)} \in SUBSET u
  OBVIOUS
<1> HIDE DEF V, W, P
<1>6. ASSUME \A s \in SUBSET u : g[s] \in Nat
      PROVE  [s \in SUBSET u |-> V(s)] = [s \in SUBSET u |-> W(s)]
  <2>1. \A s \in SUBSET u : V(s) = W(s)
    BY <1>4, <1>5, <1>6
  <2> QED
    BY <2>1
<1>7. ASSUME g = [s \in SUBSET u |-> V(s)]
      PROVE  g = [s \in SUBSET u |-> W(s)] /\ g \in [SUBSET u -> Nat]
  <2>1. \A s \in SUBSET u : g[s] = V(s)
    BY <1>7
  <2>2. g[{}] \in Nat
    BY <1>5, <2>1
  <2>3. \A s \in SUBSET u : s # {} /\ g[s \ {Pick(s)}] \in Nat => g[s] \in Nat
    BY <1>4, <2>1
  <2>4. \A s \in SUBSET u : g[s] \in Nat
    BY <1>1, <2>2, <2>3
  <2> QED
    BY <1>6, <1>7, <2>4
<1>8. ASSUME g = [s \in SUBSET u |-> W(s)]
      PROVE  g = [s \in SUBSET u |-> V(s)]
  <2>1. \A s \in SUBSET u : g[s] = W(s)
    BY <1>8
  <2>2. g[{}] \in Nat
    BY <1>5, <2>1
  <2>3. \A s \in SUBSET u : s # {} /\ g[s \ {Pick(s)}] \in Nat => g[s] \in Nat
    BY <1>4, <2>1
  <2>4. \A s \in SUBSET u : g[s] \in Nat
    BY <1>1, <2>2, <2>3
  <2> QED
    BY <1>6, <1>8, <2>4
<1> QED
  BY <1>2, <1>3, <1>7, <1>8

\* The size of any part of a finite set of files is read off one fold.
LEMMA SizesOfParts ==
    ASSUME NEW u, IsFiniteSet(u), u \subseteq CfsFile
    PROVE  \E g \in [SUBSET u -> Nat] : Sums(g, u) /\ \A w \in SUBSET u : SizeOf(w) = g[w]
<1>1. PICK g : Folds(g, u, 0, SumStep)
  BY FoldExists
<1>2. Sums(g, u) /\ g \in [SUBSET u -> Nat]
  BY <1>1, SumsAreFolds
<1>3. ASSUME NEW w \in SUBSET u PROVE SizeOf(w) = g[w]
  <2> DEFINE iter == CHOOSE h : Sums(h, w)
  <2>1. SizeOf(w) = iter[w]
    BY Zenon DEF SizeOf, MapThenSumSet, MapThenFoldSet, Sums
  <2>2. IsFiniteSet(w) /\ w \subseteq CfsFile
    BY FS_Subset
  <2>3. \E h : Sums(h, w)
    BY <2>2, FoldExists, SumsAreFolds
  <2>4. Sums(iter, w)
    BY <2>3
  <2> HIDE DEF iter
  <2>5. Folds(iter, w, 0, SumStep)
    BY <2>2, <2>4, SumsAreFolds
  <2>6. iter[w] = g[w]
    BY <1>1, <2>5, FoldsAgree
  <2> QED
    BY <2>1, <2>6
<1> QED
  BY <1>2, <1>3

\* Any file can be taken first.
LEMMA SizeOfParted ==
    ASSUME NEW u, IsFiniteSet(u), u \subseteq CfsFile
    PROVE  /\ SizeOf(u) \in Nat /\ SizeOf({}) = 0
           /\ \A r \in u : SizeOf(u) = Coalesce(r.size) + SizeOf(u \ {r})
<1>1. PICK g \in [SUBSET u -> Nat] : Sums(g, u) /\ \A w \in SUBSET u : SizeOf(w) = g[w]
  BY SizesOfParts
<1>2. \A s \in SUBSET u :
         g[s] = IF s = {} THEN 0 ELSE Coalesce(Pick(s).size) + g[s \ {Pick(s)}]
  BY <1>1, Zenon DEF Sums, Pick
<1> DEFINE bad == {s \in SUBSET u : \E r \in s : g[s] # Coalesce(r.size) + g[s \ {r}]}
<1>3. ASSUME bad # {} PROVE FALSE
  <2>1. PICK s \in bad : \A t \in bad : t \subseteq s => t = s
    <3>1. bad \subseteq SUBSET u
      OBVIOUS
    <3> HIDE DEF bad
    <3> QED
      BY <1>3, <3>1, LeastSubset
  <2>2. PICK r \in s : g[s] # Coalesce(r.size) + g[s \ {r}]
    OBVIOUS
  <2> DEFINE x == Pick(s)
  <2>3. x \in s /\ s # {}
    BY <2>2, PickIsIn
  <2>4. g[s] = Coalesce(x.size) + g[s \ {x}]
    BY <1>2, <2>1, <2>3
  <2>5. x # r
    BY <2>2, <2>4
  <2> HIDE DEF x
  <2>6. g[s \ {x}] = Coalesce(r.size) + g[(s \ {x}) \ {r}]
    <3>1. s \ {x} \in SUBSET u /\ s \ {x} \notin bad /\ r \in s \ {x}
      BY <2>1, <2>2, <2>3, <2>5
    <3> QED
      BY <3>1
  <2>7. g[s \ {r}] = Coalesce(x.size) + g[(s \ {r}) \ {x}]
    <3>1. s \ {r} \in SUBSET u /\ s \ {r} \notin bad /\ x \in s \ {r}
      BY <2>1, <2>2, <2>3, <2>5
    <3> QED
      BY <3>1
  <2>8. (s \ {x}) \ {r} = (s \ {r}) \ {x}
    OBVIOUS
  <2> DEFINE both == g[(s \ {r}) \ {x}]
  <2>9. Coalesce(x.size) \in Nat /\ Coalesce(r.size) \in Nat /\ both \in Nat
    BY <1>1, <2>1, <2>2, <2>3, CoalesceNat
  <2>10. g[s \ {x}] = Coalesce(r.size) + both /\ g[s \ {r}] = Coalesce(x.size) + both
    BY <2>6, <2>7, <2>8
  <2> HIDE DEF both, bad
  <2> QED
    BY <2>2, <2>4, <2>9, <2>10
<1>4. \A r \in u : g[u] = Coalesce(r.size) + g[u \ {r}]
  <2>1. bad = {}
    <3> HIDE DEF bad
    <3> QED
      BY <1>3
  <2>2. u \notin bad
    BY <2>1, Zenon
  <2> QED
    BY <2>2
<1>5. u \in SUBSET u /\ {} \in SUBSET u /\ \A r \in u : u \ {r} \in SUBSET u
  OBVIOUS
<1>6. /\ SizeOf(u) = g[u] /\ SizeOf({}) = g[{}] /\ g[{}] = 0
      /\ \A r \in u : SizeOf(u \ {r}) = g[u \ {r}]
  BY <1>1, <1>2, <1>5
<1> QED
  BY <1>1, <1>4, <1>5, <1>6

\* What the sums of a set of files are when one of them comes or goes.
LEMMA SummedParted ==
    ASSUME NEW u, IsFiniteSet(u), u \subseteq CfsFile
    PROVE  /\ Summed(u) = Of(Cardinality(u), SizeOf(u)) /\ Summed(u) \in Totals
           /\ \A r \in u : LET rest == Summed(u \ {r}) IN
                 /\ rest \in Totals
                 /\ Summed(u) = Of(rest.count + 1, rest.size + Coalesce(r.size))
<1>1. \A w : Summed(w) = Of(Cardinality(w), SizeOf(w))
  BY Zenon DEF Summed, SizeOf
<1>2. Cardinality(u) \in Nat /\ SizeOf(u) \in Nat
  BY FS_CardinalityType, SizeOfParted
<1>3. ASSUME NEW r \in u
      PROVE  /\ Cardinality(u) = Cardinality(u \ {r}) + 1 /\ Cardinality(u \ {r}) \in Nat
             /\ SizeOf(u) = SizeOf(u \ {r}) + Coalesce(r.size) /\ SizeOf(u \ {r}) \in Nat
  <2>1. IsFiniteSet(u \ {r}) /\ Cardinality(u \ {r}) = Cardinality(u) - 1
    BY FS_RemoveElement
  <2>2. SizeOf(u \ {r}) \in Nat /\ Coalesce(r.size) \in Nat
    BY <2>1, SizeOfParted, CoalesceNat
  <2>3. SizeOf(u) = Coalesce(r.size) + SizeOf(u \ {r})
    BY SizeOfParted
  <2> QED
    <3>1. Cardinality(u \ {r}) \in Nat
      BY <2>1, FS_CardinalityType
    <3> HIDE DEF SizeOf
    <3> QED
      BY <1>2, <2>1, <2>2, <2>3, <3>1
<1> HIDE DEF SizeOf
<1> QED
  BY <1>1, <1>2, <1>3 DEF Of, Totals

\* Of no files.
LEMMA SummedOfNone == Summed({}) = Nothing
<1>1. IsFiniteSet({}) /\ Cardinality({}) = 0 /\ SizeOf({}) = 0 /\ {} \subseteq CfsFile
  BY FS_EmptySet, SizeOfParted
<1> QED
  BY <1>1, SummedParted DEF Nothing

------------------------------------------------------------------------------
(* Chains of directories *)

\* A chain is the least set of directories with this one and, with each, its parent.
LEMMA ChainClosed ==
    ASSUME NEW t, t.dirs \in [Ids -> Directory \cup {None}], NEW i
    PROVE  /\ Chain(t, i) \subseteq Present(t)
           /\ i \in Present(t) => i \in Chain(t, i)
           /\ i \notin Present(t) => Chain(t, i) = {}
           /\ UpClosed(t, Chain(t, i))
           /\ \A s \in SUBSET Present(t) : i \in s /\ UpClosed(t, s) => Chain(t, i) \subseteq s
<1> DEFINE above == {s \in SUBSET Present(t) : i \in s /\ UpClosed(t, s)}
<1>1. Chain(t, i) = {j \in UNION above : \A s \in above : j \in s}
  BY Zenon DEF Chain
<1>2. i \in Present(t) => Present(t) \in above
  BY DEF UpClosed, Present, Directory
<1>3. UpClosed(t, Chain(t, i))
  BY <1>1, <1>2 DEF UpClosed, Present
<1> QED
  BY <1>1, <1>2, <1>3

\* Two trees in which the directories of d have the same parents, which are in d
\* too or have no row: their chains are the same.
LEMMA ChainAgrees ==
    ASSUME NEW t, t.dirs \in [Ids -> Directory \cup {None}],
           NEW o, o.dirs \in [Ids -> Directory \cup {None}],
           NEW d \in SUBSET Ids,
           \A j \in d : (t.dirs[j] = None <=> o.dirs[j] = None)
                        /\ (t.dirs[j] # None => t.dirs[j].parent = o.dirs[j].parent),
           \A j \in d : t.dirs[j] # None => t.dirs[j].parent \in d \cup {Group},
           NEW i \in d
    PROVE  Chain(t, i) = Chain(o, i)
<1> DEFINE ct == Chain(t, i) \cap d
           co == Chain(o, i) \cap d
<1>1. /\ Present(t) \cap d = Present(o) \cap d
      /\ ct \subseteq Present(t) /\ co \subseteq Present(o)
  BY ChainClosed DEF Present
<1>2. CASE i \notin Present(t)
  BY <1>1, <1>2, ChainClosed
<1>3. CASE i \in Present(t)
  <2>1. i \in Present(o) /\ i \in ct /\ i \in co
    BY <1>1, <1>3, ChainClosed
  <2>2. UpClosed(t, Chain(t, i)) /\ UpClosed(o, Chain(o, i))
    BY ChainClosed
  <2>3. UpClosed(t, ct) /\ UpClosed(o, ct)
    BY <1>1, <2>2 DEF UpClosed, Present
  <2>4. UpClosed(t, co) /\ UpClosed(o, co)
    BY <1>1, <2>2 DEF UpClosed, Present
  <2>5. ct \in SUBSET Present(t) /\ ct \in SUBSET Present(o)
        /\ co \in SUBSET Present(t) /\ co \in SUBSET Present(o)
    BY <1>1
  <2> HIDE DEF ct, co
  <2>6. Chain(t, i) \subseteq co /\ Chain(o, i) \subseteq ct
    BY <2>1, <2>3, <2>4, <2>5, ChainClosed
  <2> QED
    BY <2>6 DEF ct, co
<1> QED
  BY <1>2, <1>3

------------------------------------------------------------------------------
(* What one INSERT, UPDATE or DELETE makes of true sums *)

TreeType == [dirs : [Ids -> Directory \cup {None}], files : SUBSET CfsFile, total : Totals]

\* The sums of a tree are those of its files.
SumsAreTrue(t) ==
    /\ \A i \in Ids : t.dirs[i] # None =>
           Of(t.dirs[i].count, t.dirs[i].size) = Summed(FilesBelow(t, i))
    /\ t.total = Summed(FilesBelow(t, RootId))

\* Two trees have the same directories in the same places.
SameShape(t, o) ==
    \A i \in Ids : /\ t.dirs[i] = None <=> o.dirs[i] = None
                   /\ t.dirs[i] # None => /\ o.dirs[i].path = t.dirs[i].path
                                          /\ o.dirs[i].parent = t.dirs[i].parent

\* Trees that differ in statistics only have the same chains.
LEMMA SameShapeSameChains ==
    ASSUME NEW t \in TreeType, NEW o \in TreeType, SameShape(t, o), NEW i \in Ids
    PROVE  Chain(o, i) = Chain(t, i)
BY ChainAgrees DEF TreeType, SameShape, Directory

\* Chains are of directories.
LEMMA ChainOfDirs ==
    ASSUME NEW t, NEW o, o.dirs = t.dirs, NEW i
    PROVE  Chain(o, i) = Chain(t, i)
BY Zenon DEF Chain, Present, UpClosed

\* The files of a set that are below a directory.
Below(t, files, i) == {r \in files : i \in Chain(t, r.dir)}

\* The sums that a change of a file makes, one by one: those of the directories
\* above it change by what the trigger passes on, the others not at all.
Passed(t, files, d, plus, minus) ==
    \A i \in Ids :
        LET old == Summed(FilesBelow(t, i))
            new == Summed(Below(t, files, i))
        IN /\ new \in Totals
           /\ i \in Chain(t, d) => new = Of(old.count + plus.count - minus.count,
                                            old.size + plus.size - minus.size)
           /\ i \notin Chain(t, d) => new = old

\* A change passed up its chain leaves true sums, if each directory got its due.
LEMMA CascadeKeepsSums ==
    ASSUME NEW t \in TreeType, SumsAreTrue(t), NEW files \in SUBSET CfsFile, NEW d \in Ids,
           NEW plus \in Totals, NEW minus \in Totals, Passed(t, files, d, plus, minus),
           NEW o, o = Cascade([t EXCEPT !.files = files], d, plus, minus)
    PROVE  o \in TreeType /\ SumsAreTrue(o) /\ o.files = files /\ SameShape(t, o)
<1> DEFINE u == [t EXCEPT !.files = files]
           dirs == [j \in Ids |->
                      IF j \in Chain(u, d)
                      THEN [u.dirs[j] EXCEPT !.count = @ + plus.count - minus.count,
                                             !.size = @ + plus.size - minus.size]
                      ELSE u.dirs[j]]
           total == IF InTree(u, d) THEN Of(dirs[RootId].count, dirs[RootId].size)
                    ELSE u.total
<1>1. u = [dirs |-> t.dirs, files |-> files, total |-> t.total]
  BY DEF TreeType
<1>2. Chain(u, d) = Chain(t, d) /\ u.dirs = t.dirs /\ u.total = t.total /\ u.files = files
  BY <1>1, ChainOfDirs
<1>3. o = [u EXCEPT !.dirs = dirs, !.total = total]
  BY Zenon DEF Cascade
<1>4. o.dirs = dirs /\ o.files = files /\ o.total = total
      /\ o = [dirs |-> dirs, files |-> files, total |-> total]
  BY <1>1, <1>3
<1>5. ASSUME NEW i \in Chain(t, d)
      PROVE  /\ i \in Ids /\ t.dirs[i] # None
             /\ dirs[i] \in Directory
             /\ dirs[i].path = t.dirs[i].path /\ dirs[i].parent = t.dirs[i].parent
             /\ Of(dirs[i].count, dirs[i].size) = Summed(Below(t, files, i))
  <2>1. i \in Ids /\ t.dirs[i] \in Directory /\ t.dirs[i] # None
    BY ChainClosed DEF Present, TreeType
  <2>2. /\ Of(t.dirs[i].count, t.dirs[i].size) = Summed(FilesBelow(t, i))
        /\ Summed(Below(t, files, i)) \in Totals
        /\ LET old == Summed(FilesBelow(t, i)) IN
           Summed(Below(t, files, i)) = Of(old.count + plus.count - minus.count,
                                           old.size + plus.size - minus.size)
    BY <2>1 DEF SumsAreTrue, Passed
  <2>3. dirs[i] = [t.dirs[i] EXCEPT !.count = @ + plus.count - minus.count,
                                    !.size = @ + plus.size - minus.size]
    BY <1>2, <2>1
  <2> HIDE DEF dirs
  <2>4. /\ dirs[i].count = t.dirs[i].count + plus.count - minus.count
        /\ dirs[i].size = t.dirs[i].size + plus.size - minus.size
        /\ dirs[i].path = t.dirs[i].path /\ dirs[i].parent = t.dirs[i].parent
        /\ dirs[i] = [path |-> t.dirs[i].path, parent |-> t.dirs[i].parent,
                      count |-> dirs[i].count, size |-> dirs[i].size]
    BY <2>1, <2>3 DEF Directory
  <2>5. Of(dirs[i].count, dirs[i].size) = Summed(Below(t, files, i))
    BY <2>2, <2>4 DEF Of
  <2>6. dirs[i].count \in Nat /\ dirs[i].size \in Nat
    BY <2>2, <2>5 DEF Of, Totals
  <2> QED
    BY <2>1, <2>4, <2>5, <2>6 DEF Directory
<1>6. ASSUME NEW i \in Ids, i \notin Chain(t, d)
      PROVE  dirs[i] = t.dirs[i] /\ Summed(Below(t, files, i)) = Summed(FilesBelow(t, i))
  BY <1>2, <1>6 DEF Passed
<1>7. dirs \in [Ids -> Directory \cup {None}]
  <2>1. \A i \in Ids : dirs[i] \in Directory \cup {None}
    BY <1>5, <1>6 DEF TreeType
  <2> QED
    BY <2>1
<1>8. total \in Totals /\ total = Summed(Below(t, files, RootId))
  <2>1. CASE RootId \in Chain(t, d)
    <3>1. total = Of(dirs[RootId].count, dirs[RootId].size)
      BY <1>2, <2>1 DEF InTree
    <3> HIDE DEF dirs, total
    <3> QED
      BY <1>5, <2>1, <3>1, TreeAssumption DEF Passed
  <2>2. CASE RootId \notin Chain(t, d)
    <3>1. total = t.total
      BY <1>2, <2>2 DEF InTree
    <3> HIDE DEF dirs, total
    <3> QED
      BY <1>6, <2>2, <3>1, TreeAssumption DEF SumsAreTrue, Passed
  <2> QED
    BY <2>1, <2>2
<1> HIDE DEF dirs, total, u
<1>9. o \in TreeType
  BY <1>4, <1>7, <1>8 DEF TreeType
<1>10. SameShape(t, o)
  BY <1>4, <1>5, <1>6, NamesAssumption DEF SameShape, Directory
<1>11. \A i \in Ids : FilesBelow(o, i) = Below(t, files, i)
  BY <1>4, <1>9, <1>10, SameShapeSameChains DEF FilesBelow, Below, CfsFile
<1>12. SumsAreTrue(o)
  <2>1. ASSUME NEW i \in Ids, o.dirs[i] # None
        PROVE  Of(o.dirs[i].count, o.dirs[i].size) = Summed(FilesBelow(o, i))
    BY <1>4, <1>5, <1>6, <1>11, <2>1 DEF SumsAreTrue
  <2> QED
    BY <1>4, <1>8, <1>11, <2>1, TreeAssumption DEF SumsAreTrue
<1> QED
  BY <1>4, <1>9, <1>10, <1>12

\* A tree as it should be: typed, finite, with true sums.
Good(t) == t \in TreeType /\ IsFiniteSet(t.files) /\ SumsAreTrue(t)

\* The insert trigger of cfs_files keeps the sums true.
LEMMA InsertFileKeepsSums ==
    ASSUME NEW t, Good(t), NEW r \in CfsFile, r \notin t.files
    PROVE  LET o == InsertFile(t, r) IN
           Good(o) /\ o.files = t.files \cup {r} /\ SameShape(t, o)
<1> DEFINE files == t.files \cup {r}
           plus == Of(1, Coalesce(r.size))
           o == InsertFile(t, r)
<1>1. /\ t \in TreeType /\ IsFiniteSet(t.files) /\ t.files \subseteq CfsFile
      /\ IsFiniteSet(files) /\ files \in SUBSET CfsFile
  BY FS_AddElement DEF Good, TreeType
<1>2. plus \in Totals /\ Nothing \in Totals /\ r.dir \in Ids /\ Coalesce(r.size) \in Nat
  BY CoalesceNat DEF Of, Nothing, Totals, CfsFile
<1>3. o = Cascade([t EXCEPT !.files = files], r.dir, plus, Nothing)
  BY DEF InsertFile, TreeType
<1>4. ASSUME NEW i \in Ids
      PROVE  LET old == Summed(FilesBelow(t, i))
                 new == Summed(Below(t, files, i))
             IN /\ new \in Totals
                /\ i \in Chain(t, r.dir) => new = Of(old.count + plus.count - Nothing.count,
                                                     old.size + plus.size - Nothing.size)
                /\ i \notin Chain(t, r.dir) => new = old
  <2> DEFINE old == FilesBelow(t, i)
             new == Below(t, files, i)
  <2>1. /\ new \subseteq CfsFile /\ IsFiniteSet(new)
        /\ i \in Chain(t, r.dir) => r \in new /\ new \ {r} = old
        /\ i \notin Chain(t, r.dir) => new = old
    <3>1. new \subseteq files
      BY DEF Below
    <3>2. IsFiniteSet(new)
      BY <1>1, <3>1, FS_Subset
    <3> QED
      BY <1>1, <3>1, <3>2 DEF Below, FilesBelow
  <2> HIDE DEF old, new
  <2>2. Summed(new) \in Totals
    BY <2>1, SummedParted
  <2>3. CASE i \in Chain(t, r.dir)
    <3>1. /\ Summed(old) \in Totals
          /\ Summed(new) = Of(Summed(old).count + 1, Summed(old).size + Coalesce(r.size))
      BY <2>1, <2>3, SummedParted
    <3> QED
      BY <1>2, <2>2, <2>3, <3>1 DEF old, new, Of, Nothing, Totals
  <2>4. CASE i \notin Chain(t, r.dir)
    BY <2>1, <2>2, <2>4 DEF old, new
  <2> QED
    BY <2>3, <2>4
<1>5. Passed(t, files, r.dir, plus, Nothing)
  BY <1>4 DEF Passed
<1> HIDE DEF files, plus, o
<1>6. o \in TreeType /\ SumsAreTrue(o) /\ o.files = files /\ SameShape(t, o)
  BY <1>1, <1>2, <1>3, <1>5, CascadeKeepsSums DEF Good
<1> QED
  BY <1>1, <1>6 DEF Good, files, o

\* The delete trigger of cfs_files keeps the sums true.
LEMMA DeleteFileKeepsSums ==
    ASSUME NEW t, Good(t), NEW r \in t.files
    PROVE  LET o == DeleteFile(t, r) IN
           Good(o) /\ o.files = t.files \ {r} /\ SameShape(t, o)
<1> DEFINE files == t.files \ {r}
           minus == Of(1, Coalesce(r.size))
           o == DeleteFile(t, r)
<1>1. /\ t \in TreeType /\ IsFiniteSet(t.files) /\ t.files \subseteq CfsFile
      /\ IsFiniteSet(files) /\ files \in SUBSET CfsFile /\ r \in CfsFile
  BY FS_RemoveElement DEF Good, TreeType
<1>2. minus \in Totals /\ Nothing \in Totals /\ r.dir \in Ids /\ Coalesce(r.size) \in Nat
  BY <1>1, CoalesceNat DEF Of, Nothing, Totals, CfsFile
<1>3. o = Cascade([t EXCEPT !.files = files], r.dir, Nothing, minus)
  BY <1>1 DEF DeleteFile, TreeType
<1>4. ASSUME NEW i \in Ids
      PROVE  LET old == Summed(FilesBelow(t, i))
                 new == Summed(Below(t, files, i))
             IN /\ new \in Totals
                /\ i \in Chain(t, r.dir) => new = Of(old.count + Nothing.count - minus.count,
                                                     old.size + Nothing.size - minus.size)
                /\ i \notin Chain(t, r.dir) => new = old
  <2> DEFINE old == FilesBelow(t, i)
             new == Below(t, files, i)
  <2>1. /\ old \subseteq CfsFile /\ IsFiniteSet(old)
        /\ i \in Chain(t, r.dir) => r \in old /\ old \ {r} = new
        /\ i \notin Chain(t, r.dir) => new = old
    <3>1. old \subseteq t.files
      BY DEF FilesBelow
    <3>2. IsFiniteSet(old)
      BY <1>1, <3>1, FS_Subset
    <3> QED
      BY <1>1, <3>1, <3>2 DEF Below, FilesBelow
  <2> HIDE DEF old, new
  <2>2. Summed(old) \in Totals
    BY <2>1, SummedParted
  <2>3. CASE i \in Chain(t, r.dir)
    <3>1. /\ Summed(new) \in Totals
          /\ Summed(old) = Of(Summed(new).count + 1, Summed(new).size + Coalesce(r.size))
      BY <2>1, <2>3, SummedParted
    <3>2. /\ Summed(new) = Of(Summed(new).count, Summed(new).size)
          /\ Summed(new).count = Summed(old).count - 1 /\ Summed(new).count \in Nat
          /\ Summed(new).size = Summed(old).size - Coalesce(r.size)
      BY <1>2, <2>2, <3>1 DEF Of, Totals
    <3>3. /\ minus.count = 1 /\ minus.size = Coalesce(r.size)
          /\ Nothing.count = 0 /\ Nothing.size = 0
      BY DEF Of, Nothing
    <3>4. /\ Summed(old).count \in Nat /\ Summed(old).size \in Nat
      BY <2>2 DEF Totals
    <3>5. Summed(new) = Of(Summed(old).count + 0 - 1, Summed(old).size + 0 - Coalesce(r.size))
      BY <1>2, <3>2, <3>4
    <3> HIDE DEF minus
    <3> QED
      BY <2>2, <2>3, <3>1, <3>3, <3>5 DEF old, new
  <2>4. CASE i \notin Chain(t, r.dir)
    BY <2>1, <2>2, <2>4 DEF old, new
  <2> QED
    BY <2>3, <2>4
<1>5. Passed(t, files, r.dir, Nothing, minus)
  BY <1>4 DEF Passed
<1> HIDE DEF files, minus, o
<1>6. o \in TreeType /\ SumsAreTrue(o) /\ o.files = files /\ SameShape(t, o)
  BY <1>1, <1>2, <1>3, <1>5, CascadeKeepsSums DEF Good
<1> QED
  BY <1>1, <1>6 DEF Good, files, o

\* An update replaces a row by one that is nowhere else.
LEMMA UpdateSizeKeepsSums ==
    ASSUME NEW t, Good(t), NEW r \in t.files, NEW size \in Sizes,
           [r EXCEPT !.size = size] \notin t.files \ {r}
    PROVE  LET o == UpdateSize(t, r, size) IN
           /\ Good(o) /\ SameShape(t, o)
           /\ o.files = (t.files \ {r}) \cup {[r EXCEPT !.size = size]}
<1> DEFINE q == [r EXCEPT !.size = size]
           kept == t.files \ {r}
           files == kept \cup {q}
           plus == Of(0, size)
           minus == Of(0, Coalesce(r.size))
           o == UpdateSize(t, r, size)
<1>1. /\ t \in TreeType /\ IsFiniteSet(t.files) /\ t.files \subseteq CfsFile /\ r \in CfsFile
      /\ IsFiniteSet(kept)
  BY FS_RemoveElement DEF Good, TreeType
<1>2. /\ q \in CfsFile /\ q.dir = r.dir /\ q.size = size /\ size \in Nat
      /\ Coalesce(q.size) = size
  BY <1>1, SizesAssumption, NamesAssumption DEF CfsFile, Coalesce
<1>3. plus \in Totals /\ minus \in Totals /\ r.dir \in Ids /\ Coalesce(r.size) \in Nat
  BY <1>1, <1>2, CoalesceNat DEF Of, Totals, CfsFile
<1>4. IsFiniteSet(files) /\ files \in SUBSET CfsFile
  BY <1>1, <1>2, FS_AddElement
<1>5. o = Cascade([t EXCEPT !.files = files], r.dir, plus, minus)
  BY <1>1 DEF UpdateSize, TreeType
<1>6. ASSUME NEW i \in Ids
      PROVE  LET old == Summed(FilesBelow(t, i))
                 new == Summed(Below(t, files, i))
             IN /\ new \in Totals
                /\ i \in Chain(t, r.dir) => new = Of(old.count + plus.count - minus.count,
                                                     old.size + plus.size - minus.size)
                /\ i \notin Chain(t, r.dir) => new = old
  <2> DEFINE old == FilesBelow(t, i)
             mid == Below(t, kept, i)
             new == Below(t, files, i)
  <2>1. /\ old \subseteq CfsFile /\ IsFiniteSet(old) /\ new \subseteq CfsFile /\ IsFiniteSet(new)
        /\ i \in Chain(t, r.dir) => /\ r \in old /\ old \ {r} = mid
                                    /\ q \in new /\ new \ {q} = mid
        /\ i \notin Chain(t, r.dir) => new = old
    <3>1. old \subseteq t.files /\ new \subseteq files
      BY DEF FilesBelow, Below
    <3>2. IsFiniteSet(old) /\ IsFiniteSet(new)
      BY <1>1, <1>4, <3>1, FS_Subset
    <3>3. q \notin kept
      OBVIOUS
    <3> HIDE DEF q
    <3> QED
      BY <1>1, <1>2, <1>4, <3>1, <3>2, <3>3 DEF Below, FilesBelow
  <2> HIDE DEF old, new, mid, q
  <2>2. Summed(old) \in Totals /\ Summed(new) \in Totals
    BY <2>1, SummedParted
  <2>3. CASE i \in Chain(t, r.dir)
    <3>1. /\ Summed(mid) \in Totals
          /\ Summed(old) = Of(Summed(mid).count + 1, Summed(mid).size + Coalesce(r.size))
          /\ Summed(new) = Of(Summed(mid).count + 1, Summed(mid).size + Coalesce(q.size))
      BY <2>1, <2>3, SummedParted
    <3> QED
      BY <1>2, <1>3, <2>2, <2>3, <3>1 DEF old, new, Of, Totals
  <2>4. CASE i \notin Chain(t, r.dir)
    BY <2>1, <2>2, <2>4 DEF old, new
  <2> QED
    BY <2>3, <2>4
<1>7. Passed(t, files, r.dir, plus, minus)
  BY <1>6 DEF Passed
<1> HIDE DEF files, plus, minus, o
<1>8. o \in TreeType /\ SumsAreTrue(o) /\ o.files = files /\ SameShape(t, o)
  BY <1>1, <1>3, <1>4, <1>5, <1>7, CascadeKeepsSums DEF Good
<1> QED
  BY <1>4, <1>8 DEF Good, files, o

\* Where the rows of a tree are: under ids given out, the root directory under
\* the group and no other, and of a file one row in a directory.
Placed(t, ids) ==
    /\ RootId \in ids /\ ids \subseteq Ids
    /\ \A r \in t.files : r.dir \in ids
    /\ \A r, q \in t.files : r.file = q.file /\ r.dir = q.dir => r = q
    /\ \A i \in Ids : t.dirs[i] # None =>
           /\ i \in ids
           /\ IF i = RootId THEN t.dirs[i].parent = Group ELSE t.dirs[i].parent \in ids

\* A new directory has no files, and adds to no chain of the others.
LEMMA InsertDirectoryKeepsSums ==
    ASSUME NEW t, Good(t), NEW ids, Placed(t, ids), NEW n \in Ids \ ids, NEW path \in Paths,
           NEW parent \in ids
    PROVE  LET o == InsertDirectory(t, n, path, parent) IN
           /\ Good(o) /\ o.files = t.files /\ Placed(o, ids \cup {n})
           /\ o.dirs[n] # None /\ o.dirs[n].path = path /\ o.dirs[n].parent = parent
           /\ \A i \in Ids \ {n} : o.dirs[i] = t.dirs[i] /\ Chain(o, i) = Chain(t, i)
<1> DEFINE o == InsertDirectory(t, n, path, parent)
           row == [path |-> path, parent |-> parent, count |-> 0, size |-> 0]
<1>1. t \in TreeType /\ IsFiniteSet(t.files) /\ SumsAreTrue(t)
  BY DEF Good
<1>2. parent \in Ids /\ parent # Group /\ row \in Directory /\ n # RootId /\ row # None
      /\ t.dirs[n] = None
  BY NamesAssumption DEF Placed, Directory
<1>3. o = [dirs |-> [t.dirs EXCEPT ![n] = row], files |-> t.files, total |-> t.total]
  <2>1. o = [t EXCEPT !.dirs[n] = row, !.total = IF parent = Group THEN Nothing ELSE @]
    BY Zenon DEF InsertDirectory
  <2> HIDE DEF row, o
  <2> QED
    BY <1>1, <1>2, <2>1 DEF TreeType
<1> HIDE DEF o
<1>4. /\ o \in TreeType /\ o.files = t.files /\ o.total = t.total /\ o.dirs[n] = row
      /\ row.path = path /\ row.parent = parent
      /\ \A i \in Ids \ {n} : o.dirs[i] = t.dirs[i]
  BY <1>1, <1>2, <1>3 DEF TreeType
<1>5. \A i \in Ids \ {n} : Chain(o, i) = Chain(t, i)
  <2> DEFINE d == Ids \ {n}
  <2>1. /\ \A j \in d : t.dirs[j] = o.dirs[j]
        /\ \A j \in d : t.dirs[j] # None => t.dirs[j].parent \in d \cup {Group}
    BY <1>4 DEF Placed
  <2>2. /\ o.dirs \in [Ids -> Directory \cup {None}]
        /\ t.dirs \in [Ids -> Directory \cup {None}] /\ d \in SUBSET Ids
    BY <1>1, <1>4 DEF TreeType
  <2> HIDE DEF d
  <2>3. \A i \in d : Chain(t, i) = Chain(o, i)
    BY <2>1, <2>2, ChainAgrees
  <2> QED
    BY <2>3 DEF d
<1>6. ASSUME NEW i \in Ids
      PROVE  FilesBelow(o, i) = IF i = n THEN {} ELSE FilesBelow(t, i)
  <2>1. \A r \in t.files : Chain(o, r.dir) = Chain(t, r.dir)
    BY <1>1, <1>5 DEF Placed
  <2>2. \A r \in t.files : n \notin Chain(t, r.dir)
    BY <1>1, <1>2, ChainClosed DEF Present, TreeType
  <2> QED
    BY <1>4, <2>1, <2>2 DEF FilesBelow
<1>7. SumsAreTrue(o)
  <2>1. Of(row.count, row.size) = Summed(FilesBelow(o, n))
    BY <1>6, SummedOfNone DEF Nothing
  <2>2. \A i \in Ids : o.dirs[i] # None =>
            Of(o.dirs[i].count, o.dirs[i].size) = Summed(FilesBelow(o, i))
    BY <1>1, <1>4, <1>6, <2>1 DEF SumsAreTrue
  <2> HIDE DEF row
  <2> QED
    BY <1>1, <1>2, <1>4, <1>6, <2>2, TreeAssumption DEF SumsAreTrue
<1>8. Placed(o, ids \cup {n})
  BY <1>2, <1>4 DEF Placed
<1> QED
  BY <1>1, <1>2, <1>4, <1>5, <1>7, <1>8 DEF Good, o

\* A directory deleted after all that was in it leaves no sum to pass on.
LEMMA DeleteDirectoryKeepsSums ==
    ASSUME NEW t, Good(t), NEW ids, Placed(t, ids), NEW i \in Ids \ {RootId},
           t.dirs[i] # None, Children(t, i) = {}, FilesIn(t, i) = {}
    PROVE  LET o == DeleteDirectory(t, i) IN
           /\ Good(o) /\ o.files = t.files /\ Placed(o, ids) /\ o.dirs[i] = None
           /\ \A j \in Ids \ {i} : /\ o.dirs[j] = None <=> t.dirs[j] = None
                                   /\ o.dirs[j] # None => /\ o.dirs[j].path = t.dirs[j].path
                                                          /\ o.dirs[j].parent = t.dirs[j].parent
                                   /\ Chain(o, j) = Chain(t, j)
<1> DEFINE gone == [t EXCEPT !.dirs[i] = None]
           row == t.dirs[i]
           o == DeleteDirectory(t, i)
<1>1. t \in TreeType /\ IsFiniteSet(t.files) /\ SumsAreTrue(t)
  BY DEF Good
<1>2. row \in Directory /\ row.parent \in ids /\ row.parent # Group /\ row.parent \in Ids
  BY <1>1, NamesAssumption DEF Placed, TreeType
<1>3. gone = [dirs |-> [t.dirs EXCEPT ![i] = None], files |-> t.files, total |-> t.total]
  BY <1>1 DEF TreeType
<1>4. o = Cascade(gone, row.parent, Nothing, Of(row.count, row.size))
  BY <1>2, Zenon DEF DeleteDirectory
<1> HIDE DEF gone, o
<1>5. /\ gone \in TreeType /\ gone.files = t.files /\ gone.total = t.total
      /\ gone.dirs[i] = None /\ \A j \in Ids \ {i} : gone.dirs[j] = t.dirs[j]
  BY <1>1, <1>3 DEF TreeType
<1>6. \A j \in Ids \ {i} : Chain(gone, j) = Chain(t, j)
  <2> DEFINE d == Ids \ {i}
  <2>1. /\ \A j \in d : t.dirs[j] = gone.dirs[j]
        /\ \A j \in d : t.dirs[j] # None => t.dirs[j].parent \in d \cup {Group}
    BY <1>1, <1>5 DEF Children, TreeType, Directory
  <2>2. /\ gone.dirs \in [Ids -> Directory \cup {None}]
        /\ t.dirs \in [Ids -> Directory \cup {None}] /\ d \in SUBSET Ids
    BY <1>1, <1>5 DEF TreeType
  <2> HIDE DEF d
  <2>3. \A j \in d : Chain(t, j) = Chain(gone, j)
    BY <2>1, <2>2, ChainAgrees
  <2> QED
    BY <2>3 DEF d
<1>7. /\ FilesBelow(t, i) = {}
      /\ \A j \in Ids : FilesBelow(gone, j) = FilesBelow(t, j)
  <2>1. \A r \in t.files : r.dir \in Ids \ {i}
    BY <1>1 DEF FilesIn, TreeType, CfsFile
  <2>2. \A r \in t.files : Chain(gone, r.dir) = Chain(t, r.dir)
    BY <1>6, <2>1
  <2>3. \A r \in t.files : i \notin Chain(gone, r.dir)
    BY <1>5, ChainClosed DEF Present, TreeType
  <2> QED
    BY <1>5, <2>2, <2>3 DEF FilesBelow
<1>8. Of(row.count, row.size) = Nothing
  BY <1>1, <1>7, SummedOfNone DEF SumsAreTrue
<1>9. SumsAreTrue(gone)
  BY <1>1, <1>5, <1>7, TreeAssumption DEF SumsAreTrue
<1>10. Passed(gone, t.files, row.parent, Nothing, Nothing)
  <2>1. ASSUME NEW j \in Ids
        PROVE  LET old == Summed(FilesBelow(gone, j)) IN
               old \in Totals /\ Summed(Below(gone, t.files, j)) = old
    <3>1. Below(gone, t.files, j) = FilesBelow(gone, j)
      BY <1>5 DEF Below, FilesBelow
    <3>2. FilesBelow(gone, j) \subseteq t.files /\ t.files \subseteq CfsFile
      BY <1>1, <1>5 DEF FilesBelow, TreeType
    <3>3. IsFiniteSet(FilesBelow(gone, j))
      BY <1>1, <3>2, FS_Subset
    <3> QED
      BY <3>1, <3>2, <3>3, SummedParted
  <2>2. \A x \in Totals : x = Of(x.count + Nothing.count - Nothing.count,
                                 x.size + Nothing.size - Nothing.size)
    BY DEF Totals, Of, Nothing
  <2> QED
    BY <2>1, <2>2 DEF Passed
<1>11. o = Cascade([gone EXCEPT !.files = t.files], row.parent, Nothing, Nothing)
  <2>1. [gone EXCEPT !.files = t.files] = gone
    BY <1>5 DEF TreeType
  <2> QED
    BY <1>4, <1>8, <2>1, Zenon
<1>12. Nothing \in Totals /\ t.files \in SUBSET CfsFile
  BY <1>1 DEF Nothing, Of, Totals, TreeType
<1>13. o \in TreeType /\ SumsAreTrue(o) /\ o.files = t.files /\ SameShape(gone, o)
  BY <1>2, <1>5, <1>9, <1>10, <1>11, <1>12, CascadeKeepsSums
<1>14. Placed(o, ids)
  BY <1>1, <1>5, <1>13 DEF Placed, SameShape
<1>15. \A j \in Ids \ {i} : Chain(o, j) = Chain(t, j)
  BY <1>5, <1>6, <1>13, SameShapeSameChains
<1>16. o.dirs[i] = None
  BY <1>5, <1>13 DEF SameShape
<1>17. \A j \in Ids \ {i} : /\ o.dirs[j] = None <=> t.dirs[j] = None
                            /\ o.dirs[j] # None => /\ o.dirs[j].path = t.dirs[j].path
                                                   /\ o.dirs[j].parent = t.dirs[j].parent
  BY <1>5, <1>13 DEF SameShape
<1> QED
  BY <1>1, <1>13, <1>14, <1>15, <1>16, <1>17 DEF Good, o

------------------------------------------------------------------------------
(* A restored group: the files inserted one by one *)

\* Nothing is summed yet.
Zeroed(held) ==
    [held EXCEPT !.dirs  = [i \in Ids |-> IF held.dirs[i] = None THEN None
                                          ELSE [held.dirs[i] EXCEPT !.count = 0, !.size = 0]],
                 !.files = {}, !.total = Nothing]

\* The rebuild starts from a tree with no file and all sums zero.
LEMMA ZeroedIsGood ==
    ASSUME NEW held \in TreeType
    PROVE  LET z == Zeroed(held) IN Good(z) /\ z.files = {} /\ SameShape(held, z)
<1> DEFINE dirs == [i \in Ids |-> IF held.dirs[i] = None THEN None
                                  ELSE [held.dirs[i] EXCEPT !.count = 0, !.size = 0]]
           z == Zeroed(held)
<1>1. z = [dirs |-> dirs, files |-> {}, total |-> Nothing]
  <2>1. z = [held EXCEPT !.dirs = dirs, !.files = {}, !.total = Nothing]
    BY Zenon DEF Zeroed
  <2> HIDE DEF z, dirs
  <2> QED
    BY <2>1 DEF TreeType
<1>2. ASSUME NEW i \in Ids
      PROVE  IF held.dirs[i] = None THEN dirs[i] = None
             ELSE /\ dirs[i] \in Directory /\ dirs[i] # None
                  /\ dirs[i].count = 0 /\ dirs[i].size = 0
                  /\ dirs[i].path = held.dirs[i].path
                  /\ dirs[i].parent = held.dirs[i].parent
  <2>1. held.dirs[i] \in Directory \cup {None}
    BY DEF TreeType
  <2>2. CASE held.dirs[i] # None
    <3>1. dirs[i] = [held.dirs[i] EXCEPT !.count = 0, !.size = 0]
      BY <2>2
    <3> HIDE DEF dirs
    <3>2. held.dirs[i] \in Directory
      BY <2>1, <2>2
    <3>3. dirs[i] = [path |-> held.dirs[i].path, parent |-> held.dirs[i].parent,
                     count |-> 0, size |-> 0]
      BY <3>1, <3>2 DEF Directory
    <3>4. dirs[i] \in Directory
      BY <3>2, <3>3 DEF Directory
    <3> QED
      BY <2>2, <3>3, <3>4, NamesAssumption
  <2> QED
    BY <2>2
<1>3. dirs \in [Ids -> Directory \cup {None}]
  BY <1>2
<1> HIDE DEF dirs, z
<1>4. z \in TreeType /\ SameShape(held, z)
  BY <1>1, <1>2, <1>3 DEF TreeType, SameShape, Nothing, Of, Totals
<1>5. \A i : FilesBelow(z, i) = {}
  BY <1>1 DEF FilesBelow
<1>6. SumsAreTrue(z)
  BY <1>1, <1>2, <1>5, SummedOfNone DEF SumsAreTrue, Nothing
<1> QED
  BY <1>1, <1>4, <1>6, FS_EmptySet DEF Good, z

\* The trees that FoldSet passes through.
Inserts(g, u, zeroed) ==
    g = [s \in SUBSET u |->
            IF s = {} THEN zeroed ELSE LET x == CHOOSE x \in s : TRUE
                                       IN InsertFile(g[s \ {x}], x)]

InsertStep == [p \in CfsFile \X TreeType |-> InsertFile(p[2], p[1])]

\* A tree after the insertion of the files s into zeroed.
Inserted(t, s, zeroed) == Good(t) /\ t.files = s /\ SameShape(zeroed, t)

\* Files put back one at a time, in any order, make true sums.
LEMMA InsertsAreGood ==
    ASSUME NEW u, IsFiniteSet(u), u \subseteq CfsFile,
           NEW zeroed, Inserted(zeroed, {}, zeroed), NEW g,
           g[{}] = zeroed,
           \A s \in SUBSET u : s # {} /\ g[s \ {Pick(s)}] \in TreeType =>
               g[s] = InsertFile(g[s \ {Pick(s)}], Pick(s))
    PROVE  \A s \in SUBSET u : Inserted(g[s], s, zeroed)
<1> DEFINE P == {s \in SUBSET u : Inserted(g[s], s, zeroed)}
<1>1. ASSUME NEW s \in SUBSET u, s # {}, Inserted(g[s \ {Pick(s)}], s \ {Pick(s)}, zeroed)
      PROVE  Inserted(g[s], s, zeroed)
  <2> DEFINE t == g[s \ {Pick(s)}]
             r == Pick(s)
  <2>1. r \in s /\ r \in CfsFile /\ r \notin t.files
    BY <1>1, PickIsIn DEF Inserted
  <2>2. Good(t) /\ t.files = s \ {r} /\ SameShape(zeroed, t) /\ t \in TreeType
    BY <1>1 DEF Inserted, Good
  <2>3. g[s] = InsertFile(t, r)
    BY <1>1, <2>2
  <2> HIDE DEF t, r
  <2>4. Good(g[s]) /\ g[s].files = t.files \cup {r} /\ SameShape(t, g[s])
    BY <2>1, <2>2, <2>3, InsertFileKeepsSums
  <2>5. g[s].files = s
    BY <2>1, <2>2, <2>4
  <2> QED
    BY <2>2, <2>4, <2>5 DEF Inserted, SameShape
<1>2. {} \in P /\ \A s \in SUBSET u : s # {} /\ s \ {Pick(s)} \in P => s \in P
  BY <1>1
<1> HIDE DEF P
<1>3. SUBSET u \subseteq P
  BY <1>2, SubsetInduction
<1> QED
  BY <1>3 DEF P

\* The restored tree has the directories and files held, and true sums.
LEMMA RestoredIsGood ==
    ASSUME NEW held \in TreeType, IsFiniteSet(held.files)
    PROVE  LET o == Restored(held) IN
           Good(o) /\ o.files = held.files /\ SameShape(held, o)
<1> DEFINE u == held.files
           z == Zeroed(held)
           iter == CHOOSE h : Inserts(h, u, z)
<1>1. Restored(held) = iter[u]
  BY Zenon DEF Restored, FoldSet, MapThenFoldSet, Inserts, Zeroed
<1>2. /\ u \subseteq CfsFile /\ Good(z) /\ z.files = {} /\ SameShape(held, z) /\ z \in TreeType
      /\ Inserted(z, {}, z)
  BY ZeroedIsGood DEF TreeType, Good, Inserted, SameShape
<1> HIDE DEF u, z, iter
<1>3. IsFiniteSet(u)
  BY DEF u
<1>4. \E h : Inserts(h, u, z)
  <2>1. PICK g : Folds(g, u, z, InsertStep)
    BY <1>3, FoldExists
  <2>2. \A s \in SUBSET u : g[s] =
            IF s = {} THEN z ELSE InsertStep[<<Pick(s), g[s \ {Pick(s)}]>>]
    BY <2>1, Zenon DEF Folds
  <2>3. g[{}] = z
    BY <2>2
  <2>4. \A s \in SUBSET u : s # {} /\ g[s \ {Pick(s)}] \in TreeType =>
            g[s] = InsertFile(g[s \ {Pick(s)}], Pick(s))
    BY <1>2, <2>2, PickIsIn DEF InsertStep
  <2>5. \A s \in SUBSET u : Inserted(g[s], s, z)
    BY <1>2, <1>3, <2>3, <2>4, InsertsAreGood
  <2> DEFINE V(s) == IF s = {} THEN z ELSE InsertFile(g[s \ {Pick(s)}], Pick(s))
             W(s) == IF s = {} THEN z ELSE InsertStep[<<Pick(s), g[s \ {Pick(s)}]>>]
  <2>6. \A s \in SUBSET u : V(s) = W(s)
    BY <2>2, <2>4, <2>5 DEF Inserted, Good
  <2>7. g = [s \in SUBSET u |-> W(s)]
    BY <2>1, Zenon DEF Folds
  <2>8. g = [s \in SUBSET u |-> V(s)]
    <3> HIDE DEF V, W
    <3> QED
      BY <2>6, <2>7
  <2>9. Inserts(g, u, z)
    BY <2>8, Zenon DEF Inserts, Pick
  <2> QED
    BY <2>9
<1>5. Inserts(iter, u, z)
  BY <1>4 DEF iter
<1>6. \A s \in SUBSET u :
         iter[s] = IF s = {} THEN z ELSE InsertFile(iter[s \ {Pick(s)}], Pick(s))
  BY <1>5, Zenon DEF Inserts, Pick
<1>7. iter[{}] = z
  BY <1>6
<1>8. \A s \in SUBSET u : Inserted(iter[s], s, z)
  BY <1>2, <1>3, <1>6, <1>7, InsertsAreGood
<1>9. Inserted(iter[u], u, z)
  BY <1>8
<1> QED
  BY <1>1, <1>2, <1>9 DEF Inserted, u, SameShape

------------------------------------------------------------------------------
(* The inductive invariant *)

\* What a worker holds is of its step, and its directory was given an id.
TodoFits(pc, todo) ==
    /\ pc = "make_dirs" => todo \subseteq Paths
    /\ pc = "destroy_dirs" => todo \subseteq Ids \ {RootId}
    /\ pc \in {"make_files", "destroy_files", "assess"} => todo \subseteq Files
    /\ pc = "schedule" => todo \subseteq Ids
WorkPlaced(w, ids) ==
    /\ w.pc \notin {"idle", "schedule"} => w.at \in ids
    /\ TodoFits(w.pc, w.todo)
WorkIsPlaced == \A j \in Rows : WorkPlaced(work[j], made)

\* So is what the ingest of a single file holds, and its content is stored.
IngestIsPlaced ==
    \A f \in Direct :
        /\ direct[f].pc \in {"copied", "placed", "recorded"} => stored[f] # None
        /\ direct[f].pc \in {"placed", "recorded"} => direct[f].at \in made

TreeIsGood == Good(tree) /\ Placed(tree, made)

IInv == TypeOK /\ TreeIsGood /\ WorkIsPlaced /\ IngestIsPlaced

\* The type invariant but for the tree.
WorkRecord == [pc : WorkPc, at : Ids \cup {None}, path : Paths,
               seen : SUBSET Names, todo : SUBSET Names]
CallRecord == [pc : {"none", "look", "create", "enqueue", "over"},
               at : Ids \cup {Group, None}, job : Rows \cup {None}]
RestOK ==
    /\ rows \in [Rows -> Row]
    /\ stored \in [Files -> Sizes \cup {None}]
    /\ target \in [Rows -> Ids \cup {Group, None}]
    /\ work \in [Rows -> WorkRecord]
    /\ call \in [Callers -> CallRecord]
    /\ accrual \in [pc : {"copy", "ids", "jobs", "schedule", "await", "dead"},
                    copied : SUBSET Accrued, ids : SUBSET Ids]
    /\ direct \in [Direct -> [pc : {"never", "new", "copied", "placed", "recorded", "done"},
                                at : Ids \cup {None}]]
    /\ swept \subseteq Files /\ restored \in BOOLEAN /\ faults \in 0 .. MaxFaults

\* The type invariant is the types of the tree and of the rest.
LEMMA TypeOfParts ==
    /\ TypeOK => RestOK
    /\ RestOK /\ Good(tree) /\ Placed(tree, made) => TypeOK
BY Zenon DEF TypeOK, RestOK, WorkRecord, CallRecord, Good, TreeType, Records, Placed

\* The same, after a step.
LEMMA TypeOfPartsPrime ==
    RestOK' /\ Good(tree)' /\ Placed(tree, made)' => TypeOK'
BY TypeOfParts, PTL

\* The records a worker and a caller start from.
LEMMA NamedRecords ==
    Idle \in WorkRecord /\ NoCall \in CallRecord /\ Answered \in CallRecord
<1>1. Idle \in WorkRecord
  BY TreeAssumption DEF Idle, WorkRecord, WorkPc, Names
<1>2. NoCall \in CallRecord
  BY DEF NoCall, CallRecord
<1>3. Answered = [pc |-> "over", at |-> None, job |-> None]
  BY DEF Answered, NoCall
<1> QED
  BY <1>1, <1>2, <1>3 DEF CallRecord

------------------------------------------------------------------------------
(* What is recorded at first *)

\* Paths recorded at first have an id each.
LEMMA IdOfPaths ==
    /\ IdOf \in [Paths -> Ids] /\ IdOf[RootPath] = RootId
    /\ \A p, q \in Paths : IdOf[p] = IdOf[q] => p = q
BY IdsAssumption, Zenon DEF IdOf

\* A tree recorded at first has true sums and sound directories, one at each path.
LEMMA RecordedIsGood ==
    ASSUME NEW paths \in SUBSET Paths, NEW files \in SUBSET Files, NEW size \in Sizes \cup {None},
           RootPath \in paths, \A p \in paths \ {RootPath} : ParentPath[p] \in paths,
           \A f \in files : Folder[f] \in paths
    PROVE  LET t == Recorded(paths, files, size) IN
           /\ Good(t) /\ Placed(t, {IdOf[p] : p \in paths})
           /\ \A p \in paths :
                  /\ t.dirs[IdOf[p]] # None /\ t.dirs[IdOf[p]].path = p
                  /\ p # RootPath => t.dirs[IdOf[p]].parent = IdOf[ParentPath[p]]
           /\ \A r \in t.files : Folder[r.file] \in paths /\ r.dir = IdOf[Folder[r.file]]
<1> DEFINE row(i) == LET p == CHOOSE q \in paths : IdOf[q] = i
                     IN [path |-> p, count |-> 0, size |-> 0,
                         parent |-> IF p = RootPath THEN Group ELSE IdOf[ParentPath[p]]]
           dirs == [i \in Ids |-> IF \E p \in paths : IdOf[p] = i THEN row(i) ELSE None]
           rec(f) == [file |-> f, dir |-> IdOf[Folder[f]], size |-> size]
           recs == {rec(f) : f \in files}
           held == [dirs |-> dirs, files |-> recs, total |-> Nothing]
           ids == {IdOf[p] : p \in paths}
<1>1. Recorded(paths, files, size) = Restored(held)
  BY Zenon DEF Recorded
<1>2. ASSUME NEW i \in Ids, \E p \in paths : IdOf[p] = i
      PROVE  /\ dirs[i] \in Directory
             /\ IF i = RootId THEN dirs[i].parent = Group ELSE dirs[i].parent \in ids
  <2> DEFINE p == CHOOSE q \in paths : IdOf[q] = i
  <2>1. p \in paths /\ IdOf[p] = i /\ p \in Paths
    BY <1>2
  <2>2. dirs[i] = [path |-> p, count |-> 0, size |-> 0,
                   parent |-> IF p = RootPath THEN Group ELSE IdOf[ParentPath[p]]]
    BY <1>2
  <2> HIDE DEF p, dirs
  <2>3. p = RootPath <=> i = RootId
    BY <2>1, IdOfPaths, TreeAssumption
  <2>4. p # RootPath => ParentPath[p] \in paths
    BY <2>1
  <2> QED
    BY <2>1, <2>2, <2>3, <2>4, IdOfPaths, TreeAssumption DEF Directory
<1>3. dirs \in [Ids -> Directory \cup {None}]
  <2>1. \A i \in Ids : dirs[i] \in Directory \cup {None}
    BY <1>2
  <2> QED
    BY <2>1
<1>4. \A i \in Ids : dirs[i] # None => i \in ids
  OBVIOUS
<1>5. /\ recs \subseteq CfsFile
      /\ \A r \in recs : r.dir \in ids
      /\ \A r, q \in recs : r.file = q.file => r = q
      /\ \A r \in recs : Folder[r.file] \in paths /\ r.dir = IdOf[Folder[r.file]]
  BY IdOfPaths, TreeAssumption DEF CfsFile
<1>6. IsFiniteSet(recs)
  <2> DEFINE fn == [f \in files |-> rec(f)]
  <2>1. fn \in Surjection(files, recs)
    BY DEF Surjection
  <2>2. IsFiniteSet(files)
    BY FilesAssumption, FS_Subset
  <2> HIDE DEF fn, recs
  <2> QED
    BY <2>1, <2>2, FS_Surjection
<1>7. RootId \in ids /\ ids \subseteq Ids
  BY IdOfPaths
<1>8. ASSUME NEW p \in paths
       PROVE  /\ IdOf[p] \in Ids /\ dirs[IdOf[p]] # None /\ dirs[IdOf[p]].path = p
              /\ p # RootPath => dirs[IdOf[p]].parent = IdOf[ParentPath[p]]
  <2> DEFINE q == CHOOSE q \in paths : IdOf[q] = IdOf[p]
  <2>1. q = p /\ p \in Paths /\ IdOf[p] \in Ids
    BY IdOfPaths
  <2>2. dirs[IdOf[p]] = [path |-> q, count |-> 0, size |-> 0,
                         parent |-> IF q = RootPath THEN Group ELSE IdOf[ParentPath[q]]]
    BY <2>1
  <2> HIDE DEF q, dirs
  <2>3. dirs[IdOf[p]].path = q
        /\ dirs[IdOf[p]].parent = IF q = RootPath THEN Group ELSE IdOf[ParentPath[q]]
    BY <2>2
  <2>4. dirs[IdOf[p]] # None
    BY <1>2, <2>1, NamesAssumption
  <2> QED
    BY <2>1, <2>3, <2>4
<1> HIDE DEF dirs, recs, ids
<1>9. held \in TreeType /\ IsFiniteSet(held.files) /\ held.dirs = dirs /\ held.files = recs
  BY <1>3, <1>5, <1>6 DEF TreeType, Nothing, Of, Totals
<1> HIDE DEF held
<1>10. LET o == Restored(held) IN Good(o) /\ o.files = held.files /\ SameShape(held, o)
  BY <1>9, RestoredIsGood
<1>11. Placed(Restored(held), ids)
  <2> DEFINE o == Restored(held)
  <2>1. \A i \in Ids : o.dirs[i] # None =>
            i \in ids /\ dirs[i] # None /\ o.dirs[i].parent = dirs[i].parent
    BY <1>4, <1>9, <1>10 DEF SameShape
  <2>2. \A i \in Ids : dirs[i] # None =>
            IF i = RootId THEN dirs[i].parent = Group ELSE dirs[i].parent \in ids
    BY <1>2 DEF dirs
  <2>3. o.files = recs
    BY <1>9, <1>10
  <2> HIDE DEF o
  <2> QED
    BY <1>5, <1>7, <2>1, <2>2, <2>3 DEF Placed, o
<1>12. ASSUME NEW p \in paths
       PROVE  LET o == Restored(held) IN
              /\ o.dirs[IdOf[p]] # None /\ o.dirs[IdOf[p]].path = p
              /\ p # RootPath => o.dirs[IdOf[p]].parent = IdOf[ParentPath[p]]
  BY <1>9, <1>10, <1>8 DEF SameShape
<1> QED
  BY <1>1, <1>5, <1>9, <1>10, <1>11, <1>12 DEF ids

\* Whoever is going to act.
LEMMA StartHolds ==
    ASSUME NEW asking \in SUBSET Requests, NEW accruing \in BOOLEAN, NEW arriving \in SUBSET Direct,
           Start(asking, accruing, arriving)
    PROVE  IInv
<1>1. TreeIsGood
  BY RecordedIsGood DEF Start, TreeIsGood
<1>2. RestOK
  <2>1. Idle \in WorkRecord /\ NoCall \in CallRecord /\ Answered \in CallRecord
    BY NamedRecords
  <2>2. /\ rows \in [Rows -> Row] /\ target \in [Rows -> Ids \cup {Group, None}]
        /\ stored \in [Files -> Sizes \cup {None}]
    BY RowConstants DEF Start
  <2>3. work \in [Rows -> WorkRecord] /\ call \in [Callers -> CallRecord]
    BY <2>1 DEF Start
  <2>4. /\ accrual \in [pc : {"copy", "ids", "jobs", "schedule", "await", "dead"},
                         copied : SUBSET Accrued, ids : SUBSET Ids]
        /\ direct \in [Direct -> [pc : {"never", "new", "copied", "placed", "recorded", "done"},
                                  at : Ids \cup {None}]]
    BY DEF Start
  <2>5. swept \subseteq Files /\ restored \in BOOLEAN /\ faults \in 0 .. MaxFaults
    <3>1. swept = {} /\ restored = FALSE /\ faults = 0
      BY Zenon DEF Start
    <3>2. restored \in BOOLEAN
      BY <3>1, Zenon
    <3>3. faults \in 0 .. MaxFaults
      BY <3>1, BoundsAssumption
    <3> QED
      BY <3>1, <3>2, <3>3
  <2> QED
    BY <2>2, <2>3, <2>4, <2>5 DEF RestOK
<1>3. WorkIsPlaced /\ IngestIsPlaced
  BY DEF Start, WorkIsPlaced, WorkPlaced, TodoFits, IngestIsPlaced, Idle
<1> QED
  BY <1>1, <1>2, <1>3, TypeOfParts DEF IInv, TreeIsGood

------------------------------------------------------------------------------
(* Steps: what they do to workers and ingests *)

\* One worker moves on.
LEMMA WorkMoves ==
    ASSUME work \in [Rows -> WorkRecord], WorkIsPlaced, made \subseteq made',
           NEW j \in Rows, NEW w \in WorkRecord, WorkPlaced(w, made'),
           work' = [work EXCEPT ![j] = w]
    PROVE  work' \in [Rows -> WorkRecord] /\ WorkIsPlaced'
BY DEF WorkIsPlaced, WorkPlaced

\* A worker goes idle.
LEMMA WorkEnds ==
    ASSUME work \in [Rows -> WorkRecord], WorkIsPlaced, made \subseteq made',
           NEW j \in Rows, work' = [work EXCEPT ![j] = Idle]
    PROVE  work' \in [Rows -> WorkRecord] /\ WorkIsPlaced'
<1>1. Idle \in WorkRecord /\ WorkPlaced(Idle, made')
  BY NamedRecords DEF Idle, WorkPlaced, TodoFits
<1> QED
  BY <1>1, WorkMoves

\* It goes on to another step, of the same directory.
LEMMA DoMoves ==
    ASSUME work \in [Rows -> WorkRecord], WorkIsPlaced, made \subseteq made',
           NEW j \in Rows, NEW pc \in WorkPc, NEW todo \in SUBSET Names, Do(j, pc, todo),
           work[j].pc \notin {"idle", "schedule"}, TodoFits(pc, todo)
    PROVE  work' \in [Rows -> WorkRecord] /\ WorkIsPlaced'
<1> DEFINE w == [work[j] EXCEPT !.pc = pc, !.todo = todo]
<1>1. work' = [work EXCEPT ![j] = w]
  BY DEF Do
<1>2. w \in WorkRecord /\ w.pc = pc /\ w.todo = todo /\ w.at = work[j].at
  BY DEF WorkRecord
<1>3. work[j].at \in made'
  BY DEF WorkIsPlaced, WorkPlaced
<1> HIDE DEF w
<1>4. WorkPlaced(w, made')
  BY <1>2, <1>3 DEF WorkPlaced
<1> QED
  BY <1>1, <1>2, <1>4, WorkMoves

\* It has done one of the things it has to do.
LEMMA DidMoves ==
    ASSUME work \in [Rows -> WorkRecord], WorkIsPlaced, made \subseteq made',
           NEW j \in Rows, NEW x, Did(j, x)
    PROVE  work' \in [Rows -> WorkRecord] /\ WorkIsPlaced'
<1> DEFINE w == [work[j] EXCEPT !.todo = @ \ {x}]
<1>1. work' = [work EXCEPT ![j] = w]
  BY DEF Did
<1>2. w \in WorkRecord /\ w.pc = work[j].pc /\ w.todo \subseteq work[j].todo /\ w.at = work[j].at
  BY DEF WorkRecord
<1>3. WorkPlaced(work[j], made)
  BY DEF WorkIsPlaced
<1> HIDE DEF w
<1>4. WorkPlaced(w, made')
  BY <1>2, <1>3 DEF WorkPlaced, TodoFits
<1> QED
  BY <1>1, <1>2, <1>4, WorkMoves

\* Workers that do nothing stay placed.
LEMMA WorkStays ==
    WorkIsPlaced /\ made \subseteq made' /\ UNCHANGED work => WorkIsPlaced'
BY DEF WorkIsPlaced, WorkPlaced

\* So do ingests that do nothing, as no content is lost.
LEMMA IngestStays ==
    IngestIsPlaced /\ made \subseteq made' /\ UNCHANGED <<stored, direct>> => IngestIsPlaced'
BY DEF IngestIsPlaced

\* The invariant is kept by a step that leaves the tree alone.
LEMMA TreeStays ==
    TreeIsGood /\ UNCHANGED records => TreeIsGood'
BY Zenon DEF TreeIsGood, records

\* A step keeps the invariant when it keeps its parts.
LEMMA PartsKept ==
    RestOK' /\ TreeIsGood' /\ WorkIsPlaced' /\ IngestIsPlaced' => IInv'
BY TypeOfPartsPrime DEF IInv, TreeIsGood

\* What an operation on a row makes is a row.
LEMMA RowMoves ==
    ASSUME rows \in [Rows -> Row], NEW j \in Rows, NEW row \in Row,
           rows' = [rows EXCEPT ![j] = row]
    PROVE  rows' \in [Rows -> Row]
OBVIOUS

\* Calls of schedule_assessment_job.
LEMMA CallMoves ==
    ASSUME call \in [Callers -> CallRecord], NEW c \in Callers
    PROVE  /\ Returns(c) => call' \in [Callers -> CallRecord]
           /\ \A x \in Ids \cup {Group} : Calls(c, x) => call' \in [Callers -> CallRecord]
<1>1. Returns(c) => call' \in [Callers -> CallRecord]
  BY NamedRecords DEF Returns
<1>2. \A x \in Ids \cup {Group} : [pc |-> "look", at |-> x, job |-> None] \in CallRecord
  BY DEF CallRecord
<1> QED
  BY <1>1, <1>2 DEF Calls

------------------------------------------------------------------------------
(* Steps: what they do to the tree *)

\* An inserted directory leaves a sound tree.
LEMMA DirectoryInserted ==
    ASSUME TreeIsGood, made # Ids, NEW p \in Paths, NEW parent \in made,
           tree' = InsertDirectory(tree, NewId, p, parent), made' = made \cup {NewId}
    PROVE  TreeIsGood' /\ made \subseteq made'
<1>1. NewId \in Ids \ made
  BY DEF NewId, TreeIsGood, Placed
<1>2. Good(tree') /\ Placed(tree', made')
  BY <1>1, InsertDirectoryKeepsSums DEF TreeIsGood
<1> QED
  BY <1>2 DEF TreeIsGood

\* Only files are swept.
LEMMA SweepsFiles ==
    ASSUME NEW files \in SUBSET Files, swept \subseteq Files, Sweep(files)
    PROVE  swept' \subseteq Files
BY DEF Sweep

\* An inserted file row leaves a sound tree, a row per file and directory.
LEMMA FileInserted ==
    ASSUME TreeIsGood, swept \subseteq Files, NEW f \in Files, NEW i \in made, Insert(f, i),
           UNCHANGED made
    PROVE  TreeIsGood' /\ swept' \subseteq Files
<1> DEFINE r == [file |-> f, dir |-> i, size |-> None]
<1>1. CASE \E q \in FilesIn(tree, i) : q.file = f
  BY <1>1, TreeStays DEF Insert, records
<1>2. CASE ~ \E q \in FilesIn(tree, i) : q.file = f
  <2>1. /\ tree' = InsertFile(tree, r)
        /\ swept' = swept \/ Sweep({f})
    BY <1>2, Zenon DEF Insert
  <2>2. r \in CfsFile /\ r.file = f /\ r.dir = i
    BY DEF CfsFile, TreeIsGood, Placed
  <2>3. \A q \in tree.files : q.file = f => q.dir # i
    BY <1>2 DEF FilesIn
  <2> HIDE DEF r
  <2>4. r \notin tree.files
    BY <2>2, <2>3
  <2>5. Good(tree') /\ tree'.files = tree.files \cup {r} /\ SameShape(tree, tree')
    BY <2>1, <2>2, <2>4, InsertFileKeepsSums DEF TreeIsGood
  <2>6. Placed(tree', made')
    BY <2>2, <2>3, <2>5 DEF TreeIsGood, Placed, SameShape
  <2> QED
    BY <2>1, <2>5, <2>6, SweepsFiles DEF TreeIsGood
<1> QED
  BY <1>1, <1>2

\* A deleted file row leaves a sound tree.
LEMMA FileDeleted ==
    ASSUME TreeIsGood, NEW r \in tree.files, tree' = DeleteFile(tree, r), UNCHANGED made
    PROVE  TreeIsGood'
<1>1. Good(tree') /\ tree'.files = tree.files \ {r} /\ SameShape(tree, tree')
  BY DeleteFileKeepsSums DEF TreeIsGood
<1>2. Placed(tree', made')
  BY <1>1 DEF TreeIsGood, Placed, SameShape
<1> QED
  BY <1>1, <1>2 DEF TreeIsGood

\* A new size leaves a sound tree.
LEMMA FileSized ==
    ASSUME TreeIsGood, NEW r \in tree.files, NEW size \in Sizes,
           tree' = UpdateSize(tree, r, size), UNCHANGED made
    PROVE  TreeIsGood'
<1> DEFINE q == [r EXCEPT !.size = size]
<1>1. q.file = r.file /\ q.dir = r.dir
  BY DEF TreeIsGood, Good, TreeType, CfsFile
<1>2. q \notin tree.files \ {r}
  BY <1>1 DEF TreeIsGood, Placed
<1>3. /\ Good(tree') /\ SameShape(tree, tree')
      /\ tree'.files = (tree.files \ {r}) \cup {q}
  BY <1>2, UpdateSizeKeepsSums DEF TreeIsGood
<1> HIDE DEF q
<1>4. Placed(tree', made')
  BY <1>1, <1>3 DEF TreeIsGood, Placed, SameShape
<1> QED
  BY <1>3, <1>4 DEF TreeIsGood

\* A deleted empty directory leaves a sound tree.
LEMMA DirectoryDeleted ==
    ASSUME TreeIsGood, NEW i \in Ids \ {RootId}, tree.dirs[i] # None,
           Children(tree, i) = {}, FilesIn(tree, i) = {},
           tree' = DeleteDirectory(tree, i), UNCHANGED made
    PROVE  TreeIsGood'
BY DeleteDirectoryKeepsSums DEF TreeIsGood

\* A rebuild of the group leaves a sound tree.
LEMMA GroupRestored ==
    ASSUME TreeIsGood, tree' = Restored(tree), UNCHANGED made
    PROVE  TreeIsGood'
<1>1. Good(tree') /\ tree'.files = tree.files /\ SameShape(tree, tree')
  BY RestoredIsGood DEF TreeIsGood, Good
<1>2. Placed(tree', made')
  BY <1>1 DEF TreeIsGood, Placed, SameShape
<1> QED
  BY <1>1, <1>2 DEF TreeIsGood

\* The root directory has no ancestors.
LEMMA RootAlone ==
    ASSUME TreeIsGood
    PROVE  Chain(tree, RootId) \subseteq {RootId}
<1>1. CASE tree.dirs[RootId] = None
  BY <1>1, ChainClosed DEF Present, TreeIsGood, Good, TreeType
<1>2. CASE tree.dirs[RootId] # None
  <2>1. UpClosed(tree, {RootId}) /\ {RootId} \in SUBSET Present(tree)
    BY <1>2, TreeAssumption DEF UpClosed, Present, TreeIsGood, Placed
  <2> QED
    BY <2>1, ChainClosed DEF TreeIsGood, Good, TreeType
<1> QED
  BY <1>1, <1>2

------------------------------------------------------------------------------
(* Steps: the jobs *)

\* What a step of a job can rely on.
LEMMA JobFacts ==
    ASSUME IInv, NEW j \in Rows
    PROVE  /\ RestOK /\ TreeIsGood /\ WorkIsPlaced /\ IngestIsPlaced
           /\ rows \in [Rows -> Row] /\ work \in [Rows -> WorkRecord] /\ work[j] \in WorkRecord
           /\ call \in [Callers -> CallRecord] /\ target \in [Rows -> Ids \cup {Group, None}]
           /\ swept \subseteq Files /\ j \in Callers
           /\ work[j].pc \notin {"idle", "schedule"} => Me(j) \in made /\ Me(j) \in Ids
           /\ TodoFits(work[j].pc, work[j].todo)
BY TypeOfParts DEF IInv, RestOK, WorkIsPlaced, WorkPlaced, Me, Callers, TreeIsGood, Placed

\* A step of a job that changes its worker only.
LEMMA WorkStep ==
    ASSUME IInv, work' \in [Rows -> WorkRecord], WorkIsPlaced',
           UNCHANGED <<stored, records, rows, target, call, others>>
    PROVE  IInv'
<1>1. RestOK /\ TreeIsGood /\ IngestIsPlaced
  BY TypeOfParts DEF IInv
<1>2. TreeIsGood' /\ made' = made
  BY <1>1, TreeStays DEF records
<1>3. IngestIsPlaced'
  BY <1>1, <1>2, IngestStays DEF others
<1>4. RestOK'
  BY <1>1, Zenon DEF RestOK, others
<1> QED
  BY <1>2, <1>3, <1>4, PartsKept

\* A worker that takes a job has a directory that was made.
LEMMA ReserveKeeps ==
    ASSUME IInv, NEW j \in Rows, Reserve(j)
    PROVE  IInv'
<1> DEFINE x == target[j]
           w == IF x = Group THEN [Idle EXCEPT !.pc = "schedule", !.todo = {RootId}]
                ELSE IF tree.dirs[x] = None THEN [Idle EXCEPT !.pc = "schedule"]
                ELSE [Idle EXCEPT !.pc = "subdirs", !.at = x, !.path = tree.dirs[x].path]
<1>1. RestOK /\ TreeIsGood /\ WorkIsPlaced /\ IngestIsPlaced /\ rows \in [Rows -> Row]
      /\ work \in [Rows -> WorkRecord] /\ x \in Ids \cup {Group}
  BY JobFacts DEF Reserve
<1>2. work' = [work EXCEPT ![j] = w] /\ rows' = [rows EXCEPT ![j] = Locked(rows[j])]
  BY DEF Reserve
<1>3. w \in WorkRecord /\ WorkPlaced(w, made)
  <2>1. CASE x = Group
    <3>1. w = [pc |-> "schedule", at |-> None, path |-> RootPath, seen |-> {},
               todo |-> {RootId}]
      BY <2>1 DEF Idle
    <3> HIDE DEF w
    <3> QED
      BY <3>1, TreeAssumption DEF WorkRecord, WorkPc, Names, WorkPlaced, TodoFits
  <2>2. CASE x # Group /\ tree.dirs[x] = None
    <3>1. w = [pc |-> "schedule", at |-> None, path |-> RootPath, seen |-> {}, todo |-> {}]
      BY <2>2 DEF Idle
    <3> HIDE DEF w
    <3> QED
      BY <3>1, TreeAssumption DEF WorkRecord, WorkPc, Names, WorkPlaced, TodoFits
  <2>3. CASE x # Group /\ tree.dirs[x] # None
    <3>1. x \in made /\ x \in Ids /\ tree.dirs[x].path \in Paths
      BY <1>1, <2>3 DEF TreeIsGood, Placed, Good, TreeType, Directory
    <3>2. w = [pc |-> "subdirs", at |-> x, path |-> tree.dirs[x].path, seen |-> {},
               todo |-> {}]
      BY <2>3 DEF Idle
    <3> HIDE DEF w
    <3> QED
      BY <3>1, <3>2 DEF WorkRecord, WorkPc, Names, WorkPlaced, TodoFits
  <2> QED
    BY <2>1, <2>2, <2>3
<1>4. TreeIsGood' /\ made' = made
  BY <1>1, TreeStays DEF Reserve, records
<1> HIDE DEF w
<1>5. work' \in [Rows -> WorkRecord] /\ WorkIsPlaced'
  BY <1>1, <1>2, <1>3, <1>4, WorkMoves
<1>6. rows' \in [Rows -> Row]
  BY <1>1, <1>2, RowSteps, RowMoves
<1>7. IngestIsPlaced'
  BY <1>1, <1>4, IngestStays DEF Reserve, others
<1>8. RestOK'
  BY <1>1, <1>5, <1>6 DEF RestOK, Reserve, others
<1> QED
  BY <1>4, <1>5, <1>7, <1>8, PartsKept

\* A row whose directory is gone does nothing.
LEMMA ReserveGoneKeeps ==
    ASSUME IInv, NEW j \in Rows, ReserveGone(j)
    PROVE  IInv'
<1>1. RestOK /\ TreeIsGood /\ WorkIsPlaced /\ IngestIsPlaced /\ rows \in [Rows -> Row]
  BY JobFacts
<1>2. TreeIsGood' /\ made' = made
  BY <1>1, TreeStays DEF ReserveGone, records
<1>3. WorkIsPlaced' /\ IngestIsPlaced'
  BY <1>1, <1>2, WorkStays, IngestStays DEF ReserveGone, others
<1>4. rows' \in [Rows -> Row]
  BY <1>1, RowConstants DEF ReserveGone
<1>5. RestOK'
  BY <1>1, <1>4 DEF RestOK, ReserveGone, others
<1> QED
  BY <1>2, <1>3, <1>5, PartsKept

\* A worker that is killed leaves what it wrote.
LEMMA InterruptKeeps ==
    ASSUME IInv, NEW j \in Rows, Interrupt(j)
    PROVE  IInv'
<1>1. RestOK /\ TreeIsGood /\ WorkIsPlaced /\ IngestIsPlaced /\ rows \in [Rows -> Row]
      /\ work \in [Rows -> WorkRecord] /\ call \in [Callers -> CallRecord] /\ j \in Callers
  BY JobFacts
<1>2. TreeIsGood' /\ made' = made
  BY <1>1, TreeStays DEF Interrupt, records
<1>3. work' \in [Rows -> WorkRecord] /\ WorkIsPlaced'
  BY <1>1, <1>2, WorkEnds DEF Interrupt
<1>4. IngestIsPlaced'
  BY <1>1, <1>2, IngestStays DEF Interrupt
<1>5. call' \in [Callers -> CallRecord]
  BY <1>1, CallMoves DEF Interrupt
<1>6. rows' \in [Rows -> Row]
  <2>1. \E row \in Row : rows' = [rows EXCEPT ![j] = row]
    BY <1>1, RowSteps DEF Interrupt
  <2> QED
    BY <1>1, <2>1, RowMoves
<1>7. target' \in [Rows -> Ids \cup {Group, None}]
  BY <1>1 DEF RestOK, Interrupt
<1>8. faults' \in 0 .. MaxFaults
  BY <1>1, BoundsAssumption DEF RestOK, Interrupt
<1>9. RestOK'
  BY <1>1, <1>3, <1>5, <1>6, <1>7, <1>8 DEF RestOK, Interrupt
<1> QED
  BY <1>2, <1>3, <1>4, <1>9, PartsKept

\* A listing of storage: of names of the kind the next step is about.
LEMMA ListKeeps ==
    ASSUME IInv, NEW j \in Rows, NEW pc \in {"subdirs", "files"}, NEW next \in WorkPc,
           NEW seen \in SUBSET Names, TodoFits(next, seen), List(j, pc, next, seen)
    PROVE  IInv'
<1> DEFINE w == IF OnStorage(work[j].path)
                THEN [work[j] EXCEPT !.pc = next, !.seen = seen, !.todo = seen]
                ELSE [Idle EXCEPT !.pc = "schedule"]
<1>1. WorkIsPlaced /\ work \in [Rows -> WorkRecord] /\ work[j] \in WorkRecord /\ Me(j) \in made
      /\ work[j].pc = pc
  BY JobFacts DEF List, At
<1>2. work' = [work EXCEPT ![j] = w]
  BY DEF List
<1>3. w \in WorkRecord /\ WorkPlaced(w, made)
  <2>1. CASE OnStorage(work[j].path)
    <3>1. w = [work[j] EXCEPT !.pc = next, !.seen = seen, !.todo = seen]
      BY <2>1
    <3> HIDE DEF w
    <3> QED
      BY <1>1, <3>1 DEF WorkRecord, WorkPlaced, Me
  <2>2. CASE ~ OnStorage(work[j].path)
    <3>1. w = [pc |-> "schedule", at |-> None, path |-> RootPath, seen |-> {}, todo |-> {}]
      BY <2>2 DEF Idle
    <3> HIDE DEF w
    <3> QED
      BY <3>1, TreeAssumption DEF WorkRecord, WorkPc, Names, WorkPlaced, TodoFits
  <2> QED
    BY <2>1, <2>2
<1>4. made' = made
  BY DEF List, records
<1> HIDE DEF w
<1>5. work' \in [Rows -> WorkRecord] /\ WorkIsPlaced'
  BY <1>1, <1>2, <1>3, <1>4, WorkMoves
<1> QED
  BY <1>5, WorkStep DEF List

\* The steps of a job that only choose what to do next.
LEMMA ChoosingKeeps ==
    ASSUME IInv, NEW j \in Rows,
           \/ ListSubdirectories(j) \/ LoadSubdirectories(j) \/ SubdirectoriesDestroyed(j)
           \/ ListFiles(j) \/ LoadFiles(j) \/ FilesDestroyed(j) \/ FilesAssessed(j)
    PROVE  IInv'
<1>1. CASE ListSubdirectories(j)
  <2> DEFINE seen == {q \in Subpaths(work[j].path) : OnStorage(q)}
  <2>1. seen \subseteq Paths
    BY DEF Subpaths
  <2>2. List(j, "subdirs", "make_dirs", seen)
    BY <1>1, Zenon DEF ListSubdirectories
  <2> HIDE DEF seen
  <2>3. TodoFits("make_dirs", seen) /\ seen \in SUBSET Names /\ "make_dirs" \in WorkPc
    BY <2>1 DEF TodoFits, Names, WorkPc
  <2> QED
    BY <2>2, <2>3, ListKeeps
<1>2. CASE ListFiles(j)
  <2> DEFINE seen == {f \in Files : Folder[f] = work[j].path /\ stored[f] # None}
  <2>1. List(j, "files", "make_files", seen)
    BY <1>2, Zenon DEF ListFiles
  <2>2. TodoFits("make_files", seen) /\ seen \in SUBSET Names /\ "make_files" \in WorkPc
    BY DEF TodoFits, Names, WorkPc
  <2> HIDE DEF seen
  <2> QED
    BY <2>1, <2>2, ListKeeps
<1>3. ASSUME NEW from \in WorkPc \ {"idle", "schedule"}, NEW pc \in WorkPc,
             NEW todo \in SUBSET Names, At(j, from), Do(j, pc, todo), TodoFits(pc, todo),
             UNCHANGED <<stored, records, rows, target, call, others>>
      PROVE  IInv'
  <2>1. made' = made
    BY <1>3 DEF records
  <2>2. work[j].pc \notin {"idle", "schedule"}
    BY <1>3 DEF At
  <2>3. work' \in [Rows -> WorkRecord] /\ WorkIsPlaced'
    BY <1>3, <2>1, <2>2, JobFacts, DoMoves
  <2> QED
    BY <1>3, <2>3, WorkStep
<1>4. /\ TreeIsGood /\ work[j] \in WorkRecord
      /\ tree.files \subseteq CfsFile
  BY JobFacts DEF TreeIsGood, Good, TreeType
<1>5. CASE LoadSubdirectories(j)
  <2> DEFINE todo == {i \in Children(tree, Me(j)) : tree.dirs[i].path \notin work[j].seen}
  <2>1. At(j, "make_dirs") /\ Do(j, "destroy_dirs", todo)
        /\ UNCHANGED <<stored, records, rows, target, call, others>>
    BY <1>5, Zenon DEF LoadSubdirectories
  <2>2. Me(j) \in Ids
    BY <2>1, JobFacts DEF At
  <2>3. todo \subseteq Ids \ {RootId}
    BY <1>4, <2>2, NamesAssumption DEF Children, TreeIsGood, Placed
  <2> HIDE DEF todo
  <2>4. TodoFits("destroy_dirs", todo) /\ todo \in SUBSET Names
        /\ "make_dirs" \in WorkPc \ {"idle", "schedule"} /\ "destroy_dirs" \in WorkPc
    BY <2>3 DEF TodoFits, Names, WorkPc
  <2> QED
    BY <1>3, <2>1, <2>4
<1>6. CASE SubdirectoriesDestroyed(j)
  <2>1. /\ TodoFits("files", {}) /\ {} \in SUBSET Names
        /\ "destroy_dirs" \in WorkPc \ {"idle", "schedule"} /\ "files" \in WorkPc
    BY DEF TodoFits, WorkPc
  <2> QED
    BY <1>3, <1>6, <2>1 DEF SubdirectoriesDestroyed
<1>7. CASE LoadFiles(j)
  <2> DEFINE todo == {r.file : r \in FilesIn(tree, Me(j))} \ work[j].seen
  <2>1. At(j, "make_files") /\ Do(j, "destroy_files", todo)
        /\ UNCHANGED <<stored, records, rows, target, call, others>>
    BY <1>7, Zenon DEF LoadFiles
  <2>2. todo \subseteq Files
    BY <1>4 DEF FilesIn, CfsFile
  <2> HIDE DEF todo
  <2>3. TodoFits("destroy_files", todo) /\ todo \in SUBSET Names
        /\ "make_files" \in WorkPc \ {"idle", "schedule"} /\ "destroy_files" \in WorkPc
    BY <2>2 DEF TodoFits, Names, WorkPc
  <2> QED
    BY <1>3, <2>1, <2>3
<1>8. CASE FilesDestroyed(j)
  <2> DEFINE todo == {r.file : r \in FilesIn(tree, Me(j))}
  <2>1. At(j, "destroy_files") /\ Do(j, "assess", todo)
        /\ UNCHANGED <<stored, records, rows, target, call, others>>
    BY <1>8, Zenon DEF FilesDestroyed
  <2>2. todo \subseteq Files
    BY <1>4 DEF FilesIn, CfsFile
  <2> HIDE DEF todo
  <2>3. TodoFits("assess", todo) /\ todo \in SUBSET Names
        /\ "destroy_files" \in WorkPc \ {"idle", "schedule"} /\ "assess" \in WorkPc
    BY <2>2 DEF TodoFits, Names, WorkPc
  <2> QED
    BY <1>3, <2>1, <2>3
<1>9. CASE FilesAssessed(j)
  <2> DEFINE todo == Children(tree, Me(j))
  <2>1. At(j, "assess") /\ Do(j, "schedule", todo)
        /\ UNCHANGED <<stored, records, rows, target, call, others>>
    BY <1>9, Zenon DEF FilesAssessed
  <2>2. TodoFits("schedule", todo) /\ todo \in SUBSET Names
        /\ "assess" \in WorkPc \ {"idle", "schedule"} /\ "schedule" \in WorkPc
    BY DEF Children, TodoFits, Names, WorkPc
  <2> HIDE DEF todo
  <2> QED
    BY <1>3, <2>1, <2>2
<1> QED
  BY <1>1, <1>2, <1>5, <1>6, <1>7, <1>8, <1>9

\* The steps of a job that make and destroy rows: their workers stay placed, and
\* the tree good.
LEMMA MakingKeeps ==
    ASSUME IInv, NEW j \in Rows,
           TreeIsGood', made \subseteq made', swept' \subseteq Files,
           work' \in [Rows -> WorkRecord], WorkIsPlaced',
           rows' \in [Rows -> Row], target' \in [Rows -> Ids \cup {Group, None}],
           UNCHANGED <<stored, call, accrual, direct, restored, faults>>
    PROVE  IInv'
<1>1. RestOK /\ IngestIsPlaced
  BY JobFacts
<1>2. IngestIsPlaced'
  BY <1>1, IngestStays
<1>3. RestOK'
  BY <1>1, Zenon DEF RestOK
<1> QED
  BY <1>2, <1>3, PartsKept

\* A job makes rows for subdirectories it found.
LEMMA MakeDirectoryKeeps ==
    ASSUME IInv, NEW j \in Rows, MakeDirectory(j)
    PROVE  IInv'
<1>1. PICK p \in work[j].todo :
        /\ Did(j, p)
        /\ IF \E i \in Children(tree, Me(j)) : tree.dirs[i].path = p
           THEN UNCHANGED records
           ELSE /\ made # Ids
                /\ tree' = InsertDirectory(tree, NewId, p, Me(j))
                /\ made' = made \cup {NewId}
  BY DEF MakeDirectory
<1>2. /\ RestOK /\ TreeIsGood /\ WorkIsPlaced /\ work \in [Rows -> WorkRecord]
      /\ Me(j) \in made /\ p \in Paths
  BY <1>1, JobFacts DEF MakeDirectory, At, TodoFits
<1>3. TreeIsGood' /\ made \subseteq made'
  BY <1>1, <1>2, DirectoryInserted, TreeStays DEF records
<1>4. work' \in [Rows -> WorkRecord] /\ WorkIsPlaced'
  BY <1>1, <1>2, <1>3, DidMoves
<1> QED
  BY <1>2, <1>3, <1>4, MakingKeeps DEF RestOK, MakeDirectory, others

\* A job destroys rows of subdirectories gone from storage, children first.
LEMMA DestroyInTreeKeeps ==
    ASSUME IInv, NEW j \in Rows, DestroyInTree(j)
    PROVE  IInv'
<1> DEFINE below(i) == {f \in Files : tree.dirs[i].path \in Ancestors(Folder[f])}
<1>1. PICK top \in work[j].todo, i \in Ids :
        /\ top \in Chain(tree, i) /\ Children(tree, i) = {}
        /\ IF FilesIn(tree, i) # {}
           THEN \E r \in FilesIn(tree, i) :
                    /\ tree' = DeleteFile(tree, r) /\ Sweep({r.file})
                    /\ UNCHANGED <<target, work>>
           ELSE /\ tree' = DeleteDirectory(tree, i)
                /\ IF Scheduled(i)
                   THEN \E k \in Rows : target[k] = i /\ target' = [target EXCEPT ![k] = None]
                   ELSE UNCHANGED target
                /\ Did(j, i)
                /\ IF AnotherAbove(j, i) THEN Sweep(below(i)) ELSE UNCHANGED swept
  BY Zenon DEF DestroyInTree
<1>2. /\ RestOK /\ TreeIsGood /\ WorkIsPlaced /\ work \in [Rows -> WorkRecord]
      /\ target \in [Rows -> Ids \cup {Group, None}] /\ swept \subseteq Files
      /\ top \in Ids \ {RootId}
  BY <1>1, JobFacts DEF DestroyInTree, At, TodoFits
<1>3. /\ rows' = rows /\ made' = made
      /\ UNCHANGED <<stored, call, accrual, direct, restored, faults>>
  BY DEF DestroyInTree
<1>4. i # RootId /\ tree.dirs[i] # None
  BY <1>1, <1>2, RootAlone, ChainClosed DEF Present, TreeIsGood, Good, TreeType
<1>5. CASE FilesIn(tree, i) # {}
  <2>1. PICK r \in FilesIn(tree, i) :
            tree' = DeleteFile(tree, r) /\ Sweep({r.file}) /\ UNCHANGED <<target, work>>
    BY <1>1, <1>5, Zenon
  <2>2. r \in tree.files /\ r.file \in Files
    BY <1>2 DEF FilesIn, TreeIsGood, Good, TreeType, CfsFile
  <2>3. TreeIsGood'
    BY <1>2, <1>3, <2>1, <2>2, FileDeleted
  <2>4. swept' \subseteq Files
    BY <1>2, <2>1, <2>2, SweepsFiles
  <2>5. WorkIsPlaced'
    BY <1>2, <1>3, <2>1, WorkStays
  <2> QED
    BY <1>2, <1>3, <2>1, <2>3, <2>4, <2>5, MakingKeeps DEF RestOK
<1>6. CASE FilesIn(tree, i) = {}
  <2>1. /\ tree' = DeleteDirectory(tree, i)
        /\ IF Scheduled(i)
           THEN \E k \in Rows : target[k] = i /\ target' = [target EXCEPT ![k] = None]
           ELSE UNCHANGED target
        /\ Did(j, i) /\ (Sweep(below(i)) \/ UNCHANGED swept)
    BY <1>1, <1>6, Zenon
  <2>2. TreeIsGood'
    BY <1>1, <1>2, <1>3, <1>4, <1>6, <2>1, DirectoryDeleted
  <2>3. target' \in [Rows -> Ids \cup {Group, None}]
    BY <1>2, <2>1
  <2>4. work' \in [Rows -> WorkRecord] /\ WorkIsPlaced'
    BY <1>2, <1>3, <2>1, DidMoves
  <2>5. swept' \subseteq Files
    BY <1>2, <2>1 DEF Sweep
  <2> QED
    BY <1>2, <1>3, <2>1, <2>2, <2>3, <2>4, <2>5, MakingKeeps DEF RestOK
<1> QED
  BY <1>5, <1>6

\* A job makes rows for files it found.
LEMMA MakeFileKeeps ==
    ASSUME IInv, NEW j \in Rows, MakeFile(j)
    PROVE  IInv'
<1>1. PICK f \in work[j].todo : Did(j, f) /\ Insert(f, Me(j))
  BY DEF MakeFile
<1>2. /\ RestOK /\ TreeIsGood /\ WorkIsPlaced /\ work \in [Rows -> WorkRecord]
      /\ Me(j) \in made /\ f \in Files /\ swept \subseteq Files
  BY <1>1, JobFacts DEF MakeFile, At, TodoFits
<1>3. made' = made
  BY DEF MakeFile
<1>4. TreeIsGood' /\ swept' \subseteq Files
  BY <1>1, <1>2, <1>3, FileInserted
<1>5. work' \in [Rows -> WorkRecord] /\ WorkIsPlaced'
  BY <1>1, <1>2, <1>3, DidMoves
<1> QED
  BY <1>2, <1>3, <1>4, <1>5, MakingKeeps DEF RestOK, MakeFile

\* A job destroys rows of files gone from storage.
LEMMA DestroyFileKeeps ==
    ASSUME IInv, NEW j \in Rows, DestroyFile(j)
    PROVE  IInv'
<1>1. PICK f \in work[j].todo :
        /\ Did(j, f)
        /\ IF \E r \in FilesIn(tree, Me(j)) : r.file = f
           THEN /\ tree' = DeleteFile(tree, CHOOSE r \in FilesIn(tree, Me(j)) : r.file = f)
                /\ Sweep({f})
           ELSE UNCHANGED <<tree, swept>>
  BY Zenon DEF DestroyFile
<1>2. /\ RestOK /\ TreeIsGood /\ WorkIsPlaced /\ work \in [Rows -> WorkRecord]
      /\ f \in Files /\ swept \subseteq Files
  BY <1>1, JobFacts DEF DestroyFile, At, TodoFits
<1>3. made' = made
  BY DEF DestroyFile
<1>4. TreeIsGood' /\ swept' \subseteq Files
  <2>1. CASE \E r \in FilesIn(tree, Me(j)) : r.file = f
    <3> DEFINE r == CHOOSE r \in FilesIn(tree, Me(j)) : r.file = f
    <3>1. tree' = DeleteFile(tree, r) /\ Sweep({f})
      BY <1>1, <2>1, Zenon
    <3>2. r \in FilesIn(tree, Me(j))
      BY <2>1
    <3> HIDE DEF r
    <3>3. r \in tree.files
      BY <3>2 DEF FilesIn
    <3> QED
      BY <1>2, <1>3, <3>1, <3>3, FileDeleted, SweepsFiles
  <2>2. CASE ~ \E r \in FilesIn(tree, Me(j)) : r.file = f
    BY <1>1, <1>2, <1>3, <2>2, TreeStays DEF records
  <2> QED
    BY <2>1, <2>2
<1>5. work' \in [Rows -> WorkRecord] /\ WorkIsPlaced'
  BY <1>1, <1>2, <1>3, DidMoves
<1> QED
  BY <1>2, <1>3, <1>4, <1>5, MakingKeeps DEF RestOK, DestroyFile

\* A job writes the size it read.
LEMMA AssessFileKeeps ==
    ASSUME IInv, NEW j \in Rows, AssessFile(j)
    PROVE  IInv'
<1>1. PICK f \in work[j].todo :
        IF stored[f] # None /\ \E r \in FilesIn(tree, Me(j)) : r.file = f
        THEN /\ tree' = UpdateSize(tree, CHOOSE r \in FilesIn(tree, Me(j)) : r.file = f, stored[f])
             /\ Did(j, f) /\ UNCHANGED rows
        ELSE Raise(j) /\ UNCHANGED tree
  BY Zenon DEF AssessFile
<1>2. /\ RestOK /\ TreeIsGood /\ WorkIsPlaced /\ work \in [Rows -> WorkRecord]
      /\ f \in Files /\ swept \subseteq Files /\ rows \in [Rows -> Row]
  BY <1>1, JobFacts DEF AssessFile, At, TodoFits
<1>3. made' = made /\ target' = target /\ swept' = swept
      /\ UNCHANGED <<stored, call, accrual, direct, restored, faults>>
  BY DEF AssessFile, others
<1>4. CASE stored[f] # None /\ \E r \in FilesIn(tree, Me(j)) : r.file = f
  <2> DEFINE r == CHOOSE r \in FilesIn(tree, Me(j)) : r.file = f
  <2>1. tree' = UpdateSize(tree, r, stored[f]) /\ Did(j, f) /\ UNCHANGED rows
    BY <1>1, <1>4, Zenon
  <2>2. r \in FilesIn(tree, Me(j))
    BY <1>4
  <2> HIDE DEF r
  <2>3. r \in tree.files /\ stored[f] \in Sizes
    BY <1>2, <1>4, <2>2 DEF FilesIn, RestOK
  <2>4. TreeIsGood'
    BY <1>2, <1>3, <2>1, <2>3, FileSized
  <2>5. work' \in [Rows -> WorkRecord] /\ WorkIsPlaced'
    BY <1>2, <1>3, <2>1, DidMoves
  <2> QED
    BY <1>2, <1>3, <2>1, <2>4, <2>5, MakingKeeps DEF RestOK
<1>5. CASE ~ (stored[f] # None /\ \E r \in FilesIn(tree, Me(j)) : r.file = f)
  <2>1. Raise(j) /\ UNCHANGED tree
    BY <1>1, <1>5, Zenon
  <2>2. TreeIsGood'
    BY <1>2, <1>3, <2>1, TreeStays DEF records
  <2>3. work' \in [Rows -> WorkRecord] /\ WorkIsPlaced'
    BY <1>2, <1>3, <2>1, WorkEnds DEF Raise
  <2>4. rows' \in [Rows -> Row]
    BY <1>2, <2>1, RowSteps, RowMoves DEF Raise
  <2> QED
    BY <1>2, <1>3, <2>2, <2>3, <2>4, MakingKeeps DEF RestOK
<1> QED
  BY <1>4, <1>5

\* A job enqueues one for a subdirectory.
LEMMA ScheduleSubdirectoryKeeps ==
    ASSUME IInv, NEW j \in Rows, ScheduleSubdirectory(j)
    PROVE  IInv'
<1>1. PICK i \in work[j].todo : Did(j, i) /\ Calls(j, i)
  BY DEF ScheduleSubdirectory
<1>2. /\ RestOK /\ TreeIsGood /\ WorkIsPlaced /\ IngestIsPlaced /\ work \in [Rows -> WorkRecord]
      /\ call \in [Callers -> CallRecord] /\ j \in Callers /\ i \in Ids
  BY <1>1, JobFacts DEF ScheduleSubdirectory, At, TodoFits
<1>3. TreeIsGood' /\ made' = made
  BY <1>2, TreeStays DEF ScheduleSubdirectory, records
<1>4. work' \in [Rows -> WorkRecord] /\ WorkIsPlaced'
  BY <1>1, <1>2, <1>3, DidMoves
<1>5. call' \in [Callers -> CallRecord]
  BY <1>1, <1>2, CallMoves
<1>6. IngestIsPlaced'
  BY <1>2, <1>3, IngestStays DEF ScheduleSubdirectory, others
<1>7. RestOK'
  BY <1>2, <1>4, <1>5 DEF RestOK, ScheduleSubdirectory, others
<1> QED
  BY <1>3, <1>4, <1>6, <1>7, PartsKept

\* A finished job leaves its row.
LEMMA FinishKeeps ==
    ASSUME IInv, NEW j \in Rows, Finish(j)
    PROVE  IInv'
<1>1. RestOK /\ TreeIsGood /\ WorkIsPlaced /\ IngestIsPlaced /\ work \in [Rows -> WorkRecord]
      /\ rows \in [Rows -> Row] /\ target \in [Rows -> Ids \cup {Group, None}]
  BY JobFacts
<1>2. TreeIsGood' /\ made' = made
  BY <1>1, TreeStays DEF Finish, records
<1>3. work' \in [Rows -> WorkRecord] /\ WorkIsPlaced'
  BY <1>1, <1>2, WorkEnds DEF Finish
<1>4. rows' \in [Rows -> Row] /\ target' \in [Rows -> Ids \cup {Group, None}]
  BY <1>1, RowConstants DEF Finish
<1>5. IngestIsPlaced'
  BY <1>1, <1>2, IngestStays DEF Finish, others
<1>6. RestOK'
  BY <1>1, <1>3, <1>4 DEF RestOK, Finish, others
<1> QED
  BY <1>2, <1>3, <1>5, <1>6, PartsKept

\* Every step of a worker keeps the invariant.
LEMMA WorkerKeeps ==
    ASSUME IInv, NEW j \in Rows, WorkerStep(j) \/ Interrupt(j)
    PROVE  IInv'
BY ReserveKeeps, ReserveGoneKeeps, InterruptKeeps, ChoosingKeeps, MakeDirectoryKeeps,
   DestroyInTreeKeeps, MakeFileKeeps, DestroyFileKeeps, AssessFileKeeps,
   ScheduleSubdirectoryKeeps, FinishKeeps
DEF WorkerStep, Perform

------------------------------------------------------------------------------
(* Steps: callers, the accrual and single files *)

\* A step that changes neither the tree nor a worker nor an ingest.
LEMMA CallerKeeps ==
    ASSUME IInv, UNCHANGED <<stored, records, work, direct, swept, restored>>,
           call' \in [Callers -> CallRecord],
           rows' \in [Rows -> Row], target' \in [Rows -> Ids \cup {Group, None}],
           accrual' \in [pc : {"copy", "ids", "jobs", "schedule", "await", "dead"},
                         copied : SUBSET Accrued, ids : SUBSET Ids],
           faults' \in 0 .. MaxFaults
    PROVE  IInv'
<1>1. RestOK /\ TreeIsGood /\ WorkIsPlaced /\ IngestIsPlaced
  BY TypeOfParts DEF IInv
<1>2. TreeIsGood' /\ made' = made
  BY <1>1, TreeStays DEF records
<1>3. WorkIsPlaced' /\ IngestIsPlaced'
  BY <1>1, <1>2, WorkStays, IngestStays
<1>4. RestOK'
  BY <1>1, Zenon DEF RestOK
<1> QED
  BY <1>2, <1>3, <1>4, PartsKept

\* What such a step can rely on.
LEMMA CallerFacts ==
    ASSUME IInv
    PROVE  /\ call \in [Callers -> CallRecord] /\ rows \in [Rows -> Row]
           /\ target \in [Rows -> Ids \cup {Group, None}]
           /\ accrual \in [pc : {"copy", "ids", "jobs", "schedule", "await", "dead"},
                           copied : SUBSET Accrued, ids : SUBSET Ids]
           /\ faults \in 0 .. MaxFaults
BY TypeOfParts, Zenon DEF IInv, RestOK

\* Every step of a caller that enqueues keeps the invariant.
LEMMA CallKeeps ==
    ASSUME IInv, NEW c \in Callers, CallStep(c) \/ CallDies(c)
    PROVE  IInv'
<1>1. call[c] \in CallRecord
  BY CallerFacts
<1>2. CASE Look(c)
  <2>1. call' \in [Callers -> CallRecord]
    <3>1. [call[c] EXCEPT !.pc = "create"] \in CallRecord
      BY <1>1 DEF CallRecord
    <3>2. Returns(c) \/ call' = [call EXCEPT ![c] = [call[c] EXCEPT !.pc = "create"]]
      BY <1>2 DEF Look
    <3> QED
      BY <3>1, <3>2, CallerFacts, CallMoves
  <2> QED
    BY <1>2, <2>1, CallerFacts, CallerKeeps DEF Look, others
<1>3. CASE CreateJob(c)
  <2> DEFINE free == {j \in FreeRows : target[j] = None /\ \A b \in Callers : call[b].job # j}
             j == CHOOSE k \in free : TRUE
  <2>1. /\ free # {} /\ target' = [target EXCEPT ![j] = call[c].at]
        /\ call' = [call EXCEPT ![c].pc = "enqueue", ![c].job = j]
    BY <1>3, Zenon DEF CreateJob
  <2>2. j \in Rows /\ call[c].at \in Ids \cup {Group, None}
    BY <1>1, <2>1 DEF FreeRows, CallRecord
  <2> HIDE DEF j
  <2>3. call' \in [Callers -> CallRecord]
    <3>1. [call[c] EXCEPT !.pc = "enqueue", !.job = j] \in CallRecord
      BY <1>1, <2>2 DEF CallRecord
    <3>2. call' = [call EXCEPT ![c] = [call[c] EXCEPT !.pc = "enqueue", !.job = j]]
      BY <2>1, CallerFacts
    <3> QED
      BY <3>1, <3>2, CallerFacts
  <2>4. target' \in [Rows -> Ids \cup {Group, None}]
    BY <2>1, <2>2, CallerFacts
  <2> QED
    BY <1>3, <2>3, <2>4, CallerFacts, CallerKeeps DEF CreateJob, others
<1>4. CASE EnqueueJob(c)
  <2>1. call' \in [Callers -> CallRecord]
    BY <1>4, CallerFacts, CallMoves DEF EnqueueJob
  <2>2. rows' \in [Rows -> Row]
    BY <1>4, CallerFacts, RowConstants DEF EnqueueJob
  <2> QED
    BY <1>4, <2>1, <2>2, CallerFacts, CallerKeeps DEF EnqueueJob, others
<1>5. CASE CallDies(c)
  <2>1. call' \in [Callers -> CallRecord]
    BY <1>5, CallerFacts, CallMoves DEF CallDies
  <2>2. faults' \in 0 .. MaxFaults
    BY <1>5, CallerFacts, BoundsAssumption DEF CallDies
  <2>3. accrual' \in [pc : {"copy", "ids", "jobs", "schedule", "await", "dead"},
                      copied : SUBSET Accrued, ids : SUBSET Ids]
    BY <1>5, CallerFacts DEF CallDies
  <2> QED
    BY <1>5, <2>1, <2>2, <2>3, CallerFacts, CallerKeeps DEF CallDies
<1> QED
  BY <1>2, <1>3, <1>4, <1>5 DEF CallStep

\* Every request keeps the invariant.
LEMMA RequestKeeps ==
    ASSUME IInv, NEW q \in Requests, Request(q)
    PROVE  IInv'
<1>1. call' \in [Callers -> CallRecord]
  BY CallerFacts, CallMoves DEF Request, Callers
<1> QED
  BY <1>1, CallerFacts, CallerKeeps DEF Request, others

\* Content of a file is stored; what there was is not lost.
LEMMA StoringKeeps ==
    ASSUME IInv, NEW f \in Files, NEW size \in Sizes, stored' = [stored EXCEPT ![f] = size]
    PROVE  /\ stored' \in [Files -> Sizes \cup {None}]
           /\ \A g \in Files : stored[g] # None => stored'[g] # None
           /\ stored'[f] # None
BY TypeOfParts, NamesAssumption DEF IInv, RestOK

\* Every step of an accrual keeps the invariant.
LEMMA AccrualKeeps ==
    ASSUME IInv, AccrualStep
    PROVE  IInv'
<1>1. RestOK /\ TreeIsGood /\ WorkIsPlaced /\ IngestIsPlaced
  BY TypeOfParts DEF IInv
<1>2. ASSUME NEW pc \in {"ids", "jobs", "schedule", "await"}, NEW ids \in SUBSET Ids,
             AccrualMoves(pc, ids), call' \in [Callers -> CallRecord]
      PROVE  IInv'
  <2>1. accrual' \in [pc : {"copy", "ids", "jobs", "schedule", "await", "dead"},
                      copied : SUBSET Accrued, ids : SUBSET Ids]
    BY <1>2, CallerFacts DEF AccrualMoves
  <2> QED
    BY <1>2, <2>1, CallerFacts, CallerKeeps DEF AccrualMoves
<1>3. CASE AccrualReadsTree
  <2> DEFINE ids == {i \in Ids : InTree(tree, i)}
  <2>1. AccrualMoves("jobs", ids) /\ UNCHANGED call
    BY <1>3, Zenon DEF AccrualReadsTree
  <2>2. ids \in SUBSET Ids
    OBVIOUS
  <2> HIDE DEF ids
  <2> QED
    BY <1>2, <2>1, <2>2, CallerFacts
<1>4. CASE AccrualReadsJobs
  <2>1. \/ AccrualMoves("ids", {}) /\ UNCHANGED call
        \/ AccrualMoves("schedule", {}) /\ Calls(Accrual, RootId)
    BY <1>4, Zenon DEF AccrualReadsJobs
  <2>2. Accrual \in Callers /\ RootId \in Ids \cup {Group} /\ {} \in SUBSET Ids
    BY TreeAssumption DEF Callers
  <2>3. call' \in [Callers -> CallRecord]
    BY <2>1, <2>2, CallerFacts, CallMoves
  <2> QED
    BY <1>2, <2>1, <2>2, <2>3
<1>5. CASE AccrualAwaits
  BY <1>2, <1>5, CallerFacts DEF AccrualAwaits
<1>6. ASSUME NEW f \in Accrued, AccrualCopies(f)
      PROVE  IInv'
  <2>1. PICK size \in Sizes : stored' = [stored EXCEPT ![f] = size]
    BY <1>6 DEF AccrualCopies
  <2>2. f \in Files
    BY ProcessAssumption
  <2>3. /\ stored' \in [Files -> Sizes \cup {None}]
        /\ \A g \in Files : stored[g] # None => stored'[g] # None
    BY <2>1, <2>2, StoringKeeps
  <2>4. TreeIsGood' /\ made' = made /\ UNCHANGED <<rows, target, work, call>>
    BY <1>1, <1>6, TreeStays DEF AccrualCopies, records, jobs
  <2>5. WorkIsPlaced'
    BY <1>1, <2>4, WorkStays
  <2>6. IngestIsPlaced'
    BY <1>1, <1>6, <2>3, <2>4, ProcessAssumption DEF AccrualCopies, IngestIsPlaced
  <2>7. accrual' \in [pc : {"copy", "ids", "jobs", "schedule", "await", "dead"},
                      copied : SUBSET Accrued, ids : SUBSET Ids]
    BY <1>6, CallerFacts DEF AccrualCopies
  <2>8. RestOK'
    BY <1>1, <1>6, <2>3, <2>4, <2>7 DEF RestOK, AccrualCopies
  <2> QED
    BY <2>4, <2>5, <2>6, <2>8, PartsKept
<1> QED
  BY <1>3, <1>4, <1>5, <1>6 DEF AccrualStep

\* A step of the ingest of a single file: it stays placed, and the tree good.
LEMMA IngestMoves ==
    ASSUME IInv, NEW f \in Direct,
           NEW pc \in {"copied", "placed", "recorded", "done"}, NEW i \in Ids \cup {None},
           DirectMoves(f, pc, i),
           pc \in {"copied", "placed", "recorded"} => stored'[f] # None,
           pc \in {"placed", "recorded"} => i \in made',
           stored' \in [Files -> Sizes \cup {None}],
           \A g \in Files : stored[g] # None => stored'[g] # None,
           TreeIsGood', made \subseteq made', swept' \subseteq Files,
           UNCHANGED <<jobs, accrual, restored, faults>>
    PROVE  IInv'
<1>1. RestOK /\ WorkIsPlaced /\ IngestIsPlaced
  BY TypeOfParts DEF IInv
<1>2. direct' = [direct EXCEPT ![f] = [pc |-> pc, at |-> i]]
  BY DEF DirectMoves
<1>3. direct' \in [Direct -> [pc : {"never", "new", "copied", "placed", "recorded", "done"},
                              at : Ids \cup {None}]]
  BY <1>1, <1>2 DEF RestOK
<1>4. UNCHANGED <<rows, target, work, call>>
  BY DEF jobs
<1>5. WorkIsPlaced'
  BY <1>1, <1>4, WorkStays
<1>6. IngestIsPlaced'
  BY <1>1, <1>2, ProcessAssumption DEF IngestIsPlaced, RestOK
<1>7. RestOK'
  BY <1>1, <1>3, <1>4 DEF RestOK
<1> QED
  BY <1>5, <1>6, <1>7, PartsKept

\* Every step of a direct ingest keeps the invariant.
LEMMA IngestKeeps ==
    ASSUME IInv, NEW f \in Direct, IngestContent(f) \/ IngestStep(f)
    PROVE  IInv'
<1>1. /\ RestOK /\ TreeIsGood /\ WorkIsPlaced /\ IngestIsPlaced /\ f \in Files
      /\ stored \in [Files -> Sizes \cup {None}] /\ swept \subseteq Files
  BY TypeOfParts, ProcessAssumption DEF IInv, RestOK
<1>2. CASE IngestContent(f)
  <2>1. PICK size \in Sizes : stored' = [stored EXCEPT ![f] = size]
    BY <1>2 DEF IngestContent
  <2>2. TreeIsGood' /\ made' = made
    BY <1>1, <1>2, TreeStays DEF IngestContent, records
  <2>3. swept' \subseteq Files
    BY <1>1, <1>2 DEF IngestContent
  <2> QED
    BY <1>1, <1>2, <2>1, <2>2, <2>3, StoringKeeps, IngestMoves DEF IngestContent
<1>3. CASE IngestParents(f)
  <2>1. direct[f].pc = "copied" /\ stored[f] # None
    BY <1>1, <1>3 DEF IngestParents, IngestIsPlaced
  <2>2. UNCHANGED <<stored, jobs, accrual, swept, restored, faults>>
    BY <1>3 DEF IngestParents
  <2>3. \A p : Found(tree, p) # None => Found(tree, p) \in made
    <3> SUFFICES ASSUME NEW p, Found(tree, p) # None PROVE Found(tree, p) \in made
      OBVIOUS
    <3> DEFINE at == {i \in Ids : InTree(tree, i) /\ tree.dirs[i].path = p}
    <3>1. at # {} /\ Found(tree, p) = CHOOSE i \in at : TRUE
      BY Zenon DEF Found
    <3>2. Found(tree, p) \in Ids /\ InTree(tree, Found(tree, p))
      BY <3>1
    <3>3. Found(tree, p) \in Present(tree)
      BY <1>1, <3>2, ChainClosed DEF InTree, TreeIsGood, Good, TreeType
    <3> QED
      BY <1>1, <3>3 DEF Present, TreeIsGood, Placed
  <2>4. CASE \E p \in Ancestors(Folder[f]) \ {RootPath} :
                /\ Found(tree, p) = None /\ Found(tree, ParentPath[p]) # None /\ made # Ids
                /\ tree' = InsertDirectory(tree, NewId, p, Found(tree, ParentPath[p]))
                /\ made' = made \cup {NewId}
                /\ UNCHANGED direct
    <3>1. PICK p \in Ancestors(Folder[f]) \ {RootPath} :
                /\ Found(tree, p) = None /\ Found(tree, ParentPath[p]) # None /\ made # Ids
                /\ tree' = InsertDirectory(tree, NewId, p, Found(tree, ParentPath[p]))
                /\ made' = made \cup {NewId}
                /\ UNCHANGED direct
      BY <2>4
    <3>2. p \in Paths
      BY DEF Ancestors
    <3>3. TreeIsGood' /\ made \subseteq made'
      BY <1>1, <2>3, <3>1, <3>2, DirectoryInserted
    <3>4. UNCHANGED <<rows, target, work, call>>
      BY <2>2 DEF jobs
    <3>5. WorkIsPlaced' /\ IngestIsPlaced'
      BY <1>1, <2>2, <3>1, <3>3, <3>4, WorkStays, IngestStays
    <3>6. RestOK'
      BY <1>1, <2>2, <3>1, <3>4 DEF RestOK
    <3> QED
      BY <3>3, <3>5, <3>6, PartsKept
  <2>5. CASE /\ Found(tree, Folder[f]) # None
             /\ DirectMoves(f, "placed", Found(tree, Folder[f])) /\ UNCHANGED records
    <3>1. TreeIsGood' /\ made' = made
      BY <1>1, <2>5, TreeStays DEF records
    <3>2. Found(tree, Folder[f]) \in made' /\ Found(tree, Folder[f]) \in Ids
      BY <1>1, <2>3, <2>5, <3>1 DEF TreeIsGood, Placed
    <3> QED
      BY <1>1, <2>1, <2>2, <2>5, <3>1, <3>2, IngestMoves
  <2> QED
    BY <1>3, <2>4, <2>5, Zenon DEF IngestParents
<1>4. CASE IngestRecord(f)
  <2>1. /\ stored[f] # None /\ direct[f].at \in made /\ direct[f].at \in Ids
        /\ made' = made /\ UNCHANGED <<stored, jobs, accrual, restored, faults>>
        /\ Insert(f, direct[f].at) /\ DirectMoves(f, "recorded", direct[f].at)
    BY <1>1, <1>4 DEF IngestRecord, IngestIsPlaced, TreeIsGood, Placed
  <2>2. TreeIsGood' /\ swept' \subseteq Files
    BY <1>1, <2>1, FileInserted
  <2> QED
    BY <1>1, <2>1, <2>2, IngestMoves
<1>5. CASE IngestAssesses(f)
  <2> DEFINE mine == {r \in FilesIn(tree, direct[f].at) : r.file = f}
  <2>1. /\ stored[f] # None /\ stored[f] \in Sizes
        /\ made' = made /\ swept' = swept /\ UNCHANGED <<stored, jobs, accrual, restored, faults>>
        /\ DirectMoves(f, "done", None)
    BY <1>1, <1>5 DEF IngestAssesses, IngestIsPlaced, RestOK
  <2>2. tree' = IF mine = {} THEN tree
                ELSE UpdateSize(tree, CHOOSE r \in mine : TRUE, stored[f])
    BY <1>5, Zenon DEF IngestAssesses
  <2>3. TreeIsGood'
    <3>1. CASE mine = {}
      BY <1>1, <2>1, <2>2, <3>1, TreeStays DEF records
    <3>2. CASE mine # {}
      <4> DEFINE r == CHOOSE r \in mine : TRUE
      <4>1. r \in mine /\ tree' = UpdateSize(tree, r, stored[f])
        BY <2>2, <3>2
      <4> HIDE DEF r
      <4>2. r \in tree.files
        BY <4>1 DEF FilesIn
      <4> QED
        BY <1>1, <2>1, <4>1, <4>2, FileSized
    <3> QED
      BY <3>1, <3>2
  <2> HIDE DEF mine
  <2> QED
    BY <1>1, <2>1, <2>3, IngestMoves
<1> QED
  BY <1>2, <1>3, <1>4, <1>5 DEF IngestStep

\* Every step of a deletion and of a restoration keeps the invariant.
LEMMA DeleteAndRestoreKeeps ==
    ASSUME IInv, DeleteAndRestore
    PROVE  IInv'
<1>1. RestOK /\ TreeIsGood /\ WorkIsPlaced /\ IngestIsPlaced
  BY TypeOfParts DEF IInv
<1>2. /\ tree' = Restored(tree) /\ restored' = TRUE /\ made' = made
      /\ UNCHANGED <<stored, rows, target, work, call, accrual, direct, swept, faults>>
  BY Zenon DEF DeleteAndRestore, jobs
<1>3. TreeIsGood'
  BY <1>1, <1>2, GroupRestored
<1>4. WorkIsPlaced' /\ IngestIsPlaced'
  BY <1>1, <1>2, WorkStays, IngestStays
<1>5. restored' \in BOOLEAN
  BY <1>2, Zenon
<1>6. RestOK'
  BY <1>1, <1>2, <1>5, Zenon DEF RestOK
<1> QED
  BY <1>3, <1>4, <1>6, PartsKept

------------------------------------------------------------------------------
(* Theorems *)

\* The invariant holds at first.
LEMMA InitHolds == Init => IInv
<1> SUFFICES ASSUME Init PROVE IInv
  OBVIOUS
<1>1. Requests \in SUBSET Requests /\ TRUE \in BOOLEAN /\ Direct \in SUBSET Direct
  OBVIOUS
<1> QED
  BY <1>1, StartHolds, Zenon DEF Init

\* Every step keeps the invariant.
LEMMA NextKeeps == IInv /\ [Next]_vars => IInv'
<1> SUFFICES ASSUME IInv, [Next]_vars PROVE IInv'
  OBVIOUS
<1>1. CASE Next
  BY <1>1, WorkerKeeps, CallKeeps, RequestKeeps, AccrualKeeps, IngestKeeps,
     DeleteAndRestoreKeeps
  DEF Next
<1>2. CASE UNCHANGED vars
  <2>1. /\ UNCHANGED <<stored, records, work, direct, swept, restored>>
        /\ UNCHANGED <<call, rows, target, accrual, faults>>
    BY <1>2 DEF vars, jobs, others
  <2> QED
    BY <2>1, CallerFacts, CallerKeeps
<1> QED
  BY <1>1, <1>2

\* The invariant is kept, whoever it is that acts.
LEMMA Invariance == Spec => []IInv
BY InitHolds, NextKeeps, PTL DEF Spec

\* Rows, jobs and calls stay what the types say; no sum is ever negative.
THEOREM TypeCorrect == Spec => []TypeOK
<1>1. IInv => TypeOK
  BY DEF IInv
<1> QED
  BY <1>1, Invariance, PTL

\* The statistics of every directory, and those of the group, are at all times
\* those of the files below it (the triggers of cfs_files and cfs_directories),
\* for trees of any shape and depth and any number of jobs at work on them.
THEOREM StatisticsHold == Spec => []StatisticsAreTrue
<1>1. IInv => StatisticsAreTrue
  BY DEF IInv, TreeIsGood, Good, SumsAreTrue, StatisticsAreTrue
<1> QED
  BY <1>1, Invariance, PTL

------------------------------------------------------------------------------
(* Where things are: the first part of the invariant of RecordsMatchStorage *)

\* Workers, where directories are, the way to a file, a file's rows in a directory and
\* the subdirectories with a path.
Running(k)      == rows[k].status = "running"
PathOf(i)       == tree.dirs[i].path
Up(f)           == Ancestors(Folder[f])
HasRow(t, f, i) == \E r \in t.files : r.file = f /\ r.dir = i
SubsAt(t, i, q) == {c \in Children(t, i) : t.dirs[c].path = q}

\* A directory is where its path says, below the one there is at the path above it;
\* in the tree there is one at a path; a file's row is in the file's folder.
Shape(t) ==
    /\ t.dirs[RootId] # None /\ t.dirs[RootId].path = RootPath
    /\ \A i \in Ids \ {RootId} :
           LET o == t.dirs[i].parent IN
           t.dirs[i] # None /\ t.dirs[o] # None =>
               t.dirs[i].path # RootPath /\ ParentPath[t.dirs[i].path] = t.dirs[o].path
    /\ \A i, k \in Ids :
           InTree(t, i) /\ InTree(t, k) /\ t.dirs[i].path = t.dirs[k].path => i = k
    /\ \A r \in t.files : t.dirs[r.dir] # None => t.dirs[r.dir].path = Folder[r.file]

\* Rows are in the tree.
RowsAreHeld == \A r \in tree.files : r.file \in swept \/ InTree(tree, r.dir)

\* Jobs, calls and the accrual are about directories that were made.
AskedAreMade ==
    /\ \A k \in Rows : target[k] \in made \cup {Group, None}
    /\ \A c \in Callers : call[c].at \in made \cup {Group, None}
    /\ accrual.ids \subseteq made

\* A worker, of a job of directory x, has in hand what it found, where it found it.
HandFits(w, x) ==
    /\ x \in {w.at, None} /\ (InTree(tree, w.at) => x = w.at)
    /\ w.at \in made
    /\ tree.dirs[w.at] # None => PathOf(w.at) = w.path
    /\ w.pc # "subdirs" => OnStorage(w.path)
    /\ w.pc = "make_dirs" => w.todo \subseteq w.seen
    /\ w.pc \in {"make_dirs", "destroy_dirs"} =>
           w.seen \subseteq Subpaths(w.path) /\ \A q \in w.seen : OnStorage(q)
    /\ w.pc = "destroy_dirs" =>
           /\ w.todo \subseteq made
           /\ \A c \in w.todo : tree.dirs[c] # None =>
                  tree.dirs[c].parent = w.at /\ PathOf(c) \notin w.seen
    /\ w.pc \in {"make_files", "destroy_files"} =>
           \A f \in w.seen : f \in Files /\ Folder[f] = w.path /\ stored[f] # None
    /\ w.pc = "make_files" => w.todo \subseteq w.seen
WorkFits(k) ==
    Running(k) => /\ work[k].pc = "schedule" => work[k].todo \subseteq made
                  /\ work[k].at # None => HandFits(work[k], target[k])
WorkIsSound == \A k \in Rows : WorkFits(k)

\* A single file has the record that was made for it.
DirectFits(f) ==
    LET d == direct[f] IN
    /\ d.pc \in {"placed", "recorded"} /\ tree.dirs[d.at] # None => PathOf(d.at) = Folder[f]
    /\ d.pc = "recorded" => f \in swept \/ (HasRow(tree, f, d.at) /\ InTree(tree, d.at))
    /\ d.pc = "done" => stored[f] # None
    /\ d.pc = "done" => f \in swept \/ f \in Accrued \/ IsRecorded(f)
DirectIsSound == \A f \in Direct : DirectFits(f)

\* The accrual has copied what it says, and has with each directory the one above it.
AccrualIsSound ==
    /\ \A f \in accrual.copied : stored[f] # None
    /\ accrual.pc \notin {"copy", "dead"} => accrual.copied = Accrued
    /\ accrual.pc = "jobs" => \A i \in accrual.ids :
           InTree(tree, i) /\ i # RootId => tree.dirs[i].parent \in accrual.ids
    /\ accrual.pc = "schedule" /\ call[Accrual].pc # "none" => call[Accrual].at = RootId

\* All of it, with the types and the sums.
Sound == /\ IInv /\ Shape(tree) /\ RowsAreHeld /\ AskedAreMade
         /\ WorkIsSound /\ DirectIsSound /\ AccrualIsSound

------------------------------------------------------------------------------
(* Who sees to a file: the second part of the invariant *)

\* From when the accrual has read the tree to when it ends, with what it copied.  While
\* it reads the jobs, those of directories it read are not relied on: it will only go
\* on if there are none.
Watched  == accrual.pc \in {"jobs", "schedule", "await"} /\ accrual.copied # {}
Stale(i) == accrual.pc = "jobs" /\ i \in accrual.ids
Live(i)  == i \in Ids /\ InTree(tree, i) /\ ~Stale(i)

\* The files the accrual's assessment answers for: not those of the AMQP ingest once
\* they arrive.  Such a file is done if its records are as they should be.
Claimed(f) ==
    f \in Files \ swept /\ (f \in Direct \ Accrued => direct[f].pc \in {"never", "new"})
Done(f) == IF stored[f] = None THEN \A r \in tree.files : r.file # f ELSE IsRecorded(f)

\* What worker k has yet to do in its directory for file f, or about the subdirectory at
\* path q on the way to it.
LeftHere(k, f) ==
    LET w == work[k] IN
    \/ w.pc \in {"subdirs", "make_dirs", "destroy_dirs", "files"}
    \/ w.pc = "make_files" /\ (stored[f] = None \/ f \in w.todo \/ HasRow(tree, f, w.at))
    \/ w.pc = "destroy_files"
          /\ IF stored[f] = None THEN f \in w.todo ELSE HasRow(tree, f, w.at)
    \/ w.pc = "assess" /\ stored[f] # None /\ f \in w.todo /\ HasRow(tree, f, w.at)
LeftBelow(k, f, q) ==
    LET w == work[k] IN
    \/ w.pc = "subdirs"
    \/ w.pc = "make_dirs"
          /\ IF q \in w.seen THEN q \in w.todo \/ SubsAt(tree, w.at, q) # {} ELSE stored[f] = None
    \/ w.pc = "destroy_dirs" /\ \E c \in SubsAt(tree, w.at, q) :
          q \in w.seen \/ (stored[f] = None /\ c \in w.todo)
    \/ w.pc \in {"files", "make_files", "destroy_files", "assess"}
          /\ OnStorage(q) /\ SubsAt(tree, w.at, q) # {}
    \/ w.pc = "schedule" /\ OnStorage(q) /\ \E c \in SubsAt(tree, w.at, q) :
          c \in w.todo \/ (call[k].pc \in {"look", "create"} /\ call[k].at = c)
Left(k, f) ==
    \/ work[k].path = Folder[f] /\ LeftHere(k, f)
    \/ \E q \in Subpaths(work[k].path) \cap Up(f) : LeftBelow(k, f, q)

\* A job concerns a file if its directory is on the way to it and on storage.  It covers
\* the file if it has yet to begin, or to come to the file or to the way below.
Concerns(m, f) ==
    /\ Live(target[m]) /\ PathOf(target[m]) \in Up(f) /\ OnStorage(PathOf(target[m]))
Covers(m, f) ==
    Concerns(m, f) /\ (Running(m) => work[m].at # None /\ Left(m, f))
CoveredFrom(f, p) == \E m \in Rows : Covers(m, f) /\ p \in Ancestors(PathOf(target[m]))
SeenTo(f, p) == Done(f) \/ CoveredFrom(f, p)

\* A listing of a directory has what was claimed in it.
FreshAt(k) ==
    Running(k) /\ work[k].pc \in {"make_dirs", "destroy_dirs"} /\ Live(work[k].at) =>
        \A f \in Files, q \in Subpaths(work[k].path) :
            Claimed(f) /\ stored[f] # None /\ q \in Up(f) => q \in work[k].seen

\* A job that ended early, as its directory was not on storage, has left nothing to do.
EndedAt(k) ==
    Running(k) /\ work[k].at = None =>
        \A f \in Files : Claimed(f) /\ Concerns(k, f) => Done(f)

\* Where a job record keeps others from being made, and where the accrual had its
\* assessment scheduled, some job will see to the file.
FileAnswers(f) ==
    /\ \A m \in Rows : Concerns(m, f) => SeenTo(f, PathOf(target[m]))
    /\ accrual.pc \in {"schedule", "await"} =>
           \/ SeenTo(f, RootPath)
           \/ accrual.pc = "schedule" /\ call[Accrual].pc \in {"look", "create"}

\* All of it; and the inductive invariant.
Answers ==
    /\ \A k \in Rows : FreshAt(k) /\ EndedAt(k)
    /\ \A f \in Files : Claimed(f) => FileAnswers(f)
MatchInv == Sound /\ (Watched => Answers)

------------------------------------------------------------------------------
(* Paths *)

\* The paths above a path are the least set with it and, with each, the one above.
LEMMA AncestorsClosed ==
    ASSUME NEW p \in Paths
    PROVE  /\ p \in Ancestors(p) /\ Ancestors(p) \subseteq Paths
           /\ \A x \in Ancestors(p) \ {RootPath} : ParentPath[x] \in Ancestors(p)
           /\ \A s \in SUBSET Paths :
                  p \in s /\ (\A x \in s \ {RootPath} : ParentPath[x] \in s)
                      => Ancestors(p) \subseteq s
BY TreeAssumption DEF Ancestors

\* What is above a path above is above.
LEMMA AncestorsTransitive ==
    ASSUME NEW p \in Paths, NEW q \in Ancestors(p)
    PROVE  Ancestors(q) \subseteq Ancestors(p)
<1>1. /\ q \in Paths /\ Ancestors(p) \in SUBSET Paths
      /\ \A x \in Ancestors(p) \ {RootPath} : ParentPath[x] \in Ancestors(p)
  BY AncestorsClosed
<1> QED
  BY <1>1, AncestorsClosed

\* The root directory's path has none above it.
LEMMA RootOnTop == Ancestors(RootPath) = {RootPath}
<1>1. RootPath \in Paths
  BY TreeAssumption
<1>2. RootPath \in Ancestors(RootPath)
  BY <1>1, AncestorsClosed
<1>3. {RootPath} \in SUBSET Paths /\ \A x \in {RootPath} \ {RootPath} : ParentPath[x] \in {RootPath}
  BY <1>1
<1>4. Ancestors(RootPath) \subseteq {RootPath}
  BY <1>1, <1>3, AncestorsClosed
<1> QED
  BY <1>2, <1>4

\* Above a path are the one above it, and what is above that.
LEMMA AncestorsStep ==
    ASSUME NEW p \in Paths \ {RootPath}
    PROVE  Ancestors(p) = {p} \cup Ancestors(ParentPath[p])
<1> DEFINE o == ParentPath[p]
           s == {p} \cup Ancestors(o)
<1>1. p \in Paths /\ o \in Paths
  BY TreeAssumption
<1>2. p \in Ancestors(p) /\ o \in Ancestors(p)
  BY <1>1, AncestorsClosed
<1>3. Ancestors(o) \subseteq Ancestors(p)
  BY <1>1, <1>2, AncestorsTransitive
<1>4. /\ o \in Ancestors(o) /\ Ancestors(o) \subseteq Paths
      /\ \A x \in Ancestors(o) \ {RootPath} : ParentPath[x] \in Ancestors(o)
  BY <1>1, AncestorsClosed
<1>5. s \in SUBSET Paths /\ p \in s /\ \A x \in s \ {RootPath} : ParentPath[x] \in s
  BY <1>1, <1>4
<1> HIDE DEF s
<1>6. Ancestors(p) \subseteq s
  BY <1>1, <1>5, AncestorsClosed
<1> QED
  BY <1>2, <1>3, <1>6 DEF s

\* No path is above itself.
LEMMA NotAboveItself ==
    ASSUME NEW p \in Paths \ {RootPath}
    PROVE  p \notin Ancestors(ParentPath[p])
<1> SUFFICES ASSUME p \in Ancestors(ParentPath[p]) PROVE FALSE
  OBVIOUS
<1> DEFINE s == {x \in Ancestors(p) : p \in Ancestors(x)}
<1>1. /\ p \in Ancestors(p) /\ Ancestors(p) \subseteq Paths
      /\ \A x \in Ancestors(p) \ {RootPath} : ParentPath[x] \in Ancestors(p)
  BY AncestorsClosed
<1>2. \A x \in s \ {RootPath} : p \in Ancestors(ParentPath[x])
  BY <1>1, AncestorsStep
<1>3. s \in SUBSET Paths /\ p \in s /\ \A x \in s \ {RootPath} : ParentPath[x] \in s
  BY <1>1, <1>2
<1>4. \A x \in s : p \in Ancestors(x)
  OBVIOUS
<1> HIDE DEF s
<1>5. Ancestors(p) \subseteq s
  BY <1>3, AncestorsClosed
<1> QED
  BY <1>4, <1>5, PathsAssumption, RootOnTop

\* Of two paths above a third one is above the other.
LEMMA AncestorsLinear ==
    ASSUME NEW z \in Paths, NEW x \in Ancestors(z), NEW y \in Ancestors(z)
    PROVE  x \in Ancestors(y) \/ y \in Ancestors(x)
<1> DEFINE s == {v \in Ancestors(z) : y \in Ancestors(v) \/ v \in Ancestors(y)}
<1>1. /\ z \in Ancestors(z) /\ Ancestors(z) \subseteq Paths
      /\ \A v \in Ancestors(z) \ {RootPath} : ParentPath[v] \in Ancestors(z)
      /\ y \in Paths
  BY AncestorsClosed
<1>2. ASSUME NEW v \in s, v # RootPath PROVE ParentPath[v] \in s
  <2>1. v \in Paths \ {RootPath} /\ ParentPath[v] \in Ancestors(z)
    BY <1>1, <1>2
  <2>2. CASE v \in Ancestors(y)
    BY <1>1, <2>1, <2>2, <1>2, AncestorsClosed
  <2>3. CASE v \notin Ancestors(y)
    <3>1. y \in Ancestors(v) /\ y # v
      BY <1>1, <2>3, AncestorsClosed
    <3>2. y \in Ancestors(ParentPath[v])
      BY <2>1, <3>1, AncestorsStep
    <3> QED
      BY <2>1, <3>2
  <2> QED
    BY <2>2, <2>3
<1>3. s \in SUBSET Paths /\ z \in s
  BY <1>1
<1>4. \A v \in s : y \in Ancestors(v) \/ v \in Ancestors(y)
  OBVIOUS
<1> HIDE DEF s
<1>5. Ancestors(z) \subseteq s
  BY <1>2, <1>3, AncestorsClosed
<1> QED
  BY <1>4, <1>5

\* From a path above another a subdirectory leads on to it.
LEMMA NextBelow ==
    ASSUME NEW z \in Paths, NEW p \in Ancestors(z), p # z
    PROVE  \E q \in Subpaths(p) : q \in Ancestors(z)
<1> SUFFICES ASSUME \A q \in Ancestors(z) : q \notin Subpaths(p) PROVE FALSE
  OBVIOUS
<1> DEFINE s == Ancestors(z) \ {p}
<1>1. /\ z \in Ancestors(z) /\ Ancestors(z) \subseteq Paths
      /\ \A v \in Ancestors(z) \ {RootPath} : ParentPath[v] \in Ancestors(z)
  BY AncestorsClosed
<1>2. s \in SUBSET Paths /\ z \in s /\ \A v \in s \ {RootPath} : ParentPath[v] \in s
  BY <1>1 DEF Subpaths
<1>3. p \notin s
  OBVIOUS
<1> HIDE DEF s
<1>4. Ancestors(z) \subseteq s
  BY <1>2, AncestorsClosed
<1> QED
  BY <1>3, <1>4

------------------------------------------------------------------------------
(* Where the directories are *)

\* A tree of rows as Sound says it is.
Sane(t, ids) == Good(t) /\ Placed(t, ids) /\ Shape(t)

\* A directory in the tree is there, and so is the one above it, at the path above.
LEMMA InTreeFacts ==
    ASSUME NEW t, NEW ids, Sane(t, ids), NEW c \in Ids, InTree(t, c)
    PROVE  /\ c \in ids /\ t.dirs[c] # None /\ t.dirs[c] \in Directory
           /\ LET o == t.dirs[c].parent IN
              c # RootId => /\ o \in Ids /\ o \in Chain(t, c) /\ t.dirs[o] # None /\ InTree(t, o)
                            /\ t.dirs[c].path \in Paths \ {RootPath}
                            /\ ParentPath[t.dirs[c].path] = t.dirs[o].path
                            /\ c \in Children(t, o)
<1> DEFINE o == t.dirs[c].parent
<1>1. t.dirs \in [Ids -> Directory \cup {None}]
  BY DEF Sane, Good, TreeType
<1>2. /\ Chain(t, c) \subseteq Present(t) /\ UpClosed(t, Chain(t, c)) /\ RootId \in Chain(t, c)
      /\ c \in Present(t) /\ c \in Chain(t, c)
  BY <1>1, ChainClosed DEF InTree
<1>3. c \in ids /\ t.dirs[c] # None /\ t.dirs[c] \in Directory
  BY <1>1, <1>2 DEF Present, Sane, Placed
<1>4. ASSUME c # RootId
      PROVE  o \in Ids /\ o # Group /\ t.dirs[o] # None
  <2>1. o \in Ids /\ o # Group
    BY <1>3, <1>4, NamesAssumption DEF Sane, Placed
  <2>2. CASE t.dirs[o] = None
    <3>1. {c} \in SUBSET Present(t) /\ UpClosed(t, {c})
      BY <1>2, <2>2 DEF UpClosed
    <3>2. Chain(t, c) \subseteq {c}
      BY <1>1, <3>1, ChainClosed
    <3> QED
      BY <1>2, <1>4, <3>2
  <2> QED
    BY <2>1, <2>2
<1>5. ASSUME c # RootId
      PROVE  o \in Chain(t, c) /\ InTree(t, o)
  <2>1. o \in Chain(t, c)
    BY <1>2, <1>4, <1>5 DEF UpClosed
  <2> DEFINE s == {c} \cup Chain(t, o)
  <2>2. UpClosed(t, Chain(t, o)) /\ Chain(t, o) \subseteq Present(t) /\ o \in Chain(t, o)
    BY <1>1, <1>4, <1>5, ChainClosed DEF Present
  <2>3. s \in SUBSET Present(t) /\ c \in s /\ UpClosed(t, s)
    BY <1>2, <2>2 DEF UpClosed
  <2> HIDE DEF s
  <2>4. Chain(t, c) \subseteq s
    BY <1>1, <2>3, ChainClosed
  <2> QED
    BY <1>2, <1>5, <2>1, <2>4 DEF s, InTree
<1>6. c # RootId => /\ t.dirs[c].path \in Paths \ {RootPath}
                    /\ ParentPath[t.dirs[c].path] = t.dirs[o].path
  BY <1>3, <1>4 DEF Sane, Shape, Directory
<1> QED
  BY <1>3, <1>4, <1>5, <1>6 DEF Children

\* The root directory is in the tree.
LEMMA RootInTree ==
    ASSUME NEW t, NEW ids, Sane(t, ids)
    PROVE  InTree(t, RootId) /\ t.dirs[RootId].path = RootPath
BY ChainClosed, TreeAssumption DEF Sane, Good, TreeType, Shape, InTree, Present

\* What is above a directory: itself, and what is above its parent.
LEMMA ChainStep ==
    ASSUME NEW t, t.dirs \in [Ids -> Directory \cup {None}], NEW c \in Ids, NEW o \in Ids,
           t.dirs[c] # None, t.dirs[o] # None, t.dirs[c].parent = o
    PROVE  Chain(t, c) = {c} \cup Chain(t, o)
<1> DEFINE s == {c} \cup Chain(t, o)
<1>1. /\ UpClosed(t, Chain(t, o)) /\ Chain(t, o) \subseteq Present(t) /\ o \in Chain(t, o)
      /\ UpClosed(t, Chain(t, c)) /\ Chain(t, c) \subseteq Present(t) /\ c \in Chain(t, c)
      /\ c \in Present(t)
  BY ChainClosed DEF Present
<1>2. s \in SUBSET Present(t) /\ c \in s /\ UpClosed(t, s)
  BY <1>1 DEF UpClosed
<1>3. o \in Chain(t, c)
  BY <1>1, NamesAssumption DEF UpClosed
<1> HIDE DEF s
<1>4. Chain(t, c) \subseteq s
  BY <1>2, ChainClosed
<1>5. Chain(t, o) \subseteq Chain(t, c)
  BY <1>1, <1>3, ChainClosed
<1> QED
  BY <1>1, <1>4, <1>5 DEF s

\* A subdirectory of a directory in the tree is in the tree.
LEMMA ChildInTree ==
    ASSUME NEW t, NEW ids, Sane(t, ids), NEW o \in Ids, NEW c \in Children(t, o), InTree(t, o)
    PROVE  /\ c \in Ids /\ InTree(t, c) /\ c # RootId /\ t.dirs[c].parent = o
           /\ t.dirs[c].path \in Subpaths(t.dirs[o].path)
<1>1. t.dirs[o] # None /\ t.dirs \in [Ids -> Directory \cup {None}]
  BY InTreeFacts DEF Sane, Good, TreeType
<1>2. c \in Ids /\ t.dirs[c] # None /\ t.dirs[c].parent = o /\ c # RootId
  BY NamesAssumption DEF Children, Sane, Placed
<1>3. InTree(t, c)
  BY <1>1, <1>2, ChainStep DEF InTree
<1> QED
  BY <1>2, <1>3, InTreeFacts DEF Subpaths

\* Along the path of a directory in the tree there is a directory at every step.
LEMMA OnPath ==
    ASSUME NEW t, NEW ids, Sane(t, ids), NEW c \in Ids, InTree(t, c),
           NEW p \in Ancestors(t.dirs[c].path)
    PROVE  \E i \in Chain(t, c) : i \in Ids /\ InTree(t, i) /\ t.dirs[i].path = p
<1> DEFINE s == {t.dirs[i].path : i \in {k \in Chain(t, c) \cap Ids : InTree(t, k)}}
<1>1. /\ t.dirs \in [Ids -> Directory \cup {None}]
      /\ UpClosed(t, Chain(t, c)) /\ c \in Chain(t, c) /\ t.dirs[c].path \in Paths
  BY InTreeFacts, ChainClosed DEF Sane, Good, TreeType, Present, Directory
<1>2. s \subseteq Paths
  BY InTreeFacts DEF Directory
<1>3. t.dirs[c].path \in s
  BY <1>1
<1>4. ASSUME NEW x \in s, x # RootPath PROVE ParentPath[x] \in s
  <2>1. PICK i \in Chain(t, c) \cap Ids : InTree(t, i) /\ x = t.dirs[i].path
    BY <1>4
  <2>2. i # RootId
    BY <1>4, <2>1, RootInTree
  <2> DEFINE o == t.dirs[i].parent
  <2>3. o \in Ids /\ t.dirs[o] # None /\ InTree(t, o) /\ ParentPath[x] = t.dirs[o].path
    BY <2>1, <2>2, InTreeFacts
  <2>4. o \in Chain(t, c)
    BY <1>1, <2>1, <2>3, NamesAssumption DEF UpClosed
  <2> QED
    BY <2>3, <2>4
<1>5. \A x \in s : \E i \in Chain(t, c) : i \in Ids /\ InTree(t, i) /\ t.dirs[i].path = x
  OBVIOUS
<1> HIDE DEF s
<1>6. Ancestors(t.dirs[c].path) \subseteq s
  BY <1>1, <1>2, <1>3, <1>4, AncestorsClosed
<1> QED
  BY <1>5, <1>6

\* What is above a directory is at a path above.
LEMMA AboveOnPath ==
    ASSUME NEW t, NEW ids, Sane(t, ids), NEW c \in Ids, t.dirs[c] # None, NEW y \in Chain(t, c)
    PROVE  y \in Ids /\ t.dirs[y] # None /\ t.dirs[y].path \in Ancestors(t.dirs[c].path)
<1> DEFINE s == {x \in Chain(t, c) : t.dirs[x].path \in Ancestors(t.dirs[c].path)}
<1>1. /\ t.dirs \in [Ids -> Directory \cup {None}]
      /\ UpClosed(t, Chain(t, c)) /\ Chain(t, c) \subseteq Present(t) /\ c \in Chain(t, c)
      /\ t.dirs[c].path \in Paths
  BY ChainClosed DEF Sane, Good, TreeType, Present, Directory
<1>2. ASSUME NEW x \in s, t.dirs[x].parent # Group, t.dirs[t.dirs[x].parent] # None
      PROVE  t.dirs[x].parent \in s
  <2>1. t.dirs[x].parent \in Chain(t, c) /\ x \in Ids /\ t.dirs[x] # None
    BY <1>1, <1>2 DEF UpClosed, Present
  <2>2. x # RootId
    BY <1>2, <2>1 DEF Sane, Placed
  <2>3. t.dirs[x].path # RootPath /\ ParentPath[t.dirs[x].path] = t.dirs[t.dirs[x].parent].path
    BY <1>2, <2>1, <2>2 DEF Sane, Shape
  <2>4. t.dirs[x].path \in Ancestors(t.dirs[c].path)
    BY <1>2
  <2> QED
    BY <1>1, <2>1, <2>3, <2>4, AncestorsClosed
<1>3. c \in s
  BY <1>1, AncestorsClosed
<1>4. s \in SUBSET Present(t) /\ UpClosed(t, s)
  BY <1>1, <1>2 DEF UpClosed
<1>5. \A x \in s : x \in Ids /\ t.dirs[x] # None /\ t.dirs[x].path \in Ancestors(t.dirs[c].path)
  BY <1>1 DEF Present
<1> HIDE DEF s
<1>6. Chain(t, c) \subseteq s
  BY <1>1, <1>3, <1>4, ChainClosed
<1> QED
  BY <1>5, <1>6

\* Without subdirectories a directory is above itself only.
LEMMA LeafIsAlone ==
    ASSUME NEW t, t.dirs \in [Ids -> Directory \cup {None}], NEW i \in Ids, Children(t, i) = {},
           NEW c \in Ids, i \in Chain(t, c)
    PROVE  c = i
<1> SUFFICES ASSUME c # i PROVE FALSE
  OBVIOUS
<1> DEFINE s == Chain(t, c) \ {i}
<1>1. UpClosed(t, Chain(t, c)) /\ Chain(t, c) \subseteq Present(t) /\ c \in Chain(t, c)
  BY ChainClosed
<1>2. s \in SUBSET Present(t) /\ c \in s /\ UpClosed(t, s)
  BY <1>1 DEF UpClosed, Present, Children
<1>3. i \notin s
  OBVIOUS
<1> HIDE DEF s
<1>4. Chain(t, c) \subseteq s
  BY <1>2, ChainClosed
<1> QED
  BY <1>3, <1>4

\* A directory in the tree has all that is above it in the tree.
LEMMA AboveInTree ==
    ASSUME NEW t, NEW ids, Sane(t, ids), NEW c \in Ids, InTree(t, c), NEW y \in Chain(t, c)
    PROVE  InTree(t, y)
<1>1. t.dirs[c] # None
  BY InTreeFacts
<1>2. y \in Ids /\ t.dirs[y] # None /\ t.dirs[y].path \in Ancestors(t.dirs[c].path)
  BY <1>1, AboveOnPath
<1> DEFINE s == {x \in Chain(t, c) : InTree(t, x)}
<1>3. /\ t.dirs \in [Ids -> Directory \cup {None}]
      /\ UpClosed(t, Chain(t, c)) /\ Chain(t, c) \subseteq Present(t) /\ c \in Chain(t, c)
  BY ChainClosed, <1>1 DEF Sane, Good, TreeType, Present
<1>4. s \in SUBSET Present(t) /\ c \in s
  BY <1>3
<1>5. UpClosed(t, s)
  <2>1. ASSUME NEW x \in s, t.dirs[x].parent # Group, t.dirs[t.dirs[x].parent] # None
        PROVE  t.dirs[x].parent \in s
    <3>1. /\ x \in Ids /\ t.dirs[x] # None /\ InTree(t, x)
          /\ t.dirs[x].parent \in Chain(t, c)
      BY <1>3, <2>1 DEF UpClosed, Present
    <3>2. x # RootId
      BY <2>1, <3>1 DEF Sane, Placed
    <3> QED
      BY <3>1, <3>2, InTreeFacts
  <2> QED
    BY <2>1 DEF UpClosed
<1>6. \A x \in s : InTree(t, x)
  OBVIOUS
<1> HIDE DEF s
<1>7. Chain(t, c) \subseteq s
  BY <1>3, <1>4, <1>5, ChainClosed
<1> QED
  BY <1>6, <1>7

\* On the way from a directory in the tree to a file's row there is a subdirectory.
LEMMA SubOnTheWay ==
    ASSUME NEW t, NEW ids, Sane(t, ids), NEW a \in Ids, InTree(t, a),
           NEW c \in Ids, InTree(t, c), NEW q \in Subpaths(t.dirs[a].path),
           q \in Ancestors(t.dirs[c].path)
    PROVE  SubsAt(t, a, q) # {}
<1>1. PICK i \in Chain(t, c) : i \in Ids /\ InTree(t, i) /\ t.dirs[i].path = q
  BY OnPath
<1>2. i # RootId
  BY <1>1, RootInTree DEF Subpaths
<1> DEFINE o == t.dirs[i].parent
<1>3. o \in Ids /\ InTree(t, o) /\ ParentPath[q] = t.dirs[o].path /\ i \in Children(t, o)
  BY <1>1, <1>2, InTreeFacts
<1>4. o = a
  BY <1>3 DEF Subpaths, Sane, Shape
<1> QED
  BY <1>1, <1>3, <1>4 DEF SubsAt

\* A row in the tree is that of the one directory at its file's folder.
LEMMA RowsAtFolder ==
    ASSUME NEW t, NEW ids, Sane(t, ids), NEW r \in t.files, InTree(t, r.dir),
           NEW i \in Ids, InTree(t, i), t.dirs[i].path = Folder[r.file]
    PROVE  r.dir = i
BY InTreeFacts DEF Sane, Shape, Good, TreeType, CfsFile

------------------------------------------------------------------------------
(* What one INSERT, UPDATE or DELETE leaves of what jobs rely on *)

\* Of the directories that were made, none comes back, moves, or comes into the tree.
Older(t, o, ids) ==
    \A i \in ids :
        /\ o.dirs[i] # None => /\ t.dirs[i] # None /\ o.dirs[i].path = t.dirs[i].path
                               /\ o.dirs[i].parent = t.dirs[i].parent
        /\ InTree(o, i) => InTree(t, i)

\* On the way to a file no directory is lost.
DirsLast(t, o, f) ==
    \A i \in Ids :
        InTree(t, i) => /\ t.dirs[i].path \in Up(f) => InTree(o, i)
                        /\ \A q \in Up(f) : SubsAt(t, i, q) \subseteq SubsAt(o, i, q)

\* A change of rows of files, in the folders of the files.
LEMMA SameShapeMoves ==
    ASSUME NEW t, NEW ids, Sane(t, ids), NEW o, Good(o), SameShape(t, o),
           \A r \in o.files : t.dirs[r.dir] # None => t.dirs[r.dir].path = Folder[r.file]
    PROVE  /\ Shape(o) /\ Older(t, o, ids)
           /\ \A i \in Ids : InTree(o, i) <=> InTree(t, i)
           /\ \A f \in Files : DirsLast(t, o, f)
<1>1. \A i \in Ids : InTree(o, i) <=> InTree(t, i)
  BY SameShapeSameChains DEF Sane, Good, InTree
<1>2. o.files \subseteq CfsFile /\ ids \subseteq Ids
  BY DEF Good, TreeType, Sane, Placed
<1>3. \A i \in Ids : t.dirs[i] # None /\ i # RootId => t.dirs[i].parent \in Ids
  BY DEF Sane, Placed
<1>4. Shape(o)
  <2>1. o.dirs[RootId] # None /\ o.dirs[RootId].path = RootPath
    BY TreeAssumption DEF Sane, Shape, SameShape
  <2>2. ASSUME NEW i \in Ids \ {RootId}, o.dirs[i] # None, o.dirs[o.dirs[i].parent] # None
        PROVE  /\ o.dirs[i].path # RootPath
               /\ ParentPath[o.dirs[i].path] = o.dirs[o.dirs[i].parent].path
    BY <1>3, <2>2 DEF Sane, Shape, SameShape
  <2>3. \A i, k \in Ids :
            InTree(o, i) /\ InTree(o, k) /\ o.dirs[i].path = o.dirs[k].path => i = k
    <3>1. \A i \in Ids : InTree(o, i) => InTree(t, i) /\ o.dirs[i].path = t.dirs[i].path
      BY <1>1, InTreeFacts DEF SameShape
    <3> QED
      BY <3>1 DEF Sane, Shape
  <2>4. \A r \in o.files : o.dirs[r.dir] # None => o.dirs[r.dir].path = Folder[r.file]
    BY <1>2 DEF SameShape, CfsFile
  <2> QED
    BY <2>1, <2>2, <2>3, <2>4 DEF Shape
<1>5. Older(t, o, ids)
  BY <1>1, <1>2 DEF Older, SameShape
<1>6. ASSUME NEW f \in Files PROVE DirsLast(t, o, f)
  <2>1. \A i \in Ids, q \in Up(f) : SubsAt(t, i, q) \subseteq SubsAt(o, i, q)
    BY DEF SubsAt, Children, SameShape
  <2> QED
    BY <1>1, <2>1 DEF DirsLast
<1> QED
  BY <1>1, <1>4, <1>5, <1>6

\* A new directory, at a path at which the one above has none.
LEMMA DirectoryInsertedMoves ==
    ASSUME NEW t, NEW ids, Sane(t, ids), NEW n \in Ids \ ids, NEW path \in Paths \ {RootPath},
           NEW parent \in ids,
           t.dirs[parent] # None => ParentPath[path] = t.dirs[parent].path,
           InTree(t, parent) => SubsAt(t, parent, path) = {}
    PROVE  LET o == InsertDirectory(t, n, path, parent) IN
           /\ Shape(o) /\ Older(t, o, ids) /\ o.files = t.files
           /\ \A i \in Ids \ {n} : InTree(o, i) <=> InTree(t, i)
           /\ \A f \in Files : DirsLast(t, o, f)
           /\ n \in SubsAt(o, parent, path)
<1> DEFINE o == InsertDirectory(t, n, path, parent)
<1>1. /\ Good(o) /\ o.files = t.files /\ Placed(o, ids \cup {n})
      /\ o.dirs[n] # None /\ o.dirs[n].path = path /\ o.dirs[n].parent = parent
      /\ \A i \in Ids \ {n} : o.dirs[i] = t.dirs[i] /\ Chain(o, i) = Chain(t, i)
  BY InsertDirectoryKeepsSums DEF Sane
<1> HIDE DEF o
<1>2. /\ ids \subseteq Ids /\ RootId \in ids /\ n # RootId /\ parent \in Ids \ {n}
      /\ t.files \subseteq CfsFile /\ \A r \in t.files : r.dir \in ids
  BY DEF Sane, Placed, Good, TreeType
<1>3. \A i \in Ids \ {n} : InTree(o, i) <=> InTree(t, i)
  BY <1>1 DEF InTree
<1>4. o.dirs \in [Ids -> Directory \cup {None}]
  BY <1>1 DEF Good, TreeType
<1>5. InTree(o, n) => InTree(t, parent)
  <2>1. CASE o.dirs[parent] = None
    <3>1. {n} \in SUBSET Present(o) /\ UpClosed(o, {n})
      BY <1>1, <2>1 DEF Present, UpClosed
    <3>2. Chain(o, n) \subseteq {n}
      BY <1>4, <3>1, ChainClosed
    <3> QED
      BY <1>2, <3>2 DEF InTree
  <2>2. CASE o.dirs[parent] # None
    <3>1. Chain(o, n) = {n} \cup Chain(o, parent)
      BY <1>1, <1>2, <1>4, <2>2, ChainStep
    <3> QED
      BY <1>1, <1>2, <3>1 DEF InTree
  <2> QED
    BY <2>1, <2>2
<1>6. ASSUME InTree(o, n), NEW i \in Ids \ {n}, InTree(o, i), o.dirs[i].path = path
      PROVE  FALSE
  <2>1. InTree(t, i) /\ t.dirs[i].path = path /\ InTree(t, parent)
    BY <1>1, <1>3, <1>5, <1>6
  <2>2. i # RootId
    BY <2>1, RootInTree
  <2> DEFINE p == t.dirs[i].parent
  <2>3. p \in Ids /\ InTree(t, p) /\ ParentPath[path] = t.dirs[p].path /\ i \in Children(t, p)
    BY <2>1, <2>2, InTreeFacts
  <2>4. t.dirs[parent] # None
    BY <1>2, <2>1, InTreeFacts
  <2>5. p = parent
    BY <1>2, <2>1, <2>3, <2>4 DEF Sane, Shape
  <2> QED
    BY <2>1, <2>3, <2>5 DEF SubsAt
<1>7. Shape(o)
  <2>1. o.dirs[RootId] # None /\ o.dirs[RootId].path = RootPath
    BY <1>1, <1>2 DEF Sane, Shape
  <2>2. ASSUME NEW i \in Ids \ {RootId}, o.dirs[i] # None, o.dirs[o.dirs[i].parent] # None
        PROVE  /\ o.dirs[i].path # RootPath
               /\ ParentPath[o.dirs[i].path] = o.dirs[o.dirs[i].parent].path
    <3>1. CASE i = n
      BY <1>1, <1>2, <2>2, <3>1
    <3>2. CASE i # n
      <4>1. t.dirs[i] = o.dirs[i] /\ t.dirs[i].parent \in ids
        BY <1>1, <2>2, <3>2 DEF Sane, Placed
      <4> QED
        BY <1>1, <1>2, <2>2, <4>1 DEF Sane, Shape
    <3> QED
      BY <3>1, <3>2
  <2>3. ASSUME NEW i \in Ids, NEW k \in Ids, InTree(o, i), InTree(o, k),
               o.dirs[i].path = o.dirs[k].path
        PROVE  i = k
    <3>1. CASE i # n /\ k # n
      BY <1>1, <1>3, <2>3, <3>1 DEF Sane, Shape
    <3> QED
      BY <1>1, <1>6, <2>3, <3>1
  <2>4. \A r \in o.files : o.dirs[r.dir] # None => o.dirs[r.dir].path = Folder[r.file]
    BY <1>1, <1>2 DEF Sane, Shape
  <2> QED
    BY <2>1, <2>2, <2>3, <2>4 DEF Shape
<1>8. Older(t, o, ids)
  BY <1>1, <1>2, <1>3 DEF Older
<1>9. ASSUME NEW f \in Files PROVE DirsLast(t, o, f)
  <2>1. \A i \in Ids : InTree(t, i) => i # n
    BY InTreeFacts
  <2>2. t.dirs[n] = None
    BY DEF Sane, Placed
  <2>3. \A i \in Ids, q \in Up(f) : SubsAt(t, i, q) \subseteq SubsAt(o, i, q)
    BY <1>1, <2>2 DEF SubsAt, Children
  <2> QED
    BY <1>3, <2>1, <2>3 DEF DirsLast
<1>10. n \in SubsAt(o, parent, path)
  BY <1>1 DEF SubsAt, Children
<1> QED
  BY <1>1, <1>3, <1>7, <1>8, <1>9, <1>10 DEF o

\* An empty directory deleted.
LEMMA DirectoryDeletedMoves ==
    ASSUME NEW t, NEW ids, Sane(t, ids), NEW i \in Ids \ {RootId},
           t.dirs[i] # None, Children(t, i) = {}, FilesIn(t, i) = {}
    PROVE  LET o == DeleteDirectory(t, i) IN
           /\ Shape(o) /\ Older(t, o, ids) /\ o.files = t.files
           /\ o.dirs[i] = None /\ ~InTree(o, i)
           /\ \A j \in Ids \ {i} : InTree(o, j) <=> InTree(t, j)
           /\ \A f \in Files :
                  ~(InTree(t, i) /\ t.dirs[i].path \in Up(f)) => DirsLast(t, o, f)
<1> DEFINE o == DeleteDirectory(t, i)
<1>1. /\ Good(o) /\ o.files = t.files /\ Placed(o, ids) /\ o.dirs[i] = None
      /\ \A j \in Ids \ {i} : /\ o.dirs[j] = None <=> t.dirs[j] = None
                              /\ o.dirs[j] # None => /\ o.dirs[j].path = t.dirs[j].path
                                                     /\ o.dirs[j].parent = t.dirs[j].parent
                              /\ Chain(o, j) = Chain(t, j)
  BY DeleteDirectoryKeepsSums DEF Sane
<1> HIDE DEF o
<1>2. /\ ids \subseteq Ids /\ RootId \in Ids
      /\ t.files \subseteq CfsFile /\ \A r \in t.files : r.dir \in Ids /\ r.dir # i
      /\ \A j \in Ids \ {RootId} : t.dirs[j] # None => t.dirs[j].parent \in Ids
  BY TreeAssumption DEF Sane, Placed, Good, TreeType, FilesIn
<1>3. \A j \in Ids \ {i} : InTree(o, j) <=> InTree(t, j)
  BY <1>1 DEF InTree
<1>4. ~InTree(o, i)
  <2>1. i \notin Present(o) /\ o.dirs \in [Ids -> Directory \cup {None}]
    BY <1>1 DEF Present, Good, TreeType
  <2> QED
    BY <2>1, ChainClosed DEF InTree
<1>5. Shape(o)
  <2>1. o.dirs[RootId] # None /\ o.dirs[RootId].path = RootPath
    BY <1>1, <1>2 DEF Sane, Shape
  <2>2. ASSUME NEW j \in Ids \ {RootId}, o.dirs[j] # None, o.dirs[o.dirs[j].parent] # None
        PROVE  /\ o.dirs[j].path # RootPath
               /\ ParentPath[o.dirs[j].path] = o.dirs[o.dirs[j].parent].path
    <3>1. j # i /\ t.dirs[j] # None /\ o.dirs[j].parent = t.dirs[j].parent
          /\ o.dirs[j].path = t.dirs[j].path
      BY <1>1, <2>2
    <3> DEFINE p == t.dirs[j].parent
    <3>2. p \in Ids \ {i} /\ t.dirs[p] # None /\ o.dirs[p].path = t.dirs[p].path
      BY <1>1, <1>2, <2>2, <3>1
    <3> QED
      BY <3>1, <3>2 DEF Sane, Shape
  <2>3. \A j \in Ids : InTree(o, j) => InTree(t, j) /\ o.dirs[j].path = t.dirs[j].path
    BY <1>1, <1>3, <1>4, InTreeFacts
  <2>4. \A r \in o.files : o.dirs[r.dir] # None => o.dirs[r.dir].path = Folder[r.file]
    BY <1>1, <1>2 DEF Sane, Shape
  <2> QED
    BY <2>1, <2>2, <2>3, <2>4 DEF Sane, Shape
<1>6. Older(t, o, ids)
  BY <1>1, <1>2, <1>3, <1>4 DEF Older
<1>7. ASSUME NEW f \in Files, ~(InTree(t, i) /\ t.dirs[i].path \in Up(f))
      PROVE  DirsLast(t, o, f)
  <2>1. ASSUME NEW j \in Ids, InTree(t, j), NEW q \in Up(f), NEW c \in SubsAt(t, j, q)
        PROVE  c \in SubsAt(o, j, q)
    <3>1. c \in Ids /\ c \in Children(t, j) /\ t.dirs[c].path = q
      BY <2>1 DEF SubsAt, Children
    <3>2. c # i
      BY <1>7, <2>1, <3>1, ChildInTree
    <3> QED
      BY <1>1, <3>1, <3>2 DEF SubsAt, Children
  <2> QED
    BY <1>3, <1>7, <2>1 DEF DirsLast
<1> QED
  BY <1>1, <1>3, <1>4, <1>5, <1>6, <1>7 DEF o

------------------------------------------------------------------------------
(* What a step leaves of what jobs rely on *)

\* Content is not lost.
ContentLasts == \A f \in Files : stored[f] # None => stored'[f] # None

\* The rows of a file last, where there is content, and what was right stays so.
RowsLast(f) ==
    /\ \A i \in Ids : stored[f] # None /\ HasRow(tree, f, i) =>
           HasRow(tree', f, i) /\ (InTree(tree, i) => InTree(tree', i))
    /\ Done(f) => Done(f)'

\* What every step makes of the tree; of the files; of the way to each file.
TreeMoves == Older(tree, tree', made) /\ Shape(tree') /\ RowsAreHeld' /\ swept \subseteq swept'
Effects   == TreeMoves /\ \A f \in Files \ swept' : RowsLast(f)
WayLasts  == \A f \in Files : DirsLast(tree, tree', f)

\* What a step can rely on.
LEMMA SoundFacts ==
    ASSUME Sound
    PROVE  /\ Sane(tree, made) /\ made \subseteq Ids /\ tree.files \subseteq CfsFile
           /\ tree.dirs \in [Ids -> Directory \cup {None}] /\ swept \subseteq Files
           /\ stored \in [Files -> Sizes \cup {None}] /\ rows \in [Rows -> Row]
           /\ work \in [Rows -> WorkRecord] /\ target \in [Rows -> Ids \cup {Group, None}]
           /\ call \in [Callers -> CallRecord]
           /\ direct \in [Direct -> [pc : {"never", "new", "copied", "placed", "recorded", "done"},
                                     at : Ids \cup {None}]]
           /\ accrual \in [pc : {"copy", "ids", "jobs", "schedule", "await", "dead"},
                           copied : SUBSET Accrued, ids : SUBSET Ids]
BY TypeOfParts DEF Sound, IInv, TreeIsGood, Sane, RestOK, Placed, Good, TreeType

\* Rows in the tree, of rows of which each is one there was.
LEMMA RowsStayHeld ==
    ASSUME Sound, swept \subseteq swept',
           \A r \in tree'.files : r.file \in swept' \/ InTree(tree', r.dir)
                                  \/ \E q \in tree.files : q.file = r.file /\ q.dir = r.dir,
           \A q \in tree.files : InTree(tree, q.dir) => InTree(tree', q.dir)
    PROVE  RowsAreHeld'
BY Zenon DEF Sound, RowsAreHeld

\* A step that leaves the tree alone.
LEMMA TreeUntouched ==
    ASSUME Sound, UNCHANGED <<tree, made>>, swept \subseteq swept'
    PROVE  TreeMoves /\ WayLasts /\ (UNCHANGED stored => Effects)
<1>1. Older(tree, tree', made) /\ Shape(tree')
  BY DEF Older, Sound
<1>2. RowsAreHeld'
  BY DEF Sound, RowsAreHeld
<1>3. WayLasts
  BY DEF WayLasts, DirsLast
<1>4. UNCHANGED stored => \A f \in Files : RowsLast(f)
  BY DEF RowsLast, Done, IsRecorded
<1> QED
  BY <1>1, <1>2, <1>3, <1>4 DEF TreeMoves, Effects

\* A directory made, as a job or the ingest of a single file makes it.
LEMMA DirectoryMadeEffects ==
    ASSUME Sound, made # Ids, NEW p \in Paths \ {RootPath}, NEW parent \in made,
           tree.dirs[parent] # None => ParentPath[p] = PathOf(parent),
           InTree(tree, parent) => SubsAt(tree, parent, p) = {},
           tree' = InsertDirectory(tree, NewId, p, parent), UNCHANGED <<stored, swept>>
    PROVE  Effects /\ WayLasts /\ SubsAt(tree', parent, p) # {}
<1>1. NewId \in Ids \ made /\ Sane(tree, made)
  BY SoundFacts DEF NewId
<1>2. /\ Shape(tree') /\ Older(tree, tree', made) /\ tree'.files = tree.files
      /\ \A i \in Ids \ {NewId} : InTree(tree', i) <=> InTree(tree, i)
      /\ \A f \in Files : DirsLast(tree, tree', f)
      /\ NewId \in SubsAt(tree', parent, p)
  BY <1>1, DirectoryInsertedMoves DEF PathOf
<1>3. \A r \in tree.files : r.dir \in Ids \ {NewId}
  BY <1>1 DEF Sane, Placed
<1>4. RowsAreHeld'
  BY <1>2, <1>3 DEF Sound, RowsAreHeld
<1>5. ASSUME NEW f \in Files PROVE RowsLast(f)
  <2>1. \A i \in Ids : InTree(tree, i) => InTree(tree', i)
    BY <1>1, <1>2, InTreeFacts
  <2>2. \A i \in Ids : HasRow(tree, f, i) => HasRow(tree', f, i)
    BY <1>2 DEF HasRow
  <2>3. Done(f) => Done(f)'
    BY <1>2, <1>3, <2>1 DEF Done, IsRecorded
  <2> QED
    BY <2>1, <2>2, <2>3 DEF RowsLast
<1> QED
  BY <1>2, <1>4, <1>5 DEF Effects, TreeMoves, WayLasts

\* A row of a stored file made in the directory of its folder.
LEMMA FileMadeEffects ==
    ASSUME Sound, NEW g \in Files, stored[g] # None, NEW i \in made,
           tree.dirs[i] # None => PathOf(i) = Folder[g],
           Insert(g, i), UNCHANGED <<made, stored>>
    PROVE  /\ Effects /\ WayLasts /\ HasRow(tree', g, i)
           /\ g \in swept' \/ InTree(tree', i)
<1> USE SoundFacts
<1> DEFINE r == [file |-> g, dir |-> i, size |-> None]
<1>1. CASE \E q \in FilesIn(tree, i) : q.file = g
  <2>1. UNCHANGED <<tree, swept>> /\ HasRow(tree, g, i)
    BY <1>1, Zenon DEF Insert, FilesIn, HasRow
  <2>2. g \in swept \/ InTree(tree, i)
    BY <2>1 DEF Sound, RowsAreHeld, HasRow
  <2> QED
    BY <2>1, <2>2, TreeUntouched
<1>2. CASE ~ \E q \in FilesIn(tree, i) : q.file = g
  <2>1. /\ tree' = InsertFile(tree, r)
        /\ IF InTree(tree, i) THEN UNCHANGED swept ELSE Sweep({g})
    BY <1>2, Zenon DEF Insert
  <2>2. r \in CfsFile /\ r.file = g /\ r.dir = i /\ r.size = None
    BY DEF CfsFile
  <2> HIDE DEF r
  <2>3. r \notin tree.files
    BY <1>2, <2>2 DEF FilesIn
  <2>4. Good(tree') /\ tree'.files = tree.files \cup {r} /\ SameShape(tree, tree')
    BY <2>1, <2>2, <2>3, InsertFileKeepsSums DEF Sane
  <2>5. \A q \in tree'.files : tree.dirs[q.dir] # None => tree.dirs[q.dir].path = Folder[q.file]
    BY <2>2, <2>4 DEF PathOf, Sane, Shape
  <2>6. /\ Shape(tree') /\ Older(tree, tree', made) /\ WayLasts
        /\ \A k \in Ids : InTree(tree', k) <=> InTree(tree, k)
    BY <2>4, <2>5, SameShapeMoves DEF WayLasts
  <2>7. swept \subseteq swept' /\ (g \in swept' \/ InTree(tree', i))
    BY <2>1, <2>6 DEF Sweep
  <2>8. RowsAreHeld'
    <3>1. \A q \in tree'.files : q.file \in swept' \/ InTree(tree', q.dir) \/ q \in tree.files
      BY <2>2, <2>4, <2>7
    <3>2. \A q \in tree.files : InTree(tree, q.dir) => InTree(tree', q.dir)
      BY <2>6 DEF CfsFile
    <3> QED
      BY <2>7, <3>1, <3>2, RowsStayHeld
  <2>9. ASSUME NEW f \in Files PROVE RowsLast(f)
    <3>1. \A k \in Ids : HasRow(tree, f, k) => HasRow(tree', f, k)
      BY <2>4 DEF HasRow
    <3>2. Done(f) => Done(f)'
      BY <2>2, <2>4, <2>6 DEF Done, IsRecorded, CfsFile
    <3> QED
      BY <2>6, <3>1, <3>2 DEF RowsLast
  <2>10. HasRow(tree', g, i)
    BY <2>2, <2>4 DEF HasRow
  <2> QED
    BY <2>6, <2>7, <2>8, <2>9, <2>10 DEF Effects, TreeMoves
<1> QED
  BY <1>1, <1>2

\* A row destroyed: of a file without content, or of one that is swept.
LEMMA FileDestroyedEffects ==
    ASSUME Sound, NEW r \in tree.files, tree' = DeleteFile(tree, r), Sweep({r.file}),
           UNCHANGED <<made, stored>>
    PROVE  /\ Effects /\ WayLasts /\ tree'.files = tree.files \ {r}
           /\ stored[r.file] # None => r.file \in swept'
           /\ \A k \in Ids : InTree(tree', k) <=> InTree(tree, k)
<1> USE SoundFacts
<1>1. Good(tree') /\ tree'.files = tree.files \ {r} /\ SameShape(tree, tree')
  BY DeleteFileKeepsSums DEF Sane
<1>2. \A q \in tree'.files : tree.dirs[q.dir] # None => tree.dirs[q.dir].path = Folder[q.file]
  BY <1>1 DEF Sane, Shape
<1>3. /\ Shape(tree') /\ Older(tree, tree', made) /\ WayLasts
      /\ \A k \in Ids : InTree(tree', k) <=> InTree(tree, k)
  BY <1>1, <1>2, SameShapeMoves DEF WayLasts
<1>4. swept \subseteq swept' /\ (stored[r.file] # None => r.file \in swept')
  BY DEF Sweep, CfsFile
<1>5. RowsAreHeld'
  <2>1. \A q \in tree.files : InTree(tree, q.dir) => InTree(tree', q.dir)
    BY <1>3 DEF CfsFile
  <2> QED
    BY <1>1, <1>4, <2>1, RowsStayHeld
<1>6. ASSUME NEW f \in Files, f \notin swept' PROVE RowsLast(f)
  <2>1. stored[f] # None => f # r.file
    BY <1>4, <1>6
  <2>2. \A k \in Ids : stored[f] # None /\ HasRow(tree, f, k) => HasRow(tree', f, k)
    BY <1>1, <2>1 DEF HasRow
  <2>3. Done(f) => Done(f)'
    BY <1>1, <1>3, <2>1 DEF Done, IsRecorded, CfsFile
  <2> QED
    BY <1>3, <2>2, <2>3 DEF RowsLast
<1> QED
  BY <1>1, <1>3, <1>4, <1>5, <1>6 DEF Effects, TreeMoves

\* A row given the size of the content.
LEMMA FileSizedEffects ==
    ASSUME Sound, NEW r \in tree.files, stored[r.file] # None,
           tree' = UpdateSize(tree, r, stored[r.file]), UNCHANGED <<made, stored, swept>>
    PROVE  /\ Effects /\ WayLasts
           /\ InTree(tree, r.dir) => IsRecorded(r.file)'
<1> USE SoundFacts
<1> DEFINE q == [r EXCEPT !.size = stored[r.file]]
<1>1. q.file = r.file /\ q.dir = r.dir /\ q.size = stored[r.file] /\ r.file \in Files
      /\ stored[r.file] \in Sizes
  BY DEF CfsFile
<1>2. q \notin tree.files \ {r}
  BY <1>1 DEF Sane, Placed
<1>3. /\ Good(tree') /\ SameShape(tree, tree') /\ tree'.files = (tree.files \ {r}) \cup {q}
  BY <1>1, <1>2, UpdateSizeKeepsSums DEF Sane
<1> HIDE DEF q
<1>4. \A x \in tree'.files : tree.dirs[x.dir] # None => tree.dirs[x.dir].path = Folder[x.file]
  BY <1>1, <1>3 DEF Sane, Shape
<1>5. /\ Shape(tree') /\ Older(tree, tree', made) /\ WayLasts
      /\ \A k \in Ids : InTree(tree', k) <=> InTree(tree, k)
  BY <1>3, <1>4, SameShapeMoves DEF WayLasts
<1>6. RowsAreHeld'
  <2>1. \A x \in tree.files : InTree(tree, x.dir) => InTree(tree', x.dir)
    BY <1>5 DEF CfsFile
  <2>2. \A x \in tree'.files : \E y \in tree.files : y.file = x.file /\ y.dir = x.dir
    BY <1>1, <1>3
  <2> QED
    BY <2>1, <2>2, RowsStayHeld
<1>7. ASSUME NEW f \in Files PROVE RowsLast(f)
  <2>1. \A k \in Ids : HasRow(tree, f, k) => HasRow(tree', f, k)
    BY <1>1, <1>3 DEF HasRow
  <2>2. Done(f) => Done(f)'
    <3>1. CASE f = r.file
      BY <1>1, <1>3, <1>5, <3>1 DEF Done, IsRecorded, CfsFile
    <3>2. CASE f # r.file
      BY <1>1, <1>3, <1>5, <3>2 DEF Done, IsRecorded, CfsFile
    <3> QED
      BY <3>1, <3>2
  <2> QED
    BY <1>5, <2>1, <2>2 DEF RowsLast
<1>8. InTree(tree, r.dir) => IsRecorded(r.file)'
  BY <1>1, <1>3, <1>5 DEF IsRecorded, CfsFile
<1> QED
  BY <1>5, <1>6, <1>7, <1>8 DEF Effects, TreeMoves

\* An empty directory destroyed.
LEMMA DirectoryDestroyedEffects ==
    ASSUME Sound, NEW i \in Ids \ {RootId}, tree.dirs[i] # None,
           Children(tree, i) = {}, FilesIn(tree, i) = {},
           tree' = DeleteDirectory(tree, i), UNCHANGED <<made, stored>>, swept \subseteq swept'
    PROVE  /\ Effects /\ tree'.files = tree.files /\ tree'.dirs[i] = None /\ ~InTree(tree', i)
           /\ \A j \in Ids \ {i} : InTree(tree', j) <=> InTree(tree, j)
           /\ \A f \in Files :
                  ~(InTree(tree, i) /\ PathOf(i) \in Up(f)) => DirsLast(tree, tree', f)
<1> USE SoundFacts
<1>1. /\ Shape(tree') /\ Older(tree, tree', made) /\ tree'.files = tree.files
      /\ tree'.dirs[i] = None /\ ~InTree(tree', i)
      /\ \A j \in Ids \ {i} : InTree(tree', j) <=> InTree(tree, j)
      /\ \A f \in Files :
             ~(InTree(tree, i) /\ PathOf(i) \in Up(f)) => DirsLast(tree, tree', f)
  BY DirectoryDeletedMoves DEF PathOf
<1>2. \A r \in tree.files : r.dir \in Ids \ {i}
  BY DEF FilesIn, CfsFile
<1>3. RowsAreHeld'
  BY <1>1, <1>2, RowsStayHeld
<1>4. ASSUME NEW f \in Files PROVE RowsLast(f)
  <2>1. \A k \in Ids : HasRow(tree, f, k) => HasRow(tree', f, k) /\ k # i
    BY <1>1, <1>2 DEF HasRow
  <2>2. Done(f) => Done(f)'
    BY <1>1, <1>2 DEF Done, IsRecorded
  <2> QED
    BY <1>1, <2>1, <2>2 DEF RowsLast
<1> QED
  BY <1>1, <1>3, <1>4 DEF Effects, TreeMoves

\* The group restored.
LEMMA GroupRestoredEffects ==
    ASSUME Sound, tree' = Restored(tree), UNCHANGED <<made, stored, swept>>
    PROVE  Effects /\ WayLasts
<1> USE SoundFacts
<1>1. Good(tree') /\ tree'.files = tree.files /\ SameShape(tree, tree')
  BY RestoredIsGood DEF Sane, Good
<1>2. \A x \in tree'.files : tree.dirs[x.dir] # None => tree.dirs[x.dir].path = Folder[x.file]
  BY <1>1 DEF Sane, Shape
<1>3. /\ Shape(tree') /\ Older(tree, tree', made) /\ WayLasts
      /\ \A k \in Ids : InTree(tree', k) <=> InTree(tree, k)
  BY <1>1, <1>2, SameShapeMoves DEF WayLasts
<1>4. RowsAreHeld'
  BY <1>1, <1>3, RowsStayHeld DEF CfsFile
<1>5. ASSUME NEW f \in Files PROVE RowsLast(f)
  <2>1. \A k \in Ids : HasRow(tree, f, k) => HasRow(tree', f, k)
    BY <1>1 DEF HasRow
  <2>2. Done(f) => Done(f)'
    BY <1>1, <1>3 DEF Done, IsRecorded, CfsFile
  <2> QED
    BY <1>3, <2>1, <2>2 DEF RowsLast
<1> QED
  BY <1>3, <1>4, <1>5 DEF Effects, TreeMoves

------------------------------------------------------------------------------
(* What is sound stays so *)

\* What is on storage stays there.
LEMMA StorageLasts ==
    ASSUME ContentLasts, NEW p, OnStorage(p)
    PROVE  OnStorage(p)'
BY DEF ContentLasts, OnStorage

\* The job record of a worker's directory is there as long as the directory.
RecordLasts(k) ==
    target'[k] = target[k] \/ (target'[k] = None /\ ~InTree(tree', target[k]))

\* A worker that has no more in hand than it had.
LEMMA HandStays ==
    ASSUME Sound, TreeMoves, ContentLasts, made \subseteq made', NEW k \in Rows, Running(k),
           work'[k].at = work[k].at, work'[k].pc = work[k].pc, work'[k].path = work[k].path,
           work'[k].seen = work[k].seen, work'[k].todo \subseteq work[k].todo, RecordLasts(k)
    PROVE  WorkFits(k)'
<1>1. WorkFits(k) /\ Older(tree, tree', made)
  BY DEF Sound, WorkIsSound, TreeMoves
<1>2. work[k].pc = "schedule" => work'[k].todo \subseteq made'
  BY <1>1 DEF WorkFits
<1>3. ASSUME work[k].at # None PROVE HandFits(work[k], target[k])'
  <2> DEFINE w == work[k]
  <2>1. HandFits(w, target[k]) /\ w.at \in made
    BY <1>1, <1>3 DEF WorkFits, HandFits
  <2>2. target'[k] \in {w.at, None} /\ (InTree(tree', w.at) => target'[k] = w.at)
    BY <1>1, <2>1 DEF HandFits, RecordLasts, Older
  <2>3. tree'.dirs[w.at] # None => tree'.dirs[w.at].path = w.path
    BY <1>1, <2>1 DEF HandFits, PathOf, Older
  <2>4. /\ w.pc # "subdirs" => OnStorage(w.path)'
        /\ w.pc = "make_dirs" => work'[k].todo \subseteq w.seen
        /\ w.pc \in {"make_dirs", "destroy_dirs"} =>
               w.seen \subseteq Subpaths(w.path) /\ \A q \in w.seen : OnStorage(q)'
        /\ w.pc = "make_files" => work'[k].todo \subseteq w.seen
    BY <2>1, StorageLasts DEF HandFits
  <2>5. ASSUME w.pc = "destroy_dirs"
        PROVE  /\ work'[k].todo \subseteq made'
               /\ \A c \in work'[k].todo : tree'.dirs[c] # None =>
                      tree'.dirs[c].parent = w.at /\ tree'.dirs[c].path \notin w.seen
    BY <1>1, <2>1, <2>5 DEF HandFits, PathOf, Older
  <2>6. w.pc \in {"make_files", "destroy_files"} =>
            \A f \in w.seen : f \in Files /\ Folder[f] = w.path /\ stored'[f] # None
    BY <2>1 DEF HandFits, ContentLasts
  <2> QED
    BY <2>1, <2>2, <2>3, <2>4, <2>5, <2>6 DEF HandFits, PathOf
<1> QED
  BY <1>2, <1>3 DEF WorkFits

\* A worker that did nothing, or whose perform is over.
Undisturbed(k) ==
    Running(k)' => Running(k) /\ work'[k] = work[k] /\ RecordLasts(k)

\* It has in hand what it had.
LEMMA UndisturbedFits ==
    ASSUME Sound, TreeMoves, ContentLasts, made \subseteq made', NEW k \in Rows, Undisturbed(k)
    PROVE  WorkFits(k)'
<1>1. CASE Running(k)'
  BY <1>1, HandStays DEF Undisturbed
<1>2. CASE ~Running(k)'
  BY <1>2 DEF WorkFits
<1> QED
  BY <1>1, <1>2

\* The ingest of a single file that did nothing.
LEMMA DirectStays ==
    ASSUME Sound, IInv', TreeMoves, ContentLasts, made \subseteq made', NEW f \in Direct,
           direct'[f] = direct[f], f \in swept' \/ RowsLast(f) \/ (f \in Accrued /\ tree' = tree)
    PROVE  DirectFits(f)'
<1>1. DirectFits(f) /\ Older(tree, tree', made) /\ f \in Files /\ swept \subseteq swept'
  BY ProcessAssumption DEF Sound, DirectIsSound, TreeMoves
<1>2. direct[f].pc \in {"copied", "placed", "recorded"} => stored[f] # None
      /\ (direct[f].pc \in {"placed", "recorded"} => direct[f].at \in made /\ direct[f].at \in Ids)
  BY SoundFacts DEF Sound, IInv, IngestIsPlaced
<1>3. direct[f].pc \in {"placed", "recorded"} /\ tree'.dirs[direct[f].at] # None
          => tree'.dirs[direct[f].at].path = Folder[f]
  BY <1>1, <1>2 DEF DirectFits, PathOf, Older
<1>4. direct[f].pc = "done" => stored'[f] # None
  BY <1>1 DEF DirectFits, ContentLasts
<1>5. direct[f].pc = "recorded" => f \in swept'
          \/ (HasRow(tree', f, direct[f].at) /\ InTree(tree', direct[f].at))
  BY <1>1, <1>2 DEF DirectFits, RowsLast
<1>6. direct[f].pc = "done" => f \in swept' \/ f \in Accrued \/ IsRecorded(f)'
  BY <1>1, <1>4 DEF DirectFits, RowsLast, Done
<1> QED
  BY <1>3, <1>4, <1>5, <1>6 DEF DirectFits, PathOf

\* The tree is as sane after a step as before.
LEMMA SanePrime ==
    ASSUME IInv', TreeMoves
    PROVE  Sane(tree', made') /\ made' \subseteq Ids
BY DEF IInv, TreeIsGood, Sane, TreeMoves, Placed

\* The accrual that did nothing.
LEMMA AccrualStays ==
    ASSUME Sound, IInv', TreeMoves, ContentLasts, accrual' = accrual,
           call'[Accrual].pc = "none"
           \/ (call[Accrual].pc # "none" /\ call'[Accrual].at = call[Accrual].at)
    PROVE  AccrualIsSound'
<1>1. AccrualIsSound /\ accrual.ids \subseteq made /\ Older(tree, tree', made)
  BY DEF Sound, AskedAreMade, TreeMoves
<1>2. \A f \in accrual.copied : stored'[f] # None
  BY <1>1, SoundFacts, ProcessAssumption DEF AccrualIsSound, ContentLasts
<1>3. accrual.pc = "jobs" => \A i \in accrual.ids :
          InTree(tree', i) /\ i # RootId => tree'.dirs[i].parent \in accrual.ids
  <2>1. \A i \in made : InTree(tree', i) => tree'.dirs[i] # None
    BY SanePrime, InTreeFacts, SoundFacts
  <2> QED
    BY <1>1, <2>1 DEF AccrualIsSound, Older
<1> QED
  BY <1>1, <1>2, <1>3 DEF AccrualIsSound

\* What is asked for stays made.
LEMMA AskedStay ==
    ASSUME Sound, made \subseteq made', accrual' = accrual,
           \A k \in Rows : target'[k] \in {target[k], None} \cup made \cup {Group},
           \A c \in Callers : call'[c].at \in {call[c].at, None} \cup made \cup {Group}
    PROVE  AskedAreMade'
BY DEF Sound, AskedAreMade

\* A step in which the workers of W act.
LEMMA SoundSteps ==
    ASSUME Sound, IInv', Effects, ContentLasts, made \subseteq made',
           NEW W \in SUBSET Rows, \A k \in Rows \ W : Undisturbed(k),
           \A k \in W : WorkFits(k)',
           AskedAreMade', UNCHANGED <<direct, accrual>>,
           call'[Accrual].pc = "none"
           \/ (call[Accrual].pc # "none" /\ call'[Accrual].at = call[Accrual].at)
    PROVE  Sound'
<1>1. TreeMoves /\ \A f \in Files \ swept' : RowsLast(f)
  BY DEF Effects
<1>2. WorkIsSound'
  BY <1>1, UndisturbedFits DEF WorkIsSound
<1>3. DirectIsSound'
  BY <1>1, DirectStays, ProcessAssumption DEF DirectIsSound
<1>4. AccrualIsSound'
  BY <1>1, AccrualStays
<1> QED
  BY <1>1, <1>2, <1>3, <1>4 DEF Sound, TreeMoves

------------------------------------------------------------------------------
(* Soundness: the jobs *)

\* A step that moves one worker and nothing else.
LEMMA WorkerMoves ==
    ASSUME Sound, IInv', NEW j \in Rows,
           UNCHANGED <<stored, records, target, direct, accrual, swept>>,
           \A k \in Rows \ {j} : rows'[k] = rows[k] /\ work'[k] = work[k],
           WorkFits(j)', call'[Accrual] = call[Accrual],
           \A c \in Callers : call'[c].at \in {call[c].at, None} \cup made \cup {Group}
    PROVE  Sound' /\ Effects /\ WayLasts
<1>1. Effects /\ WayLasts /\ ContentLasts /\ made' = made
  BY TreeUntouched DEF records, ContentLasts
<1>2. \A k \in Rows \ {j} : Undisturbed(k)
  BY DEF Undisturbed, Running, RecordLasts
<1>3. AskedAreMade'
  BY <1>1, AskedStay
<1>4. call'[Accrual].pc = "none"
      \/ (call[Accrual].pc # "none" /\ call'[Accrual].at = call[Accrual].at)
  OBVIOUS
<1> DEFINE W == {j}
<1>5. W \in SUBSET Rows /\ \A k \in Rows \ W : Undisturbed(k)
  BY <1>2
<1>6. \A k \in W : WorkFits(k)'
  OBVIOUS
<1> HIDE DEF W
<1>7. Sound'
  BY <1>1, <1>3, <1>4, <1>5, <1>6, SoundSteps
<1> QED
  BY <1>1, <1>7

\* A worker's directory, when it has one.
LEMMA WorkerFacts ==
    ASSUME Sound, NEW j \in Rows, Running(j)
    PROVE  /\ work[j] \in WorkRecord /\ WorkFits(j) /\ j # Accrual /\ j \in Callers
           /\ work[j].pc \notin {"idle", "schedule"} =>
                  /\ work[j].at # None /\ HandFits(work[j], target[j])
                  /\ work[j].at \in made /\ work[j].at \in Ids
<1>1. work[j] \in WorkRecord /\ WorkFits(j) /\ made \subseteq Ids
  BY SoundFacts DEF Sound, WorkIsSound
<1>2. work[j].pc \notin {"idle", "schedule"} => work[j].at \in made
  BY DEF Sound, IInv, WorkIsPlaced, WorkPlaced
<1>3. None \notin Ids
  BY NamesAssumption
<1> QED
  BY <1>1, <1>2, <1>3, ProcessAssumption DEF WorkFits, Callers

\* A job begins.
LEMMA ReserveSound ==
    ASSUME Sound, IInv', NEW j \in Rows, Reserve(j)
    PROVE  Sound' /\ Effects /\ WayLasts
<1>1. /\ UNCHANGED <<stored, records, target, direct, accrual, swept, call>>
      /\ target[j] # None /\ rows' = [rows EXCEPT ![j] = Locked(@)]
  BY DEF Reserve, others
<1> DEFINE x == target[j]
           w == IF x = Group THEN [Idle EXCEPT !.pc = "schedule", !.todo = {RootId}]
                ELSE IF tree.dirs[x] = None THEN [Idle EXCEPT !.pc = "schedule"]
                ELSE [Idle EXCEPT !.pc = "subdirs", !.at = x, !.path = tree.dirs[x].path]
<1>2. work' = [work EXCEPT ![j] = w]
  BY Zenon DEF Reserve
<1>3. \A k \in Rows \ {j} : rows'[k] = rows[k] /\ work'[k] = work[k]
  BY <1>1, <1>2, SoundFacts
<1>4. work'[j] = w
  BY <1>2, SoundFacts
<1>5. WorkFits(j)'
  <2>1. CASE x = Group
    BY <1>1, <1>4, <2>1 DEF WorkFits, Idle, records, Sound, IInv, TreeIsGood, Placed
  <2>2. CASE x # Group /\ tree.dirs[x] = None
    BY <1>4, <2>2 DEF WorkFits, Idle
  <2>3. CASE x # Group /\ tree.dirs[x] # None
    <3>1. x \in made /\ tree' = tree /\ made' = made /\ target'[j] = x
      BY <1>1, <2>3 DEF Sound, AskedAreMade, records
    <3>2. work'[j].at = x /\ work'[j].pc = "subdirs" /\ work'[j].path = tree.dirs[x].path
      BY <1>4, <2>3 DEF Idle
    <3> QED
      BY <3>1, <3>2 DEF WorkFits, HandFits, PathOf
  <2> QED
    BY <2>1, <2>2, <2>3
<1> QED
  BY <1>1, <1>3, <1>5, WorkerMoves

\* A job that can not be loaded fails.
LEMMA ReserveGoneSound ==
    ASSUME Sound, IInv', NEW j \in Rows, ReserveGone(j)
    PROVE  Sound' /\ Effects /\ WayLasts
<1>1. /\ UNCHANGED <<stored, records, target, direct, accrual, swept, call, work>>
      /\ rows' = [rows EXCEPT ![j] = AfterDeserializationError]
  BY DEF ReserveGone, others
<1>2. ~Running(j)' /\ \A k \in Rows \ {j} : rows'[k] = rows[k] /\ work'[k] = work[k]
  BY <1>1, SoundFacts DEF Running, AfterDeserializationError
<1>3. WorkFits(j)'
  BY <1>2 DEF WorkFits
<1> QED
  BY <1>1, <1>2, <1>3, WorkerMoves

\* What a step that only moves a worker on leaves alone.
LEMMA MovedAlone ==
    ASSUME Sound, IInv', NEW j \in Rows, NEW w, work' = [work EXCEPT ![j] = w],
           UNCHANGED <<stored, records, rows, target, call, others>>, WorkFits(j)'
    PROVE  Sound' /\ Effects /\ WayLasts
<1>1. /\ UNCHANGED <<stored, records, target, direct, accrual, swept, call>>
      /\ \A k \in Rows \ {j} : rows'[k] = rows[k] /\ work'[k] = work[k]
  BY SoundFacts DEF others
<1> QED
  BY <1>1, WorkerMoves

\* A worker lists its directory.
LEMMA ListSound ==
    ASSUME Sound, IInv', NEW j \in Rows, ListSubdirectories(j) \/ ListFiles(j)
    PROVE  Sound' /\ Effects /\ WayLasts
<1>1. ASSUME NEW pc \in {"subdirs", "files"}, NEW next, NEW seen, List(j, pc, next, seen),
             OnStorage(work[j].path) /\ pc = "subdirs" =>
                 /\ next = "make_dirs" /\ seen \subseteq Subpaths(work[j].path)
                 /\ \A q \in seen : OnStorage(q),
             OnStorage(work[j].path) /\ pc = "files" =>
                 /\ next = "make_files"
                 /\ \A f \in seen : f \in Files /\ Folder[f] = work[j].path /\ stored[f] # None
      PROVE  Sound' /\ Effects /\ WayLasts
  <2>1. /\ Running(j) /\ work[j].pc = pc
        /\ UNCHANGED <<stored, records, rows, target, call, others>>
    BY <1>1 DEF List, At, Running
  <2>2. work[j].at # None /\ HandFits(work[j], target[j])
    BY <2>1, WorkerFacts
  <2>3. CASE OnStorage(work[j].path)
    <3> DEFINE w == [work[j] EXCEPT !.pc = next, !.seen = seen, !.todo = seen]
    <3>1. work' = [work EXCEPT ![j] = w]
      BY <1>1, <2>3 DEF List
    <3>2. work'[j] = w
      BY <3>1, SoundFacts
    <3>3. /\ w.at = work[j].at /\ w.pc = next /\ w.path = work[j].path /\ w.seen = seen
          /\ w.todo = seen
      BY <2>1, WorkerFacts DEF WorkRecord
    <3> HIDE DEF w
    <3>4. tree' = tree /\ made' = made /\ stored' = stored /\ target' = target
      BY <2>1 DEF records
    <3>5. \A q \in Paths : OnStorage(q)' <=> OnStorage(q)
      BY <3>4 DEF OnStorage
    <3>6. HandFits(w, target[j])
      BY <1>1, <2>2, <2>3, <3>3 DEF HandFits
    <3>7. WorkFits(j)'
      BY <1>1, <2>3, <3>2, <3>3, <3>4, <3>6 DEF WorkFits, HandFits, PathOf, OnStorage
    <3> QED
      BY <2>1, <3>1, <3>7, MovedAlone
  <2>4. CASE ~OnStorage(work[j].path)
    <3>1. work' = [work EXCEPT ![j] = [Idle EXCEPT !.pc = "schedule"]]
      BY <1>1, <2>4 DEF List
    <3>2. work'[j] = [Idle EXCEPT !.pc = "schedule"]
      BY <3>1, SoundFacts
    <3>3. WorkFits(j)'
      BY <3>2 DEF WorkFits, Idle
    <3> QED
      BY <2>1, <3>1, <3>3, MovedAlone
  <2> QED
    BY <2>3, <2>4
<1>2. CASE ListSubdirectories(j)
  <2> DEFINE seen == {q \in Subpaths(work[j].path) : OnStorage(q)}
  <2>1. List(j, "subdirs", "make_dirs", seen)
    BY <1>2, Zenon DEF ListSubdirectories
  <2>2. seen \subseteq Subpaths(work[j].path) /\ \A q \in seen : OnStorage(q)
    OBVIOUS
  <2> HIDE DEF seen
  <2> QED
    BY <1>1, <2>1, <2>2
<1>3. CASE ListFiles(j)
  <2> DEFINE seen == {f \in Files : Folder[f] = work[j].path /\ stored[f] # None}
  <2>1. List(j, "files", "make_files", seen)
    BY <1>3, Zenon DEF ListFiles
  <2>2. \A f \in seen : f \in Files /\ Folder[f] = work[j].path /\ stored[f] # None
    OBVIOUS
  <2> HIDE DEF seen
  <2> QED
    BY <1>1, <2>1, <2>2
<1> QED
  BY <1>2, <1>3

\* A worker chooses what to do next.
LEMMA ChoosingSound ==
    ASSUME Sound, IInv', NEW j \in Rows,
           \/ LoadSubdirectories(j) \/ SubdirectoriesDestroyed(j)
           \/ LoadFiles(j) \/ FilesDestroyed(j) \/ FilesAssessed(j)
    PROVE  Sound' /\ Effects /\ WayLasts
<1>1. ASSUME NEW from \in WorkPc \ {"idle", "schedule", "subdirs"},
             NEW pc \in WorkPc \ {"idle", "subdirs", "make_dirs", "make_files"}, NEW todo,
             At(j, from), Do(j, pc, todo),
             pc = "destroy_dirs" => from = "make_dirs" /\ todo \subseteq made
                 /\ \A c \in todo : tree.dirs[c] # None =>
                        tree.dirs[c].parent = Me(j) /\ PathOf(c) \notin work[j].seen,
             pc = "destroy_files" => from = "make_files",
             pc = "schedule" => todo \subseteq made,
             UNCHANGED <<stored, records, rows, target, call, others>>
      PROVE  Sound' /\ Effects /\ WayLasts
  <2>1. Running(j) /\ work[j].pc = from /\ tree' = tree /\ made' = made /\ stored' = stored
        /\ target' = target
    BY <1>1 DEF At, Running, records
  <2>2. work[j].at # None /\ HandFits(work[j], target[j])
    BY <1>1, <2>1, WorkerFacts
  <2> DEFINE w == [work[j] EXCEPT !.pc = pc, !.todo = todo]
  <2>3. work' = [work EXCEPT ![j] = w]
    BY <1>1 DEF Do
  <2>4. work'[j] = w
    BY <2>3, SoundFacts
  <2>5. /\ w.at = work[j].at /\ w.pc = pc /\ w.path = work[j].path /\ w.seen = work[j].seen
        /\ w.todo = todo
    BY <2>1, WorkerFacts DEF WorkRecord
  <2> HIDE DEF w
  <2>6. HandFits(w, target[j])
    BY <1>1, <2>1, <2>2, <2>5 DEF HandFits, Me
  <2>7. WorkFits(j)'
    BY <1>1, <2>1, <2>4, <2>5, <2>6 DEF WorkFits, HandFits, PathOf, OnStorage
  <2> QED
    BY <1>1, <2>3, <2>7, MovedAlone
<1>2. Children(tree, Me(j)) \subseteq made
  BY SoundFacts DEF Children, Sane, Placed
<1>3. CASE LoadSubdirectories(j)
  <2> DEFINE todo == {i \in Children(tree, Me(j)) : tree.dirs[i].path \notin work[j].seen}
  <2>1. At(j, "make_dirs") /\ Do(j, "destroy_dirs", todo)
        /\ UNCHANGED <<stored, records, rows, target, call, others>>
    BY <1>3, Zenon DEF LoadSubdirectories
  <2>2. todo \subseteq made /\ \A c \in todo : tree.dirs[c] # None =>
            tree.dirs[c].parent = Me(j) /\ PathOf(c) \notin work[j].seen
    BY <1>2 DEF Children, PathOf
  <2>3. /\ "make_dirs" \in WorkPc \ {"idle", "schedule", "subdirs"}
        /\ "destroy_dirs" \in WorkPc \ {"idle", "subdirs", "make_dirs", "make_files"}
    BY DEF WorkPc
  <2> HIDE DEF todo
  <2> QED
    BY <1>1, <2>1, <2>2, <2>3
<1>4. CASE SubdirectoriesDestroyed(j)
  <2>1. /\ "destroy_dirs" \in WorkPc \ {"idle", "schedule", "subdirs"}
        /\ "files" \in WorkPc \ {"idle", "subdirs", "make_dirs", "make_files"}
    BY DEF WorkPc
  <2> QED
    BY <1>1, <1>4, <2>1 DEF SubdirectoriesDestroyed
<1>5. CASE LoadFiles(j)
  <2>1. /\ "make_files" \in WorkPc \ {"idle", "schedule", "subdirs"}
        /\ "destroy_files" \in WorkPc \ {"idle", "subdirs", "make_dirs", "make_files"}
    BY DEF WorkPc
  <2> QED
    BY <1>1, <1>5, <2>1 DEF LoadFiles
<1>6. CASE FilesDestroyed(j)
  <2>1. /\ "destroy_files" \in WorkPc \ {"idle", "schedule", "subdirs"}
        /\ "assess" \in WorkPc \ {"idle", "subdirs", "make_dirs", "make_files"}
    BY DEF WorkPc
  <2> QED
    BY <1>1, <1>6, <2>1 DEF FilesDestroyed
<1>7. CASE FilesAssessed(j)
  <2>1. /\ "assess" \in WorkPc \ {"idle", "schedule", "subdirs"}
        /\ "schedule" \in WorkPc \ {"idle", "subdirs", "make_dirs", "make_files"}
    BY DEF WorkPc
  <2> QED
    BY <1>1, <1>2, <1>7, <2>1 DEF FilesAssessed
<1> QED
  BY <1>3, <1>4, <1>5, <1>6, <1>7

\* A worker that has done one of the things it had in hand.
LEMMA DidSound ==
    ASSUME Sound, IInv', NEW j \in Rows, Running(j), NEW x, Did(j, x), Effects,
           made \subseteq made', UNCHANGED <<stored, rows, call, direct, accrual>>,
           \A k \in Rows : RecordLasts(k)
    PROVE  Sound'
<1>1. \A k \in Rows \ {j} : Undisturbed(k)
  BY SoundFacts DEF Did, Undisturbed, Running
<1>2. /\ work'[j].at = work[j].at /\ work'[j].pc = work[j].pc /\ work'[j].path = work[j].path
      /\ work'[j].seen = work[j].seen /\ work'[j].todo \subseteq work[j].todo
  <2>1. work' = [work EXCEPT ![j] = [work[j] EXCEPT !.todo = @ \ {x}]]
    BY DEF Did
  <2>2. work'[j] = [work[j] EXCEPT !.todo = @ \ {x}] /\ work[j] \in WorkRecord
    BY <2>1, SoundFacts
  <2> QED
    BY <2>2 DEF WorkRecord
<1>3. ContentLasts /\ TreeMoves
  BY DEF ContentLasts, Effects
<1>4. WorkFits(j)'
  BY <1>2, <1>3, HandStays
<1>5. AskedAreMade'
  BY AskedStay DEF RecordLasts
<1>6. call'[Accrual].pc = "none"
      \/ (call[Accrual].pc # "none" /\ call'[Accrual].at = call[Accrual].at)
  OBVIOUS
<1> DEFINE W == {j}
<1>7. W \in SUBSET Rows /\ \A k \in Rows \ W : Undisturbed(k)
  BY <1>1
<1>8. \A k \in W : WorkFits(k)'
  BY <1>4
<1> HIDE DEF W
<1> QED
  BY <1>3, <1>5, <1>6, <1>7, <1>8, SoundSteps

\* A worker makes rows of the subdirectories it found.
LEMMA MakeDirectorySound ==
    ASSUME Sound, IInv', NEW j \in Rows, MakeDirectory(j)
    PROVE  Sound' /\ Effects /\ WayLasts
<1>1. PICK p \in work[j].todo :
        /\ Did(j, p)
        /\ IF \E i \in Children(tree, Me(j)) : tree.dirs[i].path = p
           THEN UNCHANGED records
           ELSE /\ made # Ids
                /\ tree' = InsertDirectory(tree, NewId, p, Me(j))
                /\ made' = made \cup {NewId}
  BY Zenon DEF MakeDirectory
<1>2. /\ Running(j) /\ work[j].pc = "make_dirs"
      /\ UNCHANGED <<stored, rows, target, call, accrual, direct, swept>>
  BY DEF MakeDirectory, At, Running, others
<1>3. /\ HandFits(work[j], target[j]) /\ Me(j) \in made /\ Me(j) \in Ids
      /\ p \in Subpaths(work[j].path)
  BY <1>1, <1>2, WorkerFacts DEF HandFits, Me
<1>4. Effects /\ WayLasts /\ made \subseteq made'
  <2>1. CASE \E i \in Children(tree, Me(j)) : tree.dirs[i].path = p
    BY <1>1, <1>2, <2>1, TreeUntouched DEF records
  <2>2. CASE ~ \E i \in Children(tree, Me(j)) : tree.dirs[i].path = p
    <3>1. p \in Paths \ {RootPath} /\ ParentPath[p] = work[j].path
      BY <1>3 DEF Subpaths
    <3>2. tree.dirs[Me(j)] # None => ParentPath[p] = PathOf(Me(j))
      BY <1>3, <3>1 DEF HandFits, Me
    <3>3. SubsAt(tree, Me(j), p) = {}
      BY <2>2 DEF SubsAt
    <3> QED
      BY <1>1, <1>2, <1>3, <2>2, <3>1, <3>2, <3>3, DirectoryMadeEffects
  <2> QED
    BY <2>1, <2>2
<1>5. \A k \in Rows : RecordLasts(k)
  BY <1>2 DEF RecordLasts
<1> QED
  BY <1>1, <1>2, <1>4, <1>5, DidSound

\* What a deletion in a tree comes to: of a row of a file, or of a directory and the
\* record of its job.
DeletesFile(j) ==
    \E r \in tree.files : /\ tree' = DeleteFile(tree, r) /\ Sweep({r.file})
                          /\ UNCHANGED <<target, work>>
DeletesDirectory(j, i) ==
    /\ i # RootId /\ tree.dirs[i] # None /\ Children(tree, i) = {} /\ FilesIn(tree, i) = {}
    /\ work[j].todo \cap Chain(tree, i) # {}
    /\ tree' = DeleteDirectory(tree, i) /\ Did(j, i)
    /\ \/ Scheduled(i) /\ \E k \in Rows : target[k] = i /\ target' = [target EXCEPT ![k] = None]
       \/ ~Scheduled(i) /\ UNCHANGED target
    /\ IF AnotherAbove(j, i)
       THEN Sweep({f \in Files : tree.dirs[i].path \in Ancestors(Folder[f])})
       ELSE UNCHANGED swept

\* It comes to one or the other.
LEMMA DestroyCases ==
    ASSUME Sound, NEW j \in Rows, DestroyInTree(j)
    PROVE  /\ Running(j) /\ work[j].pc = "destroy_dirs"
           /\ UNCHANGED <<stored, made, rows, call, accrual, direct>>
           /\ DeletesFile(j) \/ \E i \in Ids : DeletesDirectory(j, i)
<1> DEFINE below(i) == {f \in Files : tree.dirs[i].path \in Ancestors(Folder[f])}
<1>1. PICK top \in work[j].todo, i \in Ids :
        /\ top \in Chain(tree, i) /\ Children(tree, i) = {}
        /\ IF FilesIn(tree, i) # {}
           THEN \E r \in FilesIn(tree, i) :
                    /\ tree' = DeleteFile(tree, r) /\ Sweep({r.file})
                    /\ UNCHANGED <<target, work>>
           ELSE /\ tree' = DeleteDirectory(tree, i)
                /\ IF Scheduled(i)
                   THEN \E k \in Rows : target[k] = i /\ target' = [target EXCEPT ![k] = None]
                   ELSE UNCHANGED target
                /\ Did(j, i)
                /\ IF AnotherAbove(j, i) THEN Sweep(below(i)) ELSE UNCHANGED swept
  BY Zenon DEF DestroyInTree
<1>2. TreeIsGood /\ top \in Ids \ {RootId}
  BY <1>1, JobFacts DEF Sound, DestroyInTree, At, TodoFits
<1>3. i # RootId /\ tree.dirs[i] # None
  BY <1>1, <1>2, RootAlone, ChainClosed DEF Present, TreeIsGood, Good, TreeType
<1>4. CASE FilesIn(tree, i) # {}
  <2>1. \E r \in FilesIn(tree, i) :
            tree' = DeleteFile(tree, r) /\ Sweep({r.file}) /\ UNCHANGED <<target, work>>
    BY <1>1, <1>4, Zenon
  <2>2. DeletesFile(j)
    BY <2>1 DEF FilesIn, DeletesFile
  <2> QED
    BY <2>2 DEF DestroyInTree, At, Running
<1>5. CASE FilesIn(tree, i) = {}
  <2>1. /\ tree' = DeleteDirectory(tree, i)
        /\ IF Scheduled(i)
           THEN \E k \in Rows : target[k] = i /\ target' = [target EXCEPT ![k] = None]
           ELSE UNCHANGED target
        /\ Did(j, i)
        /\ IF AnotherAbove(j, i) THEN Sweep(below(i)) ELSE UNCHANGED swept
    BY <1>1, <1>5, Zenon
  <2>2. work[j].todo \cap Chain(tree, i) # {}
    BY <1>1
  <2>3. DeletesDirectory(j, i)
    BY <1>1, <1>3, <1>5, <2>1, <2>2, Zenon DEF DeletesDirectory
  <2> QED
    BY <2>3 DEF DestroyInTree, At, Running
<1> QED
  BY <1>4, <1>5

\* A worker destroys rows of directories gone from storage.
LEMMA DestroyInTreeSound ==
    ASSUME Sound, IInv', NEW j \in Rows, DestroyInTree(j)
    PROVE  Sound' /\ Effects /\ (DeletesFile(j) => WayLasts)
<1>1. /\ Running(j) /\ UNCHANGED <<stored, made, rows, call, accrual, direct>>
      /\ DeletesFile(j) \/ \E i \in Ids : DeletesDirectory(j, i)
  BY DestroyCases
<1>2. CASE DeletesFile(j)
  <2>1. Effects /\ WayLasts /\ UNCHANGED <<target, work>>
    BY <1>1, <1>2, FileDestroyedEffects DEF DeletesFile
  <2>2. \A k \in Rows : Undisturbed(k)
    BY <1>1, <2>1 DEF Undisturbed, Running, RecordLasts
  <2>3. AskedAreMade'
    BY <1>1, <2>1, AskedStay
  <2>4. ContentLasts
    BY <1>1 DEF ContentLasts
  <2>5. call'[Accrual].pc = "none"
        \/ (call[Accrual].pc # "none" /\ call'[Accrual].at = call[Accrual].at)
    BY <1>1
  <2> DEFINE W == {}
  <2>6. W \in SUBSET Rows /\ (\A k \in Rows \ W : Undisturbed(k)) /\ \A k \in W : WorkFits(k)'
    BY <2>2
  <2> HIDE DEF W
  <2>7. Sound'
    BY <1>1, <2>1, <2>3, <2>4, <2>5, <2>6, SoundSteps
  <2> QED
    BY <2>1, <2>7
<1>3. CASE ~DeletesFile(j)
  <2>1. PICK i \in Ids : DeletesDirectory(j, i)
    BY <1>1, <1>3
  <2>2. swept \subseteq swept'
    BY <2>1 DEF DeletesDirectory, Sweep
  <2>3. Effects /\ ~InTree(tree', i)
    BY <1>1, <2>1, <2>2, DirectoryDestroyedEffects DEF DeletesDirectory
  <2>4. \A k \in Rows : RecordLasts(k)
    BY <2>1, <2>3, SoundFacts DEF DeletesDirectory, RecordLasts
  <2> QED
    BY <1>1, <1>3, <2>1, <2>3, <2>4, DidSound DEF DeletesDirectory
<1> QED
  BY <1>2, <1>3

\* A worker makes rows of the files it found.
LEMMA MakeFileSound ==
    ASSUME Sound, IInv', NEW j \in Rows, MakeFile(j)
    PROVE  Sound' /\ Effects /\ WayLasts
<1>1. PICK f \in work[j].todo : Did(j, f) /\ Insert(f, Me(j))
  BY DEF MakeFile
<1>2. /\ Running(j) /\ work[j].pc = "make_files"
      /\ UNCHANGED <<stored, made, rows, target, call, accrual, direct>>
  BY DEF MakeFile, At, Running
<1>3. /\ Me(j) \in made /\ f \in Files /\ stored[f] # None
      /\ tree.dirs[Me(j)] # None => PathOf(Me(j)) = Folder[f]
  BY <1>1, <1>2, WorkerFacts DEF HandFits, Me
<1>4. Effects /\ WayLasts
  BY <1>1, <1>2, <1>3, FileMadeEffects
<1>5. \A k \in Rows : RecordLasts(k)
  BY <1>2 DEF RecordLasts
<1> QED
  BY <1>1, <1>2, <1>4, <1>5, DidSound

\* A worker destroys rows of files it did not find.
LEMMA DestroyFileSound ==
    ASSUME Sound, IInv', NEW j \in Rows, DestroyFile(j)
    PROVE  Sound' /\ Effects /\ WayLasts
<1>1. PICK f \in work[j].todo :
        /\ Did(j, f)
        /\ IF \E r \in FilesIn(tree, Me(j)) : r.file = f
           THEN /\ tree' = DeleteFile(tree, CHOOSE r \in FilesIn(tree, Me(j)) : r.file = f)
                /\ Sweep({f})
           ELSE UNCHANGED <<tree, swept>>
  BY Zenon DEF DestroyFile
<1>2. /\ Running(j) /\ UNCHANGED <<stored, made, rows, target, call, accrual, direct>>
  BY DEF DestroyFile, At, Running
<1>3. Effects /\ WayLasts
  <2>1. CASE \E r \in FilesIn(tree, Me(j)) : r.file = f
    <3> DEFINE r == CHOOSE r \in FilesIn(tree, Me(j)) : r.file = f
    <3>1. r \in FilesIn(tree, Me(j)) /\ r.file = f
      BY <2>1
    <3>2. tree' = DeleteFile(tree, r) /\ Sweep({f})
      BY <1>1, <2>1
    <3> HIDE DEF r
    <3> QED
      BY <1>2, <3>1, <3>2, FileDestroyedEffects DEF FilesIn
  <2>2. CASE ~ \E r \in FilesIn(tree, Me(j)) : r.file = f
    BY <1>1, <1>2, <2>2, TreeUntouched
  <2> QED
    BY <2>1, <2>2
<1>4. \A k \in Rows : RecordLasts(k)
  BY <1>2 DEF RecordLasts
<1> QED
  BY <1>1, <1>2, <1>3, <1>4, DidSound

\* A worker sizes a file, or raises.
LEMMA AssessFileSound ==
    ASSUME Sound, IInv', NEW j \in Rows, AssessFile(j)
    PROVE  Sound' /\ Effects /\ WayLasts
<1>1. PICK f \in work[j].todo :
        IF stored[f] # None /\ \E r \in FilesIn(tree, Me(j)) : r.file = f
        THEN /\ tree' = UpdateSize(tree, CHOOSE r \in FilesIn(tree, Me(j)) : r.file = f, stored[f])
             /\ Did(j, f) /\ UNCHANGED rows
        ELSE Raise(j) /\ UNCHANGED tree
  BY Zenon DEF AssessFile
<1>2. Running(j) /\ UNCHANGED <<stored, made, target, call, accrual, direct, swept>>
  BY DEF AssessFile, At, Running, others
<1>3. CASE stored[f] # None /\ \E r \in FilesIn(tree, Me(j)) : r.file = f
  <2> DEFINE r == CHOOSE r \in FilesIn(tree, Me(j)) : r.file = f
  <2>1. r \in FilesIn(tree, Me(j)) /\ r.file = f
    BY <1>3
  <2>2. tree' = UpdateSize(tree, r, stored[f]) /\ Did(j, f) /\ UNCHANGED rows
    BY <1>1, <1>3
  <2> HIDE DEF r
  <2>3. Effects /\ WayLasts
    BY <1>2, <1>3, <2>1, <2>2, FileSizedEffects DEF FilesIn
  <2>4. \A k \in Rows : RecordLasts(k)
    BY <1>2 DEF RecordLasts
  <2> QED
    BY <1>2, <2>2, <2>3, <2>4, DidSound
<1>4. CASE ~(stored[f] # None /\ \E r \in FilesIn(tree, Me(j)) : r.file = f)
  <2>1. Raise(j) /\ UNCHANGED tree
    BY <1>1, <1>4
  <2>2. \A k \in Rows \ {j} : rows'[k] = rows[k] /\ work'[k] = work[k]
    BY <2>1 DEF Raise, Sound, IInv, TypeOK
  <2>3. ~Running(j)'
    BY <2>1, SoundFacts, StatusSteps DEF Raise, Running
  <2> QED
    BY <1>2, <2>1, <2>2, <2>3, WorkerMoves DEF records, WorkFits
<1> QED
  BY <1>3, <1>4

\* A worker calls for a job of a subdirectory.
LEMMA ScheduleSubdirectorySound ==
    ASSUME Sound, IInv', NEW j \in Rows, ScheduleSubdirectory(j)
    PROVE  Sound' /\ Effects /\ WayLasts
<1>1. PICK i \in work[j].todo : Did(j, i) /\ Calls(j, i)
  BY DEF ScheduleSubdirectory
<1>2. /\ Running(j) /\ work[j].pc = "schedule"
      /\ UNCHANGED <<stored, records, rows, target, direct, accrual, swept>>
  BY DEF ScheduleSubdirectory, At, Running, others
<1>3. work[j].todo \subseteq made /\ j \in Callers /\ j # Accrual
  BY <1>2, WorkerFacts DEF WorkFits
<1>4. /\ call'[Accrual] = call[Accrual]
      /\ \A c \in Callers : call'[c].at \in {call[c].at, None} \cup made \cup {Group}
  BY <1>1, <1>3, SoundFacts DEF Calls, Callers
<1>5. \A k \in Rows \ {j} : work'[k] = work[k]
  BY <1>1, SoundFacts DEF Did
<1>6. /\ work'[j].at = work[j].at /\ work'[j].pc = work[j].pc /\ work'[j].path = work[j].path
      /\ work'[j].seen = work[j].seen /\ work'[j].todo \subseteq work[j].todo
  <2>1. work' = [work EXCEPT ![j] = [work[j] EXCEPT !.todo = @ \ {i}]]
    BY <1>1 DEF Did
  <2>2. work'[j] = [work[j] EXCEPT !.todo = @ \ {i}] /\ work[j] \in WorkRecord
    BY <2>1, SoundFacts
  <2> QED
    BY <2>2 DEF WorkRecord
<1>7. TreeMoves /\ ContentLasts /\ made \subseteq made' /\ RecordLasts(j)
  BY <1>2, TreeUntouched DEF records, ContentLasts, RecordLasts
<1>8. WorkFits(j)'
  BY <1>2, <1>6, <1>7, HandStays
<1> QED
  BY <1>2, <1>4, <1>5, <1>8, WorkerMoves

\* A step in which a job's perform ends, one way or another.
LEMMA PerformEndsSound ==
    ASSUME Sound, IInv', NEW j \in Rows, UNCHANGED <<stored, records, accrual, direct, swept>>,
           ~Running(j)', \A k \in Rows \ {j} : rows'[k] = rows[k] /\ work'[k] = work[k],
           \A k \in Rows : target'[k] = target[k] \/ (k = j /\ target'[k] = None),
           UNCHANGED call \/ Returns(j)
    PROVE  Sound' /\ Effects /\ WayLasts
<1>1. Effects /\ WayLasts /\ ContentLasts /\ made' = made
  BY TreeUntouched DEF records, ContentLasts
<1>2. \A k \in Rows : Undisturbed(k)
  BY DEF Undisturbed, Running, RecordLasts
<1>3. /\ call'[Accrual] = call[Accrual]
      /\ \A c \in Callers : call'[c].at \in {call[c].at, None}
  BY SoundFacts, ProcessAssumption DEF Returns, Callers, Answered, NoCall
<1>4. AskedAreMade'
  BY <1>1, <1>3, AskedStay
<1>5. call'[Accrual].pc = "none"
      \/ (call[Accrual].pc # "none" /\ call'[Accrual].at = call[Accrual].at)
  BY <1>3
<1> DEFINE W == {}
<1>6. W \in SUBSET Rows /\ (\A k \in Rows \ W : Undisturbed(k)) /\ \A k \in W : WorkFits(k)'
  BY <1>2
<1> HIDE DEF W
<1>7. Sound'
  BY <1>1, <1>4, <1>5, <1>6, SoundSteps
<1> QED
  BY <1>1, <1>7

\* A worker is done, with its job's record and with its row.
LEMMA FinishSound ==
    ASSUME Sound, IInv', NEW j \in Rows, Finish(j)
    PROVE  Sound' /\ Effects /\ WayLasts
<1>1. /\ UNCHANGED <<stored, records, accrual, direct, swept, call>>
      /\ target' = [target EXCEPT ![j] = None] /\ rows' = [rows EXCEPT ![j] = Absent]
      /\ work' = [work EXCEPT ![j] = Idle]
  BY DEF Finish, others
<1>2. ~Running(j)' /\ \A k \in Rows \ {j} : rows'[k] = rows[k] /\ work'[k] = work[k]
  BY <1>1, SoundFacts DEF Running, Absent
<1>3. \A k \in Rows : target'[k] = target[k] \/ (k = j /\ target'[k] = None)
  BY <1>1, SoundFacts
<1> QED
  BY <1>1, <1>2, <1>3, PerformEndsSound

\* A perform raises, or its process dies.
LEMMA InterruptSound ==
    ASSUME Sound, IInv', NEW j \in Rows, Interrupt(j)
    PROVE  Sound' /\ Effects /\ WayLasts
<1>1. /\ UNCHANGED <<stored, records, accrual, direct, swept>> /\ Returns(j)
      /\ rows' = [rows EXCEPT ![j] = AfterRaise(@)] \/ rows' = [rows EXCEPT ![j] = AfterCrash(@)]
      /\ target' = target \/ target' = [target EXCEPT ![j] = None]
      /\ work' = [work EXCEPT ![j] = Idle] /\ Running(j)
  BY DEF Interrupt, Running
<1>2. ~Running(j)' /\ \A k \in Rows \ {j} : rows'[k] = rows[k] /\ work'[k] = work[k]
  BY <1>1, SoundFacts, StatusSteps DEF Running
<1>3. \A k \in Rows : target'[k] = target[k] \/ (k = j /\ target'[k] = None)
  BY <1>1, SoundFacts
<1> QED
  BY <1>1, <1>2, <1>3, PerformEndsSound

------------------------------------------------------------------------------
(* Soundness: callers, the accrual and single files *)

\* A step in which no worker acts.
LEMMA OthersSound ==
    ASSUME Sound, IInv', TreeMoves, ContentLasts, made \subseteq made',
           \A k \in Rows : Undisturbed(k), AskedAreMade', AccrualIsSound',
           \A f \in Direct : DirectFits(f)'
    PROVE  Sound'
<1>1. WorkIsSound'
  BY UndisturbedFits DEF WorkIsSound
<1> QED
  BY <1>1 DEF Sound, TreeMoves, DirectIsSound

\* A step that leaves the tree, the workers and the single files alone.
LEMMA CallerMoves ==
    ASSUME Sound, IInv', UNCHANGED <<stored, records, work, direct, swept>>,
           \A k \in Rows : Running(k)' => Running(k) /\ target'[k] = target[k],
           AskedAreMade', AccrualIsSound'
    PROVE  Sound' /\ Effects /\ WayLasts
<1>1. Effects /\ WayLasts /\ ContentLasts /\ made' = made
  BY TreeUntouched DEF records, ContentLasts
<1>2. \A k \in Rows : Undisturbed(k)
  BY DEF Undisturbed, RecordLasts
<1>3. \A f \in Direct : DirectFits(f)'
  BY <1>1, DirectStays, ProcessAssumption DEF Effects
<1> QED
  BY <1>1, <1>2, <1>3, OthersSound DEF Effects

\* A call of schedule_assessment_job goes on.
LEMMA CallStepSound ==
    ASSUME Sound, IInv', NEW c \in Callers, CallStep(c)
    PROVE  Sound' /\ Effects /\ WayLasts
<1> USE SoundFacts
<1>1. UNCHANGED <<stored, records, work, direct, swept, accrual>>
  BY DEF CallStep, Look, CreateJob, EnqueueJob, others
<1>2. TreeMoves /\ ContentLasts
  BY <1>1, TreeUntouched DEF records, ContentLasts
<1>3. /\ \A b \in Callers : call'[b].at \in {call[b].at, None}
      /\ call'[Accrual].pc = "none"
         \/ (call[Accrual].pc # "none" /\ call'[Accrual].at = call[Accrual].at)
  <2>1. Accrual \in Callers /\ Accrual \notin Requests
    BY ProcessAssumption DEF Callers
  <2>2. CASE Returns(c)
    BY <2>1, <2>2 DEF Returns, Answered, NoCall
  <2>3. CASE /\ call[c].pc = "look" /\ call' = [call EXCEPT ![c].pc = "create"]
    BY <2>1, <2>3 DEF CallRecord
  <2>4. CASE /\ call[c].pc = "create"
             /\ \E j \in Rows : call' = [call EXCEPT ![c].pc = "enqueue", ![c].job = j]
    BY <2>1, <2>4 DEF CallRecord
  <2>5. CreateJob(c) => \E j \in Rows : call' = [call EXCEPT ![c].pc = "enqueue", ![c].job = j]
    <3> DEFINE free == {j \in FreeRows : target[j] = None /\ \A b \in Callers : call[b].job # j}
    <3> SUFFICES ASSUME CreateJob(c)
                 PROVE  \E j \in Rows : call' = [call EXCEPT ![c].pc = "enqueue", ![c].job = j]
      OBVIOUS
    <3>1. free # {} /\ call' = [call EXCEPT ![c].pc = "enqueue",
                                            ![c].job = CHOOSE k \in free : TRUE]
      BY Zenon DEF CreateJob
    <3>2. (CHOOSE k \in free : TRUE) \in free
      BY <3>1
    <3> QED
      BY <3>1, <3>2, Zenon DEF FreeRows
  <2> QED
    BY <2>2, <2>3, <2>4, <2>5 DEF CallStep, Look, CreateJob, EnqueueJob
<1>4. /\ \A k \in Rows : target'[k] \in {target[k], call[c].at}
      /\ \A k \in Rows : Running(k)' => Running(k) /\ target'[k] = target[k]
  <2>1. CASE Look(c)
    BY <2>1 DEF Look, Running
  <2>2. CASE CreateJob(c)
    <3> DEFINE free == {j \in FreeRows : target[j] = None /\ \A b \in Callers : call[b].job # j}
    <3>1. /\ free # {} /\ rows' = rows
          /\ target' = [target EXCEPT ![CHOOSE k \in free : TRUE] = call[c].at]
      BY <2>2, Zenon DEF CreateJob
    <3>2. (CHOOSE k \in free : TRUE) \in free
      BY <3>1
    <3> QED
      BY <3>1, <3>2 DEF FreeRows, Running
  <2>3. CASE EnqueueJob(c)
    <3>1. rows' = [rows EXCEPT ![call[c].job] = Fresh] /\ target' = target
      BY <2>3 DEF EnqueueJob
    <3> QED
      BY <3>1 DEF Running, Fresh
  <2> QED
    BY <2>1, <2>2, <2>3 DEF CallStep
<1>5. AskedAreMade'
  BY <1>1, <1>3, <1>4, Zenon DEF Sound, AskedAreMade, records
<1>6. AccrualIsSound'
  BY <1>1, <1>2, <1>3, AccrualStays
<1> QED
  BY <1>1, <1>4, <1>5, <1>6, CallerMoves

\* A caller dies.
LEMMA CallDiesSound ==
    ASSUME Sound, IInv', NEW c \in Callers, CallDies(c)
    PROVE  Sound' /\ Effects /\ WayLasts
<1> USE SoundFacts
<1>1. /\ UNCHANGED <<stored, records, work, direct, swept, rows, target>> /\ Returns(c)
      /\ accrual' = IF c = Accrual THEN [accrual EXCEPT !.pc = "dead"] ELSE accrual
  BY DEF CallDies
<1>2. TreeMoves /\ ContentLasts
  BY <1>1, TreeUntouched DEF records, ContentLasts
<1>3. /\ \A b \in Callers : call'[b].at \in {call[b].at, None}
      /\ call'[Accrual].pc = "none" \/ call'[Accrual] = call[Accrual]
  BY <1>1, ProcessAssumption DEF Returns, Answered, NoCall, Callers
<1>4. AskedAreMade'
  BY <1>1, <1>3 DEF Sound, AskedAreMade, records
<1>5. AccrualIsSound'
  <2>1. CASE c = Accrual
    BY <1>1, <1>2, <2>1, ProcessAssumption DEF Sound, AccrualIsSound, ContentLasts
  <2>2. CASE c # Accrual
    BY <1>1, <1>2, <1>3, <2>2, AccrualStays
  <2> QED
    BY <2>1, <2>2
<1> QED
  BY <1>1, <1>4, <1>5, CallerMoves DEF Running

\* A person asks for an assessment.
LEMMA RequestSound ==
    ASSUME Sound, IInv', NEW q \in Requests, Request(q)
    PROVE  Sound' /\ Effects /\ WayLasts
<1> USE SoundFacts
<1>1. UNCHANGED <<stored, records, work, direct, swept, rows, target, accrual>>
  BY DEF Request, others
<1>2. PICK x \in {Group} \cup {i \in Ids : InTree(tree, i)} : Calls(q, x)
  BY DEF Request
<1>3. x \in made \cup {Group}
  BY <1>2, InTreeFacts
<1>4. TreeMoves /\ ContentLasts
  BY <1>1, TreeUntouched DEF records, ContentLasts
<1>5. /\ \A b \in Callers : call'[b].at \in {call[b].at, x}
      /\ call'[Accrual] = call[Accrual]
  BY <1>2, ProcessAssumption DEF Calls, Callers
<1>6. AskedAreMade'
  BY <1>1, <1>3, <1>5 DEF Sound, AskedAreMade, records
<1>7. AccrualIsSound'
  BY <1>1, <1>4, <1>5, AccrualStays
<1> QED
  BY <1>1, <1>6, <1>7, CallerMoves DEF Running

\* The accrual looks for pending jobs, and has the assessment scheduled.
LEMMA AccrualMovesSound ==
    ASSUME Sound, IInv', AccrualReadsTree \/ AccrualReadsJobs \/ AccrualAwaits
    PROVE  Sound' /\ Effects /\ WayLasts
<1> USE SoundFacts
<1>1. UNCHANGED <<stored, records, rows, target, work, direct, swept>>
  BY DEF AccrualReadsTree, AccrualReadsJobs, AccrualAwaits, AccrualMoves
<1>2. tree' = tree /\ made' = made /\ stored' = stored
  BY <1>1 DEF records
<1>3. AskedAreMade' /\ AccrualIsSound'
  <2>1. CASE AccrualReadsTree
    <3> DEFINE ids == {i \in Ids : InTree(tree, i)}
    <3>1. /\ accrual' = [accrual EXCEPT !.pc = "jobs", !.ids = ids] /\ call' = call
          /\ accrual.copied = Accrued
      BY <2>1, Zenon DEF AccrualReadsTree, AccrualMoves, Sound, AccrualIsSound
    <3>2. ids \subseteq made /\ \A i \in ids : i # RootId => tree.dirs[i].parent \in ids
      BY InTreeFacts
    <3>3. accrual'.pc = "jobs" /\ accrual'.ids = ids /\ accrual'.copied = Accrued
      BY <3>1
    <3> QED
      BY <1>1, <1>2, <3>1, <3>2, <3>3 DEF Sound, AskedAreMade, AccrualIsSound
  <2>2. CASE AccrualReadsJobs
    <3>1. accrual.copied = Accrued
      BY <2>2 DEF AccrualReadsJobs, Sound, AccrualIsSound
    <3>2. \E pc \in {"ids", "schedule"} :
             /\ accrual' = [accrual EXCEPT !.pc = pc, !.ids = {}]
             /\ (pc = "ids" /\ call' = call) \/ Calls(Accrual, RootId)
      BY <2>2 DEF AccrualReadsJobs, AccrualMoves
    <3>3. accrual'.pc \in {"ids", "schedule"} /\ accrual'.ids = {} /\ accrual'.copied = Accrued
      BY <3>1, <3>2
    <3>4. /\ \A c \in Callers : call'[c].at \in {call[c].at, RootId}
          /\ accrual'.pc = "schedule" => call'[Accrual].at = RootId
      BY <3>2, ProcessAssumption DEF Calls, Callers
    <3>5. RootId \in made
      BY DEF Sane, Placed
    <3> QED
      BY <1>1, <1>2, <3>1, <3>3, <3>4, <3>5 DEF Sound, AskedAreMade, AccrualIsSound
  <2>3. CASE AccrualAwaits
    <3>1. /\ accrual' = [accrual EXCEPT !.pc = "await", !.ids = {}] /\ call' = call
          /\ accrual.copied = Accrued
      BY <2>3 DEF AccrualAwaits, AccrualMoves, Sound, AccrualIsSound
    <3>2. accrual'.pc = "await" /\ accrual'.ids = {} /\ accrual'.copied = Accrued
      BY <3>1
    <3> QED
      BY <1>1, <1>2, <3>1, <3>2 DEF Sound, AskedAreMade, AccrualIsSound
  <2> QED
    BY <2>1, <2>2, <2>3
<1> QED
  BY <1>1, <1>3, CallerMoves DEF Running

\* Content comes to be stored; of the records nothing changes.
LEMMA ContentSound ==
    ASSUME Sound, IInv', UNCHANGED <<records, jobs>>, swept \subseteq swept',
           NEW f \in Files, NEW size \in Sizes, stored' = [stored EXCEPT ![f] = size],
           AccrualIsSound', accrual'.ids = accrual.ids,
           \A g \in Direct : DirectFits(g)' \/ (direct'[g] = direct[g] /\ (g # f \/ f \in Accrued))
    PROVE  Sound' /\ TreeMoves /\ ContentLasts /\ WayLasts /\ stored'[f] # None
           /\ \A g \in Files \ {f} : RowsLast(g) /\ stored'[g] = stored[g]
<1> USE SoundFacts
<1>1. /\ tree' = tree /\ made' = made /\ rows' = rows /\ target' = target /\ work' = work
      /\ call' = call
  BY DEF records, jobs
<1>2. TreeMoves /\ WayLasts
  BY <1>1, TreeUntouched
<1>3. ContentLasts /\ stored'[f] # None
  BY NamesAssumption DEF ContentLasts
<1>4. \A g \in Files \ {f} : RowsLast(g) /\ stored'[g] = stored[g]
  BY <1>1 DEF RowsLast, Done, IsRecorded
<1>5. \A k \in Rows : Undisturbed(k)
  BY <1>1 DEF Undisturbed, Running, RecordLasts
<1>6. AskedAreMade'
  BY <1>1 DEF Sound, AskedAreMade
<1>7. \A g \in Direct : DirectFits(g)'
  BY <1>1, <1>2, <1>3, <1>4, DirectStays, ProcessAssumption
<1> QED
  BY <1>1, <1>2, <1>3, <1>4, <1>5, <1>6, <1>7, OthersSound

\* The accrual copies a file.
LEMMA AccrualCopiesSound ==
    ASSUME Sound, IInv', NEW f \in Accrued, AccrualCopies(f)
    PROVE  Sound' /\ TreeMoves /\ ContentLasts /\ WayLasts
           /\ \A g \in Files \ {f} : RowsLast(g) /\ stored'[g] = stored[g]
<1> USE SoundFacts
<1>1. PICK size \in Sizes : stored' = [stored EXCEPT ![f] = size]
  BY DEF AccrualCopies
<1>2. /\ UNCHANGED <<records, jobs, direct, swept>> /\ f \in Files
      /\ accrual' = [accrual EXCEPT !.copied = @ \cup {f}] /\ accrual.pc = "copy"
  BY ProcessAssumption DEF AccrualCopies
<1>3. accrual'.pc = "copy" /\ accrual'.copied = accrual.copied \cup {f}
      /\ accrual'.ids = accrual.ids
  BY <1>2
<1>4. \A g \in accrual.copied \cup {f} : stored'[g] # None
  BY <1>1, <1>2, NamesAssumption, ProcessAssumption DEF Sound, AccrualIsSound
<1>5. AccrualIsSound'
  BY <1>3, <1>4 DEF AccrualIsSound
<1> QED
  BY <1>1, <1>2, <1>3, <1>5, ContentSound

\* Content of a single file arrives.
LEMMA IngestContentSound ==
    ASSUME Sound, IInv', NEW f \in Direct, IngestContent(f)
    PROVE  Sound' /\ TreeMoves /\ ContentLasts /\ WayLasts /\ stored[f] = None
           /\ stored'[f] # None /\ \A g \in Files \ {f} : RowsLast(g) /\ stored'[g] = stored[g]
<1> USE SoundFacts
<1>1. PICK size \in Sizes : stored' = [stored EXCEPT ![f] = size]
  BY DEF IngestContent
<1>2. /\ UNCHANGED <<records, jobs, accrual>> /\ f \in Files /\ swept \subseteq swept'
      /\ direct' = [direct EXCEPT ![f] = [pc |-> "copied", at |-> None]] /\ stored[f] = None
  BY ProcessAssumption DEF IngestContent, DirectMoves
<1>3. AccrualIsSound'
  <2>1. \A g \in accrual.copied : stored'[g] # None
    BY <1>1, NamesAssumption, ProcessAssumption DEF Sound, AccrualIsSound
  <2>2. tree' = tree /\ call' = call
    BY <1>2 DEF records, jobs
  <2> QED
    BY <1>2, <2>1, <2>2 DEF Sound, AccrualIsSound
<1>4. DirectFits(f)' /\ \A g \in Direct \ {f} : direct'[g] = direct[g]
  BY <1>2 DEF DirectFits
<1>5. \A g \in Direct : DirectFits(g)' \/ (direct'[g] = direct[g] /\ (g # f \/ f \in Accrued))
  BY <1>4
<1>6. accrual'.ids = accrual.ids
  BY <1>2
<1> QED
  BY <1>1, <1>2, <1>3, <1>5, <1>6, ContentSound

\* A step of the ingest of a single file that makes or finds records.
LEMMA IngestSound ==
    ASSUME Sound, IInv', Effects, made \subseteq made', UNCHANGED <<stored, jobs, accrual>>,
           NEW f \in Direct, DirectFits(f)' \/ direct'[f] = direct[f],
           \A g \in Direct \ {f} : direct'[g] = direct[g]
    PROVE  Sound'
<1>1. /\ rows' = rows /\ target' = target /\ work' = work /\ call' = call
  BY DEF jobs
<1>2. TreeMoves /\ ContentLasts /\ \A k \in Rows : Undisturbed(k)
  BY <1>1 DEF Effects, ContentLasts, Undisturbed, Running, RecordLasts
<1>3. AskedAreMade'
  BY <1>1 DEF Sound, AskedAreMade
<1>4. AccrualIsSound'
  BY <1>1, <1>2, AccrualStays
<1>5. \A g \in Direct : DirectFits(g)'
  BY <1>2, DirectStays, ProcessAssumption DEF Effects
<1> QED
  BY <1>2, <1>3, <1>4, <1>5, OthersSound

\* What is found at a path is in the tree there.
LEMMA FoundFacts ==
    ASSUME Sound, NEW p
    PROVE  /\ Found(tree, p) # None =>
                  /\ Found(tree, p) \in made /\ Found(tree, p) \in Ids
                  /\ InTree(tree, Found(tree, p)) /\ PathOf(Found(tree, p)) = p
           /\ Found(tree, p) = None => \A i \in Ids : InTree(tree, i) => PathOf(i) # p
<1> DEFINE at == {i \in Ids : InTree(tree, i) /\ tree.dirs[i].path = p}
<1>1. Found(tree, p) = IF at = {} THEN None ELSE CHOOSE i \in at : TRUE
  BY Zenon DEF Found
<1>2. at # {} => (CHOOSE i \in at : TRUE) \in at
  OBVIOUS
<1>3. \A i \in Ids : InTree(tree, i) => i \in made
  BY SoundFacts, InTreeFacts
<1>4. None \notin Ids
  BY NamesAssumption
<1> QED
  BY <1>1, <1>2, <1>3, <1>4 DEF PathOf

\* Directories of a single file are made, or its directory is found.
LEMMA IngestParentsSound ==
    ASSUME Sound, IInv', NEW f \in Direct, IngestParents(f)
    PROVE  Sound' /\ Effects /\ WayLasts
<1>1. UNCHANGED <<stored, jobs, accrual, swept>> /\ f \in Files
  BY ProcessAssumption DEF IngestParents
<1>2. CASE \E p \in Ancestors(Folder[f]) \ {RootPath} :
              /\ Found(tree, p) = None /\ Found(tree, ParentPath[p]) # None /\ made # Ids
              /\ tree' = InsertDirectory(tree, NewId, p, Found(tree, ParentPath[p]))
              /\ made' = made \cup {NewId}
              /\ UNCHANGED direct
  <2>1. PICK p \in Ancestors(Folder[f]) \ {RootPath} :
              /\ Found(tree, p) = None /\ Found(tree, ParentPath[p]) # None /\ made # Ids
              /\ tree' = InsertDirectory(tree, NewId, p, Found(tree, ParentPath[p]))
              /\ made' = made \cup {NewId}
              /\ UNCHANGED direct
    BY <1>2
  <2> DEFINE a == Found(tree, ParentPath[p])
  <2>2. p \in Paths \ {RootPath}
    BY <2>1 DEF Ancestors
  <2>3. a \in made /\ a \in Ids /\ PathOf(a) = ParentPath[p]
    BY <2>1, FoundFacts
  <2>4. ASSUME InTree(tree, a) PROVE SubsAt(tree, a, p) = {}
    <3>1. \A c \in SubsAt(tree, a, p) : c \in Ids /\ InTree(tree, c) /\ PathOf(c) = p
      BY <2>3, <2>4, SoundFacts, ChildInTree DEF SubsAt, PathOf
    <3> QED
      BY <2>1, <3>1, FoundFacts
  <2>5. tree' = InsertDirectory(tree, NewId, p, a) /\ made # Ids
    BY <2>1
  <2> HIDE DEF a
  <2>6. Effects /\ WayLasts
    BY <1>1, <2>2, <2>3, <2>4, <2>5, DirectoryMadeEffects
  <2>7. direct' = direct /\ made \subseteq made'
    BY <2>1
  <2> QED
    BY <1>1, <2>6, <2>7, IngestSound
<1>3. CASE /\ Found(tree, Folder[f]) # None
           /\ DirectMoves(f, "placed", Found(tree, Folder[f])) /\ UNCHANGED records
  <2>1. Effects /\ WayLasts /\ tree' = tree /\ made' = made
    BY <1>1, <1>3, TreeUntouched DEF records
  <2>2. PathOf(Found(tree, Folder[f])) = Folder[f]
    BY <1>3, FoundFacts
  <2>3. DirectFits(f)' /\ \A g \in Direct \ {f} : direct'[g] = direct[g]
    BY <1>3, <2>1, <2>2, SoundFacts DEF DirectMoves, DirectFits, PathOf
  <2> QED
    BY <1>1, <2>1, <2>3, IngestSound
<1> QED
  BY <1>2, <1>3, Zenon DEF IngestParents

\* The record of a single file is made.
LEMMA IngestRecordSound ==
    ASSUME Sound, IInv', NEW f \in Direct, IngestRecord(f)
    PROVE  Sound' /\ Effects /\ WayLasts
<1>1. /\ UNCHANGED <<stored, made, jobs, accrual>> /\ f \in Files /\ direct[f].pc = "placed"
      /\ Insert(f, direct[f].at)
      /\ direct' = [direct EXCEPT ![f] = [pc |-> "recorded", at |-> direct[f].at]]
  BY ProcessAssumption DEF IngestRecord, DirectMoves
<1>2. /\ stored[f] # None /\ direct[f].at \in made
      /\ tree.dirs[direct[f].at] # None => PathOf(direct[f].at) = Folder[f]
  BY <1>1 DEF Sound, IInv, IngestIsPlaced, DirectIsSound, DirectFits
<1>3. /\ Effects /\ WayLasts /\ HasRow(tree', f, direct[f].at)
      /\ f \in swept' \/ InTree(tree', direct[f].at)
  BY <1>1, <1>2, FileMadeEffects
<1>4. direct'[f].pc = "recorded" /\ direct'[f].at = direct[f].at
      /\ \A g \in Direct \ {f} : direct'[g] = direct[g]
  BY <1>1, SoundFacts
<1>5. tree'.dirs[direct[f].at] # None => tree'.dirs[direct[f].at].path = Folder[f]
  BY <1>2, <1>3 DEF Effects, TreeMoves, Older, PathOf
<1>6. DirectFits(f)'
  BY <1>3, <1>4, <1>5 DEF DirectFits, PathOf
<1> QED
  BY <1>1, <1>3, <1>4, <1>6, IngestSound

\* The record of a single file gets its size.
LEMMA IngestAssessesSound ==
    ASSUME Sound, IInv', NEW f \in Direct, IngestAssesses(f)
    PROVE  Sound' /\ Effects /\ WayLasts
<1> DEFINE mine == {r \in FilesIn(tree, direct[f].at) : r.file = f}
<1>1. /\ UNCHANGED <<stored, made, jobs, accrual, swept>> /\ f \in Files
      /\ direct[f].pc = "recorded"
      /\ direct' = [direct EXCEPT ![f] = [pc |-> "done", at |-> None]]
  BY ProcessAssumption DEF IngestAssesses, DirectMoves
<1>2. tree' = IF mine = {} THEN tree
              ELSE UpdateSize(tree, CHOOSE r \in mine : TRUE, stored[f])
  BY Zenon DEF IngestAssesses
<1>3. /\ stored[f] # None
      /\ f \in swept \/ (HasRow(tree, f, direct[f].at) /\ InTree(tree, direct[f].at))
  BY <1>1 DEF Sound, IInv, IngestIsPlaced, DirectIsSound, DirectFits
<1>4. direct'[f].pc = "done" /\ \A g \in Direct \ {f} : direct'[g] = direct[g]
  BY <1>1, SoundFacts
<1>5. Effects /\ WayLasts /\ (f \in swept' \/ IsRecorded(f)')
  <2>1. CASE mine = {}
    <3>1. ~HasRow(tree, f, direct[f].at)
      BY <2>1 DEF FilesIn, HasRow
    <3> QED
      BY <1>1, <1>2, <1>3, <2>1, <3>1, TreeUntouched
  <2>2. CASE mine # {}
    <3> DEFINE r == CHOOSE r \in mine : TRUE
    <3>1. r \in FilesIn(tree, direct[f].at) /\ r.file = f
      BY <2>2
    <3>2. tree' = UpdateSize(tree, r, stored[f])
      BY <1>2, <2>2
    <3> HIDE DEF r, mine
    <3>3. r \in tree.files /\ r.dir = direct[f].at
      BY <3>1 DEF FilesIn
    <3> QED
      BY <1>1, <1>3, <3>1, <3>2, <3>3, FileSizedEffects
  <2> QED
    BY <2>1, <2>2
<1>6. DirectFits(f)'
  BY <1>1, <1>3, <1>4, <1>5 DEF DirectFits
<1> QED
  BY <1>1, <1>4, <1>5, <1>6, IngestSound

\* The group is deleted and restored.
LEMMA DeleteAndRestoreSound ==
    ASSUME Sound, IInv', DeleteAndRestore
    PROVE  Sound' /\ Effects /\ WayLasts
<1>1. tree' = Restored(tree) /\ UNCHANGED <<stored, made, jobs, accrual, direct, swept>>
  BY DEF DeleteAndRestore
<1>2. Effects /\ WayLasts
  BY <1>1, GroupRestoredEffects
<1>3. /\ rows' = rows /\ target' = target /\ work' = work /\ call' = call
  BY <1>1 DEF jobs
<1>4. TreeMoves /\ ContentLasts /\ \A k \in Rows : Undisturbed(k)
  BY <1>1, <1>2, <1>3 DEF Effects, ContentLasts, Undisturbed, Running, RecordLasts
<1>5. AskedAreMade'
  BY <1>1, <1>3 DEF Sound, AskedAreMade
<1>6. AccrualIsSound'
  BY <1>1, <1>3, <1>4, AccrualStays
<1>7. \A g \in Direct : DirectFits(g)'
  BY <1>1, <1>2, <1>4, DirectStays, ProcessAssumption DEF Effects
<1> QED
  BY <1>1, <1>2, <1>4, <1>5, <1>6, <1>7, OthersSound

------------------------------------------------------------------------------
(* Soundness: at first, and of every step *)

\* What is recorded at first is where it says.
LEMMA RecordedIsShaped ==
    ASSUME NEW paths \in SUBSET Paths, NEW files \in SUBSET Files, NEW size \in Sizes \cup {None},
           RootPath \in paths, \A p \in paths \ {RootPath} : ParentPath[p] \in paths,
           \A f \in files : Folder[f] \in paths,
           NEW t, t = Recorded(paths, files, size)
    PROVE  Shape(t) /\ \A r \in t.files : InTree(t, r.dir)
<1>1. /\ Good(t) /\ Placed(t, {IdOf[p] : p \in paths})
      /\ \A p \in paths :
             /\ t.dirs[IdOf[p]] # None /\ t.dirs[IdOf[p]].path = p
             /\ p # RootPath => t.dirs[IdOf[p]].parent = IdOf[ParentPath[p]]
      /\ \A r \in t.files : Folder[r.file] \in paths /\ r.dir = IdOf[Folder[r.file]]
  BY RecordedIsGood, ZenonT(40)
<1>2. /\ \A p \in Paths : IdOf[p] \in Ids /\ (IdOf[p] = RootId => p = RootPath)
      /\ IdOf[RootPath] = RootId
  BY IdOfPaths, TreeAssumption
<1>3. \A i \in Ids : t.dirs[i] # None => \E p \in paths : i = IdOf[p]
  BY <1>1 DEF Placed
<1>4. t.dirs \in [Ids -> Directory \cup {None}]
  BY <1>1 DEF Good, TreeType
<1>5. \A i \in Ids : InTree(t, i) => t.dirs[i] # None
  BY <1>4, ChainClosed DEF InTree, Present
<1>6. Shape(t)
  <2>1. t.dirs[RootId] # None /\ t.dirs[RootId].path = RootPath
    BY <1>1, <1>2
  <2>2. ASSUME NEW i \in Ids \ {RootId}, t.dirs[i] # None
        PROVE  /\ t.dirs[i].path # RootPath
               /\ ParentPath[t.dirs[i].path] = t.dirs[t.dirs[i].parent].path
    <3>1. PICK p \in paths : i = IdOf[p]
      BY <1>3, <2>2
    <3>2. p # RootPath /\ ParentPath[p] \in paths
      BY <1>2, <3>1
    <3> QED
      BY <1>1, <3>1, <3>2
  <2>3. ASSUME NEW i \in Ids, NEW k \in Ids, t.dirs[i] # None, t.dirs[k] # None,
               t.dirs[i].path = t.dirs[k].path
        PROVE  i = k
    BY <1>1, <1>3, <2>3
  <2>4. \A r \in t.files : t.dirs[r.dir].path = Folder[r.file]
    BY <1>1
  <2> QED
    BY <1>5, <2>1, <2>2, <2>3, <2>4 DEF Shape
<1>7. ASSUME NEW p \in paths PROVE InTree(t, IdOf[p])
  <2> DEFINE s == {q \in paths : IdOf[q] \in Chain(t, IdOf[p])}
  <2>1. /\ UpClosed(t, Chain(t, IdOf[p])) /\ IdOf[p] \in Chain(t, IdOf[p])
    BY <1>1, <1>2, <1>4, ChainClosed DEF Present
  <2>2. s \in SUBSET Paths /\ p \in s
    BY <2>1
  <2>3. ASSUME NEW x \in s \ {RootPath} PROVE ParentPath[x] \in s
    <3>1. /\ x \in paths /\ ParentPath[x] \in paths /\ IdOf[x] \in Chain(t, IdOf[p])
          /\ t.dirs[IdOf[x]].parent = IdOf[ParentPath[x]]
      BY <1>1
    <3>2. IdOf[ParentPath[x]] \in Ids /\ t.dirs[IdOf[ParentPath[x]]] # None
      BY <1>1, <1>2, <3>1
    <3>3. IdOf[ParentPath[x]] # Group
      BY <3>2, NamesAssumption
    <3> QED
      BY <2>1, <3>1, <3>2, <3>3 DEF UpClosed
  <2>4. RootPath \in Ancestors(p)
    BY PathsAssumption
  <2> HIDE DEF s
  <2>5. RootPath \in s
    BY <2>2, <2>3, <2>4 DEF Ancestors
  <2> QED
    BY <1>2, <2>5 DEF s, InTree
<1> QED
  BY <1>1, <1>6, <1>7

\* Whoever is going to act.
LEMMA StartIsSound ==
    ASSUME NEW asking \in SUBSET Requests, NEW accruing \in BOOLEAN, NEW arriving \in SUBSET Direct,
           Start(asking, accruing, arriving)
    PROVE  Sound
<1>1. IInv
  BY StartHolds
<1>2. Shape(tree) /\ RowsAreHeld
  <2>1. PICK paths \in SUBSET Paths, files \in SUBSET Files, size \in Sizes \cup {None} :
          /\ RootPath \in paths /\ \A p \in paths \ {RootPath} : ParentPath[p] \in paths
          /\ \A f \in files : Folder[f] \in paths
          /\ tree = Recorded(paths, files, size)
    BY DEF Start
  <2> QED
    BY <2>1, RecordedIsShaped DEF RowsAreHeld
<1>3. /\ \A j \in Rows : rows[j].status = "absent" /\ target[j] = None
      /\ \A c \in Callers : call[c].at = None
      /\ accrual.pc \in {"copy", "dead"} /\ accrual.copied = {} /\ accrual.ids = {}
      /\ \A f \in Direct : direct[f].pc \in {"new", "never"}
  BY DEF Start, Absent, Answered, NoCall
<1>4. AskedAreMade /\ WorkIsSound /\ DirectIsSound /\ AccrualIsSound
  BY <1>3 DEF AskedAreMade, WorkIsSound, WorkFits, Running, DirectIsSound, DirectFits,
       AccrualIsSound
<1> QED
  BY <1>1, <1>2, <1>4 DEF Sound

\* Every step of a worker.
LEMMA WorkerSound ==
    ASSUME Sound, IInv', NEW j \in Rows, WorkerStep(j) \/ Interrupt(j)
    PROVE  Sound'
BY ReserveSound, ReserveGoneSound, InterruptSound, ListSound, MakeDirectorySound, ChoosingSound,
   DestroyInTreeSound, MakeFileSound, DestroyFileSound, AssessFileSound,
   ScheduleSubdirectorySound, FinishSound
DEF WorkerStep, Perform

\* A step of nobody.
LEMMA StutterSound ==
    ASSUME Sound, IInv', UNCHANGED vars
    PROVE  Sound'
<1>1. UNCHANGED <<stored, records, rows, target, work, call, accrual, direct, swept>>
  BY DEF vars, jobs, others
<1>2. UNCHANGED <<tree, made>>
  BY <1>1 DEF records
<1>3. AskedAreMade' /\ AccrualIsSound'
  BY <1>1, <1>2 DEF Sound, AskedAreMade, AccrualIsSound
<1> QED
  BY <1>1, <1>3, CallerMoves DEF Running

\* Every step.
LEMMA NextSound ==
    ASSUME Sound, [Next]_vars
    PROVE  Sound'
<1>1. IInv'
  BY NextKeeps DEF Sound
<1>2. CASE \E j \in Rows : WorkerStep(j) \/ Interrupt(j)
  BY <1>1, <1>2, WorkerSound
<1>3. CASE \E c \in Callers : CallStep(c) \/ CallDies(c)
  BY <1>1, <1>3, CallStepSound, CallDiesSound
<1>4. CASE \E q \in Requests : Request(q)
  BY <1>1, <1>4, RequestSound
<1>5. CASE AccrualStep
  BY <1>1, <1>5, AccrualMovesSound, AccrualCopiesSound DEF AccrualStep
<1>6. CASE \E f \in Direct : IngestContent(f) \/ IngestStep(f)
  BY <1>1, <1>6, IngestContentSound, IngestParentsSound, IngestRecordSound, IngestAssessesSound
  DEF IngestStep
<1>7. CASE DeleteAndRestore
  BY <1>1, <1>7, DeleteAndRestoreSound
<1>8. CASE UNCHANGED vars
  BY <1>1, <1>8, StutterSound
<1> QED
  BY <1>2, <1>3, <1>4, <1>5, <1>6, <1>7, <1>8 DEF Next

------------------------------------------------------------------------------
(* What jobs answer for, from one step to the next *)

\* A step that stores nothing and in which the accrual does nothing.
Quiet ==
    /\ Effects /\ made \subseteq made' /\ UNCHANGED <<stored, accrual>>
    /\ \A f \in Direct : direct'[f].pc \in {"never", "new"} => direct[f].pc \in {"never", "new"}

\* Nobody comes to be concerned by it.
LEMMA QuietFacts ==
    ASSUME Sound, Quiet
    PROVE  /\ \A f \in Files : Claimed(f)' => Claimed(f) /\ RowsLast(f) /\ f \notin swept'
           /\ \A i \in made : Live(i)' => Live(i) /\ tree'.dirs[i].path = tree.dirs[i].path
           /\ \A p : OnStorage(p)' <=> OnStorage(p)
           /\ \A f \in Files, m \in Rows : Concerns(m, f)' /\ target'[m] = target[m] =>
                  Concerns(m, f) /\ tree'.dirs[target[m]].path = PathOf(target[m])
<1> USE SoundFacts
<1>1. \A f \in Files : Claimed(f)' => Claimed(f) /\ RowsLast(f) /\ f \notin swept'
  BY DEF Claimed, Quiet, Effects, TreeMoves
<1>2. \A i \in made : Live(i)' => Live(i) /\ tree'.dirs[i].path = tree.dirs[i].path
  <2> SUFFICES ASSUME NEW i \in made, Live(i)'
               PROVE  Live(i) /\ tree'.dirs[i].path = tree.dirs[i].path
    OBVIOUS
  <2>1. InTree(tree', i) /\ ~Stale(i)
    BY DEF Live, Stale, Quiet
  <2>2. InTree(tree, i) /\ (tree'.dirs[i] # None => tree'.dirs[i].path = tree.dirs[i].path)
    BY <2>1 DEF Quiet, Effects, TreeMoves, Older
  <2>3. tree'.dirs[i] # None
    <3>1. tree.dirs[i] # None /\ i \in Ids
      BY <2>2, InTreeFacts
    <3>2. RootId \in Chain(tree', i)
      BY <2>1 DEF InTree
    <3> QED
      BY <3>1, <3>2 DEF Chain, Present
  <2> QED
    BY <2>1, <2>2, <2>3 DEF Live
<1>3. \A p : OnStorage(p)' <=> OnStorage(p)
  BY DEF OnStorage, Quiet
<1>4. ASSUME NEW f \in Files, NEW m \in Rows, Concerns(m, f)', target'[m] = target[m]
      PROVE  Concerns(m, f) /\ tree'.dirs[target[m]].path = PathOf(target[m])
  <2>1. Live(target[m])' /\ target[m] \in Ids
    BY <1>4 DEF Concerns, Live
  <2>2. target[m] \in made
    BY <2>1, NamesAssumption DEF Sound, AskedAreMade
  <2>3. Live(target[m]) /\ tree'.dirs[target[m]].path = tree.dirs[target[m]].path
    BY <1>2, <1>4, <2>1, <2>2 DEF Live
  <2>4. tree'.dirs[target[m]].path \in Up(f)
        /\ \E g \in Files : stored'[g] # None /\ tree'.dirs[target[m]].path \in Ancestors(Folder[g])
    BY <1>4 DEF Concerns, PathOf, OnStorage
  <2> QED
    BY <2>3, <2>4 DEF Concerns, PathOf, OnStorage, Quiet
<1> QED
  BY <1>1, <1>2, <1>3, <1>4

\* On a way that lasts, nobody ceases to be concerned.
LEMMA ConcernsLast ==
    ASSUME Sound, Quiet, NEW f \in Files, DirsLast(tree, tree', f),
           NEW m \in Rows, Concerns(m, f), target'[m] = target[m]
    PROVE  Concerns(m, f)' /\ tree'.dirs[target[m]].path = PathOf(target[m])
<1> USE SoundFacts
<1>1. /\ target[m] \in Ids /\ InTree(tree, target[m]) /\ ~Stale(target[m])
      /\ PathOf(target[m]) \in Up(f)
      /\ \E g \in Files : stored[g] # None /\ PathOf(target[m]) \in Ancestors(Folder[g])
  BY DEF Concerns, Live, OnStorage
<1>2. InTree(tree', target[m])
  BY <1>1 DEF DirsLast, PathOf
<1>3. target[m] \in made
  BY <1>1, InTreeFacts
<1>4. tree'.dirs[target[m]] # None
  <2>1. RootId \in Chain(tree', target[m])
    BY <1>2 DEF InTree
  <2> QED
    BY <1>1, <2>1 DEF Chain, Present
<1>5. tree'.dirs[target[m]].path = PathOf(target[m])
  BY <1>3, <1>4 DEF Quiet, Effects, TreeMoves, Older, PathOf
<1> QED
  BY <1>1, <1>2, <1>5 DEF Concerns, Live, OnStorage, PathOf, Quiet, Stale

\* A worker that covers a file is in the directory of its job.
LEMMA CoveringFacts ==
    ASSUME Sound, NEW f \in Files, NEW m \in Rows, Running(m), Covers(m, f)
    PROVE  /\ work[m].at = target[m] /\ work[m].at \in Ids /\ InTree(tree, work[m].at)
           /\ work[m].path = PathOf(work[m].at) /\ work[m].path \in Up(f)
           /\ OnStorage(work[m].path) /\ Left(m, f) /\ HandFits(work[m], target[m])
           /\ Live(work[m].at) /\ work[m].path \in Paths
<1>1. work[m].at # None /\ Left(m, f) /\ HandFits(work[m], target[m]) /\ Concerns(m, f)
  BY DEF Covers, Sound, WorkIsSound, WorkFits
<1>2. target[m] # None
  BY <1>1, NamesAssumption DEF Concerns, Live
<1>3. work[m].at = target[m] /\ work[m].at \in Ids /\ InTree(tree, work[m].at)
      /\ Live(work[m].at)
  BY <1>1, <1>2 DEF HandFits, Concerns, Live
<1>4. tree.dirs[work[m].at] # None
  BY <1>3, SoundFacts, InTreeFacts
<1>5. work[m].path = PathOf(work[m].at)
  BY <1>1, <1>4 DEF HandFits
<1>6. work[m].path \in Paths
  BY SoundFacts DEF WorkRecord
<1> QED
  BY <1>1, <1>3, <1>5, <1>6 DEF Concerns

\* What is left to a worker stays left to it until it does something.
LEMMA LeftLasts ==
    ASSUME Sound, Quiet, NEW f \in Files, Claimed(f)', DirsLast(tree, tree', f),
           NEW m \in Rows, InTree(tree, work[m].at), work[m].at \in Ids,
           work'[m] = work[m], call[m].pc \in {"look", "create"} => call'[m] = call[m],
           Left(m, f)
    PROVE  Left(m, f)'
<1>1. RowsLast(f) /\ stored' = stored
  BY QuietFacts DEF Quiet
<1>2. \A q : OnStorage(q)' <=> OnStorage(q)
  BY QuietFacts
<1>3. LeftHere(m, f) => LeftHere(m, f)'
  BY <1>1 DEF LeftHere, RowsLast
<1>4. ASSUME NEW q \in Up(f), LeftBelow(m, f, q) PROVE LeftBelow(m, f, q)'
  <2>1. SubsAt(tree, work[m].at, q) \subseteq SubsAt(tree', work[m].at, q)
    BY DEF DirsLast
  <2> QED
    BY <1>1, <1>2, <1>4, <2>1 DEF LeftBelow
<1>5. CASE work[m].path = Folder[f] /\ LeftHere(m, f)
  BY <1>3, <1>5 DEF Left
<1>6. CASE \E q \in Subpaths(work[m].path) \cap Up(f) : LeftBelow(m, f, q)
  BY <1>4, <1>6 DEF Left
<1> QED
  BY <1>5, <1>6 DEF Left

\* So is what a job covers.
LEMMA CoversLasts ==
    ASSUME Sound, Quiet, NEW f \in Files, Claimed(f)', DirsLast(tree, tree', f),
           NEW m \in Rows, Covers(m, f), target'[m] = target[m],
           Running(m)' => /\ Running(m) /\ work'[m] = work[m]
                          /\ call[m].pc \in {"look", "create"} => call'[m] = call[m]
    PROVE  Covers(m, f)' /\ tree'.dirs[target[m]].path = PathOf(target[m])
<1>1. Concerns(m, f)' /\ tree'.dirs[target[m]].path = PathOf(target[m])
  BY ConcernsLast DEF Covers
<1>2. CASE Running(m)'
  <2>1. work[m].at # None /\ Left(m, f) /\ InTree(tree, work[m].at) /\ work[m].at \in Ids
    BY <1>2, CoveringFacts DEF Covers
  <2>2. Left(m, f)'
    BY <1>2, <2>1, LeftLasts
  <2> QED
    BY <1>1, <1>2, <2>1, <2>2 DEF Covers
<1>3. CASE ~Running(m)'
  BY <1>1, <1>3 DEF Covers
<1> QED
  BY <1>1, <1>2, <1>3

\* A job that covers a file sees to it.
LEMMA CoversSees ==
    ASSUME NEW f \in Files, NEW m \in Rows, Covers(m, f)
    PROVE  SeenTo(f, PathOf(target[m])) /\ PathOf(target[m]) \in Paths
<1>1. PathOf(target[m]) \in Up(f)
  BY DEF Covers, Concerns
<1>2. PathOf(target[m]) \in Paths
  BY <1>1, TreeAssumption, AncestorsClosed DEF Up
<1> QED
  BY <1>2, AncestorsClosed DEF SeenTo, CoveredFrom

\* A file that was seen to still is, if it is where it was covered.
LEMMA SeenLasts ==
    ASSUME NEW f \in Files, Done(f) => Done(f)',
           \A m \in Rows, p \in Paths : Covers(m, f) /\ p = PathOf(target[m]) => SeenTo(f, p)',
           NEW x \in Paths, SeenTo(f, x)
    PROVE  SeenTo(f, x)'
<1>1. CASE Done(f)
  BY <1>1 DEF SeenTo
<1>2. CASE CoveredFrom(f, x)
  <2>1. PICK m \in Rows : Covers(m, f) /\ x \in Ancestors(PathOf(target[m]))
    BY <1>2 DEF CoveredFrom
  <2>2. PICK p \in Paths : p = PathOf(target[m])
    BY <2>1, CoversSees
  <2>3. SeenTo(f, p)' /\ x \in Ancestors(p)
    BY <2>1, <2>2
  <2>4. CASE ~Done(f)'
    <3>1. PICK k \in Rows : Covers(k, f)' /\ p \in Ancestors(PathOf(target[k]))'
      BY <2>3, <2>4 DEF SeenTo, CoveredFrom
    <3>2. PathOf(target[k])' \in Up(f)
      BY <3>1 DEF Covers, Concerns
    <3>3. PathOf(target[k])' \in Paths
      BY <3>2, TreeAssumption, AncestorsClosed DEF Up
    <3>4. x \in Ancestors(PathOf(target[k])')
      BY <2>3, <3>1, <3>3, AncestorsTransitive
    <3> QED
      BY <3>1, <3>4 DEF SeenTo, CoveredFrom
  <2> QED
    BY <2>4 DEF SeenTo
<1> QED
  BY <1>1, <1>2 DEF SeenTo

\* A file goes on to be answered for.
LEMMA FileHandover ==
    ASSUME accrual' = accrual, NEW f \in Files, FileAnswers(f), Done(f) => Done(f)',
           \A m \in Rows, p \in Paths : Covers(m, f) /\ p = PathOf(target[m]) => SeenTo(f, p)',
           \A m \in Rows : Concerns(m, f)' =>
               \/ Covers(m, f)'
               \/ Concerns(m, f) /\ tree'.dirs[target'[m]].path = PathOf(target[m]),
           accrual.pc = "schedule" /\ call[Accrual].pc \in {"look", "create"} =>
               SeenTo(f, RootPath)' \/ call'[Accrual].pc \in {"look", "create"}
    PROVE  FileAnswers(f)'
<1>1. \A x \in Paths : SeenTo(f, x) => SeenTo(f, x)'
  BY SeenLasts
<1>2. ASSUME NEW m \in Rows, Concerns(m, f)' PROVE SeenTo(f, PathOf(target[m]))'
  <2>1. PathOf(target[m])' \in Paths
    <3>1. PathOf(target[m])' \in Up(f)
      BY <1>2 DEF Concerns
    <3> QED
      BY <3>1, TreeAssumption, AncestorsClosed DEF Up
  <2>2. CASE Covers(m, f)'
    <3>1. PathOf(target[m])' \in Ancestors(PathOf(target[m])')
      BY <2>1, AncestorsClosed
    <3> QED
      BY <2>2, <3>1 DEF SeenTo, CoveredFrom
  <2>3. CASE Concerns(m, f) /\ tree'.dirs[target'[m]].path = PathOf(target[m])
    <3>1. SeenTo(f, PathOf(target[m])) /\ PathOf(target[m])' = PathOf(target[m])
      BY <2>3 DEF FileAnswers, PathOf
    <3>2. PICK p \in Paths : p = PathOf(target[m]) /\ p = PathOf(target[m])'
      BY <2>1, <3>1
    <3>3. SeenTo(f, p)'
      BY <1>1, <3>1, <3>2
    <3> QED
      BY <3>2, <3>3 DEF SeenTo, CoveredFrom
  <2> QED
    BY <1>2, <2>2, <2>3
<1>3. SeenTo(f, RootPath) => SeenTo(f, RootPath)'
  BY <1>1, TreeAssumption
<1> QED
  BY <1>2, <1>3 DEF FileAnswers

\* Workers that do nothing go on to be right about what they listed or ended.
LEMMA ListingsStay ==
    ASSUME Sound, Quiet, NEW k \in Rows, FreshAt(k), EndedAt(k),
           Running(k)' => /\ Running(k) /\ target'[k] \in {target[k], None}
                          /\ work'[k].at = work[k].at /\ work'[k].path = work[k].path
                          /\ work'[k].pc \in {"make_dirs", "destroy_dirs"} =>
                                 /\ work[k].pc \in {"make_dirs", "destroy_dirs"}
                                 /\ work'[k].seen = work[k].seen
    PROVE  FreshAt(k)' /\ EndedAt(k)'
<1>1. ASSUME Running(k)', work'[k].pc \in {"make_dirs", "destroy_dirs"}, Live(work[k].at)'
      PROVE  \A f \in Files, q \in Subpaths(work[k].path) :
                 Claimed(f)' /\ stored'[f] # None /\ q \in Up(f) => q \in work[k].seen
  <2>1. /\ work[k].at \in made /\ work'[k].at = work[k].at
        /\ work[k].pc \in {"make_dirs", "destroy_dirs"}
    BY <1>1, WorkerFacts
  <2>2. PICK i \in made : i = work[k].at /\ i = work'[k].at
    BY <2>1
  <2>3. Live(i)'
    BY <1>1, <2>2 DEF Live, Stale
  <2>4. Live(work[k].at)
    BY <2>2, <2>3, QuietFacts
  <2> QED
    BY <1>1, <2>1, <2>4, QuietFacts DEF FreshAt, Quiet
<1>2. FreshAt(k)'
  <2> SUFFICES ASSUME Running(k)', work'[k].pc \in {"make_dirs", "destroy_dirs"},
                      Live(work[k].at)'
               PROVE  \A f \in Files, q \in Subpaths(work'[k].path) :
                          Claimed(f)' /\ stored'[f] # None /\ q \in Up(f) => q \in work'[k].seen
    BY DEF FreshAt
  <2> QED
    BY <1>1
<1>3. ASSUME Running(k)', work[k].at = None, NEW f \in Files, Claimed(f)', Concerns(k, f)'
      PROVE  Done(f)'
  <2>1. target'[k] = target[k]
    BY <1>3, NamesAssumption DEF Concerns, Live
  <2>2. Concerns(k, f) /\ Claimed(f) /\ RowsLast(f)
    BY <1>3, <2>1, QuietFacts
  <2> QED
    BY <1>3, <2>2 DEF EndedAt, RowsLast
<1>4. EndedAt(k)'
  BY <1>3 DEF EndedAt
<1> QED
  BY <1>2, <1>4

\* A step of worker j, or of nobody, in which the ways of a file last.
LEMMA FileStays ==
    ASSUME Sound, Quiet, NEW f \in Files, Claimed(f)', FileAnswers(f), DirsLast(tree, tree', f),
           NEW j,
           \A k \in Rows \ {j} : rows'[k] = rows[k] /\ work'[k] = work[k] /\ call'[k] = call[k],
           call'[Accrual] = call[Accrual],
           \A m \in Rows : target'[m] = target[m] \/ (target'[m] = None /\ ~Covers(m, f)),
           j \in Rows /\ Covers(j, f) => Done(f)' \/ Covers(j, f)'
    PROVE  FileAnswers(f)'
<1>1. RowsLast(f) /\ accrual' = accrual
  BY QuietFacts DEF Quiet
<1>2. ASSUME NEW m \in Rows, NEW p \in Paths, Covers(m, f), p = PathOf(target[m])
      PROVE  SeenTo(f, p)'
  <2>1. target'[m] = target[m]
    BY <1>2
  <2>2. CASE Covers(m, f)'
    <3>1. tree'.dirs[target[m]].path = PathOf(target[m])
      BY <1>2, <2>1, ConcernsLast DEF Covers
    <3>2. PathOf(target[m])' = p /\ p \in Ancestors(p)
      BY <1>2, <2>1, <3>1, AncestorsClosed DEF PathOf
    <3> QED
      BY <2>2, <3>2 DEF SeenTo, CoveredFrom
  <2>3. CASE Done(f)'
    BY <2>3 DEF SeenTo
  <2>4. m # j => Covers(m, f)'
    BY <1>2, <2>1, CoversLasts DEF Running
  <2> QED
    BY <1>2, <2>2, <2>3, <2>4
<1>3. ASSUME NEW m \in Rows, Concerns(m, f)'
      PROVE  Concerns(m, f) /\ tree'.dirs[target'[m]].path = PathOf(target[m])
  <2>1. target'[m] = target[m]
    BY <1>3, NamesAssumption DEF Concerns, Live
  <2> QED
    BY <1>3, <2>1, QuietFacts
<1> QED
  BY <1>1, <1>2, <1>3, FileHandover DEF RowsLast

\* A step of worker j, by which no directory is destroyed.
LEMMA WorkerAnswers ==
    ASSUME Sound, Answers, Quiet, WayLasts, NEW j,
           \A k \in Rows \ {j} : rows'[k] = rows[k] /\ work'[k] = work[k] /\ call'[k] = call[k],
           call'[Accrual] = call[Accrual],
           \A m \in Rows : target'[m] = target[m]
                           \/ (target'[m] = None /\ \A f \in Files : ~Covers(m, f)),
           j \in Rows => FreshAt(j)' /\ EndedAt(j)',
           \A f \in Files : Claimed(f)' /\ j \in Rows /\ Covers(j, f) => Done(f)' \/ Covers(j, f)'
    PROVE  Answers'
<1>1. ASSUME NEW k \in Rows PROVE FreshAt(k)' /\ EndedAt(k)'
  <2>1. CASE k # j
    BY <2>1, ListingsStay DEF Answers, Running
  <2> QED
    BY <2>1
<1>2. ASSUME NEW f \in Files, Claimed(f)' PROVE FileAnswers(f)'
  <2>1. FileAnswers(f) /\ DirsLast(tree, tree', f)
    BY <1>2, QuietFacts DEF Answers, WayLasts
  <2> QED
    BY <1>2, <2>1, FileStays
<1> QED
  BY <1>1, <1>2 DEF Answers

------------------------------------------------------------------------------
(* What jobs answer for: their steps *)

\* What a worker has in hand after it has done one thing.
LEMMA DidFacts ==
    ASSUME Sound, NEW j \in Rows, NEW x, Did(j, x)
    PROVE  /\ work'[j].at = work[j].at /\ work'[j].pc = work[j].pc
           /\ work'[j].path = work[j].path /\ work'[j].seen = work[j].seen
           /\ work'[j].todo = work[j].todo \ {x}
           /\ \A k \in Rows \ {j} : work'[k] = work[k]
<1>1. work' = [work EXCEPT ![j] = [work[j] EXCEPT !.todo = @ \ {x}]]
  BY DEF Did
<1>2. work'[j] = [work[j] EXCEPT !.todo = @ \ {x}] /\ work[j] \in WorkRecord
      /\ \A k \in Rows \ {j} : work'[k] = work[k]
  BY <1>1, SoundFacts
<1> QED
  BY <1>2 DEF WorkRecord

\* What is claimed after a step was before, and its rows last.
LEMMA QuietOf ==
    ASSUME Sound, Effects, made \subseteq made', UNCHANGED <<stored, accrual, direct>>
    PROVE  Quiet /\ \A f \in Files : Claimed(f)' => Claimed(f) /\ RowsLast(f) /\ f \notin swept'
<1>1. Quiet
  BY DEF Quiet
<1> QED
  BY <1>1, QuietFacts

\* A worker goes on, in the same directory.
LEMMA WorkerGoesOn ==
    ASSUME Sound, Answers, Effects, WayLasts, made \subseteq made',
           UNCHANGED <<stored, target, accrual, direct>>, NEW j \in Rows, Running(j),
           \A k \in Rows \ {j} : rows'[k] = rows[k] /\ work'[k] = work[k] /\ call'[k] = call[k],
           call'[Accrual] = call[Accrual],
           work[j].at # None, work'[j].at = work[j].at, work'[j].path = work[j].path,
           \/ FreshAt(j)'
           \/ work'[j].pc \in {"make_dirs", "destroy_dirs"} =>
                  work[j].pc \in {"make_dirs", "destroy_dirs"} /\ work'[j].seen = work[j].seen,
           \A f \in Files :
               Claimed(f)' /\ Covers(j, f) /\ work[j].path = Folder[f] /\ LeftHere(j, f)
                   => Done(f)' \/ LeftHere(j, f)',
           \A f \in Files, q \in Subpaths(work[j].path) :
               Claimed(f)' /\ Covers(j, f) /\ q \in Up(f) /\ LeftBelow(j, f, q)
                   => Done(f)' \/ LeftBelow(j, f, q)'
    PROVE  Answers'
<1>1. Quiet
  BY DEF Quiet
<1>2. FreshAt(j)' /\ EndedAt(j)'
  <2>1. EndedAt(j)'
    BY DEF EndedAt
  <2> QED
    BY <1>1, <2>1, ListingsStay DEF Answers
<1>3. ASSUME NEW f \in Files, Claimed(f)', Covers(j, f) PROVE Done(f)' \/ Covers(j, f)'
  <2>1. Concerns(j, f)'
    BY <1>1, <1>3, ConcernsLast DEF Covers, WayLasts
  <2>2. Left(j, f)
    BY <1>3, CoveringFacts
  <2>3. CASE Done(f)' \/ Left(j, f)'
    BY <2>1, <2>3 DEF Covers
  <2>4. CASE work[j].path = Folder[f] /\ LeftHere(j, f)
    BY <1>3, <2>3, <2>4 DEF Left
  <2>5. CASE \E q \in Subpaths(work[j].path) \cap Up(f) : LeftBelow(j, f, q)
    <3>1. PICK q \in Subpaths(work[j].path) \cap Up(f) : LeftBelow(j, f, q)
      BY <2>5
    <3>2. Done(f)' \/ LeftBelow(j, f, q)'
      BY <1>3, <3>1
    <3> QED
      BY <2>3, <3>1, <3>2 DEF Left
  <2> QED
    BY <2>2, <2>4, <2>5 DEF Left
<1> QED
  BY <1>1, <1>2, <1>3, WorkerAnswers

\* A worker that chooses what to do next: the rows stay as they are.
LEMMA ChoosesOn ==
    ASSUME Sound, Answers, UNCHANGED <<stored, records, rows, target, call, others>>,
           NEW j \in Rows, Running(j), work[j].at # None, NEW w,
           work' = [work EXCEPT ![j] = w], w.at = work[j].at, w.path = work[j].path,
           \/ FreshAt(j)'
           \/ w.pc \in {"make_dirs", "destroy_dirs"} =>
                  work[j].pc \in {"make_dirs", "destroy_dirs"} /\ w.seen = work[j].seen,
           \A f \in Files :
               Claimed(f) /\ Covers(j, f) /\ work[j].path = Folder[f] /\ LeftHere(j, f)
                   => Done(f) \/ LeftHere(j, f)',
           \A f \in Files, q \in Subpaths(work[j].path) :
               Claimed(f) /\ Covers(j, f) /\ q \in Up(f) /\ LeftBelow(j, f, q)
                   => Done(f) \/ LeftBelow(j, f, q)'
    PROVE  Answers'
<1>1. Effects /\ WayLasts
  BY TreeUntouched DEF records, others
<1>2. /\ UNCHANGED <<stored, tree, made, rows, target, call, accrual, direct, swept>>
      /\ work'[j] = w /\ \A k \in Rows \ {j} : work'[k] = work[k]
  BY SoundFacts DEF records, others
<1>3. \A f \in Files : (Claimed(f)' <=> Claimed(f)) /\ (Done(f)' <=> Done(f))
  BY <1>2 DEF Claimed, Done, IsRecorded
<1>4. Accrual \in Callers
  BY DEF Callers
<1> QED
  BY <1>1, <1>2, <1>3, WorkerGoesOn

\* A file without content, and no directory on the way to it: it has no row.
LEMMA NoWayNoRow ==
    ASSUME Sound, NEW f \in Files, Claimed(f), stored[f] = None,
           NEW a \in Ids, InTree(tree, a), NEW q \in Subpaths(PathOf(a)), q \in Up(f),
           SubsAt(tree, a, q) = {}
    PROVE  Done(f)
<1>1. ASSUME NEW r \in tree.files, r.file = f PROVE FALSE
  <2>1. r.dir \in Ids /\ InTree(tree, r.dir)
    BY <1>1, SoundFacts DEF Sound, RowsAreHeld, Claimed, CfsFile
  <2>2. tree.dirs[r.dir].path = Folder[f]
    BY <1>1, <2>1, SoundFacts, InTreeFacts DEF Sound, Shape
  <2>3. q \in Subpaths(tree.dirs[a].path) /\ q \in Ancestors(tree.dirs[r.dir].path)
    BY <2>2 DEF Up, PathOf
  <2>4. Sane(tree, made)
    BY SoundFacts
  <2> QED
    BY <2>1, <2>3, <2>4, SubOnTheWay
<1> QED
  BY <1>1 DEF Done

\* A file without content that has no row in the directory of its folder has none.
LEMMA NoRowHere ==
    ASSUME Sound, NEW f \in Files, Claimed(f), NEW a \in Ids, InTree(tree, a),
           PathOf(a) = Folder[f], NEW r \in tree.files, r.file = f
    PROVE  r.dir = a
<1>1. InTree(tree, r.dir)
  BY SoundFacts DEF Sound, RowsAreHeld, Claimed
<1> QED
  BY <1>1, SoundFacts, RowsAtFolder DEF PathOf

\* A worker's directory is not on storage: its job ends.
LEMMA ListEnds ==
    ASSUME Sound, Answers, UNCHANGED <<stored, records, rows, target, call, others>>,
           NEW j \in Rows, Running(j), work[j].at # None, ~OnStorage(work[j].path),
           NEW w, work' = [work EXCEPT ![j] = w], w.pc = "schedule"
    PROVE  Answers'
<1>1. Effects /\ WayLasts
  BY TreeUntouched DEF records, others
<1>2. /\ UNCHANGED <<stored, tree, made, rows, target, call, accrual, direct, swept>>
      /\ work'[j] = w /\ \A k \in Rows \ {j} : work'[k] = work[k]
  BY SoundFacts DEF records, others
<1>3. Quiet
  BY <1>1, <1>2 DEF Quiet
<1>4. ASSUME NEW f \in Files, Concerns(j, f) PROVE FALSE
  <2>1. HandFits(work[j], target[j])
    BY DEF Sound, WorkIsSound, WorkFits
  <2>2. target[j] = work[j].at /\ InTree(tree, work[j].at) /\ work[j].at \in Ids
    BY <1>4, <2>1, NamesAssumption DEF HandFits, Concerns, Live
  <2>3. PathOf(work[j].at) = work[j].path
    BY <2>1, <2>2, SoundFacts, InTreeFacts DEF HandFits
  <2> QED
    BY <1>4, <2>2, <2>3 DEF Concerns
<1>5. \A f \in Files : Claimed(f)' => ~Concerns(j, f)'
  BY <1>2, <1>3, <1>4, QuietFacts
<1>6. FreshAt(j)' /\ EndedAt(j)'
  BY <1>2, <1>5 DEF FreshAt, EndedAt
<1>7. \A f \in Files : ~Covers(j, f)
  BY <1>4 DEF Covers
<1> QED
  BY <1>1, <1>2, <1>3, <1>6, <1>7, WorkerAnswers

\* A worker lists its directory.
LEMMA ListSubdirectoriesAnswers ==
    ASSUME Sound, Answers, NEW j \in Rows, ListSubdirectories(j)
    PROVE  Answers'
<1> DEFINE seen == {q \in Subpaths(work[j].path) : OnStorage(q)}
           w == [work[j] EXCEPT !.pc = "make_dirs", !.seen = seen, !.todo = seen]
<1>1. /\ Running(j) /\ work[j].pc = "subdirs"
      /\ UNCHANGED <<stored, records, rows, target, call, others>>
      /\ work' = [work EXCEPT ![j] = IF OnStorage(work[j].path) THEN w
                                     ELSE [Idle EXCEPT !.pc = "schedule"]]
  BY Zenon DEF ListSubdirectories, List, At, Running
<1>2. work[j] \in WorkRecord /\ work[j].at # None /\ HandFits(work[j], target[j])
  BY <1>1, WorkerFacts
<1>3. CASE OnStorage(work[j].path)
  <2>1. work' = [work EXCEPT ![j] = w] /\ work'[j] = w
    BY <1>1, <1>3, SoundFacts
  <2>2. /\ w.at = work[j].at /\ w.pc = "make_dirs" /\ w.path = work[j].path /\ w.seen = seen
        /\ w.todo = seen
    BY <1>2 DEF WorkRecord
  <2>3. \A q \in Subpaths(work[j].path), f \in Files :
            q \in Up(f) /\ stored[f] # None => q \in seen
    BY DEF OnStorage, Up
  <2> HIDE DEF w, seen
  <2>4. FreshAt(j)'
    <3>1. stored' = stored
      BY <1>1
    <3> QED
      BY <2>1, <2>2, <2>3, <3>1 DEF FreshAt
  <2>5. \A f \in Files : LeftHere(j, f)'
    BY <2>1, <2>2 DEF LeftHere
  <2>6. \A f \in Files, q \in Subpaths(work[j].path) : q \in Up(f) => LeftBelow(j, f, q)'
    BY <1>1, <2>1, <2>2, <2>3 DEF LeftBelow
  <2> QED
    BY <1>1, <1>2, <2>1, <2>2, <2>4, <2>5, <2>6, ChoosesOn
<1>4. CASE ~OnStorage(work[j].path)
  <2> DEFINE x == [Idle EXCEPT !.pc = "schedule"]
  <2>1. work' = [work EXCEPT ![j] = x]
    BY <1>1, <1>4
  <2>2. x.pc = "schedule"
    BY DEF Idle
  <2> HIDE DEF x
  <2> QED
    BY <1>1, <1>2, <1>4, <2>1, <2>2, ListEnds
<1> QED
  BY <1>3, <1>4

\* A worker makes rows of the subdirectories it found.
LEMMA MakeDirectoryAnswers ==
    ASSUME Sound, Answers, Sound', Effects, WayLasts, NEW j \in Rows, MakeDirectory(j)
    PROVE  Answers'
<1>1. PICK p \in work[j].todo :
        /\ Did(j, p)
        /\ IF \E i \in Children(tree, Me(j)) : tree.dirs[i].path = p
           THEN UNCHANGED records
           ELSE /\ made # Ids
                /\ tree' = InsertDirectory(tree, NewId, p, Me(j))
                /\ made' = made \cup {NewId}
  BY Zenon DEF MakeDirectory
<1>2. /\ Running(j) /\ work[j].pc = "make_dirs" /\ made \subseteq made'
      /\ UNCHANGED <<stored, rows, target, call, accrual, direct, swept>>
  BY <1>1 DEF MakeDirectory, At, Running, others, records
<1>3. /\ HandFits(work[j], target[j]) /\ Me(j) \in made /\ Me(j) \in Ids /\ work[j].at # None
      /\ p \in Subpaths(work[j].path)
  BY <1>1, <1>2, WorkerFacts DEF HandFits, Me
<1>4. /\ work'[j].at = work[j].at /\ work'[j].pc = work[j].pc /\ work'[j].path = work[j].path
      /\ work'[j].seen = work[j].seen /\ work'[j].todo = work[j].todo \ {p}
      /\ \A k \in Rows \ {j} : work'[k] = work[k]
  BY <1>1, DidFacts
<1>5. SubsAt(tree', Me(j), p) # {}
  <2>1. CASE \E i \in Children(tree, Me(j)) : tree.dirs[i].path = p
    BY <1>1, <2>1 DEF SubsAt, records
  <2>2. CASE ~ \E i \in Children(tree, Me(j)) : tree.dirs[i].path = p
    <3>1. p \in Paths \ {RootPath} /\ ParentPath[p] = work[j].path
      BY <1>3 DEF Subpaths
    <3>2. tree.dirs[Me(j)] # None => ParentPath[p] = PathOf(Me(j))
      BY <1>3, <3>1 DEF HandFits, Me
    <3>3. SubsAt(tree, Me(j), p) = {}
      BY <2>2 DEF SubsAt
    <3> QED
      BY <1>1, <1>2, <1>3, <2>2, <3>1, <3>2, <3>3, DirectoryMadeEffects
  <2> QED
    BY <2>1, <2>2
<1>6. \A f \in Files : LeftHere(j, f)'
  BY <1>2, <1>4 DEF LeftHere
<1>7. ASSUME NEW f \in Files, NEW q \in Subpaths(work[j].path), Covers(j, f), q \in Up(f),
             LeftBelow(j, f, q)
      PROVE  LeftBelow(j, f, q)'
  <2>1. SubsAt(tree, work[j].at, q) \subseteq SubsAt(tree', work[j].at, q)
    BY <1>2, <1>7, CoveringFacts DEF WayLasts, DirsLast
  <2> QED
    BY <1>2, <1>4, <1>5, <1>7, <2>1 DEF LeftBelow, Me
<1> QED
  BY <1>2, <1>3, <1>4, <1>6, <1>7, WorkerGoesOn

\* A worker loads the subdirectories it did not find.
LEMMA LoadSubdirectoriesAnswers ==
    ASSUME Sound, Answers, NEW j \in Rows, LoadSubdirectories(j)
    PROVE  Answers'
<1> DEFINE todo == {i \in Children(tree, Me(j)) : tree.dirs[i].path \notin work[j].seen}
           w == [work[j] EXCEPT !.pc = "destroy_dirs", !.todo = todo]
<1>1. /\ Running(j) /\ work[j].pc = "make_dirs" /\ work[j].todo = {}
      /\ UNCHANGED <<stored, records, rows, target, call, others>>
      /\ work' = [work EXCEPT ![j] = w] /\ work'[j] = w
  BY SoundFacts, Zenon DEF LoadSubdirectories, Do, At, Running
<1>2. work[j] \in WorkRecord /\ work[j].at # None
  BY <1>1, WorkerFacts
<1>3. /\ w.at = work[j].at /\ w.pc = "destroy_dirs" /\ w.path = work[j].path
      /\ w.seen = work[j].seen /\ w.todo = todo
  BY <1>2 DEF WorkRecord
<1>4. todo = {i \in Children(tree, work[j].at) : tree.dirs[i].path \notin work[j].seen}
  BY DEF Me
<1> HIDE DEF w, todo
<1>5. tree' = tree /\ stored' = stored
  BY <1>1 DEF records
<1>6. \A f \in Files : LeftHere(j, f)'
  BY <1>1, <1>3 DEF LeftHere
<1>7. ASSUME NEW f \in Files, NEW q \in Subpaths(work[j].path), Claimed(f), Covers(j, f),
             q \in Up(f), LeftBelow(j, f, q)
      PROVE  Done(f) \/ LeftBelow(j, f, q)'
  <2>1. work[j].path = PathOf(work[j].at) /\ work[j].at \in Ids /\ InTree(tree, work[j].at)
    BY <1>1, <1>7, CoveringFacts
  <2>2. CASE q \in work[j].seen
    <3>1. SubsAt(tree, work[j].at, q) # {}
      BY <1>1, <1>7, <2>2 DEF LeftBelow
    <3> QED
      BY <1>1, <1>3, <1>5, <2>2, <3>1 DEF LeftBelow
  <2>3. CASE q \notin work[j].seen
    <3>1. stored[f] = None
      BY <1>1, <1>7, <2>3 DEF LeftBelow
    <3>2. CASE SubsAt(tree, work[j].at, q) = {}
      BY <1>7, <2>1, <3>1, <3>2, NoWayNoRow
    <3>3. CASE SubsAt(tree, work[j].at, q) # {}
      <4>1. PICK c \in SubsAt(tree, work[j].at, q) : TRUE
        BY <3>3
      <4>2. c \in todo
        BY <1>4, <2>3, <4>1 DEF SubsAt
      <4> QED
        BY <1>1, <1>3, <1>5, <3>1, <4>1, <4>2 DEF LeftBelow
    <3> QED
      BY <3>2, <3>3
  <2> QED
    BY <2>2, <2>3
<1> QED
  BY <1>1, <1>2, <1>3, <1>6, <1>7, ChoosesOn

\* The subdirectories a worker did not find are destroyed.
LEMMA SubdirectoriesDestroyedAnswers ==
    ASSUME Sound, Answers, NEW j \in Rows, SubdirectoriesDestroyed(j)
    PROVE  Answers'
<1> DEFINE w == [work[j] EXCEPT !.pc = "files", !.todo = {}]
<1>1. /\ Running(j) /\ work[j].pc = "destroy_dirs"
      /\ \A i \in work[j].todo : tree.dirs[i] = None
      /\ UNCHANGED <<stored, records, rows, target, call, others>>
      /\ work' = [work EXCEPT ![j] = w] /\ work'[j] = w
  BY SoundFacts, Zenon DEF SubdirectoriesDestroyed, Do, At, Running
<1>2. work[j] \in WorkRecord /\ work[j].at # None /\ HandFits(work[j], target[j])
  BY <1>1, WorkerFacts
<1>3. w.at = work[j].at /\ w.pc = "files" /\ w.path = work[j].path
  BY <1>2 DEF WorkRecord
<1> HIDE DEF w
<1>4. tree' = tree /\ stored' = stored
  BY <1>1 DEF records
<1>5. \A f \in Files : LeftHere(j, f)'
  BY <1>1, <1>3 DEF LeftHere
<1>6. ASSUME NEW f \in Files, NEW q \in Subpaths(work[j].path), LeftBelow(j, f, q)
      PROVE  LeftBelow(j, f, q)'
  <2>1. PICK c \in SubsAt(tree, work[j].at, q) :
            q \in work[j].seen \/ (stored[f] = None /\ c \in work[j].todo)
    BY <1>1, <1>6 DEF LeftBelow
  <2>2. q \in work[j].seen
    BY <1>1, <2>1 DEF SubsAt, Children
  <2>3. OnStorage(q)
    BY <1>1, <1>2, <2>2 DEF HandFits
  <2>4. OnStorage(q)'
    BY <1>4, <2>3 DEF OnStorage
  <2> QED
    BY <1>1, <1>3, <1>4, <2>1, <2>4 DEF LeftBelow
<1> QED
  BY <1>1, <1>2, <1>3, <1>5, <1>6, ChoosesOn

\* A worker lists the files of its directory.
LEMMA ListFilesAnswers ==
    ASSUME Sound, Answers, NEW j \in Rows, ListFiles(j)
    PROVE  Answers'
<1> DEFINE seen == {f \in Files : Folder[f] = work[j].path /\ stored[f] # None}
           w == [work[j] EXCEPT !.pc = "make_files", !.seen = seen, !.todo = seen]
<1>1. /\ Running(j) /\ work[j].pc = "files"
      /\ UNCHANGED <<stored, records, rows, target, call, others>>
      /\ work' = [work EXCEPT ![j] = IF OnStorage(work[j].path) THEN w
                                     ELSE [Idle EXCEPT !.pc = "schedule"]]
  BY Zenon DEF ListFiles, List, At, Running
<1>2. work[j] \in WorkRecord /\ work[j].at # None
  BY <1>1, WorkerFacts
<1>3. CASE OnStorage(work[j].path)
  <2>1. work' = [work EXCEPT ![j] = w] /\ work'[j] = w
    BY <1>1, <1>3, SoundFacts
  <2>2. /\ w.at = work[j].at /\ w.pc = "make_files" /\ w.path = work[j].path
        /\ w.todo = seen
    BY <1>2 DEF WorkRecord
  <2>3. tree' = tree /\ stored' = stored
    BY <1>1 DEF records
  <2>4. \A f \in Files : work[j].path = Folder[f] => stored[f] = None \/ f \in seen
    OBVIOUS
  <2> HIDE DEF w, seen
  <2>5. \A f \in Files : work[j].path = Folder[f] => LeftHere(j, f)'
    BY <2>1, <2>2, <2>3, <2>4 DEF LeftHere
  <2>6. \A f \in Files, q \in Subpaths(work[j].path) : LeftBelow(j, f, q) => LeftBelow(j, f, q)'
    BY <1>1, <2>1, <2>2, <2>3 DEF LeftBelow, OnStorage
  <2> QED
    BY <1>1, <1>2, <2>1, <2>2, <2>5, <2>6, ChoosesOn, ZenonT(40)
<1>4. CASE ~OnStorage(work[j].path)
  <2> DEFINE x == [Idle EXCEPT !.pc = "schedule"]
  <2>1. work' = [work EXCEPT ![j] = x]
    BY <1>1, <1>4
  <2>2. x.pc = "schedule"
    BY DEF Idle
  <2> HIDE DEF x
  <2> QED
    BY <1>1, <1>2, <1>4, <2>1, <2>2, ListEnds
<1> QED
  BY <1>3, <1>4

\* A worker makes rows of the files it found.
LEMMA MakeFileAnswers ==
    ASSUME Sound, Answers, Sound', Effects, WayLasts, NEW j \in Rows, MakeFile(j)
    PROVE  Answers'
<1>1. PICK g \in work[j].todo : Did(j, g) /\ Insert(g, Me(j))
  BY DEF MakeFile
<1>2. /\ Running(j) /\ work[j].pc = "make_files"
      /\ UNCHANGED <<stored, made, rows, target, call, accrual, direct>>
  BY DEF MakeFile, At, Running
<1>3. /\ Me(j) \in made /\ g \in Files /\ stored[g] # None /\ work[j].at # None
      /\ tree.dirs[Me(j)] # None => PathOf(Me(j)) = Folder[g]
  BY <1>1, <1>2, WorkerFacts DEF HandFits, Me
<1>4. /\ work'[j].at = work[j].at /\ work'[j].pc = work[j].pc /\ work'[j].path = work[j].path
      /\ work'[j].seen = work[j].seen /\ work'[j].todo = work[j].todo \ {g}
      /\ \A k \in Rows \ {j} : work'[k] = work[k]
  BY <1>1, DidFacts
<1>5. HasRow(tree', g, work[j].at)
  BY <1>1, <1>2, <1>3, FileMadeEffects DEF Me
<1>6. ASSUME NEW f \in Files, Claimed(f)', LeftHere(j, f) PROVE LeftHere(j, f)'
  <2>1. stored[f] # None /\ HasRow(tree, f, work[j].at) => HasRow(tree', f, work[j].at)
    <3>1. RowsLast(f) /\ work[j].at \in Ids
      BY <1>2, <1>3, <1>6, QuietOf, SoundFacts DEF Me
    <3> QED
      BY <3>1 DEF RowsLast
  <2> QED
    BY <1>2, <1>4, <1>5, <1>6, <2>1 DEF LeftHere
<1>7. ASSUME NEW f \in Files, NEW q \in Subpaths(work[j].path), Covers(j, f), q \in Up(f),
             LeftBelow(j, f, q)
      PROVE  LeftBelow(j, f, q)'
  <2>1. SubsAt(tree, work[j].at, q) \subseteq SubsAt(tree', work[j].at, q)
    BY <1>2, <1>7, CoveringFacts DEF WayLasts, DirsLast
  <2> QED
    BY <1>2, <1>4, <1>7, <2>1 DEF LeftBelow, OnStorage
<1> QED
  BY <1>2, <1>3, <1>4, <1>6, <1>7, WorkerGoesOn

\* A worker loads the files it did not find.
LEMMA LoadFilesAnswers ==
    ASSUME Sound, Answers, NEW j \in Rows, LoadFiles(j)
    PROVE  Answers'
<1> DEFINE todo == {r.file : r \in FilesIn(tree, Me(j))} \ work[j].seen
           w == [work[j] EXCEPT !.pc = "destroy_files", !.todo = todo]
<1>1. /\ Running(j) /\ work[j].pc = "make_files" /\ work[j].todo = {}
      /\ UNCHANGED <<stored, records, rows, target, call, others>>
      /\ work' = [work EXCEPT ![j] = w] /\ work'[j] = w
  BY SoundFacts, Zenon DEF LoadFiles, Do, At, Running
<1>2. work[j] \in WorkRecord /\ work[j].at # None /\ HandFits(work[j], target[j])
  BY <1>1, WorkerFacts
<1>3. w.at = work[j].at /\ w.pc = "destroy_files" /\ w.path = work[j].path /\ w.todo = todo
  BY <1>2 DEF WorkRecord
<1>4. \A f \in Files : stored[f] = None /\ HasRow(tree, f, work[j].at) => f \in todo
  BY <1>1, <1>2 DEF HandFits, HasRow, FilesIn, Me
<1> HIDE DEF w, todo
<1>5. tree' = tree /\ stored' = stored
  BY <1>1 DEF records
<1>6. ASSUME NEW f \in Files, Claimed(f), Covers(j, f), work[j].path = Folder[f], LeftHere(j, f)
      PROVE  Done(f) \/ LeftHere(j, f)'
  <2>1. work[j].path = PathOf(work[j].at) /\ work[j].at \in Ids /\ InTree(tree, work[j].at)
    BY <1>1, <1>6, CoveringFacts
  <2>2. stored[f] = None \/ HasRow(tree, f, work[j].at)
    BY <1>1, <1>6 DEF LeftHere
  <2>3. CASE HasRow(tree, f, work[j].at)
    BY <1>1, <1>3, <1>4, <1>5, <2>3 DEF LeftHere
  <2>4. CASE stored[f] = None /\ ~HasRow(tree, f, work[j].at)
    BY <1>6, <2>1, <2>4, NoRowHere DEF HasRow, Done
  <2> QED
    BY <2>2, <2>3, <2>4
<1>7. \A f \in Files, q \in Subpaths(work[j].path) : LeftBelow(j, f, q) => LeftBelow(j, f, q)'
  BY <1>1, <1>3, <1>5 DEF LeftBelow, OnStorage
<1> QED
  BY <1>1, <1>2, <1>3, <1>6, <1>7, ChoosesOn

\* A worker destroys rows of the files it did not find.
LEMMA DestroyFileAnswers ==
    ASSUME Sound, Answers, Sound', Effects, WayLasts, NEW j \in Rows, DestroyFile(j)
    PROVE  Answers'
<1>1. PICK g \in work[j].todo :
        /\ Did(j, g)
        /\ IF \E r \in FilesIn(tree, Me(j)) : r.file = g
           THEN /\ tree' = DeleteFile(tree, CHOOSE r \in FilesIn(tree, Me(j)) : r.file = g)
                /\ Sweep({g})
           ELSE UNCHANGED <<tree, swept>>
  BY Zenon DEF DestroyFile
<1>2. /\ Running(j) /\ work[j].pc = "destroy_files"
      /\ UNCHANGED <<stored, made, rows, target, call, accrual, direct>>
  BY DEF DestroyFile, At, Running
<1>3. work[j].at # None /\ work[j].at \in Ids
  BY <1>2, WorkerFacts
<1>4. /\ work'[j].at = work[j].at /\ work'[j].pc = work[j].pc /\ work'[j].path = work[j].path
      /\ work'[j].seen = work[j].seen /\ work'[j].todo = work[j].todo \ {g}
      /\ \A k \in Rows \ {j} : work'[k] = work[k]
  BY <1>1, DidFacts
<1>5. \A r \in tree'.files : r.file # g \/ r.dir # work[j].at
  <2>1. CASE \E r \in FilesIn(tree, Me(j)) : r.file = g
    <3> DEFINE r == CHOOSE r \in FilesIn(tree, Me(j)) : r.file = g
    <3>1. r \in FilesIn(tree, Me(j)) /\ r.file = g
      BY <2>1
    <3>2. tree' = DeleteFile(tree, r) /\ Sweep({g})
      BY <1>1, <2>1
    <3> HIDE DEF r
    <3>3. tree'.files = tree.files \ {r}
      BY <1>2, <3>1, <3>2, FileDestroyedEffects DEF FilesIn
    <3>4. \A q \in tree.files : q.file = g /\ q.dir = work[j].at => q = r
      BY <3>1, SoundFacts DEF FilesIn, Sane, Placed, Me
    <3> QED
      BY <3>3, <3>4
  <2>2. CASE ~ \E r \in FilesIn(tree, Me(j)) : r.file = g
    BY <1>1, <2>2 DEF FilesIn, Me
  <2> QED
    BY <2>1, <2>2
<1>6. ASSUME NEW f \in Files, Claimed(f)', Covers(j, f), work[j].path = Folder[f], LeftHere(j, f)
      PROVE  Done(f)' \/ LeftHere(j, f)'
  <2>1. Claimed(f) /\ RowsLast(f)
    BY <1>2, <1>6, QuietOf
  <2>2. work[j].path = PathOf(work[j].at) /\ work[j].at \in Ids /\ InTree(tree, work[j].at)
    BY <1>2, <1>6, CoveringFacts
  <2>3. CASE stored[f] # None
    <3>1. HasRow(tree, f, work[j].at)
      BY <1>2, <1>6, <2>3 DEF LeftHere
    <3>2. HasRow(tree', f, work[j].at)
      BY <2>1, <2>2, <2>3, <3>1 DEF RowsLast
    <3> QED
      BY <1>2, <1>4, <2>3, <3>2 DEF LeftHere
  <2>4. CASE stored[f] = None /\ f # g
    BY <1>2, <1>4, <1>6, <2>4 DEF LeftHere
  <2>5. CASE stored[f] = None /\ f = g
    <3>1. tree'.files \subseteq tree.files
      <4>1. CASE \E r \in FilesIn(tree, Me(j)) : r.file = g
        <5> DEFINE r == CHOOSE r \in FilesIn(tree, Me(j)) : r.file = g
        <5>1. r \in FilesIn(tree, Me(j)) /\ r.file = g
          BY <4>1
        <5>2. tree' = DeleteFile(tree, r) /\ Sweep({g})
          BY <1>1, <4>1
        <5> HIDE DEF r
        <5> QED
          BY <1>2, <5>1, <5>2, FileDestroyedEffects DEF FilesIn
      <4>2. CASE ~ \E r \in FilesIn(tree, Me(j)) : r.file = g
        BY <1>1, <4>2
      <4> QED
        BY <4>1, <4>2
    <3>2. \A r \in tree'.files : r.file # f
      BY <1>5, <1>6, <2>1, <2>2, <2>5, <3>1, NoRowHere, ZenonT(40)
    <3> QED
      BY <1>2, <2>5, <3>2 DEF Done
  <2> QED
    BY <2>3, <2>4, <2>5
<1>7. ASSUME NEW f \in Files, NEW q \in Subpaths(work[j].path), Covers(j, f), q \in Up(f),
             LeftBelow(j, f, q)
      PROVE  LeftBelow(j, f, q)'
  <2>1. SubsAt(tree, work[j].at, q) \subseteq SubsAt(tree', work[j].at, q)
    BY <1>2, <1>7, CoveringFacts DEF WayLasts, DirsLast
  <2> QED
    BY <1>2, <1>4, <1>7, <2>1 DEF LeftBelow, OnStorage
<1> QED
  BY <1>2, <1>3, <1>4, <1>6, <1>7, WorkerGoesOn

\* A worker loads the files of its directory, to size them.
LEMMA FilesDestroyedAnswers ==
    ASSUME Sound, Answers, NEW j \in Rows, FilesDestroyed(j)
    PROVE  Answers'
<1> DEFINE todo == {r.file : r \in FilesIn(tree, Me(j))}
           w == [work[j] EXCEPT !.pc = "assess", !.todo = todo]
<1>1. /\ Running(j) /\ work[j].pc = "destroy_files" /\ work[j].todo = {}
      /\ UNCHANGED <<stored, records, rows, target, call, others>>
      /\ work' = [work EXCEPT ![j] = w] /\ work'[j] = w
  BY SoundFacts, Zenon DEF FilesDestroyed, Do, At, Running
<1>2. work[j] \in WorkRecord /\ work[j].at # None
  BY <1>1, WorkerFacts
<1>3. w.at = work[j].at /\ w.pc = "assess" /\ w.path = work[j].path /\ w.todo = todo
  BY <1>2 DEF WorkRecord
<1>4. \A f \in Files : HasRow(tree, f, work[j].at) => f \in todo
  BY DEF HasRow, FilesIn, Me
<1> HIDE DEF w, todo
<1>5. tree' = tree /\ stored' = stored
  BY <1>1 DEF records
<1>6. \A f \in Files : LeftHere(j, f) => LeftHere(j, f)'
  BY <1>1, <1>3, <1>4, <1>5 DEF LeftHere
<1>7. \A f \in Files, q \in Subpaths(work[j].path) : LeftBelow(j, f, q) => LeftBelow(j, f, q)'
  BY <1>1, <1>3, <1>5 DEF LeftBelow, OnStorage
<1> QED
  BY <1>1, <1>2, <1>3, <1>6, <1>7, ChoosesOn

\* The files of a directory are sized.
LEMMA FilesAssessedAnswers ==
    ASSUME Sound, Answers, NEW j \in Rows, FilesAssessed(j)
    PROVE  Answers'
<1> DEFINE todo == Children(tree, Me(j))
           w == [work[j] EXCEPT !.pc = "schedule", !.todo = todo]
<1>1. /\ Running(j) /\ work[j].pc = "assess" /\ work[j].todo = {}
      /\ UNCHANGED <<stored, records, rows, target, call, others>>
      /\ work' = [work EXCEPT ![j] = w] /\ work'[j] = w
  BY SoundFacts, Zenon DEF FilesAssessed, Do, At, Running
<1>2. work[j] \in WorkRecord /\ work[j].at # None
  BY <1>1, WorkerFacts
<1>3. w.at = work[j].at /\ w.pc = "schedule" /\ w.path = work[j].path /\ w.todo = todo
  BY <1>2 DEF WorkRecord
<1>4. \A q : SubsAt(tree, work[j].at, q) \subseteq todo
  BY DEF SubsAt, Me
<1> HIDE DEF w, todo
<1>5. tree' = tree /\ stored' = stored
  BY <1>1 DEF records
<1>6. \A f \in Files : ~LeftHere(j, f)
  BY <1>1 DEF LeftHere
<1>7. \A f \in Files, q \in Subpaths(work[j].path) : LeftBelow(j, f, q) => LeftBelow(j, f, q)'
  BY <1>1, <1>3, <1>4, <1>5 DEF LeftBelow, OnStorage
<1> QED
  BY <1>1, <1>2, <1>3, <1>6, <1>7, ChoosesOn

\* A step by which a job's perform ends, or its row fails.
LEMMA EndsAnswers ==
    ASSUME Sound, Answers, Quiet, WayLasts, NEW j \in Rows, ~Running(j)',
           \A k \in Rows \ {j} : rows'[k] = rows[k] /\ work'[k] = work[k] /\ call'[k] = call[k],
           call'[Accrual] = call[Accrual],
           \A m \in Rows : target'[m] = target[m]
                           \/ (target'[m] = None /\ \A f \in Files : ~Covers(m, f))
    PROVE  Answers'
<1>1. FreshAt(j)' /\ EndedAt(j)'
  BY DEF FreshAt, EndedAt
<1>2. ASSUME NEW f \in Files, Covers(j, f) PROVE Covers(j, f)'
  <2>1. target'[j] = target[j]
    BY <1>2
  <2>2. Concerns(j, f)'
    BY <1>2, <2>1, ConcernsLast DEF Covers, WayLasts
  <2> QED
    BY <2>2 DEF Covers
<1> QED
  BY <1>1, <1>2, WorkerAnswers

\* A worker sizes a file, or raises.
LEMMA AssessFileAnswers ==
    ASSUME Sound, Answers, Sound', Effects, WayLasts, NEW j \in Rows, AssessFile(j)
    PROVE  Answers'
<1>1. PICK g \in work[j].todo :
        IF stored[g] # None /\ \E r \in FilesIn(tree, Me(j)) : r.file = g
        THEN /\ tree' = UpdateSize(tree, CHOOSE r \in FilesIn(tree, Me(j)) : r.file = g, stored[g])
             /\ Did(j, g) /\ UNCHANGED rows
        ELSE Raise(j) /\ UNCHANGED tree
  BY Zenon DEF AssessFile
<1>2. /\ Running(j) /\ work[j].pc = "assess"
      /\ UNCHANGED <<stored, made, target, call, accrual, direct, swept>>
  BY DEF AssessFile, At, Running, others
<1>3. work[j].at # None /\ work[j].at \in Ids
  BY <1>2, WorkerFacts
<1>4. CASE stored[g] # None /\ \E r \in FilesIn(tree, Me(j)) : r.file = g
  <2> DEFINE r == CHOOSE r \in FilesIn(tree, Me(j)) : r.file = g
  <2>1. r \in FilesIn(tree, Me(j)) /\ r.file = g
    BY <1>4
  <2>2. tree' = UpdateSize(tree, r, stored[g]) /\ Did(j, g) /\ UNCHANGED rows
    BY <1>1, <1>4
  <2> HIDE DEF r
  <2>3. InTree(tree, work[j].at) => IsRecorded(g)'
    BY <1>2, <1>4, <2>1, <2>2, FileSizedEffects DEF FilesIn, Me
  <2>4. /\ work'[j].at = work[j].at /\ work'[j].pc = work[j].pc /\ work'[j].path = work[j].path
        /\ work'[j].seen = work[j].seen /\ work'[j].todo = work[j].todo \ {g}
        /\ \A k \in Rows \ {j} : work'[k] = work[k]
    BY <2>2, DidFacts
  <2>5. ASSUME NEW f \in Files, Claimed(f)', Covers(j, f), LeftHere(j, f)
        PROVE  Done(f)' \/ LeftHere(j, f)'
    <3>1. stored[f] # None /\ f \in work[j].todo /\ HasRow(tree, f, work[j].at)
      BY <1>2, <2>5 DEF LeftHere
    <3>2. CASE f = g
      <4>1. InTree(tree, work[j].at)
        BY <1>2, <2>5, CoveringFacts
      <4> QED
        BY <1>2, <2>3, <3>1, <3>2, <4>1 DEF Done
    <3>3. CASE f # g
      <4>1. RowsLast(f)
        BY <1>2, <2>5, QuietOf
      <4>2. HasRow(tree', f, work[j].at)
        BY <1>3, <3>1, <4>1 DEF RowsLast
      <4> QED
        BY <1>2, <2>4, <3>1, <3>3, <4>2 DEF LeftHere
    <3> QED
      BY <3>2, <3>3
  <2>6. ASSUME NEW f \in Files, NEW q \in Subpaths(work[j].path), Covers(j, f), q \in Up(f),
               LeftBelow(j, f, q)
        PROVE  LeftBelow(j, f, q)'
    <3>1. SubsAt(tree, work[j].at, q) \subseteq SubsAt(tree', work[j].at, q)
      BY <1>2, <2>6, CoveringFacts DEF WayLasts, DirsLast
    <3> QED
      BY <1>2, <2>4, <2>6, <3>1 DEF LeftBelow, OnStorage
  <2> QED
    BY <1>2, <1>3, <2>2, <2>4, <2>5, <2>6, WorkerGoesOn
<1>5. CASE ~(stored[g] # None /\ \E r \in FilesIn(tree, Me(j)) : r.file = g)
  <2>1. Raise(j) /\ UNCHANGED tree
    BY <1>1, <1>5
  <2>2. \A k \in Rows \ {j} : rows'[k] = rows[k] /\ work'[k] = work[k]
    BY <2>1, SoundFacts DEF Raise
  <2>3. ~Running(j)'
    BY <2>1, SoundFacts, StatusSteps DEF Raise, Running
  <2>4. Quiet
    BY <1>2 DEF Quiet
  <2> QED
    BY <1>2, <2>2, <2>3, <2>4, EndsAnswers
<1> QED
  BY <1>4, <1>5

\* A worker calls for a job of a subdirectory.
LEMMA ScheduleSubdirectoryAnswers ==
    ASSUME Sound, Answers, Sound', Effects, WayLasts, NEW j \in Rows, ScheduleSubdirectory(j)
    PROVE  Answers'
<1>1. PICK i \in work[j].todo : Did(j, i) /\ Calls(j, i)
  BY DEF ScheduleSubdirectory
<1>2. /\ Running(j) /\ work[j].pc = "schedule" /\ call[j].pc = "none"
      /\ UNCHANGED <<stored, records, rows, target, accrual, direct, swept>>
      /\ UNCHANGED <<tree, made>>
  BY DEF ScheduleSubdirectory, At, Running, others, records
<1>3. j \in Callers /\ j # Accrual /\ Rows \subseteq Callers /\ Accrual \in Callers
  BY <1>2, WorkerFacts DEF Callers
<1>4. /\ call'[j].pc = "look" /\ call'[j].at = i /\ call'[Accrual] = call[Accrual]
      /\ \A k \in Rows \ {j} : call'[k] = call[k]
  BY <1>1, <1>3, SoundFacts DEF Calls
<1>5. /\ work'[j].at = work[j].at /\ work'[j].pc = work[j].pc /\ work'[j].path = work[j].path
      /\ work'[j].seen = work[j].seen /\ work'[j].todo = work[j].todo \ {i}
      /\ \A k \in Rows \ {j} : work'[k] = work[k]
  BY <1>1, DidFacts
<1>6. CASE work[j].at # None
  <2>1. \A f \in Files : ~LeftHere(j, f)
    BY <1>2 DEF LeftHere
  <2>2. ASSUME NEW f \in Files, NEW q \in Subpaths(work[j].path), LeftBelow(j, f, q)
        PROVE  LeftBelow(j, f, q)'
    <3>1. PICK c \in SubsAt(tree, work[j].at, q) : c \in work[j].todo /\ OnStorage(q)
      BY <1>2, <2>2 DEF LeftBelow
    <3>2. c \in work'[j].todo \/ (call'[j].pc \in {"look", "create"} /\ call'[j].at = c)
      BY <1>4, <1>5, <3>1
    <3>3. OnStorage(q)' /\ c \in SubsAt(tree, work[j].at, q)'
      BY <1>2, <1>5, <3>1 DEF OnStorage
    <3> QED
      BY <1>2, <1>5, <3>2, <3>3 DEF LeftBelow
  <2> QED
    BY <1>2, <1>3, <1>4, <1>5, <1>6, <2>1, <2>2, WorkerGoesOn
<1>7. CASE work[j].at = None
  <2>1. Quiet
    BY <1>2 DEF Quiet
  <2>2. FreshAt(j)' /\ EndedAt(j)'
    BY <1>2, <1>5, <2>1, ListingsStay DEF Answers, Running
  <2>3. \A f \in Files : ~Covers(j, f)
    BY <1>2, <1>7 DEF Covers
  <2> QED
    BY <1>2, <1>4, <1>5, <2>1, <2>2, <2>3, WorkerAnswers
<1> QED
  BY <1>6, <1>7

\* A worker takes a row.
LEMMA ReserveAnswers ==
    ASSUME Sound, Answers, Sound', Effects, WayLasts, NEW j \in Rows, Reserve(j)
    PROVE  Answers'
<1> DEFINE x == target[j]
           w == IF x = Group THEN [Idle EXCEPT !.pc = "schedule", !.todo = {RootId}]
                ELSE IF tree.dirs[x] = None THEN [Idle EXCEPT !.pc = "schedule"]
                ELSE [Idle EXCEPT !.pc = "subdirs", !.at = x, !.path = tree.dirs[x].path]
<1>1. /\ rows[j].status = "queued" /\ x # None /\ rows' = [rows EXCEPT ![j] = Locked(@)]
      /\ work' = [work EXCEPT ![j] = w]
      /\ UNCHANGED <<stored, tree, made, target, call, accrual, direct, swept>>
  BY Zenon DEF Reserve, records, others
<1>2. /\ work'[j] = w /\ \A k \in Rows \ {j} : rows'[k] = rows[k] /\ work'[k] = work[k]
  BY <1>1, SoundFacts
<1>3. /\ x = Group => w.at = None /\ w.pc = "schedule"
      /\ x # Group /\ tree.dirs[x] = None => w.at = None /\ w.pc = "schedule"
      /\ x # Group /\ tree.dirs[x] # None => w.at = x /\ w.pc = "subdirs" /\ w.path = PathOf(x)
  BY DEF Idle, PathOf
<1> HIDE DEF w
<1>4. Quiet
  BY <1>1 DEF Quiet
<1>5. ASSUME NEW f \in Files, Concerns(j, f)
      PROVE  /\ w.at = x /\ w.at # None /\ w.pc = "subdirs" /\ w.path = PathOf(x)
             /\ w.path \in Up(f)
  <2>1. x \in Ids /\ InTree(tree, x) /\ PathOf(x) \in Up(f)
    BY <1>5 DEF Concerns, Live
  <2>2. tree.dirs[x] # None
    BY <2>1, SoundFacts, InTreeFacts
  <2> QED
    BY <1>3, <2>1, <2>2, NamesAssumption
<1>6. FreshAt(j)'
  BY <1>2, <1>3 DEF FreshAt
<1>7. EndedAt(j)'
  <2>1. \A f \in Files : Concerns(j, f)' => Concerns(j, f)
    BY <1>1, <1>4, QuietFacts
  <2> QED
    BY <1>2, <1>5, <2>1 DEF EndedAt
<1>8. ASSUME NEW f \in Files, Covers(j, f) PROVE Covers(j, f)'
  <2>1. Concerns(j, f)'
    BY <1>1, <1>4, <1>8, ConcernsLast DEF Covers, WayLasts
  <2>2. w.at # None /\ w.pc = "subdirs" /\ w.path \in Up(f) /\ Folder[f] \in Paths
    BY <1>5, <1>8, TreeAssumption DEF Covers
  <2>3. CASE w.path = Folder[f]
    BY <1>2, <2>1, <2>2, <2>3 DEF Covers, Left, LeftHere
  <2>4. CASE w.path # Folder[f]
    <3>1. \E q \in Subpaths(w.path) : q \in Up(f)
      BY <2>2, <2>4, NextBelow DEF Up
    <3> QED
      BY <1>2, <2>1, <2>2, <3>1 DEF Covers, Left, LeftBelow
  <2> QED
    BY <2>3, <2>4
<1> QED
  BY <1>1, <1>2, <1>4, <1>6, <1>7, <1>8, WorkerAnswers

\* A row whose record is gone fails.
LEMMA ReserveGoneAnswers ==
    ASSUME Sound, Answers, Sound', Effects, WayLasts, NEW j \in Rows, ReserveGone(j)
    PROVE  Answers'
<1>1. /\ rows' = [rows EXCEPT ![j] = AfterDeserializationError]
      /\ UNCHANGED <<stored, tree, made, target, work, call, accrual, direct, swept>>
  BY DEF ReserveGone, records, others
<1>2. ~Running(j)' /\ \A k \in Rows \ {j} : rows'[k] = rows[k]
  BY <1>1, SoundFacts DEF Running, AfterDeserializationError
<1>3. Quiet
  BY <1>1 DEF Quiet
<1> QED
  BY <1>1, <1>2, <1>3, EndsAnswers

\* A worker is done, with its job's record and with its row.
LEMMA FinishAnswers ==
    ASSUME Sound, Answers, Sound', Effects, WayLasts, NEW j \in Rows, Finish(j) \/ Interrupt(j)
    PROVE  Answers'
<1>1. /\ UNCHANGED <<stored, tree, made, accrual, direct, swept>>
      /\ rows' = [rows EXCEPT ![j] = AfterRaise(@)] \/ rows' = [rows EXCEPT ![j] = AfterCrash(@)]
         \/ rows' = [rows EXCEPT ![j] = Absent]
      /\ target' = target \/ (Performed(j) /\ target' = [target EXCEPT ![j] = None])
      /\ work' = [work EXCEPT ![j] = Idle] /\ Running(j) /\ (Returns(j) \/ UNCHANGED call)
  BY DEF Interrupt, Running, Finish, records, others, Performed, At
<1>2. ~Running(j)' /\ \A k \in Rows \ {j} : rows'[k] = rows[k] /\ work'[k] = work[k]
  BY <1>1, SoundFacts, StatusSteps DEF Running, Absent
<1>3. call'[Accrual] = call[Accrual] /\ \A k \in Rows \ {j} : call'[k] = call[k]
  BY <1>1, SoundFacts, ProcessAssumption DEF Returns, Callers
<1>4. ASSUME Performed(j), NEW f \in Files PROVE ~Covers(j, f)
  <2>1. work[j].pc = "schedule" /\ work[j].todo = {} /\ call[j].pc = "none" /\ Running(j)
    BY <1>4 DEF Performed, At, Running
  <2>2. ~Left(j, f)
    BY <2>1 DEF Left, LeftHere, LeftBelow
  <2> QED
    BY <2>1, <2>2 DEF Covers
<1>5. \A m \in Rows : target'[m] = target[m]
                      \/ (target'[m] = None /\ \A f \in Files : ~Covers(m, f))
  BY <1>1, <1>4, SoundFacts
<1>6. Quiet
  BY <1>1 DEF Quiet
<1> QED
  BY <1>2, <1>3, <1>5, <1>6, EndsAnswers

\* What is done is answered for.
LEMMA DoneAnswers ==
    ASSUME NEW f \in Files, Done(f)'
    PROVE  FileAnswers(f)'
BY DEF FileAnswers, SeenTo

\* A worker destroys the row of a file.
LEMMA DeletesFileAnswers ==
    ASSUME Sound, Answers, Effects, WayLasts, NEW j \in Rows, DestroyInTree(j), DeletesFile(j)
    PROVE  Answers'
<1>1. UNCHANGED <<stored, made, rows, call, accrual, direct, target, work>>
  BY DestroyCases DEF DeletesFile
<1>2. Quiet
  BY <1>1 DEF Quiet
<1>3. FreshAt(j)' /\ EndedAt(j)'
  BY <1>1, <1>2, ListingsStay DEF Answers, Running
<1>4. \A f \in Files : Claimed(f)' /\ Covers(j, f) => Covers(j, f)'
  BY <1>1, <1>2, CoversLasts DEF Running, WayLasts
<1> QED
  BY <1>1, <1>2, <1>3, <1>4, WorkerAnswers

\* In the tree there is no other way to what is above a leaf.
LEMMA LeafFacts ==
    ASSUME Sound, NEW i \in Ids, InTree(tree, i), Children(tree, i) = {},
           NEW y \in Ids, InTree(tree, y)
    PROVE  /\ PathOf(i) \in Ancestors(PathOf(y)) => y = i
           /\ PathOf(y) \in Ancestors(PathOf(i)) => y \in Chain(tree, i)
<1>1. Sane(tree, made) /\ tree.dirs \in [Ids -> Directory \cup {None}] /\ Shape(tree)
  BY SoundFacts DEF Sane
<1>2. ASSUME PathOf(i) \in Ancestors(PathOf(y)) PROVE y = i
  <2>1. PICK k \in Chain(tree, y) :
            k \in Ids /\ InTree(tree, k) /\ tree.dirs[k].path = PathOf(i)
    BY <1>1, <1>2, OnPath DEF PathOf
  <2>2. k = i
    BY <1>1, <2>1 DEF Shape, PathOf
  <2> QED
    BY <1>1, <2>1, <2>2, LeafIsAlone
<1>3. ASSUME PathOf(y) \in Ancestors(PathOf(i)) PROVE y \in Chain(tree, i)
  <2>1. PICK k \in Chain(tree, i) :
            k \in Ids /\ InTree(tree, k) /\ tree.dirs[k].path = PathOf(y)
    BY <1>1, <1>3, OnPath DEF PathOf
  <2>2. k = y
    BY <1>1, <2>1 DEF Shape, PathOf
  <2> QED
    BY <2>1, <2>2
<1> QED
  BY <1>2, <1>3

\* A worker destroys a directory that is not on the way to a file.
LEMMA AsideAnswers ==
    ASSUME Sound, Answers, Quiet, UNCHANGED <<stored, made, rows, call, accrual, direct>>,
           NEW j \in Rows, Running(j), work[j].pc = "destroy_dirs",
           NEW i \in Ids, DeletesDirectory(j, i),
           NEW f \in Files, Claimed(f)', ~(InTree(tree, i) /\ PathOf(i) \in Up(f)),
           DirsLast(tree, tree', f)
    PROVE  FileAnswers(f)'
<1>1. /\ work'[j].at = work[j].at /\ work'[j].pc = work[j].pc /\ work'[j].path = work[j].path
      /\ work'[j].seen = work[j].seen /\ work'[j].todo = work[j].todo \ {i}
      /\ \A k \in Rows \ {j} : work'[k] = work[k]
  BY DidFacts DEF DeletesDirectory
<1>2. \A m \in Rows : Covers(m, f) => target[m] # i
  BY DEF Covers, Concerns, Live
<1>3. \A m \in Rows : target'[m] = target[m] \/ (target'[m] = None /\ ~Covers(m, f))
  BY <1>2, SoundFacts DEF DeletesDirectory
<1>4. ASSUME Covers(j, f) PROVE Covers(j, f)'
  <2>1. target'[j] = target[j]
    BY <1>3, <1>4
  <2>2. Concerns(j, f)'
    BY <1>4, <2>1, ConcernsLast DEF Covers
  <2>3. work[j].at # None /\ Left(j, f) /\ InTree(tree, work[j].at) /\ work[j].at \in Ids
    BY <1>4, CoveringFacts DEF Covers
  <2>4. LeftHere(j, f)'
    BY <1>1 DEF LeftHere
  <2>5. ASSUME NEW q \in Up(f), LeftBelow(j, f, q) PROVE LeftBelow(j, f, q)'
    <3>1. PICK c \in SubsAt(tree, work[j].at, q) :
              q \in work[j].seen \/ (stored[f] = None /\ c \in work[j].todo)
      BY <2>5 DEF LeftBelow
    <3>2. InTree(tree, c) /\ PathOf(c) = q
      BY <2>3, <3>1, SoundFacts, ChildInTree DEF SubsAt, PathOf
    <3>3. c # i
      BY <3>2
    <3>4. c \in SubsAt(tree', work[j].at, q)
      BY <2>3, <3>1 DEF DirsLast
    <3> QED
      BY <1>1, <3>1, <3>3, <3>4 DEF LeftBelow
  <2>6. Left(j, f)'
    BY <1>1, <2>3, <2>4, <2>5 DEF Left
  <2> QED
    BY <1>1, <2>2, <2>3, <2>6 DEF Covers
<1>5. Accrual \in Callers
  BY DEF Callers
<1> QED
  BY <1>1, <1>3, <1>4, <1>5, QuietFacts, FileStays DEF Answers

\* A worker destroys a directory on the way to a file that is not stored: it is done.
LEMMA GoneAnswers ==
    ASSUME Sound, UNCHANGED stored, NEW i \in Ids, Children(tree, i) = {}, FilesIn(tree, i) = {},
           NEW f \in Files, Claimed(f), InTree(tree, i), PathOf(i) \in Up(f), stored[f] = None,
           tree'.files = tree.files
    PROVE  Done(f)'
<1>1. ASSUME NEW r \in tree.files, r.file = f PROVE FALSE
  <2>1. r.dir \in Ids /\ InTree(tree, r.dir)
    BY <1>1, SoundFacts DEF Sound, RowsAreHeld, Claimed, CfsFile
  <2>2. PathOf(r.dir) = Folder[f]
    BY <1>1, <2>1, SoundFacts, InTreeFacts DEF Sound, Shape, PathOf
  <2>3. r.dir = i
    BY <2>1, <2>2, LeafFacts DEF Up
  <2> QED
    BY <1>1, <2>3 DEF FilesIn
<1> QED
  BY <1>1 DEF Done

\* A worker destroys a directory on the way to a file that is stored: its listing is from
\* before the accrual was watched, and who is concerned has it ahead, or the file is swept.
LEMMA StaleAnswers ==
    ASSUME Sound, Answers, Effects, Quiet, UNCHANGED <<stored, made, rows, call, accrual, direct>>,
           NEW j \in Rows, Running(j), work[j].pc = "destroy_dirs",
           NEW i \in Ids, DeletesDirectory(j, i), ~InTree(tree', i),
           NEW f \in Files, Claimed(f)', InTree(tree, i), PathOf(i) \in Up(f), stored[f] # None
    PROVE  FileAnswers(f)'
<1>1. Claimed(f) /\ RowsLast(f) /\ f \notin swept'
  BY QuietFacts
<1>2. \A k \in Rows : work'[k].at = work[k].at
  BY DidFacts DEF DeletesDirectory
<1>3. PathOf(i) \in Paths /\ i \in Ids \ {RootId} /\ Children(tree, i) = {}
  BY TreeAssumption, AncestorsClosed DEF Up, DeletesDirectory
<1>4. accrual.pc = "jobs" /\ work[j].at \in accrual.ids
  <2>1. PICK top \in work[j].todo : top \in Chain(tree, i)
    BY DEF DeletesDirectory
  <2>2. top \in Ids \ {RootId}
    BY <2>1, JobFacts DEF Sound, TodoFits, Running
  <2>3. InTree(tree, top) /\ PathOf(top) \in Ancestors(PathOf(i))
    BY <2>1, SoundFacts, InTreeFacts, AboveInTree, AboveOnPath DEF PathOf
  <2>4. PathOf(top) \in Up(f)
    BY <2>3, TreeAssumption, AncestorsTransitive DEF Up
  <2>5. /\ HandFits(work[j], target[j]) /\ work[j].at \in Ids
        /\ tree.dirs[top] # None /\ tree.dirs[top].parent = work[j].at
        /\ PathOf(top) \notin work[j].seen
    BY <2>1, <2>2, <2>3, WorkerFacts, SoundFacts, InTreeFacts DEF HandFits
  <2>6. /\ InTree(tree, work[j].at) /\ tree.dirs[work[j].at] # None
        /\ PathOf(top) \in Paths \ {RootPath} /\ ParentPath[PathOf(top)] = PathOf(work[j].at)
    BY <2>2, <2>3, <2>5, SoundFacts, InTreeFacts DEF PathOf
  <2>7. PathOf(top) \in Subpaths(work[j].path)
    BY <2>5, <2>6 DEF HandFits, Subpaths
  <2>8. ~Live(work[j].at)
    BY <1>1, <2>4, <2>5, <2>7 DEF Answers, FreshAt
  <2> QED
    BY <2>5, <2>6, <2>8 DEF Live, Stale
<1>5. ASSUME NEW m \in Rows, Concerns(m, f)' PROVE SeenTo(f, PathOf(target[m]))'
  <2>1. target'[m] = target[m]
    <3>1. target'[m] # None
      BY <1>5, NamesAssumption DEF Concerns, Live
    <3> QED
      BY <3>1, SoundFacts DEF DeletesDirectory
  <2>2. Concerns(m, f)
    BY <1>5, <2>1, QuietFacts
  <2>3. CASE ~Running(m)
    <3>1. Covers(m, f)'
      BY <1>5, <2>3 DEF Covers, Running
    <3>2. PathOf(target[m])' \in Up(f)
      BY <1>5 DEF Concerns
    <3>3. PathOf(target[m])' \in Ancestors(PathOf(target[m])')
      BY <3>2, TreeAssumption, AncestorsClosed DEF Up
    <3> QED
      BY <3>1, <3>3 DEF SeenTo, CoveredFrom
  <2>4. CASE Running(m) /\ work[m].at = None
    BY <1>1, <2>2, <2>4 DEF Answers, EndedAt, RowsLast, SeenTo
  <2>5. CASE Running(m) /\ work[m].at # None
    <3> DEFINE y == target[m]
    <3>1. y \in Ids /\ InTree(tree, y) /\ ~Stale(y) /\ PathOf(y) \in Up(f) /\ InTree(tree', y)
      BY <1>5, <2>1, <2>2 DEF Concerns, Live
    <3>2. work[m].at = y
      BY <2>5, <3>1, NamesAssumption DEF Sound, WorkIsSound, WorkFits, HandFits
    <3>3. y # i /\ m # j
      BY <1>4, <3>1, <3>2 DEF Stale
    <3>4. PathOf(i) \in Ancestors(PathOf(y)) \/ PathOf(y) \in Ancestors(PathOf(i))
      BY <3>1, TreeAssumption, AncestorsLinear DEF Up
    <3>5. y \in Chain(tree, i) \ {i}
      BY <1>3, <3>1, <3>3, <3>4, LeafFacts
    <3>6. AnotherAbove(j, i)
      BY <2>5, <3>2, <3>3, <3>5 DEF AnotherAbove, Me, Running
    <3>7. f \in swept'
      BY <3>6 DEF DeletesDirectory, Sweep, Up, PathOf
    <3> QED
      BY <1>1, <3>7
  <2> QED
    BY <2>3, <2>4, <2>5
<1> QED
  BY <1>4, <1>5 DEF FileAnswers

\* A worker destroys rows of directories gone from storage.
LEMMA DestroyInTreeAnswers ==
    ASSUME Sound, Answers, Sound', Effects,
           NEW j \in Rows, DestroyInTree(j), DeletesFile(j) => WayLasts
    PROVE  Answers'
<1>1. /\ Running(j) /\ work[j].pc = "destroy_dirs"
      /\ UNCHANGED <<stored, made, rows, call, accrual, direct>>
      /\ DeletesFile(j) \/ \E i \in Ids : DeletesDirectory(j, i)
  BY DestroyCases
<1>2. Quiet
  BY <1>1 DEF Quiet
<1>3. CASE DeletesFile(j)
  BY <1>3, DeletesFileAnswers
<1>4. ASSUME NEW i \in Ids, DeletesDirectory(j, i) PROVE Answers'
  <2>1. /\ tree'.files = tree.files /\ ~InTree(tree', i)
        /\ \A f \in Files : ~(InTree(tree, i) /\ PathOf(i) \in Up(f)) => DirsLast(tree, tree', f)
    <3>1. swept \subseteq swept' /\ i \in Ids \ {RootId}
      BY <1>4 DEF Effects, TreeMoves, DeletesDirectory
    <3> QED
      BY <1>1, <1>4, <3>1, DirectoryDestroyedEffects DEF DeletesDirectory
  <2>2. ASSUME NEW k \in Rows PROVE FreshAt(k)' /\ EndedAt(k)'
    <3>1. target'[k] \in {target[k], None}
      BY <1>4, SoundFacts DEF DeletesDirectory
    <3>2. /\ work'[k].at = work[k].at /\ work'[k].path = work[k].path
          /\ work'[k].pc = work[k].pc /\ work'[k].seen = work[k].seen
      BY <1>4, DidFacts DEF DeletesDirectory
    <3> QED
      BY <1>1, <1>2, <3>1, <3>2, ListingsStay DEF Answers, Running
  <2>3. ASSUME NEW f \in Files, Claimed(f)' PROVE FileAnswers(f)'
    <3>1. CASE ~(InTree(tree, i) /\ PathOf(i) \in Up(f))
      BY <1>1, <1>2, <1>4, <2>1, <2>3, <3>1, AsideAnswers
    <3>2. CASE InTree(tree, i) /\ PathOf(i) \in Up(f) /\ stored[f] = None
      <4>1. Claimed(f)
        BY <1>2, <2>3, QuietFacts
      <4> QED
        BY <1>1, <1>4, <2>1, <3>2, <4>1, GoneAnswers, DoneAnswers DEF DeletesDirectory
    <3>3. CASE InTree(tree, i) /\ PathOf(i) \in Up(f) /\ stored[f] # None
      BY <1>1, <1>2, <1>4, <2>1, <2>3, <3>3, StaleAnswers
    <3> QED
      BY <3>1, <3>2, <3>3
  <2> QED
    BY <2>2, <2>3 DEF Answers
<1> QED
  BY <1>1, <1>3, <1>4

------------------------------------------------------------------------------
(* What jobs answer for: calls and the accrual *)

\* A step of caller c.
LEMMA CallerAnswers ==
    ASSUME Sound, Answers, Quiet, WayLasts, UNCHANGED work, NEW c \in Callers,
           \A b \in Callers \ {c} : call'[b] = call[b],
           \A k \in Rows : Running(k)' => Running(k) /\ target'[k] = target[k],
           \A m \in Rows : target'[m] = target[m] \/ (target[m] = None /\ ~Running(m)'),
           \A f \in Files, p \in Paths :
               Claimed(f)' /\ c \in Rows /\ Covers(c, f) /\ p = PathOf(target[c])
                   => SeenTo(f, p)',
           \A f \in Files :
               Claimed(f)' /\ Claimed(f) /\ c = Accrual /\ accrual.pc = "schedule"
               /\ call[Accrual].pc \in {"look", "create"}
                   => SeenTo(f, RootPath)' \/ call'[Accrual].pc \in {"look", "create"}
    PROVE  Answers'
<1>1. ASSUME NEW k \in Rows PROVE FreshAt(k)' /\ EndedAt(k)'
  BY <1>1, ListingsStay DEF Answers
<1>2. ASSUME NEW f \in Files, Claimed(f)' PROVE FileAnswers(f)'
  <2>1. Claimed(f) /\ RowsLast(f) /\ accrual' = accrual /\ FileAnswers(f)
    BY <1>2, QuietFacts DEF Quiet, Answers
  <2>2. ASSUME NEW m \in Rows, NEW p \in Paths, Covers(m, f), p = PathOf(target[m])
        PROVE  SeenTo(f, p)'
    <3>1. CASE m = c
      BY <1>2, <2>2, <3>1
    <3>2. CASE m # c
      <4>1. target'[m] = target[m] /\ m \in Callers
        BY <2>2, NamesAssumption DEF Covers, Concerns, Live, Callers
      <4>2. Covers(m, f)' /\ tree'.dirs[target[m]].path = PathOf(target[m])
        BY <1>2, <2>2, <3>2, <4>1, CoversLasts DEF WayLasts
      <4>3. PathOf(target[m])' = p /\ p \in Ancestors(p)
        BY <2>2, <4>1, <4>2, AncestorsClosed DEF PathOf
      <4> QED
        BY <4>2, <4>3 DEF SeenTo, CoveredFrom
    <3> QED
      BY <3>1, <3>2
  <2>3. ASSUME NEW m \in Rows, Concerns(m, f)'
        PROVE  \/ Covers(m, f)'
               \/ Concerns(m, f) /\ tree'.dirs[target'[m]].path = PathOf(target[m])
    <3>1. CASE target'[m] = target[m]
      BY <2>3, <3>1, QuietFacts
    <3>2. CASE ~Running(m)'
      BY <2>3, <3>2 DEF Covers
    <3> QED
      BY <3>1, <3>2
  <2>4. accrual.pc = "schedule" /\ call[Accrual].pc \in {"look", "create"} =>
            SeenTo(f, RootPath)' \/ call'[Accrual].pc \in {"look", "create"}
    <3>1. Accrual \in Callers
      BY DEF Callers
    <3> QED
      BY <1>2, <2>1, <3>1
  <2> QED
    BY <2>1, <2>2, <2>3, <2>4, FileHandover DEF RowsLast
<1> QED
  BY <1>1, <1>2 DEF Answers

\* What a worker covers is left to it whatever its call is at, or it calls for the job
\* of the subdirectory.
LEMMA CalledFor ==
    ASSUME Sound, UNCHANGED <<stored, tree, work>>, NEW f \in Files,
           NEW c \in Rows, Running(c), Covers(c, f)
    PROVE  \/ Left(c, f)'
           \/ /\ call[c].pc \in {"look", "create"} /\ Live(call[c].at)
              /\ PathOf(call[c].at) \in Subpaths(PathOf(target[c]))
              /\ PathOf(call[c].at) \in Up(f) /\ OnStorage(PathOf(call[c].at))
<1>1. /\ work[c].at \in Ids /\ InTree(tree, work[c].at) /\ Live(work[c].at) /\ Left(c, f)
      /\ work[c].at = target[c] /\ work[c].path = PathOf(work[c].at)
  BY CoveringFacts
<1>2. CASE work[c].path = Folder[f] /\ LeftHere(c, f)
  <2>1. LeftHere(c, f)'
    BY <1>2 DEF LeftHere
  <2> QED
    BY <1>2, <2>1 DEF Left
<1>3. ASSUME NEW q \in Subpaths(work[c].path), q \in Up(f), LeftBelow(c, f, q), ~LeftBelow(c, f, q)'
      PROVE  /\ call[c].pc \in {"look", "create"} /\ Live(call[c].at)
             /\ PathOf(call[c].at) \in Subpaths(PathOf(target[c]))
             /\ PathOf(call[c].at) \in Up(f) /\ OnStorage(PathOf(call[c].at))
  <2>1. work[c].pc = "schedule"
    BY <1>3 DEF LeftBelow, OnStorage
  <2>2. PICK s \in SubsAt(tree, work[c].at, q) :
            s \in work[c].todo \/ (call[c].pc \in {"look", "create"} /\ call[c].at = s)
    BY <1>3, <2>1 DEF LeftBelow
  <2>3. OnStorage(q)
    BY <1>3, <2>1 DEF LeftBelow
  <2>4. call[c].pc \in {"look", "create"} /\ call[c].at = s
    BY <1>3, <2>1, <2>2, <2>3 DEF LeftBelow, OnStorage
  <2>5. s \in Children(tree, work[c].at) /\ PathOf(s) = q
    BY <2>2 DEF SubsAt, PathOf
  <2>6. s \in Ids /\ InTree(tree, s) /\ s # RootId /\ tree.dirs[s].parent = work[c].at
    BY <1>1, <2>5, SoundFacts, ChildInTree
  <2>7. ~Stale(s)
    BY <1>1, <2>6 DEF Sound, AccrualIsSound, Stale, Live
  <2> QED
    BY <1>1, <1>3, <2>3, <2>4, <2>5, <2>6, <2>7 DEF Live
<1>4. CASE \E q \in Subpaths(work[c].path) \cap Up(f) : LeftBelow(c, f, q)
  BY <1>3, <1>4 DEF Left
<1> QED
  BY <1>1, <1>2, <1>4 DEF Left

\* A job of the root is concerned with every file, once the accrual has stored some.
LEMMA RootConcerns ==
    ASSUME Sound, Watched, accrual.pc # "jobs", NEW f \in Files
    PROVE  Live(RootId) /\ PathOf(RootId) = RootPath /\ RootPath \in Up(f) /\ OnStorage(RootPath)
<1>1. RootId \in Ids /\ InTree(tree, RootId) /\ PathOf(RootId) = RootPath
  BY SoundFacts, RootInTree, TreeAssumption DEF PathOf
<1>2. \A g \in Files : RootPath \in Ancestors(Folder[g])
  BY PathsAssumption, TreeAssumption
<1>3. \E g \in Files : stored[g] # None
  <2>1. \A g \in accrual.copied : g \in Files /\ stored[g] # None
    BY SoundFacts, ProcessAssumption DEF Sound, AccrualIsSound
  <2> QED
    BY <2>1 DEF Watched
<1> QED
  BY <1>1, <1>2, <1>3 DEF Live, Stale, Up, OnStorage

\* A caller looks whether there is a job already.
LEMMA LookAnswers ==
    ASSUME Sound, Answers, Watched, Sound', Effects, WayLasts, NEW c \in Callers, Look(c)
    PROVE  Answers'
<1> DEFINE x == call[c].at
<1>1. /\ call[c].pc = "look"
      /\ IF Scheduled(x) \/ (x = Group /\ \E i \in Ids : Scheduled(i))
         THEN Returns(c)
         ELSE call' = [call EXCEPT ![c].pc = "create"]
      /\ UNCHANGED <<stored, tree, made, rows, target, work, accrual, direct, swept>>
  BY DEF Look, records, others
<1>2. Quiet
  BY <1>1 DEF Quiet
<1>3. \A b \in Callers \ {c} : call'[b] = call[b]
  BY <1>1, SoundFacts DEF Returns
<1>4. \A m \in Rows \ {c}, f \in Files, p \in Paths :
          Claimed(f)' /\ Covers(m, f) /\ p = PathOf(target[m])
              => Covers(m, f)' /\ p = PathOf(target[m])'
  <2> SUFFICES ASSUME NEW m \in Rows \ {c}, NEW f \in Files, NEW p \in Paths,
                      Claimed(f)', Covers(m, f), p = PathOf(target[m])
               PROVE  Covers(m, f)' /\ p = PathOf(target[m])'
    OBVIOUS
  <2>1. call'[m] = call[m]
    BY <1>3 DEF Callers
  <2> QED
    BY <1>1, <1>2, <2>1, CoversLasts DEF Running, WayLasts, PathOf
<1>5. ASSUME c \in Rows, NEW f \in Files, NEW p \in Paths, Claimed(f)', Covers(c, f),
             p = PathOf(target[c])
      PROVE  SeenTo(f, p)'
  <2>1. Claimed(f) /\ RowsLast(f) /\ p = PathOf(target[c])' /\ Concerns(c, f)'
    BY <1>1, <1>2, <1>5, QuietFacts, ConcernsLast DEF PathOf, Covers, WayLasts
  <2>2. CASE Covers(c, f)'
    BY <1>5, <2>1, <2>2, AncestorsClosed DEF SeenTo, CoveredFrom
  <2>3. CASE Running(c) /\ ~Covers(c, f)'
    <3>1. ~Left(c, f)'
      BY <1>1, <1>5, <2>1, <2>3, CoveringFacts DEF Covers, Running
    <3>2. /\ Live(x) /\ PathOf(x) \in Subpaths(p) /\ PathOf(x) \in Up(f) /\ OnStorage(PathOf(x))
      BY <1>1, <1>5, <2>3, <3>1, CalledFor
    <3>3. x \in Ids /\ x # Group
      BY <3>2, NamesAssumption DEF Live
    <3>4. Scheduled(x)
      <4>1. CASE ~Scheduled(x)
        <5>1. call' = [call EXCEPT ![c].pc = "create"]
          BY <1>1, <3>3, <4>1
        <5>2. call'[c].pc = "create" /\ call'[c].at = x
          BY <5>1, SoundFacts DEF CallRecord
        <5>3. Left(c, f)'
          <6>1. Left(c, f)
            BY <1>5, <2>3, CoveringFacts
          <6>2. LeftHere(c, f) => LeftHere(c, f)'
            BY <1>1 DEF LeftHere
          <6>3. \A q : LeftBelow(c, f, q) => LeftBelow(c, f, q)'
            BY <1>1, <5>2 DEF LeftBelow, OnStorage
          <6> QED
            BY <1>1, <6>1, <6>2, <6>3 DEF Left
        <5> QED
          BY <3>1, <5>3
      <4> QED
        BY <4>1
    <3>5. PICK m \in Rows : target[m] = x
      BY <3>4 DEF Scheduled
    <3>6. SeenTo(f, PathOf(x))
      BY <2>1, <3>2, <3>5 DEF Answers, FileAnswers, Concerns
    <3>7. CASE Done(f)
      BY <2>1, <3>7 DEF RowsLast, SeenTo
    <3>8. CASE CoveredFrom(f, PathOf(x))
      <4>1. PICK k \in Rows : Covers(k, f) /\ PathOf(x) \in Ancestors(PathOf(target[k]))
        BY <3>8 DEF CoveredFrom
      <4>2. PathOf(x) \in Paths \ {RootPath} /\ ParentPath[PathOf(x)] = p
        BY <3>2 DEF Subpaths
      <4>3. k # c
        BY <1>5, <4>1, <4>2, NotAboveItself
      <4>4. PICK y \in Paths : y = PathOf(target[k])
        BY <4>1, CoversSees
      <4>5. Covers(k, f)' /\ y = PathOf(target[k])'
        BY <1>4, <1>5, <4>1, <4>3, <4>4
      <4>6. p \in Ancestors(y)
        BY <4>1, <4>2, <4>4, AncestorsClosed
      <4> QED
        BY <4>5, <4>6 DEF SeenTo, CoveredFrom
    <3> QED
      BY <3>6, <3>7, <3>8 DEF SeenTo
  <2>4. CASE ~Running(c)
    BY <1>1, <2>1, <2>2, <2>4 DEF Covers, Running
  <2> QED
    BY <2>2, <2>3, <2>4
<1>6. ASSUME NEW f \in Files, Claimed(f)', Claimed(f), c = Accrual, accrual.pc = "schedule",
             call'[Accrual].pc \notin {"look", "create"}
      PROVE  SeenTo(f, RootPath)'
  <2>1. x = RootId /\ RootId \in Ids
    BY <1>1, <1>6, TreeAssumption DEF Sound, AccrualIsSound
  <2>2. Scheduled(RootId)
    <3>1. CASE ~Scheduled(RootId)
      <4>1. call' = [call EXCEPT ![c].pc = "create"]
        BY <1>1, <2>1, <3>1, NamesAssumption
      <4>2. call'[c].pc = "create"
        BY <4>1, SoundFacts DEF CallRecord
      <4> QED
        BY <1>6, <4>2
    <3> QED
      BY <3>1
  <2>3. PICK m \in Rows : target[m] = RootId
    BY <2>2 DEF Scheduled
  <2>4. SeenTo(f, RootPath)
    BY <1>6, <2>3, RootConcerns DEF Concerns, Answers, FileAnswers
  <2>5. ASSUME NEW k \in Rows, NEW p \in Paths, Covers(k, f), p = PathOf(target[k])
        PROVE  SeenTo(f, p)'
    <3>1. Covers(k, f)' /\ p = PathOf(target[k])'
      BY <1>4, <1>6, <2>5, ProcessAssumption
    <3> QED
      BY <3>1, AncestorsClosed DEF SeenTo, CoveredFrom
  <2>6. Done(f) => Done(f)'
    BY <1>2, <1>6, QuietFacts DEF RowsLast
  <2> QED
    BY <2>4, <2>5, <2>6, SeenLasts, TreeAssumption
<1> QED
  BY <1>1, <1>2, <1>3, <1>5, <1>6, CallerAnswers DEF Running

\* A caller makes the record of a job.
LEMMA CreateJobAnswers ==
    ASSUME Sound, Answers, Watched, Sound', Effects, WayLasts, NEW c \in Callers, CreateJob(c)
    PROVE  Answers'
<1> DEFINE x == call[c].at
           free == {j \in FreeRows : target[j] = None /\ \A b \in Callers : call[b].job # j}
<1>1. PICK j \in Rows :
        /\ call[c].pc = "create" /\ rows[j].status = "absent" /\ target[j] = None
        /\ target' = [target EXCEPT ![j] = x]
        /\ UNCHANGED <<stored, tree, made, rows, work, accrual, direct, swept>>
        /\ call' = [call EXCEPT ![c].pc = "enqueue", ![c].job = j]
  <2>1. PICK j : /\ call[c].pc = "create" /\ j = CHOOSE k \in free : TRUE
                 /\ free # {} /\ target' = [target EXCEPT ![j] = x]
                 /\ call' = [call EXCEPT ![c].pc = "enqueue", ![c].job = j]
    BY Zenon DEF CreateJob
  <2>2. j \in free
    BY <2>1
  <2> HIDE DEF free
  <2>3. j \in Rows /\ rows[j].status = "absent" /\ target[j] = None
    BY <2>2 DEF free, FreeRows
  <2> QED
    BY <2>1, <2>3 DEF CreateJob, records, others
<1>2. Quiet
  BY <1>1 DEF Quiet
<1>3. \A b \in Callers \ {c} : call'[b] = call[b]
  BY <1>1, SoundFacts
<1>4. target'[j] = x /\ \A m \in Rows \ {j} : target'[m] = target[m]
  BY <1>1, SoundFacts
<1>5. ASSUME NEW f \in Files, NEW p \in Paths, Live(x), PathOf(x) \in Up(f), OnStorage(PathOf(x)),
             p \in Ancestors(PathOf(x))
      PROVE  SeenTo(f, p)'
  <2>1. Live(target[j])' /\ PathOf(target[j])' = PathOf(x)
    BY <1>1, <1>4, <1>5 DEF Live, Stale, PathOf
  <2>2. OnStorage(PathOf(target[j]))'
    BY <1>1, <1>5, <2>1 DEF OnStorage
  <2>3. Covers(j, f)'
    BY <1>1, <1>5, <2>1, <2>2 DEF Covers, Concerns, Running
  <2> QED
    BY <1>5, <2>1, <2>3 DEF SeenTo, CoveredFrom
<1>6. ASSUME c \in Rows, NEW f \in Files, NEW p \in Paths, Claimed(f)', Covers(c, f),
             p = PathOf(target[c])
      PROVE  SeenTo(f, p)'
  <2>1. target'[c] = target[c]
    BY <1>1, <1>4, <1>6, NamesAssumption DEF Covers, Concerns, Live
  <2>2. p = PathOf(target[c])' /\ Concerns(c, f)'
    BY <1>1, <1>2, <1>6, <2>1, ConcernsLast DEF PathOf, Covers, WayLasts
  <2>3. CASE Covers(c, f)'
    BY <1>6, <2>2, <2>3, AncestorsClosed DEF SeenTo, CoveredFrom
  <2>4. CASE Running(c) /\ ~Covers(c, f)'
    <3>1. ~Left(c, f)'
      BY <1>1, <1>6, <2>2, <2>4, CoveringFacts DEF Covers, Running
    <3>2. Live(x) /\ PathOf(x) \in Subpaths(p) /\ PathOf(x) \in Up(f) /\ OnStorage(PathOf(x))
      BY <1>1, <1>6, <2>4, <3>1, CalledFor
    <3>3. PathOf(x) \in Paths \ {RootPath} /\ ParentPath[PathOf(x)] = p
      BY <3>2 DEF Subpaths
    <3>4. p \in Ancestors(PathOf(x))
      BY <3>3, AncestorsClosed
    <3> QED
      BY <1>5, <3>2, <3>4
  <2>5. CASE ~Running(c)
    BY <1>1, <2>2, <2>3, <2>5 DEF Covers, Running
  <2> QED
    BY <2>3, <2>4, <2>5
<1>7. ASSUME NEW f \in Files, c = Accrual, accrual.pc = "schedule" PROVE SeenTo(f, RootPath)'
  <2>1. x = RootId
    BY <1>1, <1>7 DEF Sound, AccrualIsSound
  <2>2. Live(x) /\ PathOf(x) = RootPath /\ RootPath \in Up(f) /\ OnStorage(RootPath)
    BY <1>7, <2>1, RootConcerns
  <2>3. RootPath \in Paths /\ RootPath \in Ancestors(RootPath)
    BY TreeAssumption, AncestorsClosed
  <2> QED
    BY <1>5, <2>2, <2>3
<1>8. \A m \in Rows : target'[m] = target[m] \/ (target[m] = None /\ ~Running(m)')
  BY <1>1, <1>4 DEF Running
<1>9. \A k \in Rows : Running(k)' => Running(k) /\ target'[k] = target[k]
  BY <1>1, <1>4 DEF Running
<1> QED
  BY <1>1, <1>2, <1>3, <1>6, <1>7, <1>8, <1>9, CallerAnswers

\* A caller queues the job, or a person begins or gives up.
LEMMA EnqueueJobAnswers ==
    ASSUME Sound, Answers, Sound', Effects, WayLasts, NEW c \in Callers,
           \/ EnqueueJob(c)
           \/ c \in Requests /\ CallDies(c)
           \/ c \in Requests /\ Request(c)
    PROVE  Answers'
<1>1. /\ UNCHANGED <<stored, tree, made, target, work, accrual, direct, swept>>
      /\ \A k \in Rows : Running(k)' => Running(k)
      /\ c \in Rows \cup {Accrual} => call[c].pc = "enqueue"
      /\ \A b \in Callers \ {c} : call'[b] = call[b]
  <2>1. CASE EnqueueJob(c)
    BY <2>1, SoundFacts DEF EnqueueJob, Returns, Running, Fresh, records, others
  <2>2. CASE c \in Requests /\ CallDies(c)
    BY <2>2, SoundFacts, ProcessAssumption DEF CallDies, Returns, Running, records
  <2>3. CASE c \in Requests /\ Request(c)
    BY <2>3, SoundFacts, ProcessAssumption DEF Request, Calls, Running, records, others
  <2> QED
    BY <2>1, <2>2, <2>3
<1>2. Quiet
  BY <1>1 DEF Quiet
<1>3. ASSUME c \in Rows, NEW f \in Files, NEW p \in Paths, Claimed(f)', Covers(c, f),
             p = PathOf(target[c])
      PROVE  SeenTo(f, p)'
  <2>1. Covers(c, f)' /\ p = PathOf(target[c])'
    BY <1>1, <1>2, <1>3, CoversLasts DEF WayLasts, PathOf
  <2> QED
    BY <1>3, <2>1, AncestorsClosed DEF SeenTo, CoveredFrom
<1> QED
  BY <1>1, <1>2, <1>3, CallerAnswers

\* Steps that neither workers nor callers take, by which nothing is stored.
LEMMA QuietAnswers ==
    ASSUME Sound, Answers, Quiet, WayLasts, UNCHANGED jobs
    PROVE  Answers'
<1>1. UNCHANGED <<rows, work, call, target>> /\ Accrual \notin Rows
  BY ProcessAssumption DEF jobs
<1> QED
  BY <1>1, WorkerAnswers

\* The accrual reads the tree: jobs of what is in it are not relied on any more.
LEMMA AccrualReadsTreeAnswers ==
    ASSUME Sound, AccrualReadsTree
    PROVE  Answers'
<1> DEFINE ids == {i \in Ids : InTree(tree, i)}
<1>1. accrual'.pc = "jobs" /\ accrual'.ids = ids /\ tree' = tree
  BY SoundFacts DEF AccrualReadsTree, AccrualMoves, records
<1>2. \A i : ~(i \in Ids /\ InTree(tree', i) /\ ~(accrual'.pc = "jobs" /\ i \in accrual'.ids))
  BY <1>1
<1> HIDE DEF ids
<1>3. \A k \in Rows, f \in Files : ~Concerns(k, f)'
  BY <1>2 DEF Concerns, Live, Stale
<1>4. \A k \in Rows : FreshAt(k)' /\ EndedAt(k)'
  BY <1>2, <1>3 DEF FreshAt, EndedAt, Live, Stale
<1>5. \A f \in Files : FileAnswers(f)'
  BY <1>1, <1>3 DEF FileAnswers
<1> QED
  BY <1>4, <1>5 DEF Answers

\* Nothing changes but what the accrual relies on.
LEMMA SameAnswers ==
    ASSUME Sound, Answers, UNCHANGED <<stored, tree, rows, work, target, direct, swept>>,
           \A k \in Rows : call'[k] = call[k],
           \A k \in Rows : Live(target[k])' <=> Live(target[k]),
           \A k \in Rows : Running(k) /\ Live(work[k].at)' => Live(work[k].at),
           accrual'.pc \in {"schedule", "await"} =>
               \/ \A f \in Files : Claimed(f) => SeenTo(f, RootPath)
               \/ accrual'.pc = "schedule" /\ call'[Accrual].pc \in {"look", "create"}
    PROVE  Answers'
<1>1. \A p : OnStorage(p)' <=> OnStorage(p)
  BY DEF OnStorage
<1>2. \A f \in Files : (Claimed(f)' <=> Claimed(f)) /\ (Done(f)' <=> Done(f))
  BY DEF Claimed, Done, IsRecorded
<1>3. \A m \in Rows, f \in Files : Concerns(m, f)' <=> Concerns(m, f)
  BY DEF Concerns, PathOf, OnStorage
<1>4. \A m \in Rows, f \in Files : Left(m, f)' <=> Left(m, f)
  BY DEF Left, LeftHere, LeftBelow, OnStorage
<1>5. \A m \in Rows, f \in Files : Covers(m, f)' <=> Covers(m, f)
  BY <1>3, <1>4 DEF Covers, Running
<1>6. \A f \in Files, p \in Paths : SeenTo(f, p)' <=> SeenTo(f, p)
  BY <1>2, <1>5 DEF SeenTo, CoveredFrom, PathOf
<1>7. ASSUME NEW k \in Rows PROVE FreshAt(k)' /\ EndedAt(k)'
  <2>1. FreshAt(k) /\ EndedAt(k)
    BY DEF Answers
  <2>2. FreshAt(k)'
    BY <1>2, <2>1 DEF FreshAt, Running
  <2>3. EndedAt(k)'
    BY <1>2, <1>3, <2>1 DEF EndedAt, Running
  <2> QED
    BY <2>2, <2>3
<1>8. ASSUME NEW f \in Files, Claimed(f)' PROVE FileAnswers(f)'
  <2>1. Claimed(f) /\ FileAnswers(f)
    BY <1>2, <1>8 DEF Answers
  <2>2. ASSUME NEW m \in Rows, Concerns(m, f)' PROVE SeenTo(f, PathOf(target[m]))'
    <3>1. SeenTo(f, PathOf(target[m])) /\ PathOf(target[m]) \in Up(f)
      BY <1>3, <2>1, <2>2 DEF FileAnswers, Concerns
    <3>2. PICK p \in Paths : p = PathOf(target[m]) /\ p = PathOf(target[m])'
      BY <3>1, TreeAssumption, AncestorsClosed DEF Up, PathOf
    <3>3. SeenTo(f, p)'
      BY <1>6, <3>1, <3>2
    <3> QED
      BY <3>2, <3>3 DEF SeenTo, CoveredFrom
  <2>3. SeenTo(f, RootPath) => SeenTo(f, RootPath)'
    BY <1>6, TreeAssumption
  <2> QED
    BY <2>1, <2>2, <2>3 DEF FileAnswers
<1> QED
  BY <1>7, <1>8 DEF Answers

\* No job is pending of what was in the tree: every job is relied on again.
LEMMA AccrualReadsJobsAnswers ==
    ASSUME Sound, Answers, AccrualReadsJobs, accrual'.pc = "schedule"
    PROVE  Answers'
<1>1. /\ accrual.pc = "jobs" /\ \A i \in accrual.ids : ~Scheduled(i)
      /\ accrual'.ids = {} /\ call' = [call EXCEPT ![Accrual] =
                                           [pc |-> "look", at |-> RootId, job |-> None]]
      /\ UNCHANGED <<stored, tree, rows, target, work, direct, swept>>
  BY SoundFacts DEF AccrualReadsJobs, AccrualMoves, Calls, records
<1>2. call'[Accrual].pc = "look" /\ \A k \in Rows : call'[k] = call[k]
  BY <1>1, SoundFacts, ProcessAssumption DEF Callers
<1>3. \A k \in Rows : ~Stale(target[k])
  BY <1>1 DEF Stale, Scheduled
<1>4. \A i : Live(i)' <=> i \in Ids /\ InTree(tree, i)
  BY <1>1 DEF Live, Stale
<1>5. ASSUME NEW k \in Rows, work[k].at \in Ids, InTree(tree, work[k].at), Running(k)
      PROVE  Live(work[k].at)
  <2>1. work[k].at # None
    BY <1>5, NamesAssumption
  <2>2. target[k] = work[k].at
    BY <1>5, <2>1 DEF Sound, WorkIsSound, WorkFits, HandFits
  <2> QED
    BY <1>3, <1>5, <2>2 DEF Live
<1> QED
  BY <1>1, <1>2, <1>3, <1>4, <1>5, SameAnswers DEF Live

\* The accrual comes to an end.
LEMMA AccrualAwaitsAnswers ==
    ASSUME Sound, Answers, AccrualAwaits
    PROVE  Answers'
<1>1. /\ accrual.pc = "schedule" /\ accrual'.pc = "await" /\ call[Accrual].pc = "none"
      /\ UNCHANGED <<stored, tree, rows, work, call, target, direct, swept>>
  BY SoundFacts DEF AccrualAwaits, AccrualMoves, records
<1>2. \A i : Live(i)' <=> Live(i)
  BY <1>1 DEF Live, Stale
<1>3. \A f \in Files : Claimed(f) => SeenTo(f, RootPath)
  BY <1>1 DEF Answers, FileAnswers
<1> QED
  BY <1>1, <1>2, <1>3, SameAnswers DEF Live, Stale

\* Content of a single file arrives, and with it directories on storage.
LEMMA IngestContentAnswers ==
    ASSUME Sound, Answers, Watched, ContentLasts, NEW g \in Direct, IngestContent(g),
           \A f \in Files \ {g} : RowsLast(f) /\ stored'[f] = stored[f]
    PROVE  Answers'
<1>1. /\ UNCHANGED <<tree, made, rows, target, work, call, accrual>> /\ g \in Files
      /\ \E size : stored' = [stored EXCEPT ![g] = size]
      /\ direct' = [direct EXCEPT ![g] = [pc |-> "copied", at |-> None]] /\ stored[g] = None
      /\ swept' = swept \cup
             {f \in Files : /\ stored[f] = None /\ \E r \in tree.files : r.file = f
                           /\ Ancestors(Folder[f]) \cap Revived(g) # {}}
  BY ProcessAssumption DEF IngestContent, DirectMoves, records, jobs
<1>2. g \notin Accrued
  <2>1. accrual.copied = Accrued
    BY DEF Sound, AccrualIsSound, Watched
  <2> QED
    BY <1>1, <2>1 DEF Sound, AccrualIsSound
<1>3. ASSUME NEW f \in Files, Claimed(f)'
      PROVE  /\ Claimed(f) /\ f # g /\ stored'[f] = stored[f] /\ f \notin swept'
             /\ Done(f)' <=> Done(f)
  <2>1. direct'[g].pc = "copied"
    BY <1>1, SoundFacts
  <2>2. f # g
    BY <1>2, <1>3, <2>1 DEF Claimed
  <2>3. f \in Direct => direct'[f] = direct[f]
    BY <1>1, <2>2, SoundFacts
  <2>4. stored'[f] = stored[f] /\ f \notin swept /\ f \notin swept'
    BY <1>1, <1>3, <2>2 DEF Claimed
  <2> QED
    BY <1>1, <1>3, <2>2, <2>3, <2>4 DEF Claimed, Done, IsRecorded
<1>4. \A p : OnStorage(p)' => OnStorage(p) \/ p \in Ancestors(Folder[g])
  BY <1>1 DEF OnStorage
<1>5. \A p : OnStorage(p) => OnStorage(p)'
  BY StorageLasts
<1>6. ASSUME NEW f \in Files, Claimed(f)', NEW m \in Rows, Concerns(m, f)'
      PROVE  /\ target[m] \in Ids /\ Live(target[m]) /\ PathOf(target[m]) \in Up(f)
             /\ ~OnStorage(PathOf(target[m])) =>
                    /\ stored[f] = None /\ PathOf(target[m]) \in Ancestors(Folder[g])
             /\ OnStorage(PathOf(target[m])) => Concerns(m, f)
  <2>1. Live(target[m]) /\ PathOf(target[m]) \in Up(f)
    BY <1>1, <1>6 DEF Concerns, Live, Stale, PathOf
  <2>2. OnStorage(PathOf(target[m])) \/ PathOf(target[m]) \in Ancestors(Folder[g])
    BY <1>1, <1>6 DEF Concerns, OnStorage, PathOf
  <2> QED
    BY <2>1, <2>2 DEF Concerns, Live, OnStorage, Up
<1>7. ASSUME NEW f \in Files, Claimed(f)', NEW m \in Rows, Concerns(m, f)',
             Running(m), work[m].at = None
      PROVE  Done(f)'
  <2>1. CASE OnStorage(PathOf(target[m]))
    BY <1>3, <1>6, <1>7, <2>1 DEF Answers, EndedAt
  <2>2. CASE ~OnStorage(PathOf(target[m]))
    <3>1. PathOf(target[m]) \in Revived(g)
      BY <1>6, <1>7, <2>2 DEF Revived, Running, Me, Live, PathOf
    <3>2. stored[f] = None /\ PathOf(target[m]) \in Ancestors(Folder[f])
      BY <1>6, <1>7, <2>2 DEF Up
    <3>3. \A r \in tree.files : r.file # f
      BY <1>1, <1>3, <1>7, <3>1, <3>2
    <3> QED
      BY <1>3, <1>7, <3>2, <3>3 DEF Done
  <2> QED
    BY <2>1, <2>2
<1>8. ASSUME NEW k \in Rows PROVE FreshAt(k)' /\ EndedAt(k)'
  <2>1. FreshAt(k)'
    <3>1. FreshAt(k)
      BY DEF Answers
    <3>2. \A f \in Files : Claimed(f)' => Claimed(f) /\ stored'[f] = stored[f]
      BY <1>3
    <3> QED
      BY <1>1, <3>1, <3>2 DEF FreshAt, Running, Live, Stale
  <2>2. EndedAt(k)'
    BY <1>1, <1>7 DEF EndedAt, Running
  <2> QED
    BY <2>1, <2>2
<1>9. ASSUME NEW f \in Files, Claimed(f)', ~Done(f)' PROVE FileAnswers(f)'
  <2>1. Claimed(f) /\ FileAnswers(f) /\ stored'[f] = stored[f] /\ (Done(f)' <=> Done(f))
    BY <1>3, <1>9 DEF Answers
  <2>2. ASSUME NEW m \in Rows, Covers(m, f) PROVE Covers(m, f)'
    <3>1. Concerns(m, f)'
      BY <1>1, <1>5, <2>2 DEF Covers, Concerns, Live, Stale, PathOf, OnStorage
    <3>2. LeftHere(m, f) => LeftHere(m, f)'
      BY <1>1, <2>1 DEF LeftHere
    <3>3. \A q : LeftBelow(m, f, q) => LeftBelow(m, f, q)'
      BY <1>1, <1>5, <2>1 DEF LeftBelow
    <3>4. Left(m, f) => Left(m, f)'
      BY <1>1, <3>2, <3>3 DEF Left
    <3> QED
      BY <1>1, <2>2, <3>1, <3>4 DEF Covers, Running
  <2>3. ASSUME NEW m \in Rows, NEW p \in Paths, Covers(m, f), p = PathOf(target[m])
        PROVE  SeenTo(f, p)'
    <3>1. Covers(m, f)' /\ p = PathOf(target[m])'
      BY <1>1, <2>2, <2>3 DEF PathOf
    <3> QED
      BY <3>1, AncestorsClosed DEF SeenTo, CoveredFrom
  <2>4. ASSUME NEW m \in Rows, Concerns(m, f)', ~Concerns(m, f) PROVE Covers(m, f)'
    <3>1. /\ target[m] \in Ids /\ Live(target[m]) /\ PathOf(target[m]) \in Up(f)
          /\ ~OnStorage(PathOf(target[m]))
      BY <1>6, <1>9, <2>4
    <3>2. CASE ~Running(m)
      BY <1>1, <2>4, <3>2 DEF Covers, Running
    <3>3. CASE Running(m)
      <4>1. work[m].at # None
        BY <1>7, <1>9, <2>4, <3>3
      <4>2. HandFits(work[m], target[m])
        BY <3>3, <4>1 DEF Sound, WorkIsSound, WorkFits
      <4>3. work[m].at = target[m] /\ tree.dirs[target[m]] # None
        BY <3>1, <4>1, <4>2, NamesAssumption, SoundFacts, InTreeFacts DEF HandFits, Live
      <4>4. work[m].path = PathOf(target[m]) /\ work[m].pc = "subdirs"
        BY <3>1, <4>2, <4>3 DEF HandFits
      <4>5. LeftHere(m, f)' /\ \A q : LeftBelow(m, f, q)'
        BY <1>1, <4>4 DEF LeftHere, LeftBelow
      <4>6. work[m].path # Folder[f] => \E q \in Subpaths(work[m].path) : q \in Up(f)
        BY <3>1, <4>4, NextBelow, TreeAssumption DEF Up
      <4>7. Left(m, f)'
        BY <1>1, <4>5, <4>6 DEF Left
      <4> QED
        BY <1>1, <2>4, <4>1, <4>7 DEF Covers
    <3> QED
      BY <3>2, <3>3
  <2>5. \A m \in Rows : Concerns(m, f)' =>
            \/ Covers(m, f)'
            \/ Concerns(m, f) /\ tree'.dirs[target'[m]].path = PathOf(target[m])
    BY <1>1, <2>4 DEF PathOf
  <2> QED
    BY <1>1, <2>1, <2>3, <2>5, FileHandover
<1> QED
  BY <1>8, <1>9, DoneAnswers DEF Answers

\* The accrual's part in what is watched.
LEMMA WatchedStays ==
    ASSUME UNCHANGED accrual
    PROVE  Watched' <=> Watched
BY DEF Watched

\* Steps of workers.
LEMMA WorkerMatches ==
    ASSUME MatchInv, Sound', NEW j \in Rows, WorkerStep(j) \/ Interrupt(j)
    PROVE  MatchInv'
<1>1. Sound /\ IInv'
  BY DEF MatchInv, Sound
<1>2. UNCHANGED accrual
  BY DEF WorkerStep, Perform, Reserve, ReserveGone, ListSubdirectories, ListFiles, List,
     MakeDirectory, LoadSubdirectories, DestroyInTree, SubdirectoriesDestroyed, MakeFile,
     LoadFiles, DestroyFile, FilesDestroyed, AssessFile, FilesAssessed, ScheduleSubdirectory,
     Finish, Interrupt, others
<1>3. SUFFICES ASSUME Answers PROVE Answers'
  BY <1>2, WatchedStays DEF MatchInv
<1>4. CASE Reserve(j)
  BY <1>1, <1>3, <1>4, ReserveSound, ReserveAnswers
<1>5. CASE ReserveGone(j)
  BY <1>1, <1>3, <1>5, ReserveGoneSound, ReserveGoneAnswers
<1>6. CASE Interrupt(j)
  BY <1>1, <1>3, <1>6, InterruptSound, FinishAnswers
<1>7. CASE ListSubdirectories(j)
  BY <1>1, <1>3, <1>7, ListSubdirectoriesAnswers
<1>8. CASE MakeDirectory(j)
  BY <1>1, <1>3, <1>8, MakeDirectorySound, MakeDirectoryAnswers
<1>9. CASE LoadSubdirectories(j)
  BY <1>1, <1>3, <1>9, LoadSubdirectoriesAnswers
<1>10. CASE DestroyInTree(j)
  BY <1>1, <1>3, <1>10, DestroyInTreeSound, DestroyInTreeAnswers
<1>11. CASE SubdirectoriesDestroyed(j)
  BY <1>1, <1>3, <1>11, SubdirectoriesDestroyedAnswers
<1>12. CASE ListFiles(j)
  BY <1>1, <1>3, <1>12, ListFilesAnswers
<1>13. CASE MakeFile(j)
  BY <1>1, <1>3, <1>13, MakeFileSound, MakeFileAnswers
<1>14. CASE LoadFiles(j)
  BY <1>1, <1>3, <1>14, LoadFilesAnswers
<1>15. CASE DestroyFile(j)
  BY <1>1, <1>3, <1>15, DestroyFileSound, DestroyFileAnswers
<1>16. CASE FilesDestroyed(j)
  BY <1>1, <1>3, <1>16, FilesDestroyedAnswers
<1>17. CASE AssessFile(j)
  BY <1>1, <1>3, <1>17, AssessFileSound, AssessFileAnswers
<1>18. CASE FilesAssessed(j)
  BY <1>1, <1>3, <1>18, FilesAssessedAnswers
<1>19. CASE ScheduleSubdirectory(j)
  BY <1>1, <1>3, <1>19, ScheduleSubdirectorySound, ScheduleSubdirectoryAnswers
<1>20. CASE Finish(j)
  BY <1>1, <1>3, <1>20, FinishSound, FinishAnswers
<1> QED
  BY <1>4, <1>5, <1>6, <1>7, <1>8, <1>9, <1>10, <1>11, <1>12, <1>13, <1>14, <1>15, <1>16,
     <1>17, <1>18, <1>19, <1>20 DEF WorkerStep, Perform

\* Steps of callers.
LEMMA CallerMatches ==
    ASSUME MatchInv, Sound', NEW c \in Callers,
           CallStep(c) \/ CallDies(c) \/ (c \in Requests /\ Request(c))
    PROVE  MatchInv'
<1>1. Sound /\ IInv'
  BY DEF MatchInv, Sound
<1>2. CASE c = Accrual /\ CallDies(c)
  <2>1. accrual'.pc = "dead"
    BY <1>1, <1>2, SoundFacts DEF CallDies
  <2> QED
    BY <2>1 DEF MatchInv, Watched
<1>3. CASE ~(c = Accrual /\ CallDies(c))
  <2>1. UNCHANGED accrual
    BY <1>3 DEF CallStep, Look, CreateJob, EnqueueJob, CallDies, Request, others
  <2>2. SUFFICES ASSUME Answers, Watched PROVE Answers'
    BY <2>1, WatchedStays DEF MatchInv
  <2>3. CASE CallStep(c)
    <3>1. Effects /\ WayLasts
      BY <1>1, <2>3, CallStepSound
    <3> QED
      BY <1>1, <2>2, <2>3, <3>1, LookAnswers, CreateJobAnswers, EnqueueJobAnswers DEF CallStep
  <2>4. CASE CallDies(c)
    <3>1. c \in Requests /\ Effects /\ WayLasts
      BY <1>1, <1>3, <2>4, CallDiesSound DEF CallDies, Callers
    <3> QED
      BY <1>1, <2>2, <2>4, <3>1, EnqueueJobAnswers
  <2>5. CASE c \in Requests /\ Request(c)
    <3>1. Effects /\ WayLasts
      BY <1>1, <2>5, RequestSound
    <3> QED
      BY <1>1, <2>2, <2>5, <3>1, EnqueueJobAnswers
  <2> QED
    BY <2>3, <2>4, <2>5
<1> QED
  BY <1>2, <1>3

\* Steps of the accrual.
LEMMA AccrualMatches ==
    ASSUME MatchInv, Sound', AccrualStep
    PROVE  MatchInv'
<1>1. Sound /\ IInv' /\ (Watched => Answers)
  BY DEF MatchInv, Sound
<1>2. CASE AccrualReadsTree
  BY <1>1, <1>2, AccrualReadsTreeAnswers DEF MatchInv
<1>3. CASE AccrualReadsJobs
  <2>1. /\ accrual.pc = "jobs" /\ accrual'.copied = accrual.copied
        /\ accrual'.pc \in {"ids", "schedule"}
    BY <1>1, <1>3, SoundFacts DEF AccrualReadsJobs, AccrualMoves
  <2> QED
    BY <1>1, <1>3, <2>1, AccrualReadsJobsAnswers DEF MatchInv, Watched
<1>4. CASE AccrualAwaits
  <2>1. accrual.pc = "schedule" /\ accrual'.copied = accrual.copied
    BY <1>1, <1>4, SoundFacts DEF AccrualAwaits, AccrualMoves
  <2> QED
    BY <1>1, <1>4, <2>1, AccrualAwaitsAnswers DEF MatchInv, Watched
<1>5. ASSUME NEW f \in Accrued, AccrualCopies(f) PROVE MatchInv'
  <2>1. accrual'.pc = "copy"
    BY <1>1, <1>5, SoundFacts DEF AccrualCopies
  <2> QED
    BY <2>1 DEF MatchInv, Watched
<1> QED
  BY <1>2, <1>3, <1>4, <1>5 DEF AccrualStep

\* Single files, the deletion and restoration, and no step at all.
LEMMA OthersMatch ==
    ASSUME MatchInv, Sound',
           \/ \E f \in Direct : IngestContent(f) \/ IngestStep(f)
           \/ DeleteAndRestore \/ UNCHANGED vars
    PROVE  MatchInv'
<1>1. Sound /\ IInv'
  BY DEF MatchInv, Sound
<1>2. UNCHANGED accrual
  BY DEF IngestContent, IngestStep, IngestParents, IngestRecord, IngestAssesses,
     DeleteAndRestore, vars, others
<1>3. SUFFICES ASSUME Answers, Watched PROVE Answers'
  BY <1>2, WatchedStays DEF MatchInv
<1>4. ASSUME NEW f \in Direct, IngestContent(f) PROVE Answers'
  BY <1>1, <1>3, <1>4, IngestContentSound, IngestContentAnswers
<1>5. ASSUME NEW f \in Direct, IngestStep(f) PROVE Answers'
  <2>1. Effects /\ WayLasts
    BY <1>1, <1>5, IngestParentsSound, IngestRecordSound, IngestAssessesSound DEF IngestStep
  <2>2. UNCHANGED <<stored, jobs, accrual>> /\ made \subseteq made'
    BY <1>5 DEF IngestStep, IngestParents, IngestRecord, IngestAssesses, records
  <2>3. \A g \in Direct : direct'[g].pc \in {"never", "new"} => direct[g].pc \in {"never", "new"}
    BY <1>1, <1>5, SoundFacts
    DEF IngestStep, IngestParents, IngestRecord, IngestAssesses, DirectMoves
  <2>4. Quiet
    BY <2>1, <2>2, <2>3 DEF Quiet
  <2> QED
    BY <1>1, <1>3, <2>1, <2>2, <2>4, QuietAnswers
<1>6. CASE DeleteAndRestore
  <2>1. Effects /\ WayLasts
    BY <1>1, <1>6, DeleteAndRestoreSound
  <2>2. Quiet /\ UNCHANGED jobs
    BY <1>6, <2>1 DEF Quiet, DeleteAndRestore
  <2> QED
    BY <1>1, <1>3, <2>1, <2>2, QuietAnswers
<1>7. CASE UNCHANGED vars
  <2>1. UNCHANGED <<tree, made, stored, jobs, accrual, direct, swept>>
    BY <1>7 DEF vars, records, others
  <2>2. Effects /\ WayLasts
    BY <1>1, <2>1, TreeUntouched
  <2>3. Quiet
    BY <2>1, <2>2 DEF Quiet
  <2> QED
    BY <1>1, <1>3, <2>1, <2>2, <2>3, QuietAnswers
<1> QED
  BY <1>4, <1>5, <1>6, <1>7

\* The invariant holds at first.
LEMMA InitMatches == Init => MatchInv
<1> SUFFICES ASSUME Init PROVE MatchInv
  OBVIOUS
<1>1. Sound
  BY StartIsSound DEF Init
<1>2. ~Watched
  BY DEF Init, Start, Watched
<1> QED
  BY <1>1, <1>2 DEF MatchInv

\* And kept by every step.
LEMMA NextMatches == MatchInv /\ [Next]_vars => MatchInv'
<1> SUFFICES ASSUME MatchInv, [Next]_vars PROVE MatchInv'
  OBVIOUS
<1>1. Sound'
  BY NextSound DEF MatchInv
<1>2. CASE \E j \in Rows : WorkerStep(j) \/ Interrupt(j)
  BY <1>1, <1>2, WorkerMatches
<1>3. CASE \E c \in Callers : CallStep(c) \/ CallDies(c)
  BY <1>1, <1>3, CallerMatches
<1>4. CASE \E q \in Requests : Request(q)
  BY <1>1, <1>4, CallerMatches DEF Callers
<1>5. CASE AccrualStep
  BY <1>1, <1>5, AccrualMatches
<1>6. CASE \/ \E f \in Direct : IngestContent(f) \/ IngestStep(f)
           \/ DeleteAndRestore \/ UNCHANGED vars
  BY <1>1, <1>6, OthersMatch
<1> QED
  BY <1>2, <1>3, <1>4, <1>5, <1>6 DEF Next

\* So it always holds.
LEMMA MatchInvariance == Spec => []MatchInv
BY InitMatches, NextMatches, PTL DEF Spec

\* When all is at rest nobody has a file left to see to.
LEMMA RestingIsMatched == MatchInv => RecordsMatchStorage
<1> SUFFICES ASSUME MatchInv PROVE RecordsMatchStorage
  OBVIOUS
<1>1. Sound /\ (Watched => Answers)
  BY DEF MatchInv
<1> SUFFICES ASSUME Resting PROVE RecordsMatchStorage
  BY DEF RecordsMatchStorage
<1>2. \A r \in tree.files : r.file \in swept \/ InTree(tree, r.dir)
  BY <1>1 DEF Sound, RowsAreHeld
<1>3. ASSUME NEW f \in Files \ swept, f \in Direct \ Accrued, direct[f].pc = "done"
      PROVE  IsRecorded(f)
  BY <1>1, <1>3 DEF Sound, DirectIsSound, DirectFits
<1>4. ASSUME NEW f \in Files \ swept, ~(f \in Direct \ Accrued /\ direct[f].pc = "done"),
             accrual.pc = "await", accrual.copied # {}
      PROVE  Done(f)
  <2>1. Claimed(f)
    BY <1>4 DEF Claimed, Resting
  <2>2. SeenTo(f, RootPath)
    BY <1>1, <1>4, <2>1 DEF Watched, Answers, FileAnswers
  <2>3. \A m \in Rows : ~Covers(m, f)
    BY NamesAssumption DEF Resting, Covers, Concerns, Live
  <2> QED
    BY <2>2, <2>3 DEF SeenTo, CoveredFrom
<1> QED
  BY <1>2, <1>3, <1>4 DEF RecordsMatchStorage, Done

(***************************************************************************)
(* Once all jobs are done the records match what is on storage, whatever   *)
(* the workers, the callers, the accrual and the single files did on the   *)
(* way, and in whatever order: but for the files a worker with an older    *)
(* listing got wrong.                                                      *)
(***************************************************************************)
THEOREM RecordsMatchStorageHolds == Spec => []RecordsMatchStorage
BY MatchInvariance, RestingIsMatched, PTL
===============================================================================
