---------------------- MODULE BlockDependencyDagProofs ----------------------
(***************************************************************************)
(* Lemmas on the operators of BlockDependencyDag, for every set of blocks: *)
(* what holds of every graph and of every persisted record that add,       *)
(* remove and the rebuild at start-up can produce.  The proofs about the   *)
(* casper buffer and about the block processor rest on them.               *)
(***************************************************************************)
EXTENDS BlockDependencyDag, TLAPS

Symmetric(d) ==
    \A p, c \in Hash : c \in d.parentToChild[p] <=> p \in d.childToParent[c]

FreeHasNoParents(d) == \A h \in d.dependencyFree : d.childToParent[h] = {}

ParentlessIsFree(d) ==
    \A p \in Hash :
        d.parentToChild[p] # {} /\ d.childToParent[p] = {} => p \in d.dependencyFree

\* A graph the code can hold.
GoodDag(d) == d \in Dag /\ Symmetric(d) /\ FreeHasNoParents(d) /\ ParentlessIsFree(d)

\* EmptyDag is a good graph (BlockDependencyDag::empty).
LEMMA EmptyDagGood == GoodDag(EmptyDag)
  BY DEF GoodDag, EmptyDag, Dag, Symmetric, FreeHasNoParents, ParentlessIsFree

\* add keeps a good graph good (BlockDependencyDag::add).
LEMMA DagAddGood ==
    ASSUME NEW d, GoodDag(d), NEW p \in Hash, NEW c \in Hash, p # c
    PROVE  GoodDag(DagAdd(d, p, c))
<1>1. DagAdd(d, p, c) \in Dag
  BY DEF GoodDag, Dag, DagAdd
<1>2. Symmetric(DagAdd(d, p, c))
  BY DEF GoodDag, Dag, DagAdd, Symmetric
<1>3. FreeHasNoParents(DagAdd(d, p, c))
  BY DEF GoodDag, Dag, DagAdd, FreeHasNoParents
<1>4. ParentlessIsFree(DagAdd(d, p, c))
  BY DEF GoodDag, Dag, DagAdd, ParentlessIsFree
<1> QED BY <1>1, <1>2, <1>3, <1>4 DEF GoodDag

\* remove keeps a good graph good (BlockDependencyDag::remove).
LEMMA DagRemoveGood ==
    ASSUME NEW d, GoodDag(d), NEW e \in Hash
    PROVE  GoodDag(DagRemove(d, e))
<1>1. DagRemove(d, e) \in Dag
  BY DEF GoodDag, Dag, DagRemove, Orphaned, Removed
<1>2. Symmetric(DagRemove(d, e))
  BY DEF GoodDag, Dag, DagRemove, Symmetric
<1>3. FreeHasNoParents(DagRemove(d, e))
  BY DEF GoodDag, Dag, DagRemove, FreeHasNoParents, Removed, Symmetric
<1>4. ParentlessIsFree(DagRemove(d, e))
  BY DEF GoodDag, Dag, DagRemove, ParentlessIsFree, Removed, Orphaned, Symmetric
<1> QED BY <1>1, <1>2, <1>3, <1>4 DEF GoodDag

\* The graph rebuilt on startup is good (new_from_kv_store).
LEMMA RebuildGood ==
    ASSUME NEW store \in [Hash -> SUBSET Hash]
    PROVE  GoodDag(Rebuild(store))
  BY DEF GoodDag, Dag, Rebuild, Symmetric, FreeHasNoParents, ParentlessIsFree
-----------------------------------------------------------------------------
\* The persisted records against the graph.

Within(store, d) == \A h \in Hash : store[h] \subseteq d.childToParent[h]

\* add_relation writes the store and the graph alike.
LEMMA AddWithin ==
    ASSUME NEW d \in Dag, NEW store \in [Hash -> SUBSET Hash],
           NEW p \in Hash, NEW c \in Hash, Within(store, d)
    PROVE  /\ StoreAdd(store, p, c) \in [Hash -> SUBSET Hash]
           /\ Within(StoreAdd(store, p, c), DagAdd(d, p, c))
  BY DEF Dag, StoreAdd, DagAdd, Within

\* remove_unlocked leaves no record the graph has dropped.
LEMMA RemoveWithin ==
    ASSUME NEW d \in Dag, NEW store \in [Hash -> SUBSET Hash],
           NEW e \in Hash, Within(store, d)
    PROVE  /\ StoreRemove(store, d, e) \in [Hash -> SUBSET Hash]
           /\ Within(StoreRemove(store, d, e), DagRemove(d, e))
  BY DEF Dag, StoreRemove, StorePut, Deleted, Affected, Removed, Orphaned, DagRemove, Within

\* The first write of remove_unlocked alone keeps the store well typed.
LEMMA PutTyped ==
    ASSUME NEW d \in Dag, NEW store \in [Hash -> SUBSET Hash], NEW e \in Hash
    PROVE  StorePut(store, d, e) \in [Hash -> SUBSET Hash]
  BY DEF Dag, StorePut, Affected

-----------------------------------------------------------------------------
\* What the operations do to the parents a hash waits for, and whom they free.

\* add gives only the child a new parent, and frees only the parent.
LEMMA DagAddEffect ==
    ASSUME NEW d \in Dag, NEW p \in Hash, NEW c \in Hash
    PROVE  /\ \A h \in Hash \ {c} : DagAdd(d, p, c).childToParent[h] = d.childToParent[h]
           /\ DagAdd(d, p, c).dependencyFree \subseteq d.dependencyFree \cup {p}
  BY DEF Dag, DagAdd

\* remove gives nobody a parent, and frees only children it takes one from.
LEMMA DagRemoveEffect ==
    ASSUME NEW d, GoodDag(d), NEW e \in Hash
    PROVE  /\ \A h \in Hash : DagRemove(d, e).childToParent[h] \subseteq d.childToParent[h]
           /\ \A h \in DagRemove(d, e).dependencyFree :
                 h # e /\ (h \in d.dependencyFree \/ d.childToParent[h] # {})
<1>1. \A h \in Hash : DagRemove(d, e).childToParent[h] \subseteq d.childToParent[h]
  BY DEF GoodDag, Dag, DagRemove
<1>2. ASSUME NEW h \in DagRemove(d, e).dependencyFree
      PROVE  h # e /\ (h \in d.dependencyFree \/ d.childToParent[h] # {})
  <2>1. h # e /\ (h \in d.dependencyFree \/ h \in Removed(d, e))
    BY <1>2 DEF DagRemove
  <2>2. h \in Removed(d, e) => d.childToParent[h] # {}
    BY DEF Removed, Symmetric, GoodDag, Dag
  <2> QED BY <2>1, <2>2
<1> QED BY <1>1, <1>2

\* put_pendant, the relation to "tempblock" that is added and taken back,
\* gives nobody a parent.
LEMMA PutPendantEffect ==
    ASSUME NEW d, GoodDag(d), NEW b \in Blocks, NEW h \in Hash
    PROVE  DagRemove(DagAdd(d, TempBlock, b), TempBlock).childToParent[h]
               \subseteq d.childToParent[h]
<1>1. TempBlock \in Hash /\ b \in Hash /\ b # TempBlock
  BY TempBlockAssumption DEF Hash
<1> DEFINE a == DagAdd(d, TempBlock, b)
<1>2. a \in Dag /\ a.childToParent[h] \subseteq d.childToParent[h] \cup {TempBlock}
      /\ (a.childToParent[h] # d.childToParent[h] => h \in a.parentToChild[TempBlock])
  BY <1>1 DEF DagAdd, GoodDag, Dag
<1> HIDE DEF a
<1>3. DagRemove(a, TempBlock).childToParent[h] \subseteq a.childToParent[h]
      /\ (h \in a.parentToChild[TempBlock] =>
             TempBlock \notin DagRemove(a, TempBlock).childToParent[h])
  BY <1>1, <1>2 DEF DagRemove, Dag
<1> QED BY <1>2, <1>3 DEF a
=============================================================================
