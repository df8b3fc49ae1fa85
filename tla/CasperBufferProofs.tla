------------------------- MODULE CasperBufferProofs -------------------------
(***************************************************************************)
(* Proofs about CasperBuffer, for every set of blocks, every dependency    *)
(* function and every limit.                                               *)
(*                                                                         *)
(* The graph invariants hold of every graph DagAdd, DagRemove and Rebuild  *)
(* can build (BlockDependencyDagProofs); the invariants of the             *)
(* specification follow action by action.                                  *)
(***************************************************************************)
EXTENDS CasperBuffer, BlockDependencyDagProofs, WellFoundedInduction

\* What the graph knows of a hash: first_seen_ms must not outlive it.
Tracked(d, h) ==
    d.childToParent[h] # {} \/ d.parentToChild[h] # {} \/ h \in d.dependencyFree

SeenTracked(seen, d) == \A h \in Hash : seen[h] # Untracked => Tracked(d, h)

\* track_hash_first_seen only stamps the ends of a relation the graph records.
LEMMA AddSeenTracked ==
    ASSUME NEW d, GoodDag(d), NEW seen \in [Hash -> Nat], now \in Nat,
           NEW p \in Hash, NEW c \in Hash, p # c, SeenTracked(seen, d)
    PROVE  /\ SeenAdd(seen, p, c) \in [Hash -> Nat]
           /\ SeenTracked(SeenAdd(seen, p, c), DagAdd(d, p, c))
  BY DEF GoodDag, Dag, SeenAdd, DagAdd, SeenTracked, Tracked, Untracked

\* remove_unlocked forgets the timestamp of every hash the graph forgets.
LEMMA RemoveSeenTracked ==
    ASSUME NEW d, GoodDag(d), NEW seen \in [Hash -> Nat],
           NEW e \in Hash, SeenTracked(seen, d)
    PROVE  /\ SeenRemove(seen, d, e) \in [Hash -> Nat]
           /\ SeenTracked(SeenRemove(seen, d, e), DagRemove(d, e))
<1>1. SeenRemove(seen, d, e) \in [Hash -> Nat]
  BY DEF SeenRemove, Untracked
<1>2. ASSUME NEW h \in Hash, SeenRemove(seen, d, e)[h] # Untracked
      PROVE  Tracked(DagRemove(d, e), h)
  <2>1. h \notin Deleted(d, e) /\ Tracked(d, h)
    BY <1>2 DEF SeenRemove, SeenTracked
  <2>2. CASE d.childToParent[h] # {}
    BY <2>1, <2>2 DEF GoodDag, Dag, DagRemove, Tracked, Deleted, Removed
  <2>3. CASE d.parentToChild[h] # {}
    BY <2>1, <2>3 DEF GoodDag, Dag, Symmetric, DagRemove, Tracked, Deleted, Orphaned
  <2>4. CASE h \in d.dependencyFree
    BY <2>1, <2>4 DEF DagRemove, Tracked, Deleted
  <2> QED BY <2>1, <2>2, <2>3, <2>4 DEF Tracked
<1> QED BY <1>1, <1>2 DEF SeenTracked

-----------------------------------------------------------------------------
\* The inductive invariant.
IInv ==
    /\ TypeOK
    /\ GoodDag(dag)
    /\ Within(parentsStore, dag)
    /\ SeenTracked(firstSeen, dag)

\* remove_unlocked, called with any hash, preserves what it touches.
LEMMA RemoveHashPreserves ==
    ASSUME IInv, NEW h \in Hash, RemoveHash(h)
    PROVE  /\ parentsStore' \in [Hash -> SUBSET Hash]
           /\ firstSeen' \in [Hash -> Nat]
           /\ GoodDag(dag)'
           /\ Within(parentsStore, dag)'
           /\ SeenTracked(firstSeen, dag)'
  BY DagRemoveGood, RemoveWithin, RemoveSeenTracked DEF IInv, TypeOK, RemoveHash, GoodDag

\* A restart on any well-typed store establishes what it touches.
LEMMA RestartPreserves ==
    ASSUME IInv, NEW store \in [Hash -> SUBSET Hash], RestartFrom(store)
    PROVE  IInv'
<1>1. GoodDag(dag)' /\ Within(parentsStore, dag)'
  BY RebuildGood DEF RestartFrom, Within, Rebuild
<1>2. SeenTracked(firstSeen, dag)'
  BY DEF RestartFrom, SeenTracked, Untracked
<1>3. TypeOK'
  BY <1>1, LimitsAssumption DEF IInv, TypeOK, RestartFrom, GoodDag, PruneType, NoPrune, Untracked
<1> QED BY <1>1, <1>2, <1>3 DEF IInv

\* The empty buffer satisfies the invariant.
LEMMA InitIInv == Init => IInv
  BY EmptyDagGood, LimitsAssumption
  DEF Init, IInv, TypeOK, GoodDag, Within, SeenTracked, EmptyDag, EmptyStore, NoPrune, PruneType, Untracked

\* The relation to "tempblock" put_pendant adds and removes again.
LEMMA PutPendantPreserves ==
    ASSUME IInv, NEW b \in Blocks, PutPendant(b)
    PROVE  IInv'
<1> DEFINE d == DagAdd(dag, TempBlock, b)
           store == StoreAdd(parentsStore, TempBlock, b)
           seen == SeenAdd(firstSeen, TempBlock, b)
<1>1. TempBlock \in Hash /\ b \in Hash /\ TempBlock # b
  BY TempBlockAssumption DEF Hash
<1>2. GoodDag(d)
  BY <1>1, DagAddGood DEF IInv
<1>3. store \in [Hash -> SUBSET Hash] /\ Within(store, d)
  BY <1>1, AddWithin DEF IInv, TypeOK
<1>4. seen \in [Hash -> Nat] /\ SeenTracked(seen, d)
  BY <1>1, AddSeenTracked DEF IInv, TypeOK
<1>5. dag' = DagRemove(d, TempBlock) /\ parentsStore' = StoreRemove(store, d, TempBlock)
      /\ firstSeen' = SeenRemove(seen, d, TempBlock)
  BY DEF PutPendant
<1> HIDE DEF d, store, seen
<1>6. GoodDag(dag)'
  BY <1>1, <1>2, <1>5, DagRemoveGood
<1>7. (parentsStore \in [Hash -> SUBSET Hash])' /\ Within(parentsStore, dag)'
  BY <1>1, <1>2, <1>3, <1>5, RemoveWithin DEF GoodDag
<1>8. (firstSeen \in [Hash -> Nat])' /\ SeenTracked(firstSeen, dag)'
  BY <1>1, <1>2, <1>4, <1>5, RemoveSeenTracked
<1>9. TypeOK'
  BY <1>6, <1>7, <1>8 DEF IInv, TypeOK, GoodDag, PutPendant
<1> QED BY <1>6, <1>7, <1>8, <1>9 DEF IInv

\* add_relation.
LEMMA AddRelationPreserves ==
    ASSUME IInv, NEW c \in Blocks, NEW p \in Deps[c], AddRelation(p, c)
    PROVE  IInv'
<1>1. p \in Hash /\ c \in Hash /\ p # c
  BY DepsAssumption DEF Hash
<1>2. GoodDag(dag)'
  BY <1>1, DagAddGood DEF IInv, AddRelation
<1>3. (parentsStore \in [Hash -> SUBSET Hash])' /\ Within(parentsStore, dag)'
  BY <1>1, AddWithin DEF IInv, TypeOK, AddRelation
<1>4. (firstSeen \in [Hash -> Nat])' /\ SeenTracked(firstSeen, dag)'
  BY <1>1, AddSeenTracked DEF IInv, TypeOK, AddRelation
<1>5. TypeOK'
  BY <1>2, <1>3, <1>4 DEF IInv, TypeOK, GoodDag, AddRelation
<1> QED BY <1>2, <1>3, <1>4, <1>5 DEF IInv

\* Every step preserves the inductive invariant, one case per action.
LEMMA NextIInv == IInv /\ [Next]_vars => IInv'
<1> SUFFICES ASSUME IInv, [Next]_vars PROVE IInv'
  OBVIOUS
<1> USE DEF Hash
<1>1. CASE \E c \in Blocks : \E p \in Deps[c] : AddRelation(p, c)
  BY <1>1, AddRelationPreserves
<1>2. CASE \E b \in Blocks : PutPendant(b)
  BY <1>2, PutPendantPreserves
<1>3. CASE \E b \in Blocks : Remove(b)
  BY <1>3, RemoveHashPreserves DEF Remove, IInv, TypeOK, GoodDag
<1>4. CASE \E b \in Blocks : Validate(b)
  BY <1>4 DEF Validate, IInv, TypeOK
<1>5. CASE Tick
  BY <1>5 DEF Tick, IInv, TypeOK
<1>6. CASE PruneStart
  <2>1. (prune \in PruneType)'
    <3>1. NodesWithAge(now) \subseteq Nat \X Hash
      BY DEF NodesWithAge, Age, IInv, TypeOK, Dag, Untracked
    <3> QED BY <1>6, <3>1, LimitsAssumption DEF PruneStart, PruneType, IInv, TypeOK
  <2> QED BY <1>6, <2>1 DEF PruneStart, IInv, TypeOK
<1>7. CASE \E h \in Hash : PruneStale(h)
  <2> PICK h \in Hash : PruneStale(h)
    BY <1>7
  <2>1. (prune \in PruneType)'
    <3>1. PICK S \in SUBSET prune.stale :
             prune.left > 0 /\ prune' = [prune EXCEPT !.stale = S, !.left = @ - 1]
      BY Zenon DEF PruneStale
    <3>2. prune \in PruneType /\ S \in SUBSET (Nat \X Hash) /\ prune.left - 1 \in 0..MaxPruneBatch
      BY <3>1, LimitsAssumption DEF PruneType, IInv, TypeOK
    <3> QED BY <3>1, <3>2 DEF PruneType
  <2>2. /\ parentsStore' \in [Hash -> SUBSET Hash]
        /\ firstSeen' \in [Hash -> Nat]
        /\ GoodDag(dag)'
        /\ Within(parentsStore, dag)'
        /\ SeenTracked(firstSeen, dag)'
    BY RemoveHashPreserves DEF PruneStale
  <2> QED BY <2>1, <2>2 DEF PruneStale, IInv, TypeOK, GoodDag
<1>8. CASE PruneStaleDone
  <2>1. (prune \in PruneType)'
    <3>1. prune \in PruneType /\ MaxPruneBatch \in 0..MaxPruneBatch
          /\ {} \in SUBSET (Nat \X Hash)
      BY LimitsAssumption DEF IInv, TypeOK
    <3> QED BY <1>8, <3>1 DEF PruneStaleDone, PruneType
  <2> QED BY <1>8, <2>1 DEF PruneStaleDone, IInv, TypeOK
<1>9. CASE \E h \in Hash : PruneOverflow(h)
  <2> PICK h \in Hash : PruneOverflow(h)
    BY <1>9
  <2>1. (prune \in PruneType)'
    BY LimitsAssumption DEF PruneOverflow, PruneType, IInv, TypeOK
  <2>2. /\ parentsStore' \in [Hash -> SUBSET Hash]
        /\ firstSeen' \in [Hash -> Nat]
        /\ GoodDag(dag)'
        /\ Within(parentsStore, dag)'
        /\ SeenTracked(firstSeen, dag)'
    BY RemoveHashPreserves DEF PruneOverflow
  <2> QED BY <2>1, <2>2 DEF PruneOverflow, IInv, TypeOK, GoodDag
<1>10. CASE PruneDone
  BY <1>10, LimitsAssumption DEF PruneDone, PruneType, NoPrune, IInv, TypeOK
<1>11. CASE Restart
  BY <1>11, RestartPreserves DEF Restart, IInv, TypeOK
<1>12. CASE \E b \in Blocks : CrashInRemove(b)
  BY <1>12, RestartPreserves, PutTyped DEF CrashInRemove, IInv, TypeOK
<1>13. CASE \E b \in Blocks : CrashInPutPendant(b)
  BY <1>13, RestartPreserves, AddWithin DEF CrashInPutPendant, IInv, TypeOK
<1>14. CASE UNCHANGED vars
  BY <1>14 DEF vars, IInv, TypeOK
<1> QED
  BY <1>1, <1>2, <1>3, <1>4, <1>5, <1>6, <1>7, <1>8, <1>9, <1>10, <1>11, <1>12, <1>13, <1>14
  DEF Next

\* The invariant holds of every behaviour.
LEMMA SpecIInv == Spec => []IInv
  BY InitIInv, NextIInv, PTL DEF Spec

\* Every reachable state of the buffer is well typed, and a prune run removes
\* at most MaxPruneBatch nodes per phase.
THEOREM BufferTyped == Spec => []TypeOK
<1>1. IInv => TypeOK
  BY DEF IInv
<1> QED BY <1>1, SpecIInv, PTL

\* The two adjacency maps stay mutual inverses across every operation, prune
\* step, crash and restart.
THEOREM BufferSymmetric == Spec => []AdjacencySymmetric
<1>1. IInv => AdjacencySymmetric
  BY DEF IInv, GoodDag, Symmetric, AdjacencySymmetric
<1> QED BY <1>1, SpecIInv, PTL

\* No hash that dependency_free lists, and that may therefore be fetched or
\* validated, waits for a parent.
THEOREM BufferPendants == Spec => []PendantsHaveNoParents
<1>1. IInv => PendantsHaveNoParents
  BY DEF IInv, GoodDag, FreeHasNoParents, PendantsHaveNoParents
<1> QED BY <1>1, SpecIInv, PTL

\* No dependency that waits for nothing is missing from dependency_free,
\* whatever was added, removed, pruned or lost in a crash before.
THEOREM BufferParentless == Spec => []ParentlessDependencyIsPendant
<1>1. IInv => ParentlessDependencyIsPendant
  BY DEF IInv, GoodDag, ParentlessIsFree, ParentlessDependencyIsPendant
<1> QED BY <1>1, SpecIInv, PTL

\* A restart never resurrects a resolved dependency: the persisted relation is
\* contained in the live one.
THEOREM BufferPersisted == Spec => []PersistedWithinMemory
<1>1. IInv => PersistedWithinMemory
  BY DEF IInv, Within, PersistedWithinMemory
<1> QED BY <1>1, SpecIInv, PTL

\* first_seen_ms does not leak.
THEOREM BufferFirstSeen == Spec => []FirstSeenOnlyOfTracked
<1>1. IInv => FirstSeenOnlyOfTracked
  BY DEF IInv, SeenTracked, Tracked, FirstSeenOnlyOfTracked
<1> QED BY <1>1, SpecIInv, PTL

-----------------------------------------------------------------------------
\* The graph that the start-up of the buffer builds from its records

\* Every non-empty set of natural numbers has a least element.
LEMMA LeastNumber ==
    ASSUME NEW T, T \subseteq Nat, T # {}
    PROVE  \E m \in T : \A n \in T : m <= n
<1> DEFINE R == OpToRel(<, Nat)
<1>1. IsWellFoundedOn(R, Nat)
  BY NatLessThanWellFounded
<1>2. \A x, y \in Nat : x < y => <<x, y>> \in R
  BY DEF OpToRel
<1> HIDE DEF R
<1>3. PICK x \in T : \A y \in T : ~ (<<y, x>> \in R)
  BY <1>1, WFMin
<1>4. ASSUME NEW y \in T PROVE x <= y
  <2>1. x \in Nat /\ y \in Nat
    OBVIOUS
  <2>2. ~ (y < x)
    BY <1>2, <1>3, <2>1
  <2> QED BY <2>1, <2>2
<1> QED BY <1>4

\* A graph rebuilt from no record is empty.
LEMMA RebuildEmpty == Rebuild(EmptyStore) = EmptyDag
  BY DEF Rebuild, EmptyStore, EmptyDag

\* add on a rebuilt graph gives the graph rebuilt from one more record.
LEMMA RebuildAdds ==
    ASSUME NEW store \in [Hash -> SUBSET Hash], NEW p \in Hash, NEW c \in Hash
    PROVE  /\ StoreAdd(store, p, c) \in [Hash -> SUBSET Hash]
           /\ DagAdd(Rebuild(store), p, c) = Rebuild(StoreAdd(store, p, c))
<1> DEFINE new == StoreAdd(store, p, c)
           d == Rebuild(store)
           a == DagAdd(d, p, c)
           r == Rebuild(new)
<1>1. new \in [Hash -> SUBSET Hash] /\ \A h \in Hash : new[h] = IF h = c THEN store[h] \cup {p} ELSE store[h]
  BY DEF StoreAdd
<1>2. /\ d.parentToChild \in [Hash -> SUBSET Hash] /\ d.childToParent = store
      /\ \A h \in Hash : d.parentToChild[h] = {x \in Hash : h \in store[x]}
      /\ d.dependencyFree = {h \in Hash : store[h] = {} /\ \E x \in Hash : h \in store[x]}
  BY DEF Rebuild
<1>3. /\ r.parentToChild = [h \in Hash |-> {x \in Hash : h \in new[x]}] /\ r.childToParent = new
      /\ r.dependencyFree = {h \in Hash : new[h] = {} /\ \E x \in Hash : h \in new[x]}
      /\ r = [parentToChild |-> r.parentToChild, childToParent |-> r.childToParent,
              dependencyFree |-> r.dependencyFree]
  BY DEF Rebuild
<1> HIDE DEF d, r
<1>4. /\ a.parentToChild = [d.parentToChild EXCEPT ![p] = @ \cup {c}]
      /\ a.childToParent = new
      /\ a.dependencyFree = (d.dependencyFree \cup (IF new[p] = {} THEN {p} ELSE {})) \ {c}
      /\ a = [parentToChild |-> a.parentToChild, childToParent |-> a.childToParent,
              dependencyFree |-> a.dependencyFree]
  BY <1>2 DEF DagAdd, StoreAdd
<1> HIDE DEF a, new
<1>5. a.parentToChild = r.parentToChild
  <2>1. /\ a.parentToChild = [h \in Hash |-> a.parentToChild[h]]
        /\ \A h \in Hash : a.parentToChild[h] = IF h = p THEN d.parentToChild[h] \cup {c}
                                                ELSE d.parentToChild[h]
    BY <1>2, <1>4
  <2>2. ASSUME NEW h \in Hash PROVE a.parentToChild[h] = {x \in Hash : h \in new[x]}
    <3>0. \A x : x \in d.parentToChild[h] <=> x \in Hash /\ h \in store[x]
      <4>1. d.parentToChild[h] = {x \in Hash : h \in store[x]}
        BY <1>2
      <4> QED BY <4>1
    <3>1. \A x : x \in a.parentToChild[h] <=> x \in Hash /\ (h \in store[x] \/ (h = p /\ x = c))
      <4>1. CASE h = p
        <5>1. a.parentToChild[h] = d.parentToChild[h] \cup {c}
          BY <2>1, <4>1
        <5> QED BY <3>0, <4>1, <5>1
      <4>2. CASE h # p
        <5>1. a.parentToChild[h] = d.parentToChild[h]
          BY <2>1, <4>2
        <5> QED BY <3>0, <4>2, <5>1
      <4> QED BY <4>1, <4>2
    <3>2. \A x \in Hash : h \in new[x] <=> (h \in store[x] \/ (h = p /\ x = c))
      BY <1>1
    <3> QED BY <3>1, <3>2
  <2> QED BY <1>3, <2>1, <2>2
<1>6. a.dependencyFree = r.dependencyFree
  <2>1. new[c] # {} /\ p \in new[c]
    BY <1>1
  <2>2. \A h \in Hash : h # c => new[h] = store[h]
    BY <1>1
  <2>3. \A h \in Hash : h # p => ((\E x \in Hash : h \in store[x]) <=> (\E x \in Hash : h \in new[x]))
    BY <1>1
  <2>4. \A h : h \in a.dependencyFree <=> h \in r.dependencyFree
    BY <1>2, <1>3, <1>4, <2>1, <2>2, <2>3
  <2> QED BY <2>4
<1>7. a = r
  BY <1>3, <1>4, <1>5, <1>6
<1> QED BY <1>1, <1>7 DEF a, r, new, d

\* The records that the first i pairs of a listing stand for.
Listed(pairs, i) ==
    [c \in Hash |-> {p \in Hash : \E j \in 1..i : pairs[j] = <<p, c>>}]

\* new_from_kv_store folds add over the stored pairs in whatever order, and as
\* often as, the store lists them: the graph is always Rebuild's.
THEOREM RebuildFoldsAdd ==
    ASSUME NEW store \in [Hash -> SUBSET Hash], NEW n \in Nat,
           NEW pairs \in [1..n -> Hash \X Hash],
           \A c, p \in Hash : p \in store[c] <=> \E j \in 1..n : pairs[j] = <<p, c>>,
           NEW graph, graph[0] = EmptyDag,
           \A i \in 0..(n - 1) : graph[i + 1] = DagAdd(graph[i], pairs[i + 1][1], pairs[i + 1][2])
    PROVE  graph[n] = Rebuild(store)
<1> DEFINE Bad == {i \in 0..n : graph[i] # Rebuild(Listed(pairs, i))}
<1>1. Listed(pairs, 0) = EmptyStore
  BY DEF Listed, EmptyStore
<1>2. ASSUME NEW i \in 0..(n - 1)
      PROVE  /\ Listed(pairs, i) \in [Hash -> SUBSET Hash]
             /\ pairs[i + 1] = <<pairs[i + 1][1], pairs[i + 1][2]>>
             /\ pairs[i + 1][1] \in Hash /\ pairs[i + 1][2] \in Hash
             /\ Listed(pairs, i + 1) = StoreAdd(Listed(pairs, i), pairs[i + 1][1], pairs[i + 1][2])
  <2> DEFINE q == pairs[i + 1]
             S == Listed(pairs, i)
             T == Listed(pairs, i + 1)
  <2>1. i + 1 \in 1..n /\ i \in Nat
    BY <1>2
  <2>2. q \in Hash \X Hash
    BY <2>1
  <2>3. q = <<q[1], q[2]>> /\ q[1] \in Hash /\ q[2] \in Hash
    BY <2>2
  <2>4. S \in [Hash -> SUBSET Hash] /\ T \in [Hash -> SUBSET Hash]
    BY DEF Listed
  <2>5. ASSUME NEW c \in Hash
        PROVE  T[c] = IF c = q[2] THEN S[c] \cup {q[1]} ELSE S[c]
    <3>1. \A j : j \in 1..(i + 1) <=> j \in 1..i \/ j = i + 1
      BY <2>1
    <3>2. \A p \in Hash : p \in T[c] <=> (p \in S[c] \/ q = <<p, c>>)
      BY <3>1 DEF Listed
    <3>3. \A p \in Hash : q = <<p, c>> <=> (p = q[1] /\ c = q[2])
      BY <2>3
    <3>4. \A p : p \in T[c] => p \in Hash
      BY <2>4
    <3>5. \A p : p \in S[c] => p \in Hash
      BY <2>4
    <3> HIDE DEF S, T, q
    <3>6. \A p : p \in T[c] <=> (p \in S[c] \/ (p = q[1] /\ c = q[2]))
      BY <2>3, <3>2, <3>3, <3>4, <3>5
    <3>7. CASE c = q[2]
      BY <3>6, <3>7
    <3>8. CASE c # q[2]
      BY <3>6, <3>8
    <3> QED BY <3>7, <3>8
  <2> HIDE DEF S, T, q
  <2>6. T = StoreAdd(S, q[1], q[2])
    BY <2>3, <2>4, <2>5 DEF StoreAdd
  <2> QED BY <2>3, <2>4, <2>6 DEF S, T, q
<1>3. Bad = {}
  <2> SUFFICES ASSUME Bad # {} PROVE FALSE
    OBVIOUS
  <2>1. PICK m \in Bad : \A i \in Bad : m <= i
    <3>1. Bad \subseteq Nat
      OBVIOUS
    <3> HIDE DEF Bad
    <3> QED BY <3>1, LeastNumber
  <2>2. m # 0
    BY <1>1, <2>1, RebuildEmpty
  <2>3. m - 1 \in 0..(n - 1) /\ m - 1 \notin Bad /\ m - 1 \in 0..n /\ (m - 1) + 1 = m
    BY <2>1, <2>2
  <2>4. graph[m - 1] = Rebuild(Listed(pairs, m - 1))
    BY <2>3
  <2> DEFINE k == m - 1
  <2>5. graph[k + 1] = DagAdd(graph[k], pairs[k + 1][1], pairs[k + 1][2])
    BY <2>3
  <2>6. Listed(pairs, k + 1) = StoreAdd(Listed(pairs, k), pairs[k + 1][1], pairs[k + 1][2])
        /\ Listed(pairs, k) \in [Hash -> SUBSET Hash]
        /\ pairs[k + 1][1] \in Hash /\ pairs[k + 1][2] \in Hash
    BY <1>2, <2>3
  <2>7. graph[k + 1] = Rebuild(Listed(pairs, k + 1))
    BY <2>4, <2>5, <2>6, RebuildAdds
  <2> QED BY <2>1, <2>3, <2>7
<1>4. graph[n] = Rebuild(Listed(pairs, n))
  BY <1>3
<1>5. Listed(pairs, n) = store
  <2>1. \A c \in Hash : Listed(pairs, n)[c] = store[c]
    BY DEF Listed
  <2>2. Listed(pairs, n) \in [Hash -> SUBSET Hash]
    BY DEF Listed
  <2> QED BY <2>1, <2>2
<1> QED BY <1>4, <1>5
=============================================================================
