------------------------- MODULE BlockDependencyDag -------------------------
(***************************************************************************)
(* The dependency graph of the Casper buffer, as pure operators:           *)
(* block-storage/src/rust/util/doubly_linked_dag_operations.rs.            *)
(*                                                                         *)
(* A graph is a record of the two adjacency maps and of the set of hashes  *)
(* that wait for nothing.  The maps are total functions: the empty set     *)
(* stands for "no entry", because the code never keeps an entry whose set  *)
(* is empty.                                                               *)
(***************************************************************************)
EXTENDS Integers, FiniteSets

CONSTANTS
    Blocks,     \* hashes of the blocks a peer may send
    TempBlock,  \* the literal hash "tempblock" put_pendant goes through
    Deps        \* Deps[b]: parents and justifications named inside block b

ASSUME TempBlockAssumption == TempBlock \notin Blocks

\* A block's hash covers its parents and justifications, so they are a
\* function of the hash and never contain the block itself.
ASSUME DepsAssumption ==
    /\ Deps \in [Blocks -> SUBSET Blocks]
    /\ \A b \in Blocks : b \notin Deps[b]

Hash == Blocks \cup {TempBlock}

Dag == [ parentToChild  : [Hash -> SUBSET Hash],
         childToParent  : [Hash -> SUBSET Hash],
         dependencyFree : SUBSET Hash ]

EmptyDag ==
    [ parentToChild  |-> [h \in Hash |-> {}],
      childToParent  |-> [h \in Hash |-> {}],
      dependencyFree |-> {} ]

\* Queries of CasperBufferKeyValueStorage that read one map.
Contains(d, h)              == d.childToParent[h] # {}
RequestedAsDependency(d, h) == d.parentToChild[h] # {}
IsPendant(d, h)             == h \in d.dependencyFree

\* Mutant of DagAdd: a block that starts waiting stays dependency-free.
DagAddKeepsChildFree(d, p, c) ==
    [ parentToChild  |-> [d.parentToChild EXCEPT ![p] = @ \cup {c}],
      childToParent  |-> [d.childToParent EXCEPT ![c] = @ \cup {p}],
      dependencyFree |-> d.dependencyFree \cup
          (IF d.childToParent[p] = {} THEN {p} ELSE {}) ]

\* Mutant of DagAdd: a dependency nobody has recorded is not made pendant.
DagAddForgetsParent(d, p, c) ==
    [ parentToChild  |-> [d.parentToChild EXCEPT ![p] = @ \cup {c}],
      childToParent  |-> [d.childToParent EXCEPT ![c] = @ \cup {p}],
      dependencyFree |-> d.dependencyFree \ {c} ]

\* BlockDependencyDag::add.
DagAdd(d, p, c) ==
    LET c2p == [d.childToParent EXCEPT ![c] = @ \cup {p}]
        new == IF c2p[p] = {} THEN {p} ELSE {}
    IN  [ parentToChild  |-> [d.parentToChild EXCEPT ![p] = @ \cup {c}],
          childToParent  |-> c2p,
          dependencyFree |-> (d.dependencyFree \cup new) \ {c} ]

\* The three sets BlockDependencyDag::remove returns: parents of e that lose
\* their last child, children of e that lose their last parent, and children
\* of e that still wait for another parent.
Orphaned(d, e) == {p \in d.childToParent[e] : d.parentToChild[p] = {e}}
Removed(d, e)  == {c \in d.parentToChild[e] : d.childToParent[c] \subseteq {e}}
Affected(d, e) == d.parentToChild[e] \ Removed(d, e)

\* Mutant of DagRemove: the removed block stays a child of its parents.
DagRemoveLeavesDanglingChild(d, e) ==
    [ parentToChild  |-> [d.parentToChild EXCEPT ![e] = {}],
      childToParent  |-> [h \in Hash |-> IF h = e THEN {} ELSE d.childToParent[h] \ {e}],
      dependencyFree |-> (d.dependencyFree \cup Removed(d, e)) \ {e} ]

\* BlockDependencyDag::remove.
DagRemove(d, e) ==
    LET c2p == [h \in Hash |-> IF h = e THEN {} ELSE
                               IF h \in d.parentToChild[e]
                               THEN d.childToParent[h] \ {e}
                               ELSE d.childToParent[h]]
        p2c == [h \in Hash |-> IF h = e THEN {} ELSE
                               IF h \in d.childToParent[e]
                               THEN d.parentToChild[h] \ {e}
                               ELSE d.parentToChild[h]]
        gone == {p \in Orphaned(d, e) : c2p[p] = {}}
    IN  [ parentToChild  |-> p2c,
          childToParent  |-> c2p,
          dependencyFree |->
              (((d.dependencyFree \ Orphaned(d, e)) \cup Removed(d, e)) \ {e}) \ gone ]

-----------------------------------------------------------------------------
(***************************************************************************)
(* The persisted side: CasperBufferKeyValueStorage's parents_store maps a  *)
(* hash to the parents it waits for.                                       *)
(***************************************************************************)
EmptyStore == [h \in Hash |-> {}]

StoreAdd(store, p, c) == [store EXCEPT ![c] = @ \cup {p}]

\* The first write of remove_unlocked: the children that still wait.
StorePut(store, d, e) ==
    [h \in Hash |-> IF h \in Affected(d, e) THEN d.childToParent[h] \ {e} ELSE store[h]]

\* The hashes whose records remove_unlocked deletes in its second write.
Deleted(d, e) == {e} \cup Removed(d, e) \cup Orphaned(d, e)

\* Mutant of StoreRemove: freed children keep their persisted record.
StoreRemoveKeepsFreed(store, d, e) ==
    [h \in Hash |-> IF h = e THEN {} ELSE StorePut(store, d, e)[h]]

StoreRemove(store, d, e) ==
    [h \in Hash |-> IF h \in Deleted(d, e) THEN {} ELSE StorePut(store, d, e)[h]]

\* Mutant of Rebuild: every parent counts as pendant.
RebuildAllParentsFree(store) ==
    [ parentToChild  |-> [p \in Hash |-> {c \in Hash : p \in store[c]}],
      childToParent  |-> store,
      dependencyFree |-> {p \in Hash : \E c \in Hash : p \in store[c]} ]

\* new_from_kv_store: the graph that folding add over the stored pairs gives.
Rebuild(store) ==
    [ parentToChild  |-> [p \in Hash |-> {c \in Hash : p \in store[c]}],
      childToParent  |-> store,
      dependencyFree |-> {p \in Hash : store[p] = {} /\ \E c \in Hash : p \in store[c]} ]
=============================================================================
