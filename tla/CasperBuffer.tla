---------------------------- MODULE CasperBuffer ----------------------------
(***************************************************************************)
(* CasperBufferKeyValueStorage: the blocks a node has received but cannot  *)
(* validate yet, with the dependencies they wait for.                      *)
(*                                                                         *)
(*   dag           block_dependency_dag (memory)                           *)
(*   parentsStore  parents_store, the persistent map hash -> parents       *)
(*   firstSeen     first_seen_ms; Untracked stands for "no entry"          *)
(*   lastPrune     last_prune_ms                                           *)
(*   prune         the locals of a running enforce_limits                  *)
(*                                                                         *)
(* Every public operation holds state_lock for its whole length, so it is  *)
(* one action; enforce_limits takes the lock once per removal and other    *)
(* operations run in between, so it is a sequence of actions.  A crash     *)
(* loses all memory and may fall between two writes of parents_store.      *)
(*                                                                         *)
(* validated (the blocks of the DAG) and now (the wall clock) belong to    *)
(* the environment: a block is validated only while nothing is recorded    *)
(* about its parents (BlockProcessor's ValidatedBlocksDoNotWait), and may  *)
(* be removed at any time.                                                 *)
(***************************************************************************)
EXTENDS BlockDependencyDag

CONSTANTS
    MaxTime,         \* bound on the clock
    StaleTtl,        \* CASPER_BUFFER_STALE_TTL_MS
    PruneInterval,   \* CASPER_BUFFER_PRUNE_INTERVAL_MS
    MaxPruneBatch,   \* CASPER_BUFFER_MAX_PRUNE_BATCH
    MaxApproxNodes   \* CASPER_BUFFER_MAX_APPROX_NODES

ASSUME LimitsAssumption ==
    /\ MaxTime \in Nat
    /\ StaleTtl \in Nat
    /\ PruneInterval \in Nat
    /\ MaxPruneBatch \in Nat
    /\ MaxApproxNodes \in Nat

VARIABLES dag, parentsStore, firstSeen, lastPrune, prune, validated, now

vars == <<dag, parentsStore, firstSeen, lastPrune, prune, validated, now>>

Untracked == 0

NoPrune == [pc |-> "idle", at |-> 0, stale |-> {}, left |-> 0]

-----------------------------------------------------------------------------
\* What an operation does to first_seen_ms.

\* track_hash_first_seen on both ends of a relation.
SeenAdd(seen, p, c) ==
    [h \in Hash |-> IF h \in {p, c} /\ seen[h] = Untracked THEN now ELSE seen[h]]

\* Mutant of SeenRemove: orphaned parents keep their timestamp.
SeenRemoveOnlySelf(seen, d, e) == [seen EXCEPT ![e] = Untracked]

SeenRemove(seen, d, e) ==
    [h \in Hash |-> IF h \in Deleted(d, e) THEN Untracked ELSE seen[h]]

-----------------------------------------------------------------------------
Init ==
    /\ dag = EmptyDag
    /\ parentsStore = EmptyStore
    /\ firstSeen = [h \in Hash |-> Untracked]
    /\ lastPrune = 0
    /\ prune = NoPrune
    /\ validated = {}
    /\ now = 1

\* add_relation, as commit_to_buffer calls it for each missing dependency.
\* The dependency was missing when the caller looked; it may be validated by
\* the time the relation is recorded.
AddRelation(p, c) ==
    /\ c \notin validated
    /\ p \in Deps[c]
    /\ dag' = DagAdd(dag, p, c)
    /\ parentsStore' = StoreAdd(parentsStore, p, c)
    /\ firstSeen' = SeenAdd(firstSeen, p, c)
    /\ UNCHANGED <<lastPrune, prune, validated, now>>

\* check_if_of_interest turns a block away while the buffer records parents of
\* it, so only such a block is declared ready and validated.
Ready(b) ==
    /\ b \notin validated
    /\ Deps[b] \subseteq validated
    /\ ~ Contains(dag, b)

\* put_pendant: the block is hung under "tempblock", which is then removed.
PutPendant(b) ==
    /\ Ready(b)
    /\ LET d == DagAdd(dag, TempBlock, b)
       IN  /\ dag' = DagRemove(d, TempBlock)
           /\ parentsStore' = StoreRemove(StoreAdd(parentsStore, TempBlock, b), d, TempBlock)
           /\ firstSeen' = SeenRemove(SeenAdd(firstSeen, TempBlock, b), d, TempBlock)
    /\ UNCHANGED <<lastPrune, prune, validated, now>>

\* remove_unlocked.
RemoveHash(h) ==
    /\ dag' = DagRemove(dag, h)
    /\ parentsStore' = StoreRemove(parentsStore, dag, h)
    /\ firstSeen' = SeenRemove(firstSeen, dag, h)

\* remove, as remove_from_buffer and purge_from_buffer_and_ack call it: for a
\* block with a verdict, a malformed one, and a waiting one that arrives again.
Remove(b) ==
    /\ RemoveHash(b)
    /\ UNCHANGED <<lastPrune, prune, validated, now>>

\* The environment: a block enters the DAG, time passes.
Validate(b) ==
    /\ Ready(b)
    /\ validated' = validated \cup {b}
    /\ UNCHANGED <<dag, parentsStore, firstSeen, lastPrune, prune, now>>

Tick ==
    /\ now < MaxTime
    /\ now' = now + 1
    /\ UNCHANGED <<dag, parentsStore, firstSeen, lastPrune, prune, validated>>

-----------------------------------------------------------------------------
\* enforce_limits.

ApproxNodeCount ==
    Cardinality({h \in Hash : Contains(dag, h)})
        + Cardinality({h \in Hash : RequestedAsDependency(dag, h)})

\* dependency_free_nodes_with_age_ms: a hash with no first_seen entry has age 0.
Age(h, t) == IF firstSeen[h] = Untracked \/ firstSeen[h] > t THEN 0 ELSE t - firstSeen[h]

NodesWithAge(t) == {<<Age(h, t), h>> : h \in dag.dependencyFree}

PruneStart ==
    /\ prune.pc = "idle"
    /\ now - lastPrune >= PruneInterval
    /\ lastPrune' = now
    /\ prune' = [pc    |-> "stale",
                 at    |-> now,
                 stale |-> {n \in NodesWithAge(now) : n[1] >= StaleTtl},
                 left  |-> MaxPruneBatch]
    /\ UNCHANGED <<dag, parentsStore, firstSeen, validated, now>>

\* Mutant of PruneStale: the batch limit is not consulted.
PruneStaleUnbounded(h) ==
    /\ prune.pc = "stale"
    /\ \E n \in prune.stale :
          /\ n[2] = h
          /\ prune' = [prune EXCEPT !.stale = @ \ {n}, !.left = @ - 1]
    /\ RemoveHash(h)
    /\ UNCHANGED <<lastPrune, validated, now>>

\* The oldest candidate of the snapshot goes first.
PruneStale(h) ==
    /\ prune.pc = "stale"
    /\ prune.left > 0
    /\ \E n \in prune.stale :
          /\ n[2] = h
          /\ \A m \in prune.stale : m[1] <= n[1]
          /\ prune' = [prune EXCEPT !.stale = @ \ {n}, !.left = @ - 1]
    /\ RemoveHash(h)
    /\ UNCHANGED <<lastPrune, validated, now>>

PruneStaleDone ==
    /\ prune.pc = "stale"
    /\ prune.left = 0 \/ prune.stale = {}
    /\ prune' = [prune EXCEPT !.pc = "overflow", !.stale = {}, !.left = MaxPruneBatch]
    /\ UNCHANGED <<dag, parentsStore, firstSeen, lastPrune, validated, now>>

\* The node with the smallest age goes first.
PruneOverflow(h) ==
    /\ prune.pc = "overflow"
    /\ prune.left > 0
    /\ ApproxNodeCount > MaxApproxNodes
    /\ h \in dag.dependencyFree
    /\ \A g \in dag.dependencyFree : Age(h, prune.at) <= Age(g, prune.at)
    /\ RemoveHash(h)
    /\ prune' = [prune EXCEPT !.left = @ - 1]
    /\ UNCHANGED <<lastPrune, validated, now>>

PruneDone ==
    /\ prune.pc = "overflow"
    /\ \/ prune.left = 0
       \/ ApproxNodeCount <= MaxApproxNodes
       \/ dag.dependencyFree = {}
    /\ prune' = NoPrune
    /\ UNCHANGED <<dag, parentsStore, firstSeen, lastPrune, validated, now>>

-----------------------------------------------------------------------------
\* A crash, and new_from_kv_store on the store it leaves.

RestartFrom(store) ==
    /\ parentsStore' = store
    /\ dag' = Rebuild(store)
    /\ firstSeen' = [h \in Hash |-> Untracked]
    /\ lastPrune' = 0
    /\ prune' = NoPrune
    /\ UNCHANGED <<validated, now>>

Restart == RestartFrom(parentsStore)

\* remove_unlocked wrote the affected records and not the deletions.
CrashInRemove(b) == RestartFrom(StorePut(parentsStore, dag, b))

\* put_pendant recorded the relation to "tempblock" and did not remove it.
CrashInPutPendant(b) ==
    /\ Ready(b)
    /\ RestartFrom(StoreAdd(parentsStore, TempBlock, b))

Next ==
    \/ \E c \in Blocks : \E p \in Deps[c] : AddRelation(p, c)
    \/ \E b \in Blocks : PutPendant(b)
    \/ \E b \in Blocks : Remove(b)
    \/ \E b \in Blocks : Validate(b)
    \/ Tick
    \/ PruneStart
    \/ \E h \in Hash : PruneStale(h)
    \/ PruneStaleDone
    \/ \E h \in Hash : PruneOverflow(h)
    \/ PruneDone
    \/ Restart
    \/ \E b \in Blocks : CrashInRemove(b)
    \/ \E b \in Blocks : CrashInPutPendant(b)

Spec == Init /\ [][Next]_vars

-----------------------------------------------------------------------------
\* Types of the buffer's state; a prune run never exceeds its batch.
PruneType ==
    [ pc    : {"idle", "stale", "overflow"},
      at    : Nat,
      stale : SUBSET (Nat \X Hash),
      left  : 0..MaxPruneBatch ]

TypeOK ==
    /\ dag \in Dag
    /\ parentsStore \in [Hash -> SUBSET Hash]
    /\ firstSeen \in [Hash -> Nat]
    /\ lastPrune \in Nat
    /\ prune \in PruneType
    /\ validated \subseteq Blocks
    /\ now \in Nat

\* The two adjacency maps describe the same relation, whatever mix of
\* relations, removals, prunes and restarts led here: BlockDependencyDag::remove
\* reads one to clean the other.
AdjacencySymmetric ==
    \A p, c \in Hash : c \in dag.parentToChild[p] <=> p \in dag.childToParent[c]

\* dependency_free never offers a hash that still waits for a parent; the node
\* treats its members as ready to fetch or to validate.
PendantsHaveNoParents ==
    \A h \in dag.dependencyFree : dag.childToParent[h] = {}

\* A dependency some block waits for, itself waiting for nothing, is pendant:
\* fetch_dependencies only ever asks peers for pendants, so a dependency
\* missing from the set would never be fetched again.
ParentlessDependencyIsPendant ==
    \A p \in Hash :
        dag.parentToChild[p] # {} /\ dag.childToParent[p] = {} => p \in dag.dependencyFree

\* parents_store never holds a relation the live graph has dropped, so a
\* restart cannot resurrect a dependency that was already resolved.
PersistedWithinMemory ==
    \A h \in Hash : parentsStore[h] \subseteq dag.childToParent[h]

\* first_seen_ms holds no hash the graph has forgotten (no leak): whatever has
\* a timestamp is waiting, waited for, or pendant.
FirstSeenOnlyOfTracked ==
    \A h \in Hash : firstSeen[h] # Untracked =>
        \/ dag.childToParent[h] # {}
        \/ dag.parentToChild[h] # {}
        \/ h \in dag.dependencyFree
=============================================================================
