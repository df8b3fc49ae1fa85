---------------------------- MODULE Finalization ----------------------------
(***************************************************************************)
(* From a block in the DAG to a finalized block: the scheduling of the     *)
(* finalizer (update_last_finalized_block, run_queued_finalizer, and the   *)
(* last_finalized_block query, which runs the finalizer too), the          *)
(* finalization effects, and what BlockDagKeyValueStorage and              *)
(* BlockMetadataStore record.                                              *)
(*                                                                         *)
(*   dag        blocks in the DAG                                          *)
(*   finalized  blocks whose persisted metadata says finalized             *)
(*   direct     blocks whose persisted metadata says directly_finalized    *)
(*   ft         persisted fault_tolerance_value                            *)
(*   cached     finalized_block_set, the bounded in-memory set             *)
(*   lfb        last_finalized_block (memory)                              *)
(*   effects    blocks whose finalization effects were carried out: their  *)
(*              deploys left the pool, their event was published           *)
(*   toNotify   inserted blocks whose handler has yet to ask for a run     *)
(*   toQueue    those whose handler found the task flag set and has yet to *)
(*              set the queued flag                                        *)
(*   taskInProgress, taskQueued   the two scheduling flags                 *)
(*   run        per finalizer run: its program counter and locals          *)
(*                                                                         *)
(* The fault tolerance the clique oracle computes is an input: it may      *)
(* accept any block of Finalizable it is asked about, or none.             *)
(***************************************************************************)
EXTENDS Integers, FiniteSets

CONSTANTS
    Blocks,
    Genesis,       \* the approved block
    Parents,       \* Parents[b]: the parents named in b's header
    Height,        \* Height[b]: block_number
    Sender,        \* Sender[b]: the validator that made b
    Finalizable,   \* blocks the clique oracle may find final
    Task,          \* the background finalizer task
    Queries,       \* concurrent last_finalized_block queries
    Rate,          \* finalization_rate
    MaxFt,         \* fault tolerance is 1..MaxFt, MaxFt standing for 1.0
    CacheMax,      \* FINALIZED_BLOCK_CACHE_MAX
    CacheRetain,   \* FINALIZED_BLOCK_CACHE_RETAIN
    MaxRestarts    \* bound on crashes

ASSUME BlocksAssumption ==
    /\ Genesis \in Blocks
    /\ Parents \in [Blocks -> SUBSET Blocks]
    /\ Parents[Genesis] = {}
    /\ Height \in [Blocks -> Nat]
    /\ Finalizable \subseteq Blocks

\* A node meets finitely many blocks.
ASSUME FiniteAssumption == IsFiniteSet(Blocks)

ASSUME FinalizerAssumption ==
    /\ Task \notin Queries
    /\ Rate \in Nat \ {0}
    /\ MaxFt \in Nat \ {0}
    /\ CacheMax \in Nat /\ CacheRetain \in 0..CacheMax
    /\ MaxRestarts \in Nat

VARIABLES dag, finalized, direct, ft, cached, lfb, effects, toNotify, toQueue,
          taskInProgress, taskQueued, run, restarts

handlers == <<toNotify, toQueue>>
metadata == <<finalized, direct, ft, cached, lfb>>
flags == <<taskInProgress, taskQueued>>
vars == <<dag, finalized, direct, ft, cached, lfb, effects, toNotify, toQueue,
          taskInProgress, taskQueued, run, restarts>>

Runs == {Task} \cup Queries

\* A run at pc that is to finalize b with fault tolerance v; Genesis and 0 stand
\* for no block.
RunAt(pc, b, v) == [pc |-> pc, known |-> {}, height |-> 0, block |-> b, ft |-> v,
                    batch |-> {}, todo |-> {}, applied |-> {}]

Fresh(pc) == RunAt(pc, Genesis, 0)

IdleRun == Fresh("idle")

Init ==
    /\ dag = {Genesis}
    /\ finalized = {Genesis}
    /\ direct = {Genesis}
    /\ ft = [b \in Blocks |-> IF b = Genesis THEN MaxFt ELSE 0]
    /\ cached = {Genesis}
    /\ lfb = Genesis
    /\ effects = {}
    /\ toNotify = {}
    /\ toQueue = {}
    /\ taskInProgress = FALSE
    /\ taskQueued = FALSE
    /\ run = [r \in Runs |-> IdleRun]
    /\ restarts = 0

-----------------------------------------------------------------------------
\* Scheduling.

\* handle_valid_block: the insertion, and later its request for a run, which
\* only every Rate-th height makes.
Insert(b) ==
    /\ b \notin dag
    /\ Parents[b] \subseteq dag
    /\ dag' = dag \cup {b}
    /\ toNotify' = IF Height[b] % Rate = 0 THEN toNotify \cup {b} ELSE toNotify
    /\ UNCHANGED <<metadata, effects, toQueue, flags, run, restarts>>

\* The compare_exchange of the task flag, and its spawn when it succeeds.
UpdateLastFinalizedBlock(b) ==
    /\ b \in toNotify
    /\ toNotify' = toNotify \ {b}
    /\ \/ /\ taskInProgress
          /\ toQueue' = toQueue \cup {b}
          /\ UNCHANGED <<taskInProgress, run>>
       \/ /\ ~ taskInProgress
          /\ taskInProgress' = TRUE
          /\ run' = [run EXCEPT ![Task].pc = "start"]
          /\ UNCHANGED toQueue
    /\ UNCHANGED <<dag, metadata, effects, taskQueued, restarts>>

\* The swap of the queued flag, when it failed.
QueueRun(b) ==
    /\ b \in toQueue
    /\ toQueue' = toQueue \ {b}
    /\ taskQueued' = TRUE
    /\ UNCHANGED <<dag, metadata, effects, toNotify, taskInProgress, run, restarts>>

\* last_finalized_block runs the finalizer without consulting the flags.
QueryLastFinalizedBlock(q) ==
    /\ run[q].pc = "idle"
    /\ run' = [run EXCEPT ![q].pc = "start"]
    /\ UNCHANGED <<dag, metadata, effects, handlers, flags, restarts>>

\* A query returns; the task looks whether another run was queued.
Finish(r) ==
    /\ run[r].pc = "done"
    /\ \/ /\ r # Task
          /\ run' = [run EXCEPT ![r] = IdleRun]
          /\ UNCHANGED taskQueued
       \/ /\ r = Task /\ taskQueued
          /\ taskQueued' = FALSE
          /\ run' = [run EXCEPT ![r] = Fresh("start")]
       \/ /\ r = Task /\ ~ taskQueued
          /\ run' = [run EXCEPT ![r] = Fresh("release")]
          /\ UNCHANGED taskQueued
    /\ UNCHANGED <<dag, metadata, effects, handlers, taskInProgress, restarts>>

\* The guard of the task flag is dropped.
Release ==
    /\ run[Task].pc = "release"
    /\ taskInProgress' = FALSE
    /\ run' = [run EXCEPT ![Task] = IdleRun]
    /\ UNCHANGED <<dag, metadata, effects, handlers, taskQueued, restarts>>

-----------------------------------------------------------------------------
\* compute_last_finalized_block and Finalizer::run.

TakeSnapshot(r) ==
    /\ run[r].pc = "start"
    /\ run' = [run EXCEPT ![r].pc = "search", ![r].known = dag, ![r].height = Height[lfb]]
    /\ UNCHANGED <<dag, metadata, effects, handlers, flags, restarts>>

\* The search visits the latest messages, whatever their height, and their main
\* ancestors above the last finalized block of the snapshot.
Candidates(known, height) ==
    {b \in known \cap Finalizable :
        \/ Height[b] > height
        \/ \A c \in known : Sender[c] = Sender[b] => Height[c] <= Height[b]}

\* A candidate passes the threshold; is_finalized reads the live metadata.
Found(r, b, v) ==
    /\ run[r].pc = "search"
    /\ b \in Candidates(run[r].known, run[r].height)
    /\ run' = [run EXCEPT ![r] =
           IF b \in finalized THEN Fresh("done")
           ELSE RunAt("reconcile", b, v)]
    /\ UNCHANGED <<dag, metadata, effects, handlers, flags, restarts>>

\* No candidate passes, an error, or a timeout of the task.
NotFound(r) ==
    /\ run[r].pc = "search"
    /\ run' = [run EXCEPT ![r] = Fresh("done")]
    /\ UNCHANGED <<dag, metadata, effects, handlers, flags, restarts>>

-----------------------------------------------------------------------------
\* record_directly_finalized.

\* ancestors(b) with the filter "not finalized": the least set that holds every
\* unfinalized parent of b and of its own members.
UpClosed(s, b) == \A h \in s \cup {b} : Parents[h] \subseteq finalized \cup s

UnfinalizedAncestors(b) ==
    {h \in Blocks : \A s \in SUBSET (Blocks \ finalized) : UpClosed(s, b) => h \in s}

\* Mutant of Reconcile: the walk stops at the height of the last finalized block.
ReconcileAboveLfb(r) ==
    /\ run[r].pc = "reconcile"
    /\ LET b       == run[r].block
           above   == {h \in UnfinalizedAncestors(b) : Height[h] > Height[lfb]}
           pending == ({b} \cup above) \ run[r].applied
       IN  run' = [run EXCEPT ![r].pc    = IF pending = {} THEN "record" ELSE "effect",
                              ![r].batch = pending,
                              ![r].todo  = pending]
    /\ UNCHANGED <<dag, metadata, effects, handlers, flags, restarts>>

\* One pass of the reconcile loop, under the global lock.
Reconcile(r) ==
    /\ run[r].pc = "reconcile"
    /\ LET b       == run[r].block
           pending == ({b} \cup UnfinalizedAncestors(b)) \ run[r].applied
       IN  run' = [run EXCEPT ![r].pc    = IF pending = {} THEN "record" ELSE "effect",
                              ![r].batch = pending,
                              ![r].todo  = pending]
    /\ UNCHANGED <<dag, metadata, effects, handlers, flags, restarts>>

\* Mutant of EffectOn: only the last block of the batch counts as applied.
EffectOnForgetsBatch(r, b) ==
    /\ run[r].pc = "effect"
    /\ b \in run[r].todo
    /\ effects' = effects \cup {b}
    /\ run' = [run EXCEPT
           ![r].todo    = @ \ {b},
           ![r].pc      = IF run[r].todo = {b} THEN "reconcile" ELSE @,
           ![r].batch   = IF run[r].todo = {b} THEN {} ELSE @,
           ![r].applied = IF run[r].todo = {b} THEN @ \cup {b} ELSE @]
    /\ UNCHANGED <<dag, metadata, handlers, flags, restarts>>

\* The finalization effect, one block at a time and without the lock.
EffectOn(r, b) ==
    /\ run[r].pc = "effect"
    /\ b \in run[r].todo
    /\ effects' = effects \cup {b}
    /\ run' = [run EXCEPT
           ![r].todo    = @ \ {b},
           ![r].pc      = IF run[r].todo = {b} THEN "reconcile" ELSE @,
           ![r].batch   = IF run[r].todo = {b} THEN {} ELSE @,
           ![r].applied = IF run[r].todo = {b} THEN @ \cup run[r].batch ELSE @]
    /\ UNCHANGED <<dag, metadata, handlers, flags, restarts>>

\* Mutant of EffectFails: the error is swallowed.
EffectFailsSilently(r) ==
    /\ run[r].pc = "effect"
    /\ run' = [run EXCEPT ![r].pc = "reconcile", ![r].batch = {}, ![r].todo = {},
                          ![r].applied = @ \cup run[r].batch]
    /\ UNCHANGED <<dag, metadata, effects, handlers, flags, restarts>>

\* An effect returns an error.  What earlier passes applied would be recorded
\* here, and there are none: SecondPassFindsNothing.
EffectFails(r) ==
    /\ run[r].pc = "effect"
    /\ run' = [run EXCEPT ![r] = Fresh("done")]
    /\ UNCHANGED <<dag, metadata, effects, handlers, flags, restarts>>

\* prune_finalized_cache_if_needed evicts arbitrary members of the set.
Pruned(s) == IF Cardinality(s) <= CacheMax THEN {s}
             ELSE {u \in SUBSET s : Cardinality(u) = CacheRetain}

\* Mutant of NewLfb: the most recent one wins, whatever its height.
NewLfbLastWriter(b) == b

\* The block last_finalized_block becomes when b is directly finalized.
NewLfb(b) == IF Height[lfb] <= Height[b] THEN b ELSE lfb

\* Mutant of RaisedFt: the new value replaces the old one.
RaisedFtOverwrites(s, v) == [b \in Blocks |-> IF b \in s THEN v ELSE ft[b]]

\* ft with the values of s raised to v where they are lower.
RaisedFt(s, v) == [b \in Blocks |-> IF b \in s /\ ft[b] < v THEN v ELSE ft[b]]

\* Mutant of RecordFinalized: the ancestors are finalized in memory only.
RecordFinalizedDirectOnly(r) ==
    /\ run[r].pc = "record"
    /\ LET new == run[r].applied \cup {run[r].block}
       IN  /\ finalized' = finalized \cup {run[r].block}
           /\ direct' = direct \cup {run[r].block}
           /\ ft' = RaisedFt(new, run[r].ft)
           /\ cached' \in Pruned(cached \cup new)
           /\ lfb' = NewLfb(run[r].block)
    /\ run' = [run EXCEPT ![r] = RunAt("propagate", Genesis, run[r].ft)]
    /\ UNCHANGED <<dag, effects, handlers, flags, restarts>>

\* record_finalized, under the global lock.
RecordFinalized(r) ==
    /\ run[r].pc = "record"
    /\ LET new == run[r].applied \cup {run[r].block}
       IN  /\ finalized' = finalized \cup new
           /\ direct' = direct \cup {run[r].block}
           /\ ft' = RaisedFt(new, run[r].ft)
           /\ cached' \in Pruned(cached \cup new)
           /\ lfb' = NewLfb(run[r].block)
    /\ run' = [run EXCEPT ![r] = RunAt("propagate", Genesis, run[r].ft)]
    /\ UNCHANGED <<dag, effects, handlers, flags, restarts>>

\* Mutant of PropagateFt: only the new last finalized block is raised.
PropagateFtToLfb(r) ==
    /\ run[r].pc = "propagate"
    /\ ft' = RaisedFt({lfb}, run[r].ft)
    /\ run' = [run EXCEPT ![r] = Fresh("done")]
    /\ UNCHANGED <<dag, finalized, direct, cached, lfb, effects, handlers, flags, restarts>>

\* propagate_ft_to_finalized_blocks, under the lock taken once more.
PropagateFt(r) ==
    /\ run[r].pc = "propagate"
    /\ ft' = RaisedFt(cached, run[r].ft)
    /\ run' = [run EXCEPT ![r] = Fresh("done")]
    /\ UNCHANGED <<dag, finalized, direct, cached, lfb, effects, handlers, flags, restarts>>

-----------------------------------------------------------------------------
\* A crash keeps the stores; recreate_in_memory_state folds the persisted
\* metadata in an arbitrary order.
Restart ==
    /\ restarts < MaxRestarts
    /\ restarts' = restarts + 1
    /\ cached' = finalized
    /\ lfb' \in {b \in direct : \A d \in direct : Height[d] <= Height[b]}
    /\ toNotify' = {}
    /\ toQueue' = {}
    /\ taskInProgress' = FALSE
    /\ taskQueued' = FALSE
    /\ run' = [r \in Runs |-> IdleRun]
    /\ UNCHANGED <<dag, finalized, direct, ft, effects>>

RunStep(r) ==
    \/ TakeSnapshot(r)
    \/ \E b \in Blocks, v \in 1..MaxFt : Found(r, b, v)
    \/ NotFound(r)
    \/ Reconcile(r)
    \/ \E b \in Blocks : EffectOn(r, b)
    \/ EffectFails(r)
    \/ RecordFinalized(r)
    \/ PropagateFt(r)
    \/ Finish(r)

Next ==
    \/ \E b \in Blocks : Insert(b) \/ UpdateLastFinalizedBlock(b) \/ QueueRun(b)
    \/ \E q \in Queries : QueryLastFinalizedBlock(q)
    \/ \E r \in Runs : RunStep(r)
    \/ Release
    \/ Restart

Spec == Init /\ [][Next]_vars

-----------------------------------------------------------------------------
\* Types of the finalization state.
RunType ==
    [ pc      : {"idle", "start", "search", "reconcile", "effect", "record",
                 "propagate", "done", "release"},
      known   : SUBSET Blocks,
      height  : Nat,
      block   : Blocks,
      ft      : 0..MaxFt,
      batch   : SUBSET Blocks,
      todo    : SUBSET Blocks,
      applied : SUBSET Blocks ]

TypeOK ==
    /\ dag \subseteq Blocks
    /\ finalized \subseteq Blocks
    /\ direct \subseteq Blocks
    /\ ft \in [Blocks -> 0..MaxFt]
    /\ cached \subseteq finalized
    /\ lfb \in Blocks
    /\ effects \subseteq Blocks
    /\ toNotify \subseteq Blocks
    /\ toQueue \subseteq Blocks
    /\ taskInProgress \in BOOLEAN
    /\ taskQueued \in BOOLEAN
    /\ run \in [Runs -> RunType]
    /\ restarts \in 0..MaxRestarts

\* Every finalized block had its effects carried out first: a crash, a failed
\* effect or a concurrent run never leaves a finalized block whose deploys are
\* still in the pool and whose event nobody saw.
FinalizedHaveEffects == finalized \subseteq effects \cup {Genesis}

\* The persisted finalized set is closed under parents, so the walk over
\* ancestors may stop at the first finalized block.
FinalizedClosed == \A b \in finalized : Parents[b] \subseteq finalized

\* The last finalized block in memory is a highest directly finalized block of
\* the store: what a restart would recover is what the node is using, also when
\* two runs record their blocks in the opposite order of their heights.
LfbIsHighestDirect == lfb \in direct /\ \A d \in direct : Height[d] <= Height[lfb]

\* The last finalized block never moves down, across runs and restarts.
LfbNeverRegresses == [][Height[lfb] <= Height[lfb']]_vars

\* The reconcile loop needs no third pass: after the effects of its first pass
\* the second finds nothing new, whatever other runs recorded meanwhile.
SecondPassFindsNothing == \A r \in Runs : run[r].pc = "effect" => run[r].applied = {}

\* A cached fault tolerance never falls.
FtNeverFalls == [][\A b \in Blocks : ft[b] <= ft'[b]]_vars

\* Between runs, an ancestor's cached fault tolerance is at least that of its
\* descendants, as long as no crash fell between recording and propagating and
\* the cache has evicted nothing.
AncestorFtAtLeastDescendants ==
    (/\ restarts = 0
     /\ cached = finalized
     /\ \A r \in Runs : run[r].pc # "propagate")
        => \A b \in finalized : \A p \in Parents[b] : ft[p] >= ft[b]

\* Finalization does what MonotoneFinality promises: concurrent runs, failing
\* effects, cache eviction and crashes never record a block before its effects or
\* without its ancestors, never take one back and never move the last one down.
Finality == INSTANCE MonotoneFinality
                WITH announced <- effects \cup {Genesis}, recorded <- finalized, last <- lfb

ImplementsFinality == Finality!Spec

\* A queued run has a task that will look at the flag ("The next queued run will
\* execute immediately after the current one finishes").
QueuedRunHasTask == taskQueued => taskInProgress
=============================================================================
