--------------------------- MODULE BlockProcessor ---------------------------
(***************************************************************************)
(* The block pipeline of a running node: Running (network handler),        *)
(* BlockProcessorInstance (dispatcher and parallel tasks), BlockProcessor  *)
(* (the steps a block goes through), the Casper buffer, and the start-up   *)
(* pass of CasperLaunch that replays the buffer after a restart.           *)
(*                                                                         *)
(*   queue        block_processing_queue, the bounded channel              *)
(*   held         the block the dispatcher took and waits to start         *)
(*   inFlight     blocks_in_processing                                     *)
(*   actor        per task, per network handler and for the start-up pass: *)
(*                its program counter, its block, the set it iterates over *)
(*                and the dependencies it will request                     *)
(*   buffer       CasperBuffer's graph;  parentsStore  its persisted half  *)
(*   stored       block_store;           blockDag  blocks in the DAG       *)
(*   requested    hashes BlockRetriever tracks                             *)
(*   attempts     missing_dependency_attempts                              *)
(*   quarantine   hashes in missing_dependency_quarantine_until            *)
(*                                                                         *)
(* A step between two awaits or two lock acquisitions is one action.  The  *)
(* verdict of validation is an input: Verdicts[b] is what it may say of b. *)
(* Buffer limits are CasperBuffer's subject: here the buffer stays within  *)
(* them.                                                                   *)
(***************************************************************************)
EXTENDS BlockDependencyDag, Sequences

CONSTANTS
    Tasks,           \* permits of the semaphore (max_parallel_blocks)
    Handlers,        \* concurrent BlockMessage handlers of Running
    Boot,            \* the start-up pass send_buffer_pendants_to_casper
    NoBlock,
    QueueCapacity,   \* BLOCK_PROCESSOR_QUEUE_MAX_PENDING
    MaxInFlight,     \* MAX_BLOCKS_IN_PROCESSING
    AttemptsMax,     \* MISSING_DEPENDENCY_ATTEMPTS_MAX
    Malformed,       \* hashes of which copies arrive that a check of the block's own
                     \* fields turns away: shard, version, height, format, signature
    Verdicts,        \* Verdicts[b] \subseteq VerdictKinds
    StorageFails,    \* whether a step of a task may return an error
    MaxRestarts      \* bound on crashes

\* Valid; invalid and recorded in the DAG (slashable, admissible equivocation,
\* exception); invalid and only dropped; left to the final clean-up (ignorable
\* equivocation, other block errors).
VerdictKinds == {"valid", "slashable", "rejected", "ignored"}

ASSUME PipelineAssumption ==
    /\ QueueCapacity \in Nat /\ MaxInFlight \in Nat \ {0}
    /\ MaxInFlight <= QueueCapacity
    /\ AttemptsMax \in Nat \ {0}
    /\ MaxRestarts \in Nat
    /\ Malformed \subseteq Blocks
    /\ Verdicts \in [Blocks -> SUBSET VerdictKinds]
    /\ StorageFails \in BOOLEAN
    /\ NoBlock \notin Blocks
    /\ Tasks \cap Handlers = {} /\ Boot \notin Tasks \cup Handlers

VARIABLES queue, held, inFlight, actor, buffer, parentsStore, stored, blockDag,
          requested, attempts, quarantine, restarts

pipeline == <<queue, held, inFlight>>
bufferVars == <<buffer, parentsStore>>
depVars == <<attempts, quarantine>>
vars == <<queue, held, inFlight, actor, buffer, parentsStore, stored, blockDag,
          requested, attempts, quarantine, restarts>>

Actors == Tasks \cup Handlers \cup {Boot}

Idle == [pc |-> "idle", block |-> NoBlock, todo |-> {}, fetch |-> {}]

\* The program counters at which a task owns the mark of its block.
ProcessingPc ==
    {"interest", "store", "deps", "pendant", "relate", "request",
     "validate", "insert", "unbuffer", "cleanup", "finish"}

Goto(x, pc) == actor' = [actor EXCEPT ![x].pc = pc]

-----------------------------------------------------------------------------
\* Operations on the buffer.

BufferAdd(p, c) ==
    /\ buffer' = DagAdd(buffer, p, c)
    /\ parentsStore' = StoreAdd(parentsStore, p, c)

BufferRemove(h) ==
    /\ buffer' = DagRemove(buffer, h)
    /\ parentsStore' = StoreRemove(parentsStore, buffer, h)

BufferPutPendant(b) ==
    LET d == DagAdd(buffer, TempBlock, b)
    IN  /\ buffer' = DagRemove(d, TempBlock)
        /\ parentsStore' = StoreRemove(StoreAdd(parentsStore, TempBlock, b), d, TempBlock)

\* remove_from_buffer with its bookkeeping, and ack_processed.
PurgeAndAck(b) ==
    /\ BufferRemove(b)
    /\ attempts' = [attempts EXCEPT ![b] = 0]
    /\ quarantine' = quarantine \ {b}
    /\ requested' = requested \ {b}

\* contains or is_pendant: the buffer knows this hash.
Active(h) == Contains(buffer, h) \/ IsPendant(buffer, h)

-----------------------------------------------------------------------------
Init ==
    /\ queue = <<>>
    /\ held = NoBlock
    /\ inFlight = {}
    /\ actor = [x \in Actors |-> Idle]
    /\ buffer = EmptyDag
    /\ parentsStore = EmptyStore
    /\ stored = {}
    /\ blockDag = {}
    /\ requested = {}
    /\ attempts = [b \in Blocks |-> 0]
    /\ quarantine = {}
    /\ restarts = 0

-----------------------------------------------------------------------------
(***************************************************************************)
(* Enqueuing.  The network handler, a task that scans the buffer and the   *)
(* start-up pass all insert the mark, read the size of the set, and then   *)
(* either take the mark back or send to the queue.                         *)
(***************************************************************************)
\* Mutant of Mark: the result of inserting into the set is not looked at.
MarkUnchecked(x, b) ==
    /\ inFlight' = inFlight \cup {b}
    /\ actor' = [actor EXCEPT ![x].pc = "cap", ![x].block = b, ![x].todo = @ \ {b}]

Mark(x, b) ==
    /\ b \notin inFlight
    /\ inFlight' = inFlight \cup {b}
    /\ actor' = [actor EXCEPT ![x].pc = "cap", ![x].block = b, ![x].todo = @ \ {b}]

\* After the last block an actor has to offer, a task releases its permit.
EnqueueNext(x) == IF actor[x].todo = {} THEN Idle
                  ELSE [actor[x] EXCEPT !.pc = "enqueue", !.block = NoBlock]

\* Mutant of CheckCap: the cap lets one block too many in.
CheckCapOffByOne(x) ==
    /\ actor[x].pc = "cap"
    /\ IF Cardinality(inFlight) > MaxInFlight + 1
       THEN /\ inFlight' = inFlight \ {actor[x].block}
            /\ actor' = [actor EXCEPT ![x] = EnqueueNext(x)]
       ELSE /\ Goto(x, "send")
            /\ UNCHANGED inFlight
    /\ UNCHANGED <<queue, held, bufferVars, stored, blockDag, requested, depVars, restarts>>

CheckCap(x) ==
    /\ actor[x].pc = "cap"
    /\ IF Cardinality(inFlight) > MaxInFlight
       THEN /\ inFlight' = inFlight \ {actor[x].block}
            /\ actor' = [actor EXCEPT ![x] = EnqueueNext(x)]
       ELSE /\ Goto(x, "send")
            /\ UNCHANGED inFlight
    /\ UNCHANGED <<queue, held, bufferVars, stored, blockDag, requested, depVars, restarts>>

\* The channel is bounded: a full queue blocks the sender.
Send(x) ==
    /\ actor[x].pc = "send"
    /\ Len(queue) < QueueCapacity
    /\ queue' = Append(queue, actor[x].block)
    /\ IF x = Boot THEN Goto(x, "ack") ELSE actor' = [actor EXCEPT ![x] = EnqueueNext(x)]
    /\ UNCHANGED <<held, inFlight, bufferVars, stored, blockDag, requested, depVars, restarts>>

\* The start-up pass then tells the retriever that it has the block, which a
\* task may already have dealt with.
AckReceive(x) ==
    /\ actor[x].pc = "ack"
    /\ requested' = requested \cup {actor[x].block}
    /\ actor' = [actor EXCEPT ![x] = EnqueueNext(x)]
    /\ UNCHANGED <<pipeline, bufferVars, stored, blockDag, depVars, restarts>>

\* ignore_casper_message of the BlockMessage handler.  What it has read may be
\* stale when the handler comes to mark the block.
Receive(x, b) ==
    /\ actor[x] = Idle
    /\ b \notin inFlight
    /\ ~ Contains(buffer, b)
    /\ b \notin blockDag
    /\ actor' = [actor EXCEPT ![x] = [Idle EXCEPT !.pc = "enqueue", !.todo = {b}]]
    /\ UNCHANGED <<pipeline, bufferVars, stored, blockDag, requested, depVars, restarts>>

\* Offering the blocks of todo, in the arbitrary order of a hash set.
EnqueueMark(x, b) ==
    /\ actor[x].pc = "enqueue"
    /\ b \in actor[x].todo
    /\ x = Boot => b \notin blockDag
    /\ Mark(x, b)
    /\ UNCHANGED <<queue, held, bufferVars, stored, blockDag, requested, depVars, restarts>>

Skipping(x, b) == IF actor[x].todo = {b} THEN Idle
                  ELSE [actor[x] EXCEPT !.todo = @ \ {b}]

EnqueueSkip(x, b) ==
    /\ actor[x].pc = "enqueue"
    /\ b \in actor[x].todo
    /\ x = Boot => b \notin blockDag
    /\ b \in inFlight
    /\ actor' = [actor EXCEPT ![x] = Skipping(x, b)]
    /\ UNCHANGED <<pipeline, bufferVars, stored, blockDag, requested, depVars, restarts>>

-----------------------------------------------------------------------------
\* BlockProcessorInstance::create: receive, then wait for a permit.

Dequeue ==
    /\ held = NoBlock
    /\ queue # <<>>
    /\ held' = Head(queue)
    /\ queue' = Tail(queue)
    /\ UNCHANGED <<inFlight, actor, bufferVars, stored, blockDag, requested, depVars, restarts>>

\* The task's own mark and cap are for blocks that were sent unmarked: no
\* sender does that (MarkedBlocksHaveOneOwner).
Spawn(t) ==
    /\ held # NoBlock
    /\ actor[t] = Idle
    /\ actor' = [actor EXCEPT ![t] = [Idle EXCEPT !.pc = "interest", !.block = held]]
    /\ inFlight' = inFlight \cup {held}
    /\ held' = NoBlock
    /\ UNCHANGED <<queue, bufferVars, stored, blockDag, requested, depVars, restarts>>

\* The already_processed of check_if_of_interest.
AlreadyProcessed(b) == b \in blockDag \/ Contains(buffer, b)

\* Mutant of CheckIfOfInterest: a block the buffer knows is let through.
CheckIfOfInterestDagOnly(t) ==
    /\ actor[t].pc = "interest"
    /\ actor[t].block \notin blockDag
    /\ Goto(t, "store")
    /\ UNCHANGED <<pipeline, bufferVars, stored, blockDag, requested, depVars, restarts>>

\* check_if_of_interest, with purge_from_buffer_and_ack when it says no.
CheckIfOfInterest(t) ==
    /\ actor[t].pc = "interest"
    /\ LET b == actor[t].block
       IN  \/ /\ AlreadyProcessed(b) \/ b \in Malformed
              /\ PurgeAndAck(b)
              /\ Goto(t, "finish")
           \/ /\ ~ AlreadyProcessed(b)
              /\ Goto(t, "store")
              /\ UNCHANGED <<bufferVars, depVars, requested>>
    /\ UNCHANGED <<pipeline, stored, blockDag, restarts>>

\* check_if_well_formed_and_store, with the purge of a malformed copy.
CheckIfWellFormedAndStore(t) ==
    /\ actor[t].pc = "store"
    /\ LET b == actor[t].block
       IN  \/ /\ b \in Malformed
              /\ PurgeAndAck(b)
              /\ Goto(t, "finish")
              /\ UNCHANGED stored
           \/ /\ stored' = stored \cup {b}
              /\ Goto(t, "deps")
              /\ UNCHANGED <<bufferVars, depVars, requested>>
    /\ UNCHANGED <<pipeline, blockDag, restarts>>

\* The two sweeps keep what is recorded of blocks the buffer still knows.
SweptAttempts == [h \in Blocks |-> IF Active(h) THEN attempts[h] ELSE 0]

SweptQuarantine == {h \in quarantine : Active(h)}

\* Mutant of NonValidated: only the dependencies to fetch count as missing.
NonValidatedFetchedOnly(b) == {h \in Deps[b] \ blockDag : ~ Active(h)}

\* get_non_validated_dependencies: those in the buffer and those to fetch.
NonValidated(b) == Deps[b] \ blockDag

ToFetch(b) == {h \in NonValidated(b) : ~ Active(h)}

\* Mutant of RegisterAttempt: the count is not reset at its limit.
RegisterAttemptKeepsCounting(b) ==
    LET tried == SweptAttempts[b] + 1
    IN  /\ attempts' = [SweptAttempts EXCEPT ![b] = tried]
        /\ quarantine' = SweptQuarantine \cup (IF tried >= AttemptsMax THEN {b} ELSE {})

\* register_missing_dependency_attempt, and the quarantine at its limit.
RegisterAttempt(b) ==
    LET tried == SweptAttempts[b] + 1
    IN  /\ attempts' = [SweptAttempts EXCEPT ![b] = IF tried >= AttemptsMax THEN 0 ELSE tried]
        /\ quarantine' = SweptQuarantine \cup (IF tried >= AttemptsMax THEN {b} ELSE {})

\* check_dependencies_with_effects up to its first write to the buffer: left
\* alone in quarantine, ready, or waiting.
CheckDependencies(t) ==
    /\ actor[t].pc = "deps"
    /\ LET b == actor[t].block
       IN  \/ /\ b \in SweptQuarantine
              /\ Goto(t, "finish")
              /\ attempts' = SweptAttempts
              /\ quarantine' = SweptQuarantine
           \/ /\ b \notin SweptQuarantine
              /\ NonValidated(b) = {}
              /\ Goto(t, "pendant")
              /\ attempts' = [SweptAttempts EXCEPT ![b] = 0]
              /\ quarantine' = SweptQuarantine
           \/ /\ b \notin SweptQuarantine
              /\ NonValidated(b) # {}
              /\ RegisterAttempt(b)
              /\ actor' = [actor EXCEPT
                     ![t].pc    = "relate",
                     ![t].todo  = NonValidated(b),
                     ![t].fetch = IF ToFetch(b) = {} THEN NonValidated(b) ELSE ToFetch(b)]
    /\ UNCHANGED <<pipeline, bufferVars, stored, blockDag, requested, restarts>>

\* commit_to_buffer of a ready block.
CommitPendant(t) ==
    /\ actor[t].pc = "pendant"
    /\ BufferPutPendant(actor[t].block)
    /\ Goto(t, "validate")
    /\ UNCHANGED <<pipeline, stored, blockDag, requested, depVars, restarts>>

\* commit_to_buffer of a waiting block: one locked add_relation per dependency.
CommitRelation(t, p) ==
    /\ actor[t].pc = "relate"
    /\ p \in actor[t].todo
    /\ BufferAdd(p, actor[t].block)
    /\ actor' = [actor EXCEPT ![t].todo = @ \ {p},
                              ![t].pc   = IF actor[t].todo = {p} THEN "request" ELSE @]
    /\ UNCHANGED <<pipeline, stored, blockDag, requested, depVars, restarts>>

\* Mutant of RequestDependencies: a block that has to wait ends without the scan.
RequestDependenciesNoScan(t) ==
    /\ actor[t].pc = "request"
    /\ requested' = (requested \cup actor[t].fetch) \ {actor[t].block}
    /\ inFlight' = inFlight \ {actor[t].block}
    /\ actor' = [actor EXCEPT ![t] = Idle]
    /\ UNCHANGED <<queue, held, bufferVars, stored, blockDag, depVars, restarts>>

\* request_missing_dependencies or recover_stale_buffer_dependencies, and the
\* acknowledgement of the block itself.
RequestDependencies(t) ==
    /\ actor[t].pc = "request"
    /\ requested' = (requested \cup actor[t].fetch) \ {actor[t].block}
    /\ actor' = [actor EXCEPT ![t].pc = "finish", ![t].fetch = {}]
    /\ UNCHANGED <<pipeline, bufferVars, stored, blockDag, depVars, restarts>>

-----------------------------------------------------------------------------
\* validate_with_effects: the verdict and its effects, one storage at a time.

Validate(t, v) ==
    /\ actor[t].pc = "validate"
    /\ v \in Verdicts[actor[t].block]
    /\ Goto(t, CASE v \in {"valid", "slashable"} -> "insert"
                 [] v = "rejected"               -> "unbuffer"
                 [] v = "ignored"                -> "cleanup")
    /\ UNCHANGED <<pipeline, bufferVars, stored, blockDag, requested, depVars, restarts>>

\* handle_valid_block / handle_invalid_block: block_dag_storage.insert.
InsertIntoDag(t) ==
    /\ actor[t].pc = "insert"
    /\ blockDag' = blockDag \cup {actor[t].block}
    /\ Goto(t, "unbuffer")
    /\ UNCHANGED <<pipeline, bufferVars, stored, requested, depVars, restarts>>

\* ... and casper_buffer_storage.remove.
RemoveAfterInsert(t) ==
    /\ actor[t].pc = "unbuffer"
    /\ BufferRemove(actor[t].block)
    /\ Goto(t, "cleanup")
    /\ UNCHANGED <<pipeline, stored, blockDag, requested, depVars, restarts>>

\* remove_from_buffer and ack_processed at the end of validate_with_effects.
Cleanup(t) ==
    /\ actor[t].pc = "cleanup"
    /\ PurgeAndAck(actor[t].block)
    /\ Goto(t, "finish")
    /\ UNCHANGED <<pipeline, stored, blockDag, restarts>>

\* A step returns an error: what it did so far stays, and the retriever is told
\* to forget the block, which may fail as well.
Fail(t) ==
    /\ StorageFails
    /\ actor[t].pc \in ProcessingPc \ {"finish"}
    /\ requested' \in {requested, requested \ {actor[t].block}}
    /\ actor' = [actor EXCEPT ![t] = [Idle EXCEPT !.pc = "finish", !.block = actor[t].block]]
    /\ UNCHANGED <<pipeline, bufferVars, stored, blockDag, depVars, restarts>>

\* Mutant of DropGuard: the task ends without dropping the guard.
DropGuardKeepsMark(t) ==
    /\ actor[t].pc = "finish"
    /\ actor' = [actor EXCEPT ![t].pc = "scan", ![t].block = NoBlock]
    /\ UNCHANGED <<pipeline, bufferVars, stored, blockDag, requested, depVars, restarts>>

\* The in-flight guard is dropped before the buffer is scanned.
DropGuard(t) ==
    /\ actor[t].pc = "finish"
    /\ inFlight' = inFlight \ {actor[t].block}
    /\ actor' = [actor EXCEPT ![t].pc = "scan", ![t].block = NoBlock]
    /\ UNCHANGED <<queue, held, bufferVars, stored, blockDag, requested, depVars, restarts>>

\* get_dependency_free_from_buffer: buffered blocks, waiting or pendant, whose
\* real dependencies are all in the DAG.
DependencyFree == {b \in stored : Active(b) /\ Deps[b] \subseteq blockDag}

Scan(t) ==
    /\ actor[t].pc = "scan"
    /\ actor' = [actor EXCEPT ![t] = IF DependencyFree = {} THEN Idle
                                     ELSE [@ EXCEPT !.pc = "enqueue", !.todo = DependencyFree]]
    /\ UNCHANGED <<pipeline, bufferVars, stored, blockDag, requested, depVars, restarts>>

-----------------------------------------------------------------------------
\* The retriever and the clock, as far as the pipeline sees them.

\* fetch_dependencies: pendants whose block has not arrived are requested.
FetchDependencies ==
    /\ requested' = requested \cup
           {h \in Blocks : IsPendant(buffer, h) /\ h \notin stored}
    /\ UNCHANGED <<pipeline, actor, bufferVars, stored, blockDag, depVars, restarts>>

QuarantineExpires(b) ==
    /\ b \in quarantine
    /\ quarantine' = quarantine \ {b}
    /\ UNCHANGED <<pipeline, actor, bufferVars, stored, blockDag, requested, attempts, restarts>>

-----------------------------------------------------------------------------
\* The hashes some actor is about to remove from the buffer.
Removing ==
    {actor[t].block : t \in {u \in Tasks :
        \/ actor[u].pc \in {"unbuffer", "cleanup"}
        \/ actor[u].pc = "interest" /\ AlreadyProcessed(actor[u].block)
        \/ actor[u].pc \in {"interest", "store"} /\ actor[u].block \in Malformed}}
    \cup IF actor[Boot].pc = "enqueue" THEN actor[Boot].todo \cap blockDag ELSE {}

\* What a crash may leave in parents_store: its current contents, or those
\* between the two writes of a put_pendant or a remove under way.
CrashStores ==
    {parentsStore}
    \cup {StoreAdd(parentsStore, TempBlock, actor[t].block) :
               t \in {u \in Tasks : actor[u].pc = "pendant"}}
    \cup {StorePut(parentsStore, buffer, h) : h \in Removing}

\* A crash loses everything but the block store, the DAG and parents_store;
\* then send_buffer_pendants_to_casper offers the stored pendants again.
Restart(store) ==
    /\ restarts < MaxRestarts
    /\ restarts' = restarts + 1
    /\ queue' = <<>>
    /\ held' = NoBlock
    /\ inFlight' = {}
    /\ parentsStore' = store
    /\ buffer' = Rebuild(store)
    /\ LET pendants == Rebuild(store).dependencyFree \cap stored
       IN  actor' = [x \in Actors |->
               IF x = Boot /\ pendants # {}
               THEN [Idle EXCEPT !.pc = "enqueue", !.todo = pendants]
               ELSE Idle]
    /\ requested' = {}
    /\ attempts' = [b \in Blocks |-> 0]
    /\ quarantine' = {}
    /\ UNCHANGED <<stored, blockDag>>

\* Mutant of BootPurge: the pendant is skipped and stays in the buffer.
BootPurgeOnlySkips(b) ==
    /\ actor[Boot].pc = "enqueue"
    /\ b \in actor[Boot].todo
    /\ b \in blockDag
    /\ requested' = requested \ {b}
    /\ actor' = [actor EXCEPT ![Boot] = Skipping(Boot, b)]
    /\ UNCHANGED <<pipeline, bufferVars, stored, blockDag, depVars, restarts>>

\* A pendant that is already in the DAG is purged instead of offered.
BootPurge(b) ==
    /\ actor[Boot].pc = "enqueue"
    /\ b \in actor[Boot].todo
    /\ b \in blockDag
    /\ BufferRemove(b)
    /\ requested' = requested \ {b}
    /\ actor' = [actor EXCEPT ![Boot] = Skipping(Boot, b)]
    /\ UNCHANGED <<pipeline, stored, blockDag, depVars, restarts>>

-----------------------------------------------------------------------------
TaskStep(t) ==
    \/ CheckIfOfInterest(t)
    \/ CheckIfWellFormedAndStore(t)
    \/ CheckDependencies(t)
    \/ CommitPendant(t)
    \/ \E p \in Blocks : CommitRelation(t, p)
    \/ RequestDependencies(t)
    \/ \E v \in VerdictKinds : Validate(t, v)
    \/ InsertIntoDag(t)
    \/ RemoveAfterInsert(t)
    \/ Cleanup(t)
    \/ Fail(t)
    \/ DropGuard(t)
    \/ Scan(t)

EnqueueStep(x) ==
    \/ \E b \in Blocks : EnqueueMark(x, b) \/ EnqueueSkip(x, b)
    \/ CheckCap(x)
    \/ Send(x)
    \/ AckReceive(x)

Next ==
    \/ \E x \in Handlers, b \in Blocks : Receive(x, b)
    \/ \E x \in Actors : EnqueueStep(x)
    \/ Dequeue
    \/ \E t \in Tasks : Spawn(t)
    \/ \E t \in Tasks : TaskStep(t)
    \/ FetchDependencies
    \/ \E b \in Blocks : QuarantineExpires(b)
    \/ \E store \in CrashStores : Restart(store)
    \/ \E b \in Blocks : BootPurge(b)

Spec == Init /\ [][Next]_vars

\* tokio runs every task, handler and the dispatcher again and again while it
\* can make progress, and hands a free permit to the waiting dispatcher.
Fairness ==
    /\ \A x \in Actors : WF_vars(EnqueueStep(x))
    /\ \A t \in Tasks : WF_vars(TaskStep(t))
    /\ WF_vars(Dequeue)
    /\ WF_vars(\E t \in Tasks : Spawn(t))
    /\ WF_vars(\E b \in Blocks : BootPurge(b))

FairSpec == Spec /\ Fairness

-----------------------------------------------------------------------------
\* Types of the pipeline's state.
ActorType ==
    [ pc    : ProcessingPc \cup {"idle", "enqueue", "cap", "send", "ack", "scan"},
      block : Blocks \cup {NoBlock},
      todo  : SUBSET Blocks,
      fetch : SUBSET Blocks ]

TypeOK ==
    /\ queue \in Seq(Blocks)
    /\ held \in Blocks \cup {NoBlock}
    /\ inFlight \subseteq Blocks
    /\ actor \in [Actors -> ActorType]
    /\ buffer \in Dag
    /\ parentsStore \in [Hash -> SUBSET Hash]
    /\ stored \subseteq Blocks
    /\ blockDag \subseteq Blocks
    /\ requested \subseteq Blocks
    /\ attempts \in [Blocks -> 0..(AttemptsMax - 1)]
    /\ quarantine \subseteq Blocks
    /\ restarts \in 0..MaxRestarts

\* A block enters the DAG only after every block it names, however the tasks
\* interleave and wherever a crash falls.
DagClosed == \A b \in blockDag : Deps[b] \subseteq blockDag

\* blocks_in_processing is exact: a marked block is in exactly one place (being
\* enqueued, in the queue, held by the dispatcher, or in one task), so no block
\* is processed twice at once; an unmarked one is in none, so no leaked mark
\* makes the node ignore a block for good.
OwnersOf(b) ==
    Cardinality({x \in Actors : actor[x].block = b
                                   /\ actor[x].pc \in ProcessingPc \cup {"cap", "send"}})
        + Cardinality({i \in DOMAIN queue : queue[i] = b})
        + (IF held = b THEN 1 ELSE 0)

MarkedBlocksHaveOneOwner ==
    \A b \in Blocks : OwnersOf(b) = IF b \in inFlight THEN 1 ELSE 0

\* A task that enqueues pendants while it holds its permit never waits for room
\* in the queue: with the dispatcher waiting for that permit, nobody would make
\* room.  The in-flight cap is what guarantees it.
SendNeverBlocks == \A x \in Actors : actor[x].pc = "send" => Len(queue) < QueueCapacity

\* When the pipeline comes to rest, no buffered block has all its dependencies
\* in the DAG: two tasks that finish a block and its dependency at the same time
\* do not each rely on the other to pick it up.
Quiescent == queue = <<>> /\ held = NoBlock /\ \A x \in Actors : actor[x] = Idle

NothingReadyStranded == Quiescent => DependencyFree = {}

\* When the pipeline comes to rest, no block of the DAG is left in the buffer:
\* a relation recorded after its dependency was validated, or a crash between
\* the insertion and the removal, does not leave a resolved dependency behind
\* that its children would wait for.
ResolvedDependenciesLeaveBuffer ==
    Quiescent => \A b \in blockDag : ~ Active(b)

\* The relations a restart would read are those the node is using: the graph is
\* the "in-memory dependency DAG, recreated from parentsStore on node startup".
RestartRestoresWaiting == \A h \in Hash : parentsStore[h] = buffer.childToParent[h]

\* A block the buffer records parents of is not being validated: validation
\* only starts on blocks whose relations are gone.
ValidatedBlocksDoNotWait ==
    \A t \in Tasks :
        actor[t].pc \in {"validate", "insert"} => ~ Contains(buffer, actor[t].block)

\* The pipeline does what CausalIntake promises, with the in-flight marks as the
\* blocks that are taken: no interleaving of tasks, no failing step and no crash
\* lets a block into the DAG before what it names, without its mark, or out again.
Intake == INSTANCE CausalIntake WITH taken <- inFlight, dag <- blockDag

ImplementsIntake == Intake!Spec

\* Every mark is eventually released: no deadlock between the queue, the
\* permits and the tasks that feed the queue.
MarksReleased == \A b \in Blocks : b \in inFlight ~> b \notin inFlight

\* A stored block leaves the buffer by entering the DAG ("it will be removed
\* once block is validated and added to DAG").
LeavesBufferIntoDag ==
    [][ \A b \in Blocks :
            b \in stored /\ Active(b) /\ ~ Active(b)' => b \in blockDag' ]_vars
=============================================================================
