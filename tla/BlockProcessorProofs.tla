------------------------ MODULE BlockProcessorProofs ------------------------
(***************************************************************************)
(* Proofs about the pipeline, for every set of blocks, tasks and handlers, *)
(* every queue bound and every number of crashes: the DAG is causally      *)
(* closed; every mark of blocks_in_processing has one owner; the cap on    *)
(* the marks keeps senders from waiting for room in the queue; and the     *)
(* pipeline implements CausalIntake.                                       *)
(*                                                                         *)
(* DagClosed is not inductive: InsertIntoDag relies on a check the task    *)
(* made several steps earlier, while other tasks were running.  What makes *)
(* the check last is ReadyDepsInDag: from the moment a task has found its  *)
(* block ready until it inserts it, the dependencies are in the DAG, and   *)
(* nothing takes a block out of the DAG.                                   *)
(***************************************************************************)
EXTENDS BlockProcessor, FiniteSetTheorems, TLAPS

\* The part of the types that the argument needs.
ActorsTyped ==
    /\ actor \in [Actors -> ActorType]
    /\ queue \in Seq(Blocks)
    /\ held \in Blocks \cup {NoBlock}
    /\ stored \subseteq Blocks
    /\ blockDag \subseteq Blocks

\* An actor that is enqueuing or processing has a block to do it with.
WorkersHaveBlock ==
    \A x \in Actors :
        actor[x].pc \in ProcessingPc \cup {"cap", "send"} => actor[x].block \in Blocks

ReadyDepsInDag ==
    \A x \in Actors :
        actor[x].pc \in {"pendant", "validate", "insert"}
            => Deps[actor[x].block] \subseteq blockDag

ClosedInv == ActorsTyped /\ WorkersHaveBlock /\ ReadyDepsInDag /\ DagClosed

-----------------------------------------------------------------------------
\* The invariant holds initially: every actor is idle, the DAG is empty.
LEMMA InitClosed == Init => ClosedInv
  BY PipelineAssumption
  DEF Init, ClosedInv, ActorsTyped, WorkersHaveBlock, ReadyDepsInDag, DagClosed,
      ActorType, Idle, ProcessingPc

\* A step that moves one actor, leaves the DAG alone and does not take the
\* actor to a point where it has found its block ready keeps the invariant.
LEMMA MoveOne ==
  ASSUME NEW x \in Actors, NEW r \in ActorType,
         ClosedInv,
         actor' = [actor EXCEPT ![x] = r],
         r.pc \in ProcessingPc \cup {"cap", "send"} => r.block \in Blocks,
         r.pc \in {"pendant", "validate", "insert"} => Deps[r.block] \subseteq blockDag,
         blockDag' = blockDag,
         queue' \in Seq(Blocks),
         held' \in Blocks \cup {NoBlock},
         stored' \subseteq Blocks
  PROVE  ClosedInv'
<1> USE DEF ClosedInv
<1>1. ActorsTyped'
  BY DEF ActorsTyped
<1>2. WorkersHaveBlock' /\ ReadyDepsInDag'
  BY DEF ActorsTyped, WorkersHaveBlock, ReadyDepsInDag
<1>3. DagClosed'
  BY DEF DagClosed
<1> QED
  BY <1>1, <1>2, <1>3

\* What the steps of the enqueuing actors leave alone.
Frame ==
    /\ blockDag' = blockDag
    /\ queue' \in Seq(Blocks)
    /\ held' \in Blocks \cup {NoBlock}
    /\ stored' \subseteq Blocks

\* Enqueuing steps, of a task, a handler or the start-up pass.
LEMMA EnqueueClosed ==
  ASSUME ClosedInv, NEW x \in Actors,
         EnqueueStep(x) \/ \E b \in Blocks : Receive(x, b)
  PROVE  ClosedInv'
<1>0. ActorsTyped /\ actor[x] \in ActorType
  BY DEF ClosedInv, ActorsTyped
<1>1. ASSUME NEW b \in Blocks, EnqueueMark(x, b)
      PROVE  ClosedInv'
  <2> DEFINE r == [actor[x] EXCEPT !.pc = "cap", !.block = b, !.todo = @ \ {b}]
  <2>1. actor' = [actor EXCEPT ![x] = r]
    BY <1>0, <1>1 DEF EnqueueMark, Mark, ActorsTyped, ActorType
  <2>2. r \in ActorType /\ r.pc = "cap" /\ r.block = b
    BY <1>0 DEF ActorType
  <2>3. Frame
    BY <1>0, <1>1 DEF Frame, EnqueueMark, ActorsTyped
  <2> HIDE DEF r
  <2> QED
    BY <2>1, <2>2, <2>3, MoveOne DEF Frame
<1>2. ASSUME NEW b \in Blocks, EnqueueSkip(x, b)
      PROVE  ClosedInv'
  <2> DEFINE r == Skipping(x, b)
  <2>1. actor' = [actor EXCEPT ![x] = r]
    BY <1>0, <1>2 DEF EnqueueSkip, ActorsTyped
  <2>2. r \in ActorType /\ r.pc \in {"idle", "enqueue"}
    BY <1>0, <1>2 DEF ActorType, EnqueueSkip, Skipping, Idle
  <2>3. Frame
    BY <1>0, <1>2 DEF Frame, EnqueueSkip, ActorsTyped, pipeline
  <2> HIDE DEF r
  <2> QED
    BY <2>1, <2>2, <2>3, MoveOne DEF Frame, ProcessingPc
<1>3. EnqueueNext(x) \in ActorType /\ EnqueueNext(x).pc \in {"idle", "enqueue"}
  BY <1>0 DEF ActorType, EnqueueNext, Idle
<1>4. CASE CheckCap(x)
  <2>0. Frame
    BY <1>0, <1>4 DEF Frame, CheckCap, ActorsTyped
  <2>1. CASE Cardinality(inFlight) > MaxInFlight
    <3>1. actor' = [actor EXCEPT ![x] = EnqueueNext(x)]
      BY <1>4, <2>1 DEF CheckCap
    <3> QED
      BY <1>3, <2>0, <3>1, MoveOne DEF Frame, ProcessingPc
  <2>2. CASE ~ (Cardinality(inFlight) > MaxInFlight)
    <3> DEFINE r == [actor[x] EXCEPT !.pc = "send"]
    <3>1. actor' = [actor EXCEPT ![x] = r]
      BY <1>4, <2>2 DEF CheckCap, Goto
    <3>2. r \in ActorType /\ r.pc = "send" /\ r.block \in Blocks
      BY <1>0, <1>4 DEF ActorType, CheckCap, ClosedInv, WorkersHaveBlock
    <3> HIDE DEF r
    <3> QED
      BY <2>0, <3>1, <3>2, MoveOne DEF Frame
  <2> QED
    BY <2>1, <2>2
<1>5. CASE Send(x)
  <2>1. actor[x].block \in Blocks
    BY <1>0, <1>5 DEF Send, ClosedInv, WorkersHaveBlock
  <2>2. Frame
    BY <1>0, <1>5, <2>1 DEF Frame, Send, ActorsTyped
  <2>3. CASE x = Boot
    <3> DEFINE r == [actor[x] EXCEPT !.pc = "ack"]
    <3>1. actor' = [actor EXCEPT ![x] = r]
      BY <1>5, <2>3 DEF Send, Goto
    <3>2. r \in ActorType /\ r.pc = "ack"
      BY <1>0 DEF ActorType
    <3> HIDE DEF r
    <3> QED
      BY <2>2, <3>1, <3>2, MoveOne DEF Frame, ProcessingPc
  <2>4. CASE x # Boot
    <3>1. actor' = [actor EXCEPT ![x] = EnqueueNext(x)]
      BY <1>5, <2>4 DEF Send
    <3> QED
      BY <1>3, <2>2, <3>1, MoveOne DEF Frame, ProcessingPc
  <2> QED
    BY <2>3, <2>4
<1>7. CASE AckReceive(x)
  <2>1. Frame
    BY <1>0, <1>7 DEF Frame, AckReceive, ActorsTyped, pipeline
  <2>2. actor' = [actor EXCEPT ![x] = EnqueueNext(x)]
    BY <1>7 DEF AckReceive
  <2> QED
    BY <1>3, <2>1, <2>2, MoveOne DEF Frame, ProcessingPc
<1>6. ASSUME NEW b \in Blocks, Receive(x, b)
      PROVE  ClosedInv'
  <2> DEFINE r == [Idle EXCEPT !.pc = "enqueue", !.todo = {b}]
  <2>1. actor' = [actor EXCEPT ![x] = r]
    BY <1>6 DEF Receive
  <2>2. r \in ActorType /\ r.pc = "enqueue"
    BY DEF ActorType, Idle
  <2>3. Frame
    BY <1>0, <1>6 DEF Frame, Receive, ActorsTyped, pipeline
  <2> HIDE DEF r
  <2> QED
    BY <2>1, <2>2, <2>3, MoveOne DEF Frame, ProcessingPc
<1> QED
  BY <1>1, <1>2, <1>4, <1>5, <1>6, <1>7 DEF EnqueueStep

\* The steps of a task.
LEMMA TaskClosed ==
  ASSUME ClosedInv, NEW t \in Tasks, Spawn(t) \/ TaskStep(t)
  PROVE  ClosedInv'
<1>0. t \in Actors /\ ActorsTyped /\ actor[t] \in ActorType
  BY DEF ClosedInv, ActorsTyped, Actors
<1>a. actor[t].pc \in ProcessingPc => actor[t].block \in Blocks
  BY <1>0 DEF ClosedInv, WorkersHaveBlock
<1>b. ASSUME NEW pc, Goto(t, pc), actor[t].pc \in ProcessingPc,
             pc \in ProcessingPc, Frame,
             pc \in {"pendant", "validate", "insert"} => Deps[actor[t].block] \subseteq blockDag
      PROVE  ClosedInv'
  <2> DEFINE r == [actor[t] EXCEPT !.pc = pc]
  <2>1. actor' = [actor EXCEPT ![t] = r]
    BY <1>0, <1>b DEF Goto, ActorsTyped
  <2>2. r \in ActorType /\ r.pc = pc /\ r.block = actor[t].block
    BY <1>0, <1>b DEF ActorType
  <2> HIDE DEF r
  <2> QED
    BY <1>0, <1>a, <1>b, <2>1, <2>2, MoveOne DEF Frame
<1>1. CASE Spawn(t)
  <2> DEFINE r == [Idle EXCEPT !.pc = "interest", !.block = held]
  <2>1. actor' = [actor EXCEPT ![t] = r]
    BY <1>1 DEF Spawn
  <2>2. r \in ActorType /\ r.pc = "interest" /\ r.block \in Blocks
    BY <1>0, <1>1 DEF ActorType, Idle, ProcessingPc, Spawn, ActorsTyped
  <2>3. Frame
    BY <1>0, <1>1 DEF Frame, Spawn, ActorsTyped
  <2> HIDE DEF r
  <2> QED
    BY <1>0, <2>1, <2>2, <2>3, MoveOne DEF Frame
<1>2. CASE CheckIfOfInterest(t)
  <2>1. Frame
    BY <1>0, <1>2 DEF Frame, CheckIfOfInterest, ActorsTyped, pipeline
  <2>2. \E pc \in {"finish", "store"} : Goto(t, pc)
    BY <1>2 DEF CheckIfOfInterest
  <2> QED
    BY <1>2, <1>b, <2>1, <2>2 DEF CheckIfOfInterest, ProcessingPc
<1>3. CASE CheckIfWellFormedAndStore(t)
  <2>0. actor[t].pc \in ProcessingPc
    BY <1>3 DEF CheckIfWellFormedAndStore, ProcessingPc
  <2>1. Frame
    BY <1>0, <1>a, <1>3, <2>0 DEF Frame, CheckIfWellFormedAndStore, ActorsTyped, pipeline
  <2>2. \E pc \in {"finish", "deps"} : Goto(t, pc)
    BY <1>3 DEF CheckIfWellFormedAndStore
  <2> QED
    BY <1>b, <2>0, <2>1, <2>2 DEF ProcessingPc
<1>4. CASE CheckDependencies(t)
  <2>0. actor[t].pc \in ProcessingPc
    BY <1>4 DEF CheckDependencies, ProcessingPc
  <2>1. Frame
    BY <1>0, <1>4 DEF Frame, CheckDependencies, ActorsTyped, pipeline
  <2>2. CASE Goto(t, "finish")
    BY <1>b, <2>0, <2>1, <2>2 DEF ProcessingPc
  <2>3. CASE Goto(t, "pendant") /\ Deps[actor[t].block] \ blockDag = {}
    BY <1>b, <2>0, <2>1, <2>3 DEF ProcessingPc
  <2> DEFINE unresolved == Deps[actor[t].block] \ blockDag
             toFetch == {h \in unresolved : ~ Active(h)}
             fetch == IF toFetch = {} THEN unresolved ELSE toFetch
             r == [actor[t] EXCEPT !.pc = "relate", !.todo = unresolved, !.fetch = fetch]
  <2>4. CASE actor' = [actor EXCEPT ![t] = r]
    <3>1. unresolved \subseteq Blocks /\ fetch \subseteq Blocks
      BY <1>a, <2>0, DepsAssumption
    <3> HIDE DEF unresolved, fetch
    <3>2. r \in ActorType /\ r.pc = "relate" /\ r.block = actor[t].block
      BY <1>0, <3>1 DEF ActorType, ProcessingPc
    <3> HIDE DEF r
    <3> QED
      BY <1>0, <1>a, <2>0, <2>1, <2>4, <3>2, MoveOne DEF Frame
  <2>5. actor' = [actor EXCEPT ![t].pc = "relate", ![t].todo = unresolved, ![t].fetch = fetch]
            => actor' = [actor EXCEPT ![t] = r]
    <3> HIDE DEF unresolved, fetch
    <3> QED
      BY <1>0 DEF ActorsTyped, ActorType
  <2> QED
    BY <1>4, <2>2, <2>3, <2>4, <2>5 DEF CheckDependencies, NonValidated, ToFetch
<1>5. CASE CommitPendant(t)
  <2>1. Frame /\ actor[t].pc = "pendant" /\ Goto(t, "validate")
    BY <1>0, <1>5 DEF Frame, CommitPendant, ActorsTyped, pipeline
  <2>2. Deps[actor[t].block] \subseteq blockDag
    BY <1>0, <2>1 DEF ClosedInv, ReadyDepsInDag
  <2> QED
    BY <1>b, <2>1, <2>2 DEF ProcessingPc
<1>6. ASSUME NEW p \in Blocks, CommitRelation(t, p) PROVE ClosedInv'
  <2> DEFINE r == [actor[t] EXCEPT !.todo = @ \ {p},
                                   !.pc = IF actor[t].todo = {p} THEN "request" ELSE @]
  <2>0. actor[t].pc = "relate"
    BY <1>6 DEF CommitRelation
  <2>1. actor' = [actor EXCEPT ![t] = r]
    BY <1>0, <1>6 DEF CommitRelation, ActorsTyped, ActorType
  <2>2. r \in ActorType /\ r.pc \in {"request", "relate"} /\ r.block = actor[t].block
    BY <1>0, <2>0 DEF ActorType, ProcessingPc
  <2>3. Frame
    BY <1>0, <1>6 DEF Frame, CommitRelation, ActorsTyped, pipeline
  <2>4. actor[t].block \in Blocks
    BY <1>a, <2>0 DEF ProcessingPc
  <2> HIDE DEF r
  <2> QED
    BY <1>0, <2>1, <2>2, <2>3, <2>4, MoveOne DEF Frame
<1>7. CASE RequestDependencies(t)
  <2> DEFINE r == [actor[t] EXCEPT !.pc = "finish", !.fetch = {}]
  <2>1. actor' = [actor EXCEPT ![t] = r]
    BY <1>0, <1>7 DEF RequestDependencies, ActorsTyped, ActorType
  <2>2. r \in ActorType /\ r.pc = "finish" /\ r.block = actor[t].block
    BY <1>0 DEF ActorType, ProcessingPc
  <2>3. Frame
    BY <1>0, <1>7 DEF Frame, RequestDependencies, ActorsTyped, pipeline
  <2>4. actor[t].block \in Blocks
    BY <1>a, <1>7 DEF ProcessingPc, RequestDependencies
  <2> HIDE DEF r
  <2> QED
    BY <1>0, <2>1, <2>2, <2>3, <2>4, MoveOne DEF Frame
<1>8. ASSUME NEW v \in VerdictKinds, Validate(t, v) PROVE ClosedInv'
  <2>1. Frame /\ actor[t].pc = "validate"
    BY <1>0, <1>8 DEF Frame, Validate, ActorsTyped, pipeline
  <2>2. Deps[actor[t].block] \subseteq blockDag
    BY <1>0, <2>1 DEF ClosedInv, ReadyDepsInDag
  <2>3. Goto(t, "insert") \/ Goto(t, "unbuffer") \/ Goto(t, "cleanup")
    BY <1>8 DEF Validate, VerdictKinds
  <2> QED
    BY <1>b, <2>1, <2>2, <2>3 DEF ProcessingPc
<1>9. CASE InsertIntoDag(t)
  <2> DEFINE r == [actor[t] EXCEPT !.pc = "unbuffer"]
  <2>1. /\ actor[t].pc = "insert"
        /\ actor' = [actor EXCEPT ![t] = r]
        /\ blockDag' = blockDag \cup {actor[t].block}
    BY <1>9 DEF InsertIntoDag, Goto
  <2>2. actor[t].block \in Blocks /\ Deps[actor[t].block] \subseteq blockDag
    BY <1>0, <1>a, <2>1 DEF ClosedInv, ReadyDepsInDag, ProcessingPc
  <2>3. r \in ActorType /\ r.pc = "unbuffer" /\ r.block = actor[t].block
    BY <1>0 DEF ActorType, ProcessingPc
  <2> HIDE DEF r
  <2>4. ActorsTyped'
    BY <1>0, <1>9, <2>1, <2>2, <2>3 DEF ActorsTyped, InsertIntoDag, pipeline
  <2>5. WorkersHaveBlock'
    BY <1>0, <2>1, <2>2, <2>3 DEF ClosedInv, ActorsTyped, WorkersHaveBlock
  <2>6. ReadyDepsInDag'
    BY <1>0, <2>1, <2>2, <2>3 DEF ClosedInv, ActorsTyped, ReadyDepsInDag
  <2>7. DagClosed'
    BY <2>1, <2>2 DEF ClosedInv, DagClosed
  <2> QED
    BY <2>4, <2>5, <2>6, <2>7 DEF ClosedInv
<1>10. CASE RemoveAfterInsert(t)
  <2>1. Frame /\ actor[t].pc = "unbuffer" /\ Goto(t, "cleanup")
    BY <1>0, <1>10 DEF Frame, RemoveAfterInsert, ActorsTyped, pipeline
  <2> QED
    BY <1>b, <2>1 DEF ProcessingPc
<1>11. CASE Cleanup(t)
  <2>1. Frame /\ actor[t].pc = "cleanup" /\ Goto(t, "finish")
    BY <1>0, <1>11 DEF Frame, Cleanup, ActorsTyped, pipeline
  <2> QED
    BY <1>b, <2>1 DEF ProcessingPc
<1>12. CASE Fail(t)
  <2> DEFINE r == [Idle EXCEPT !.pc = "finish", !.block = actor[t].block]
  <2>1. actor' = [actor EXCEPT ![t] = r]
    BY <1>12 DEF Fail
  <2>2. actor[t].block \in Blocks
    BY <1>a, <1>12 DEF Fail
  <2>3. r \in ActorType /\ r.pc = "finish" /\ r.block = actor[t].block
    BY <2>2 DEF ActorType, ProcessingPc, Idle
  <2>4. Frame
    BY <1>0, <1>12 DEF Frame, Fail, ActorsTyped, pipeline
  <2> HIDE DEF r
  <2> QED
    BY <1>0, <2>1, <2>2, <2>3, <2>4, MoveOne DEF Frame
<1>13. CASE DropGuard(t)
  <2> DEFINE r == [actor[t] EXCEPT !.pc = "scan", !.block = NoBlock]
  <2>1. actor' = [actor EXCEPT ![t] = r]
    BY <1>0, <1>13 DEF DropGuard, ActorsTyped, ActorType
  <2>2. r \in ActorType /\ r.pc = "scan"
    BY <1>0 DEF ActorType
  <2>3. Frame
    BY <1>0, <1>13 DEF Frame, DropGuard, ActorsTyped
  <2> HIDE DEF r
  <2> QED
    BY <1>0, <2>1, <2>2, <2>3, MoveOne DEF Frame, ProcessingPc
<1>14. CASE Scan(t)
  <2> DEFINE r == IF DependencyFree = {} THEN Idle
                  ELSE [actor[t] EXCEPT !.pc = "enqueue", !.todo = DependencyFree]
  <2>1. actor' = [actor EXCEPT ![t] = r]
    BY <1>0, <1>14 DEF Scan, ActorsTyped
  <2>2. r \in ActorType /\ r.pc \in {"idle", "enqueue"}
    <3>1. DependencyFree \subseteq Blocks
      BY <1>0 DEF DependencyFree, ActorsTyped
    <3> QED
      BY <1>0, <3>1 DEF ActorType, Idle
  <2>3. Frame
    BY <1>0, <1>14 DEF Frame, Scan, ActorsTyped, pipeline
  <2> HIDE DEF r
  <2> QED
    BY <1>0, <2>1, <2>2, <2>3, MoveOne DEF Frame, ProcessingPc
<1> QED
  BY <1>1, <1>2, <1>3, <1>4, <1>5, <1>6, <1>7, <1>8, <1>9, <1>10, <1>11, <1>12,
     <1>13, <1>14 DEF TaskStep

\* A restart leaves every actor idle or the start-up pass with pendants to
\* offer, and keeps the DAG.
LEMMA RestartClosed ==
  ASSUME ClosedInv, NEW store, Restart(store)
  PROVE  ClosedInv'
<1> DEFINE pendants == Rebuild(store).dependencyFree \cap stored
           boot == [Idle EXCEPT !.pc = "enqueue", !.todo = pendants]
<1>0. stored \subseteq Blocks /\ blockDag \subseteq Blocks
  BY DEF ClosedInv, ActorsTyped
<1>1. boot \in ActorType /\ Idle \in ActorType /\ boot.pc = "enqueue" /\ Idle.pc = "idle"
  BY <1>0 DEF ActorType, Idle
<1>2. /\ actor' = [x \in Actors |-> IF x = Boot /\ pendants # {} THEN boot ELSE Idle]
      /\ queue' = <<>> /\ held' = NoBlock /\ stored' = stored /\ blockDag' = blockDag
  BY DEF Restart
<1> HIDE DEF boot
<1>3. \A x \in Actors : actor'[x] \in {boot, Idle}
  BY <1>2
<1>4. ActorsTyped'
  BY <1>0, <1>1, <1>2 DEF ActorsTyped
<1>5. WorkersHaveBlock' /\ ReadyDepsInDag'
  BY <1>1, <1>3 DEF WorkersHaveBlock, ReadyDepsInDag, ProcessingPc
<1>6. DagClosed'
  BY <1>2 DEF ClosedInv, DagClosed
<1> QED
  BY <1>4, <1>5, <1>6 DEF ClosedInv

\* Every step of the pipeline, and every stuttering step, keeps the invariant.
LEMMA NextClosed == ClosedInv /\ [Next]_vars => ClosedInv'
<1> SUFFICES ASSUME ClosedInv, [Next]_vars PROVE ClosedInv'
  OBVIOUS
<1>1. ASSUME NEW x \in Handlers, NEW b \in Blocks, Receive(x, b) PROVE ClosedInv'
  BY <1>1, EnqueueClosed DEF Actors
<1>2. ASSUME NEW x \in Actors, EnqueueStep(x) PROVE ClosedInv'
  BY <1>2, EnqueueClosed
<1>3. ASSUME NEW t \in Tasks, Spawn(t) \/ TaskStep(t) PROVE ClosedInv'
  BY <1>3, TaskClosed
<1>4. ASSUME NEW store, Restart(store) PROVE ClosedInv'
  BY <1>4, RestartClosed
<1>5. CASE Dequeue
  BY <1>5 DEF Dequeue, ClosedInv, ActorsTyped, WorkersHaveBlock, ReadyDepsInDag, DagClosed
<1>6. CASE UNCHANGED <<pipeline, actor, stored, blockDag>>
  BY <1>6 DEF pipeline, ClosedInv, ActorsTyped, WorkersHaveBlock, ReadyDepsInDag, DagClosed
<1>7. CASE FetchDependencies \/ UNCHANGED vars
  BY <1>6, <1>7 DEF FetchDependencies, vars, pipeline
<1>8. ASSUME NEW b \in Blocks, QuarantineExpires(b) PROVE ClosedInv'
  BY <1>6, <1>8 DEF QuarantineExpires
<1>9. ASSUME NEW b \in Blocks, BootPurge(b) PROVE ClosedInv'
  <2>0. Boot \in Actors /\ ActorsTyped /\ actor[Boot] \in ActorType
    BY DEF Actors, ClosedInv, ActorsTyped
  <2> DEFINE r == Skipping(Boot, b)
  <2>1. actor' = [actor EXCEPT ![Boot] = r]
    BY <1>9, <2>0 DEF BootPurge, ActorsTyped
  <2>2. r \in ActorType /\ r.pc \in {"idle", "enqueue"}
    BY <1>9, <2>0 DEF BootPurge, ActorType, Skipping, Idle
  <2>3. Frame
    BY <1>9, <2>0 DEF Frame, BootPurge, ActorsTyped, pipeline
  <2> HIDE DEF r
  <2> QED
    BY <2>0, <2>1, <2>2, <2>3, MoveOne DEF Frame, ProcessingPc
<1> QED
  BY <1>1, <1>2, <1>3, <1>4, <1>5, <1>7, <1>8, <1>9 DEF Next

-----------------------------------------------------------------------------
\* A block enters the DAG (handle_valid_block, handle_invalid_block) only after
\* all its parents and justifications, for every number of blocks, concurrent
\* tasks, network handlers and crashes.
THEOREM DagCausallyClosed == Spec => []DagClosed
<1>1. Init => ClosedInv
  BY InitClosed
<1>2. ClosedInv /\ [Next]_vars => ClosedInv'
  BY NextClosed
<1>3. ClosedInv => DagClosed
  BY DEF ClosedInv
<1> QED
  BY <1>1, <1>2, <1>3, PTL DEF Spec

-----------------------------------------------------------------------------
(* The owners of the marks.  That owners are marked is not inductive       *)
(* alone: an actor that gives its mark back (CheckCap, DropGuard) leaves   *)
(* the others marked only if no two owners have the same block             *)
(* (OwnersDiffer).  The cap is checked after the mark is inserted, so the  *)
(* set may exceed it; what stays within it is PastCap, the marks of those  *)
(* who have passed the check.                                              *)

\* An actor that owns the mark of its block.
Works(x) == actor[x].pc \in ProcessingPc \cup {"cap", "send"}

OwnersMarked ==
    /\ \A x \in Actors : Works(x) => actor[x].block \in inFlight
    /\ \A i \in 1..Len(queue) : queue[i] \in inFlight
    /\ held # NoBlock => held \in inFlight

OwnersDiffer ==
    /\ \A x, y \in Actors : Works(x) /\ Works(y) /\ x # y => actor[x].block # actor[y].block
    /\ \A x \in Actors, i \in 1..Len(queue) : Works(x) => queue[i] # actor[x].block
    /\ \A x \in Actors : Works(x) => actor[x].block # held
    /\ \A i, j \in 1..Len(queue) : i # j => queue[i] # queue[j]
    /\ \A i \in 1..Len(queue) : queue[i] # held

MarksOwned ==
    \A b \in inFlight : \/ \E x \in Actors : Works(x) /\ actor[x].block = b
                        \/ \E i \in 1..Len(queue) : queue[i] = b
                        \/ held = b

OwnInv == inFlight \subseteq Blocks /\ OwnersMarked /\ OwnersDiffer /\ MarksOwned

AtCap(x) == actor[x].pc = "cap"

PastCap == {b \in inFlight : \A x \in Actors : AtCap(x) => actor[x].block # b}

CapInv == IsFiniteSet(inFlight) /\ Cardinality(PastCap) <= MaxInFlight

MarkInv == ClosedInv /\ OwnInv /\ CapInv

-----------------------------------------------------------------------------
\* The invariant holds initially: nothing is marked.
LEMMA InitMarks == Init => OwnInv /\ CapInv
<1> SUFFICES ASSUME Init PROVE OwnInv /\ CapInv
  OBVIOUS
<1>1. OwnInv
  BY DEF Init, OwnInv, OwnersMarked, OwnersDiffer, MarksOwned, Works, Idle, ProcessingPc
<1>2. inFlight = {} /\ PastCap = {}
  BY DEF Init, PastCap
<1> QED
  BY <1>1, <1>2, FS_EmptySet, PipelineAssumption DEF CapInv

\* The owners are the same after a step as before it.
SameOwners ==
    \A x \in Actors : /\ Works(x)' <=> Works(x)
                      /\ Works(x) => actor'[x].block = actor[x].block
                      /\ AtCap(x)' <=> AtCap(x)

\* A step after which the same actors own the same blocks, and which leaves
\* queue, dispatcher and marks alone, keeps the ownership.
LEMMA SameOwnersKeep ==
  ASSUME OwnInv, CapInv, SameOwners, UNCHANGED pipeline
  PROVE  OwnInv' /\ CapInv'
<1>1. OwnInv'
  BY DEF OwnInv, SameOwners, pipeline, OwnersMarked, OwnersDiffer, MarksOwned
<1>2. PastCap' = PastCap
  BY DEF SameOwners, PastCap, pipeline, AtCap, Works
<1> QED
  BY <1>1, <1>2 DEF CapInv, pipeline

\* A step that lets no further mark pass the cap keeps CapInv.
LEMMA CapShrinks ==
  ASSUME CapInv, IsFiniteSet(inFlight'), PastCap' \subseteq PastCap
  PROVE  CapInv'
<1>1. IsFiniteSet(PastCap)
  BY FS_Subset DEF CapInv, PastCap
<1>2. Cardinality(PastCap') <= Cardinality(PastCap)
  BY <1>1, FS_Subset
<1>3. Cardinality(PastCap) \in Nat /\ Cardinality(PastCap') \in Nat
  BY <1>1, FS_Subset, FS_CardinalityType
<1> QED
  BY <1>2, <1>3, PipelineAssumption DEF CapInv

-----------------------------------------------------------------------------
\* Every step of a task but its last leaves the owners alone.
LEMMA TaskSameOwners ==
  ASSUME ClosedInv, NEW t \in Tasks, TaskStep(t), ~ DropGuard(t)
  PROVE  SameOwners /\ UNCHANGED pipeline
<1>0. t \in Actors /\ actor \in [Actors -> ActorType] /\ actor[t] \in ActorType
  BY DEF ClosedInv, ActorsTyped, Actors
<1>a. ASSUME NEW r, actor' = [actor EXCEPT ![t] = r],
             actor[t].pc \in ProcessingPc, r.pc \in ProcessingPc,
             r.block = actor[t].block
      PROVE  SameOwners
  BY <1>0, <1>a DEF SameOwners, Works, AtCap, ProcessingPc
<1>b. ASSUME NEW pc \in ProcessingPc, Goto(t, pc), actor[t].pc \in ProcessingPc
      PROVE  SameOwners
  <2> DEFINE r == [actor[t] EXCEPT !.pc = pc]
  <2>1. actor' = [actor EXCEPT ![t] = r]
    BY <1>b DEF Goto
  <2>2. r.pc = pc /\ r.block = actor[t].block
    BY <1>0 DEF ActorType
  <2> HIDE DEF r
  <2> QED
    BY <1>a, <1>b, <2>1, <2>2
<1>1. CASE CheckIfOfInterest(t)
  BY <1>b, <1>1 DEF CheckIfOfInterest, ProcessingPc
<1>2. CASE CheckIfWellFormedAndStore(t)
  BY <1>b, <1>2 DEF CheckIfWellFormedAndStore, ProcessingPc
<1>3. CASE CheckDependencies(t)
  <2>0. actor[t].pc \in ProcessingPc /\ UNCHANGED pipeline
    BY <1>3 DEF CheckDependencies, ProcessingPc
  <2>1. CASE Goto(t, "finish") \/ Goto(t, "pendant")
    BY <1>b, <2>0, <2>1 DEF ProcessingPc
  <2>2. ASSUME NEW todo, NEW fetch,
               actor' = [actor EXCEPT ![t].pc = "relate", ![t].todo = todo, ![t].fetch = fetch]
        PROVE  SameOwners
    <3> DEFINE r == [actor[t] EXCEPT !.pc = "relate", !.todo = todo, !.fetch = fetch]
    <3>1. actor' = [actor EXCEPT ![t] = r]
      BY <1>0, <2>2 DEF ActorType
    <3>2. r.pc = "relate" /\ r.block = actor[t].block
      BY <1>0 DEF ActorType
    <3> HIDE DEF r
    <3> QED
      BY <1>a, <2>0, <3>1, <3>2 DEF ProcessingPc
  <2> QED
    BY <1>3, <2>0, <2>1, <2>2 DEF CheckDependencies
<1>4. CASE CommitPendant(t)
  BY <1>b, <1>4 DEF CommitPendant, ProcessingPc
<1>5. ASSUME NEW p \in Blocks, CommitRelation(t, p) PROVE SameOwners /\ UNCHANGED pipeline
  <2> DEFINE r == [actor[t] EXCEPT !.todo = @ \ {p},
                                   !.pc = IF actor[t].todo = {p} THEN "request" ELSE @]
  <2>1. actor' = [actor EXCEPT ![t] = r] /\ actor[t].pc = "relate"
    BY <1>0, <1>5 DEF CommitRelation, ActorType
  <2>2. r.pc \in {"request", "relate"} /\ r.block = actor[t].block
    BY <1>0, <2>1 DEF ActorType
  <2> HIDE DEF r
  <2> QED
    BY <1>5, <1>a, <2>1, <2>2 DEF CommitRelation, ProcessingPc
<1>6. CASE RequestDependencies(t)
  <2> DEFINE r == [actor[t] EXCEPT !.pc = "finish", !.fetch = {}]
  <2>1. actor' = [actor EXCEPT ![t] = r] /\ actor[t].pc = "request"
    BY <1>0, <1>6 DEF RequestDependencies, ActorType
  <2>2. r.pc = "finish" /\ r.block = actor[t].block
    BY <1>0 DEF ActorType
  <2> HIDE DEF r
  <2> QED
    BY <1>6, <1>a, <2>1, <2>2 DEF RequestDependencies, ProcessingPc
<1>7. ASSUME NEW v \in VerdictKinds, Validate(t, v) PROVE SameOwners /\ UNCHANGED pipeline
  BY <1>7, <1>b DEF Validate, VerdictKinds, ProcessingPc
<1>8. CASE InsertIntoDag(t)
  BY <1>b, <1>8 DEF InsertIntoDag, ProcessingPc
<1>9. CASE RemoveAfterInsert(t)
  BY <1>b, <1>9 DEF RemoveAfterInsert, ProcessingPc
<1>10. CASE Cleanup(t)
  BY <1>b, <1>10 DEF Cleanup, ProcessingPc
<1>11. CASE Fail(t)
  <2> DEFINE r == [Idle EXCEPT !.pc = "finish", !.block = actor[t].block]
  <2>1. actor' = [actor EXCEPT ![t] = r] /\ actor[t].pc \in ProcessingPc
    BY <1>11 DEF Fail
  <2>2. r.pc = "finish" /\ r.block = actor[t].block
    BY DEF Idle
  <2> HIDE DEF r
  <2> QED
    BY <1>11, <1>a, <2>1, <2>2 DEF Fail, ProcessingPc
<1>12. CASE Scan(t)
  <2> DEFINE r == IF DependencyFree = {} THEN Idle
                  ELSE [actor[t] EXCEPT !.pc = "enqueue", !.todo = DependencyFree]
  <2>1. actor' = [actor EXCEPT ![t] = r] /\ actor[t].pc = "scan"
    BY <1>0, <1>12 DEF Scan
  <2>2. r.pc \in {"idle", "enqueue"}
    BY <1>0 DEF ActorType, Idle
  <2> HIDE DEF r
  <2> QED
    BY <1>0, <1>12, <2>1, <2>2 DEF Scan, SameOwners, Works, AtCap, ProcessingPc
<1> QED
  BY <1>1, <1>2, <1>3, <1>4, <1>5, <1>6, <1>7, <1>8, <1>9, <1>10, <1>11, <1>12
  DEF TaskStep

-----------------------------------------------------------------------------
\* An actor gives its mark back: the others keep theirs, because theirs is
\* another one.
LEMMA ReleaseMark ==
  ASSUME MarkInv, NEW x \in Actors, NEW r, Works(x),
         actor' = [actor EXCEPT ![x] = r],
         r.pc \in {"idle", "enqueue", "scan"},
         inFlight' = inFlight \ {actor[x].block},
         UNCHANGED <<queue, held>>
  PROVE  OwnInv' /\ CapInv'
<1>0. actor \in [Actors -> ActorType] /\ held \in Blocks \cup {NoBlock} /\ queue \in Seq(Blocks)
  BY DEF MarkInv, ClosedInv, ActorsTyped
<1>1. /\ ~ Works(x)' /\ ~ AtCap(x)'
      /\ \A y \in Actors : y # x => actor'[y] = actor[y]
  BY <1>0 DEF Works, AtCap, ProcessingPc
<1>2. \A y \in Actors : Works(y)' => y # x /\ Works(y) /\ actor'[y] = actor[y]
  BY <1>1 DEF Works
<1>3. OwnersMarked'
  BY <1>2 DEF MarkInv, OwnInv, OwnersMarked, OwnersDiffer
<1>4. OwnersDiffer'
  BY <1>2 DEF MarkInv, OwnInv, OwnersDiffer
<1>5. MarksOwned'
  BY <1>1 DEF MarkInv, OwnInv, MarksOwned, Works
<1>6. PastCap' \subseteq PastCap
  BY <1>1 DEF PastCap, AtCap
<1>7. IsFiniteSet(inFlight')
  BY FS_Subset DEF MarkInv, CapInv
<1> QED
  BY <1>3, <1>4, <1>5, <1>6, <1>7, CapShrinks DEF MarkInv, OwnInv

\* The steps of an actor that enqueues.
LEMMA EnqueueMarks ==
  ASSUME MarkInv, NEW x \in Actors,
         EnqueueStep(x) \/ \E b \in Blocks : Receive(x, b)
  PROVE  OwnInv' /\ CapInv'
<1>0. /\ actor \in [Actors -> ActorType] /\ actor[x] \in ActorType
      /\ held \in Blocks \cup {NoBlock} /\ queue \in Seq(Blocks)
      /\ OwnInv /\ CapInv
  BY DEF MarkInv, ClosedInv, ActorsTyped
<1>a. ASSUME NEW r, actor' = [actor EXCEPT ![x] = r], r.pc \in {"idle", "enqueue"},
             ~ Works(x), UNCHANGED pipeline
      PROVE  OwnInv' /\ CapInv'
  <2>1. SameOwners
    BY <1>0, <1>a DEF SameOwners, Works, AtCap, ProcessingPc
  <2> QED
    BY <1>0, <1>a, <2>1, SameOwnersKeep
<1>b. EnqueueNext(x).pc \in {"idle", "enqueue"}
  BY <1>0 DEF EnqueueNext, Idle, ActorType
<1>1. ASSUME NEW b \in Blocks, EnqueueMark(x, b) PROVE OwnInv' /\ CapInv'
  <2> DEFINE r == [actor[x] EXCEPT !.pc = "cap", !.block = b, !.todo = @ \ {b}]
  <2>1. /\ actor' = [actor EXCEPT ![x] = r] /\ ~ Works(x)
        /\ inFlight' = inFlight \cup {b} /\ b \notin inFlight /\ UNCHANGED <<queue, held>>
    BY <1>0, <1>1 DEF EnqueueMark, Mark, ActorType, Works, ProcessingPc
  <2>2. r.pc = "cap" /\ r.block = b
    BY <1>0 DEF ActorType
  <2> HIDE DEF r
  <2>3. /\ Works(x)' /\ AtCap(x)' /\ actor'[x].block = b
        /\ \A y \in Actors : y # x => actor'[y] = actor[y]
    BY <1>0, <2>1, <2>2 DEF Works, AtCap
  <2>4. \A y \in Actors : Works(y)' => \/ y = x /\ actor'[y].block = b
                                       \/ y # x /\ Works(y) /\ actor'[y] = actor[y]
    BY <2>3 DEF Works
  <2>5. OwnersMarked'
    BY <1>0, <2>1, <2>4 DEF OwnInv, OwnersMarked
  <2>6. held # b /\ \A i \in 1..Len(queue) : queue[i] # b
    BY <1>0, <1>1, <2>1, PipelineAssumption DEF OwnInv, OwnersMarked
  <2>7. OwnersDiffer'
    BY <1>0, <2>1, <2>4, <2>6 DEF OwnInv, OwnersMarked, OwnersDiffer
  <2>8. MarksOwned'
    BY <1>0, <2>1, <2>3 DEF OwnInv, MarksOwned, Works
  <2>9. PastCap' \subseteq PastCap
    BY <2>1, <2>3 DEF PastCap, AtCap, Works
  <2>10. IsFiniteSet(inFlight')
    BY <1>0, <2>1, FS_AddElement DEF CapInv
  <2> QED
    BY <1>0, <2>1, <2>5, <2>7, <2>8, <2>9, <2>10, CapShrinks DEF OwnInv
<1>2. ASSUME NEW b \in Blocks, EnqueueSkip(x, b) PROVE OwnInv' /\ CapInv'
  <2>1. actor' = [actor EXCEPT ![x] = Skipping(x, b)] /\ ~ Works(x) /\ UNCHANGED pipeline
    BY <1>2 DEF EnqueueSkip, Works, ProcessingPc
  <2>2. Skipping(x, b).pc \in {"idle", "enqueue"}
    BY <1>0, <1>2 DEF Skipping, EnqueueSkip, Idle, ActorType
  <2> QED
    BY <1>a, <2>1, <2>2
<1>3. CASE CheckCap(x)
  <2>0. Works(x)
    BY <1>3 DEF CheckCap, Works
  <2>1. CASE Cardinality(inFlight) > MaxInFlight
    BY <1>3, <1>b, <2>0, <2>1, ReleaseMark DEF CheckCap
  <2>2. CASE ~ (Cardinality(inFlight) > MaxInFlight)
    <3> DEFINE r == [actor[x] EXCEPT !.pc = "send"]
    <3>1. actor' = [actor EXCEPT ![x] = r] /\ UNCHANGED pipeline
      BY <1>3, <2>2 DEF CheckCap, Goto, pipeline
    <3>2. r.pc = "send" /\ r.block = actor[x].block
      BY <1>0 DEF ActorType
    <3> HIDE DEF r
    <3>3. \A y \in Actors : (Works(y)' <=> Works(y)) /\ actor'[y].block = actor[y].block
      BY <1>0, <2>0, <3>1, <3>2 DEF Works
    <3>4. OwnInv'
      BY <1>0, <3>1, <3>3 DEF pipeline, OwnInv, OwnersMarked, OwnersDiffer, MarksOwned
    <3>5. PastCap' \subseteq inFlight
      BY <3>1 DEF PastCap, pipeline
    <3>6. /\ Cardinality(PastCap') <= Cardinality(inFlight)
          /\ Cardinality(PastCap') \in Nat /\ Cardinality(inFlight) \in Nat
      BY <1>0, <3>5, FS_Subset, FS_CardinalityType DEF CapInv
    <3> QED
      BY <1>0, <2>2, <3>1, <3>4, <3>6, PipelineAssumption DEF CapInv, pipeline
  <2> QED
    BY <2>1, <2>2
<1>4. CASE Send(x)
  <2>0. actor[x].pc = "send" /\ Works(x) /\ actor[x].block \in Blocks
    BY <1>4 DEF Send, Works, MarkInv, ClosedInv, WorkersHaveBlock
  <2>1. PICK r : actor' = [actor EXCEPT ![x] = r] /\ r.pc \in {"idle", "enqueue", "ack"}
    <3>1. CASE x = Boot
      <4> DEFINE s == [actor[x] EXCEPT !.pc = "ack"]
      <4>1. actor' = [actor EXCEPT ![x] = s] /\ s.pc = "ack"
        BY <1>0, <1>4, <3>1 DEF Send, Goto, ActorType
      <4> QED
        BY <4>1
    <3>2. CASE x # Boot
      BY <1>4, <1>b, <3>2 DEF Send
    <3> QED
      BY <3>1, <3>2
  <2>2. /\ ~ Works(x)' /\ ~ AtCap(x)' /\ ~ AtCap(x)
        /\ \A y \in Actors : y # x => actor'[y] = actor[y]
    BY <1>0, <2>0, <2>1 DEF Works, AtCap, ProcessingPc
  <2>3. \A y \in Actors : Works(y)' => y # x /\ Works(y) /\ actor'[y] = actor[y]
    BY <2>2 DEF Works
  <2>4. /\ UNCHANGED <<held, inFlight>>
        /\ queue' = Append(queue, actor[x].block)
    BY <1>4 DEF Send
  <2>5. /\ Len(queue) \in Nat /\ Len(queue') = Len(queue) + 1
        /\ \A i \in 1..Len(queue) : queue'[i] = queue[i]
        /\ queue'[Len(queue) + 1] = actor[x].block
    BY <1>0, <2>0, <2>4
  <2>6. \A i \in 1..Len(queue') : \/ i \in 1..Len(queue) /\ queue'[i] = queue[i]
                                  \/ i = Len(queue) + 1 /\ queue'[i] = actor[x].block
    BY <2>5
  <2>7. OwnersMarked'
    BY <1>0, <2>0, <2>3, <2>4, <2>6 DEF OwnInv, OwnersMarked
  <2>8. OwnersDiffer'
    BY <1>0, <2>0, <2>3, <2>4, <2>6 DEF OwnInv, OwnersDiffer
  <2>9. MarksOwned'
    BY <1>0, <2>2, <2>4, <2>5 DEF OwnInv, MarksOwned, Works
  <2>10. PastCap' = PastCap
    BY <2>2, <2>4 DEF PastCap, AtCap
  <2> QED
    BY <1>0, <2>4, <2>7, <2>8, <2>9, <2>10 DEF OwnInv, CapInv
<1>5. CASE AckReceive(x)
  <2>1. actor' = [actor EXCEPT ![x] = EnqueueNext(x)] /\ ~ Works(x) /\ UNCHANGED pipeline
    BY <1>5 DEF AckReceive, Works, ProcessingPc
  <2> QED
    BY <1>a, <1>b, <2>1
<1>6. ASSUME NEW b \in Blocks, Receive(x, b) PROVE OwnInv' /\ CapInv'
  <2> DEFINE r == [Idle EXCEPT !.pc = "enqueue", !.todo = {b}]
  <2>1. actor' = [actor EXCEPT ![x] = r] /\ actor[x] = Idle /\ UNCHANGED pipeline
    BY <1>6 DEF Receive
  <2>2. r.pc = "enqueue" /\ Idle.pc = "idle"
    BY DEF Idle
  <2> HIDE DEF r
  <2>3. ~ Works(x)
    BY <2>1, <2>2 DEF Works, ProcessingPc
  <2> QED
    BY <1>a, <2>1, <2>2, <2>3
<1> QED
  BY <1>1, <1>2, <1>3, <1>4, <1>5, <1>6 DEF EnqueueStep

-----------------------------------------------------------------------------
\* The dispatcher takes the first block of the queue: it was in the queue only.
LEMMA DequeueMarks ==
  ASSUME MarkInv, Dequeue
  PROVE  OwnInv' /\ CapInv'
<1>0. /\ queue \in Seq(Blocks) /\ queue # <<>> /\ held = NoBlock
      /\ held' = queue[1] /\ queue' = Tail(queue) /\ UNCHANGED <<inFlight, actor>>
      /\ OwnInv /\ CapInv
  BY DEF MarkInv, ClosedInv, ActorsTyped, Dequeue
<1>1. /\ Len(queue) \in Nat \ {0} /\ Len(queue') = Len(queue) - 1
      /\ \A i \in 1..Len(queue') : queue'[i] = queue[i + 1]
  BY <1>0
<1>2. \A i \in 1..Len(queue') : i + 1 \in 1..Len(queue) /\ i + 1 # 1 /\ queue'[i] = queue[i + 1]
  BY <1>1
<1>3. 1 \in 1..Len(queue)
  BY <1>1
<1>4. OwnersMarked'
  BY <1>0, <1>2, <1>3 DEF OwnInv, OwnersMarked, Works
<1>5. \A i, j \in 1..Len(queue') : i # j => queue'[i] # queue'[j]
  <2> SUFFICES ASSUME NEW i \in 1..Len(queue'), NEW j \in 1..Len(queue'), i # j
               PROVE  queue'[i] # queue'[j]
    OBVIOUS
  <2>1. i + 1 \in 1..Len(queue) /\ j + 1 \in 1..Len(queue) /\ i + 1 # j + 1
    BY <1>1
  <2> QED
    BY <1>0, <1>1, <2>1 DEF OwnInv, OwnersDiffer
<1>6. OwnersDiffer'
  <2>1. \A x, y \in Actors : Works(x)' /\ Works(y)' /\ x # y => actor'[x].block # actor'[y].block
    BY <1>0 DEF OwnInv, OwnersDiffer, Works
  <2>2. \A x \in Actors, i \in 1..Len(queue') : Works(x)' => queue'[i] # actor'[x].block
    BY <1>0, <1>2 DEF OwnInv, OwnersDiffer, Works
  <2>3. \A x \in Actors : Works(x)' => actor'[x].block # held'
    BY <1>0, <1>3 DEF OwnInv, OwnersDiffer, Works
  <2>4. \A i \in 1..Len(queue') : queue'[i] # held'
    BY <1>0, <1>2, <1>3 DEF OwnInv, OwnersDiffer
  <2> QED
    BY <1>5, <2>1, <2>2, <2>3, <2>4 DEF OwnersDiffer
<1>7. MarksOwned'
  <2> SUFFICES ASSUME NEW b \in inFlight
               PROVE  \/ \E x \in Actors : Works(x)' /\ actor'[x].block = b
                      \/ \E i \in 1..Len(queue') : queue'[i] = b
                      \/ held' = b
    BY <1>0 DEF MarksOwned
  <2>1. CASE \E x \in Actors : Works(x) /\ actor[x].block = b
    BY <1>0, <2>1 DEF Works
  <2>2. ASSUME NEW i \in 1..Len(queue), queue[i] = b
        PROVE  held' = b \/ \E j \in 1..Len(queue') : queue'[j] = b
    <3>1. CASE i = 1
      BY <1>0, <2>2, <3>1
    <3>2. CASE i # 1
      <4>1. i - 1 \in 1..Len(queue') /\ (i - 1) + 1 = i
        BY <1>1, <3>2
      <4> QED
        BY <1>1, <2>2, <4>1
    <3> QED
      BY <3>1, <3>2
  <2>3. b \in Blocks /\ held # b
    BY <1>0, PipelineAssumption DEF OwnInv
  <2> QED
    BY <1>0, <2>1, <2>2, <2>3 DEF OwnInv, MarksOwned
<1>8. PastCap' = PastCap
  BY <1>0 DEF PastCap, AtCap
<1> QED
  BY <1>0, <1>4, <1>6, <1>7, <1>8 DEF OwnInv, CapInv

\* A task starts with the block the dispatcher holds, which is marked already.
LEMMA SpawnMarks ==
  ASSUME MarkInv, NEW t \in Tasks, Spawn(t)
  PROVE  OwnInv' /\ CapInv'
<1> DEFINE r == [Idle EXCEPT !.pc = "interest", !.block = held]
<1>0. /\ t \in Actors /\ actor \in [Actors -> ActorType] /\ actor[t] = Idle
      /\ held # NoBlock /\ held \in Blocks /\ queue \in Seq(Blocks) /\ OwnInv /\ CapInv
  BY DEF MarkInv, ClosedInv, ActorsTyped, Spawn, Actors
<1>1. /\ actor' = [actor EXCEPT ![t] = r] /\ held' = NoBlock /\ UNCHANGED <<queue, inFlight>>
  BY <1>0 DEF Spawn, OwnInv, OwnersMarked
<1>2. r.pc = "interest" /\ r.block = held /\ Idle.pc = "idle"
  BY DEF Idle
<1> HIDE DEF r
<1>3. /\ Works(t)' /\ ~ Works(t) /\ ~ AtCap(t) /\ ~ AtCap(t)' /\ actor'[t].block = held
      /\ \A y \in Actors : y # t => actor'[y] = actor[y]
  BY <1>0, <1>1, <1>2 DEF Works, AtCap, ProcessingPc
<1>4. \A y \in Actors : Works(y)' => \/ y = t /\ actor'[y].block = held
                                     \/ y # t /\ Works(y) /\ actor'[y] = actor[y]
  BY <1>3 DEF Works
<1>5. OwnersMarked'
  BY <1>0, <1>1, <1>4 DEF OwnInv, OwnersMarked
<1>6. \A x \in Actors : Works(x)' => actor'[x].block \in Blocks
  BY <1>0, <1>4, <1>5 DEF OwnInv, OwnersMarked
<1>7. OwnersDiffer'
  <2>1. \A x, y \in Actors : Works(x)' /\ Works(y)' /\ x # y => actor'[x].block # actor'[y].block
    BY <1>0, <1>4 DEF OwnInv, OwnersDiffer
  <2>2. \A x \in Actors, i \in 1..Len(queue') : Works(x)' => queue'[i] # actor'[x].block
    BY <1>0, <1>1, <1>4 DEF OwnInv, OwnersDiffer
  <2>3. \A i, j \in 1..Len(queue') : i # j => queue'[i] # queue'[j]
    BY <1>0, <1>1 DEF OwnInv, OwnersDiffer
  <2>4. \A x \in Actors : Works(x)' => actor'[x].block # held'
    BY <1>1, <1>6, PipelineAssumption
  <2>5. \A i \in 1..Len(queue') : queue'[i] # held'
    BY <1>0, <1>1, PipelineAssumption
  <2> QED
    BY <2>1, <2>2, <2>3, <2>4, <2>5 DEF OwnersDiffer
<1>8. MarksOwned'
  BY <1>0, <1>1, <1>3 DEF OwnInv, MarksOwned, Works
<1>9. PastCap' = PastCap
  BY <1>1, <1>3 DEF PastCap, AtCap
<1> QED
  BY <1>0, <1>1, <1>5, <1>7, <1>8, <1>9 DEF OwnInv, CapInv

\* A crash leaves no mark and no owner.
LEMMA RestartMarks ==
  ASSUME MarkInv, NEW store, Restart(store)
  PROVE  OwnInv' /\ CapInv'
<1> DEFINE pendants == Rebuild(store).dependencyFree \cap stored
           boot == [Idle EXCEPT !.pc = "enqueue", !.todo = pendants]
<1>1. boot.pc = "enqueue" /\ Idle.pc = "idle"
  BY DEF Idle
<1>2. /\ actor' = [x \in Actors |-> IF x = Boot /\ pendants # {} THEN boot ELSE Idle]
      /\ queue' = <<>> /\ held' = NoBlock /\ inFlight' = {}
  BY DEF Restart
<1> HIDE DEF boot
<1>3. \A x \in Actors : actor'[x].pc \in {"enqueue", "idle"}
  BY <1>1, <1>2
<1>4. \A x \in Actors : ~ Works(x)'
  BY <1>3 DEF Works, ProcessingPc
<1>5. OwnInv'
  BY <1>2, <1>4 DEF OwnInv, OwnersMarked, OwnersDiffer, MarksOwned
<1>6. PastCap' = {}
  BY <1>2 DEF PastCap
<1> QED
  BY <1>2, <1>5, <1>6, FS_EmptySet, PipelineAssumption DEF CapInv

\* A task ends: it gives the mark of its block back.
LEMMA DropGuardMarks ==
  ASSUME MarkInv, NEW t \in Tasks, DropGuard(t)
  PROVE  OwnInv' /\ CapInv'
<1> DEFINE r == [actor[t] EXCEPT !.pc = "scan", !.block = NoBlock]
<1>0. t \in Actors /\ actor \in [Actors -> ActorType] /\ actor[t] \in ActorType
  BY DEF MarkInv, ClosedInv, ActorsTyped, Actors
<1>1. /\ actor' = [actor EXCEPT ![t] = r] /\ Works(t)
      /\ inFlight' = inFlight \ {actor[t].block} /\ UNCHANGED <<queue, held>>
  BY <1>0 DEF DropGuard, ActorType, Works, ProcessingPc
<1>2. r.pc = "scan"
  BY <1>0 DEF ActorType
<1> HIDE DEF r
<1> QED
  BY <1>0, <1>1, <1>2, ReleaseMark

\* Every step of the pipeline, and every stuttering step, keeps the invariant.
LEMMA NextMarks == MarkInv /\ [Next]_vars => MarkInv'
<1> SUFFICES ASSUME MarkInv, [Next]_vars PROVE MarkInv'
  OBVIOUS
<1>0. OwnInv /\ CapInv /\ ClosedInv /\ ClosedInv'
  BY NextClosed DEF MarkInv
<1> SUFFICES OwnInv' /\ CapInv'
  BY <1>0 DEF MarkInv
<1>1. ASSUME NEW x \in Handlers, NEW b \in Blocks, Receive(x, b) PROVE OwnInv' /\ CapInv'
  BY <1>1, EnqueueMarks DEF Actors
<1>2. ASSUME NEW x \in Actors, EnqueueStep(x) PROVE OwnInv' /\ CapInv'
  BY <1>2, EnqueueMarks
<1>3. ASSUME NEW t \in Tasks, Spawn(t) PROVE OwnInv' /\ CapInv'
  BY <1>3, SpawnMarks
<1>4. ASSUME NEW t \in Tasks, TaskStep(t) PROVE OwnInv' /\ CapInv'
  <2>1. CASE DropGuard(t)
    BY <2>1, DropGuardMarks
  <2>2. CASE ~ DropGuard(t)
    BY <1>0, <1>4, <2>2, TaskSameOwners, SameOwnersKeep
  <2> QED
    BY <2>1, <2>2
<1>5. ASSUME NEW store, Restart(store) PROVE OwnInv' /\ CapInv'
  BY <1>5, RestartMarks
<1>6. CASE Dequeue
  BY <1>6, DequeueMarks
<1>7. CASE UNCHANGED <<pipeline, actor>>
  <2>1. SameOwners
    BY <1>7 DEF SameOwners, Works, AtCap
  <2> QED
    BY <1>0, <1>7, <2>1, SameOwnersKeep
<1>8. CASE FetchDependencies \/ UNCHANGED vars
  BY <1>7, <1>8 DEF FetchDependencies, vars, pipeline
<1>9. ASSUME NEW b \in Blocks, QuarantineExpires(b) PROVE OwnInv' /\ CapInv'
  BY <1>7, <1>9 DEF QuarantineExpires
<1>10. ASSUME NEW b \in Blocks, BootPurge(b) PROVE OwnInv' /\ CapInv'
  <2> DEFINE r == Skipping(Boot, b)
  <2>0. Boot \in Actors /\ actor \in [Actors -> ActorType] /\ actor[Boot] \in ActorType
    BY <1>0 DEF Actors, ClosedInv, ActorsTyped
  <2>1. actor' = [actor EXCEPT ![Boot] = r] /\ actor[Boot].pc = "enqueue" /\ UNCHANGED pipeline
    BY <1>10 DEF BootPurge
  <2>2. r.pc \in {"idle", "enqueue"}
    BY <2>0, <2>1 DEF ActorType, Skipping, Idle
  <2> HIDE DEF r
  <2>3. SameOwners
    BY <2>0, <2>1, <2>2 DEF SameOwners, Works, AtCap, ProcessingPc
  <2> QED
    BY <1>0, <2>1, <2>3, SameOwnersKeep
<1> QED
  BY <1>1, <1>2, <1>3, <1>4, <1>5, <1>6, <1>8, <1>9, <1>10 DEF Next

\* The invariant holds in every reachable state.
LEMMA SpecMarks == Spec => []MarkInv
<1>1. Init => MarkInv
  BY InitClosed, InitMarks DEF MarkInv
<1>2. MarkInv /\ [Next]_vars => MarkInv'
  BY NextMarks
<1> QED
  BY <1>1, <1>2, PTL DEF Spec

-----------------------------------------------------------------------------
\* Owners that are marked and differ, of marks that are owned: one each.
LEMMA OneOwnerEach == MarkInv => MarkedBlocksHaveOneOwner
<1> SUFFICES ASSUME MarkInv, NEW b \in Blocks
             PROVE  OwnersOf(b) = IF b \in inFlight THEN 1 ELSE 0
  BY DEF MarkedBlocksHaveOneOwner
<1> DEFINE W == {x \in Actors : actor[x].block = b
                                   /\ actor[x].pc \in ProcessingPc \cup {"cap", "send"}}
           Q == {i \in DOMAIN queue : queue[i] = b}
           H == IF held = b THEN 1 ELSE 0
<1>0. /\ OwnInv /\ queue \in Seq(Blocks) /\ DOMAIN queue = 1..Len(queue) /\ b # NoBlock
      /\ OwnersOf(b) = Cardinality(W) + Cardinality(Q) + H
  BY PipelineAssumption DEF MarkInv, ClosedInv, ActorsTyped, OwnersOf
<1>1. \A x : x \in W <=> x \in Actors /\ Works(x) /\ actor[x].block = b
  BY DEF Works
<1>2. \A i : i \in Q <=> i \in 1..Len(queue) /\ queue[i] = b
  BY <1>0
<1> HIDE DEF W, Q
<1>7. Cardinality({}) = 0
  BY FS_EmptySet
<1>8. \A x : Cardinality({x}) = 1
  BY FS_Singleton
<1>3. CASE b \notin inFlight
  <2>1. W = {} /\ Q = {} /\ held # b
    BY <1>0, <1>1, <1>2, <1>3 DEF OwnInv, OwnersMarked
  <2> QED
    BY <1>0, <1>3, <2>1, FS_EmptySet
<1>4. ASSUME b \in inFlight, NEW x \in Actors, Works(x), actor[x].block = b
      PROVE  OwnersOf(b) = 1
  <2>1. W = {x} /\ Q = {} /\ held # b
    BY <1>0, <1>1, <1>2, <1>4 DEF OwnInv, OwnersDiffer
  <2>2. Cardinality(W) + Cardinality(Q) = 1
    BY <1>7, <1>8, <2>1
  <2> QED
    BY <1>0, <2>1, <2>2
<1>5. ASSUME b \in inFlight, NEW i \in 1..Len(queue), queue[i] = b
      PROVE  OwnersOf(b) = 1
  <2>1. W = {} /\ Q = {i} /\ held # b
    BY <1>0, <1>1, <1>2, <1>5 DEF OwnInv, OwnersDiffer
  <2>2. Cardinality(W) = 0
    BY <1>7, <2>1
  <2>3. Cardinality(Q) = 1
    BY <2>1, FS_Singleton, Zenon
  <2> QED
    BY <1>0, <2>1, <2>2, <2>3
<1>6. ASSUME b \in inFlight, held = b
      PROVE  OwnersOf(b) = 1
  <2>1. W = {} /\ Q = {}
    BY <1>0, <1>1, <1>2, <1>6 DEF OwnInv, OwnersDiffer
  <2> QED
    BY <1>0, <1>6, <2>1, FS_EmptySet
<1> QED
  BY <1>0, <1>3, <1>4, <1>5, <1>6 DEF OwnInv, MarksOwned

\* A sender has passed the cap and so has everything in the queue, each with a
\* mark of its own: with the sender's, these fit the cap, hence the channel.
LEMMA CapLeavesRoom == MarkInv => SendNeverBlocks
<1> SUFFICES ASSUME MarkInv, NEW x \in Actors, actor[x].pc = "send"
             PROVE  Len(queue) < QueueCapacity
  BY DEF SendNeverBlocks
<1> DEFINE own == actor[x].block
           n == Len(queue)
           f == [i \in 1..n |-> queue[i]]
           T == PastCap \ {own}
<1>0. OwnInv /\ CapInv /\ queue \in Seq(Blocks) /\ n \in Nat /\ Works(x) /\ ~ AtCap(x)
  BY DEF MarkInv, ClosedInv, ActorsTyped, Works, AtCap
<1>1. own \in PastCap
  <2>1. \A y \in Actors : AtCap(y) => y # x /\ Works(y)
    BY <1>0 DEF AtCap, Works
  <2> QED
    BY <1>0, <2>1 DEF PastCap, OwnInv, OwnersMarked, OwnersDiffer
<1>2. \A i \in 1..n : queue[i] \in T
  <2>1. \A y \in Actors : AtCap(y) => Works(y)
    BY DEF AtCap, Works
  <2> QED
    BY <1>0, <2>1 DEF PastCap, OwnInv, OwnersMarked, OwnersDiffer
<1>3. f \in Injection(1..n, T)
  <2>1. f \in [1..n -> T]
    BY <1>2
  <2>2. \A i, j \in 1..n : f[i] = f[j] => i = j
    BY <1>0 DEF OwnInv, OwnersDiffer
  <2> HIDE DEF f, T, n
  <2> QED
    BY <2>1, <2>2 DEF Injection, IsInjective
<1>4. IsFiniteSet(PastCap)
  BY <1>0, FS_Subset DEF CapInv, PastCap
<1>5. /\ IsFiniteSet(T) /\ Cardinality(T) = Cardinality(PastCap) - 1
      /\ Cardinality(T) \in Nat /\ Cardinality(PastCap) \in Nat
  BY <1>1, <1>4, FS_RemoveElement, FS_CardinalityType
<1> HIDE DEF f, T
<1>6. Cardinality(1..n) <= Cardinality(T)
  BY <1>3, <1>5, FS_Injection
<1>7. Cardinality(1..n) = n
  <2>1. Cardinality(1..n) = IF 1 > n THEN 0 ELSE n - 1 + 1
    BY <1>0, FS_Interval
  <2> QED
    BY <1>0, <2>1
<1> QED
  BY <1>0, <1>5, <1>6, <1>7, PipelineAssumption DEF CapInv

-----------------------------------------------------------------------------
\* blocks_in_processing is exact for every number of blocks, tasks, handlers and
\* crashes: the network handler, the scanning tasks and the start-up pass never
\* start the same block twice, and no mark outlives the work it stands for.
THEOREM MarksAreExact == Spec => []MarkedBlocksHaveOneOwner
  BY SpecMarks, OneOwnerEach, PTL

\* A task that enqueues what it freed never finds the channel full, whatever the
\* cap and the capacity, as long as the cap is no larger: the check that comes
\* after the mark is enough.
THEOREM SendersNeverWait == Spec => []SendNeverBlocks
  BY SpecMarks, CapLeavesRoom, PTL

-----------------------------------------------------------------------------
\* The steps that change neither the marks nor the DAG are stuttering steps of
\* the abstract intake.
LEMMA IntakeStutter ==
  ASSUME UNCHANGED <<inFlight, blockDag>>
  PROVE  [Intake!Next]_(Intake!vars)
  BY DEF Intake!vars

\* The steps of an actor that enqueues: marking is Take, giving up at the cap is
\* GiveBack.
LEMMA EnqueueIntake ==
  ASSUME MarkInv, NEW x \in Actors,
         EnqueueStep(x) \/ \E b \in Blocks : Receive(x, b)
  PROVE  [Intake!Next]_(Intake!vars)
<1>1. ASSUME NEW b \in Blocks, EnqueueMark(x, b) PROVE Intake!Next
  BY <1>1 DEF EnqueueMark, Mark, Intake!Next, Intake!Take
<1>2. CASE CheckCap(x)
  <2>1. CASE Cardinality(inFlight) > MaxInFlight
    <3>1. actor[x].block \in inFlight /\ actor[x].block \in Blocks
      BY <1>2 DEF CheckCap, MarkInv, OwnInv, OwnersMarked, Works
    <3> QED
      BY <1>2, <2>1, <3>1 DEF CheckCap, Intake!Next, Intake!GiveBack
  <2>2. CASE ~ (Cardinality(inFlight) > MaxInFlight)
    BY <1>2, <2>2, IntakeStutter DEF CheckCap
  <2> QED
    BY <2>1, <2>2
<1>3. ASSUME NEW b \in Blocks, EnqueueSkip(x, b) \/ Receive(x, b)
      PROVE  [Intake!Next]_(Intake!vars)
  BY <1>3, IntakeStutter DEF EnqueueSkip, Receive, pipeline
<1>4. CASE Send(x) \/ AckReceive(x)
  BY <1>4, IntakeStutter DEF Send, AckReceive, pipeline
<1> QED
  BY <1>1, <1>2, <1>3, <1>4 DEF EnqueueStep

\* The steps of a task: the insertion is Accept, because the block is marked and
\* the dependencies the task checked earlier are still in the DAG; dropping the
\* guard is GiveBack.
LEMMA TaskIntake ==
  ASSUME MarkInv, NEW t \in Tasks, TaskStep(t)
  PROVE  [Intake!Next]_(Intake!vars)
<1>0. t \in Actors /\ OwnInv /\ ClosedInv
  BY DEF Actors, MarkInv
<1>1. CASE InsertIntoDag(t)
  <2>1. Works(t)
    BY <1>1 DEF InsertIntoDag, Works, ProcessingPc
  <2>2. actor[t].block \in inFlight /\ actor[t].block \in Blocks
    BY <1>0, <2>1 DEF OwnInv, OwnersMarked
  <2>3. Deps[actor[t].block] \subseteq blockDag
    BY <1>0, <1>1 DEF InsertIntoDag, ClosedInv, ReadyDepsInDag
  <2> QED
    BY <1>1, <2>2, <2>3 DEF InsertIntoDag, pipeline, Intake!Next, Intake!Accept
<1>2. CASE DropGuard(t)
  <2>1. Works(t)
    BY <1>2 DEF DropGuard, Works, ProcessingPc
  <2>2. actor[t].block \in inFlight /\ actor[t].block \in Blocks
    BY <1>0, <2>1 DEF OwnInv, OwnersMarked
  <2> QED
    BY <1>2, <2>2 DEF DropGuard, Intake!Next, Intake!GiveBack
<1>3. CASE ~ InsertIntoDag(t) /\ ~ DropGuard(t)
  <2>1. inFlight' = inFlight
    BY <1>0, <1>3, TaskSameOwners DEF pipeline
  <2>2. blockDag' = blockDag
    BY <1>3 DEF TaskStep, CheckIfOfInterest, CheckIfWellFormedAndStore, CheckDependencies,
       CommitPendant, CommitRelation, RequestDependencies, Validate, RemoveAfterInsert,
       Cleanup, Fail, Scan
  <2> QED
    BY <2>1, <2>2, IntakeStutter
<1> QED
  BY <1>1, <1>2, <1>3

\* Every step of the pipeline is a step of the abstract intake or stutters.
LEMMA IntakeStep == MarkInv /\ [Next]_vars => [Intake!Next]_(Intake!vars)
<1> SUFFICES ASSUME MarkInv, [Next]_vars PROVE [Intake!Next]_(Intake!vars)
  OBVIOUS
<1>1. ASSUME NEW x \in Handlers, NEW b \in Blocks, Receive(x, b)
      PROVE  [Intake!Next]_(Intake!vars)
  BY <1>1, EnqueueIntake DEF Actors
<1>2. ASSUME NEW x \in Actors, EnqueueStep(x) PROVE [Intake!Next]_(Intake!vars)
  BY <1>2, EnqueueIntake
<1>3. ASSUME NEW t \in Tasks, TaskStep(t) PROVE [Intake!Next]_(Intake!vars)
  BY <1>3, TaskIntake
<1>4. ASSUME NEW t \in Tasks, Spawn(t) PROVE [Intake!Next]_(Intake!vars)
  <2>1. inFlight' = inFlight /\ blockDag' = blockDag
    BY <1>4 DEF Spawn, MarkInv, OwnInv, OwnersMarked
  <2> QED
    BY <2>1, IntakeStutter
<1>5. ASSUME NEW store, Restart(store) PROVE [Intake!Next]_(Intake!vars)
  BY <1>5 DEF Restart, Intake!Next, Intake!Crash
<1>6. CASE Dequeue \/ FetchDependencies \/ UNCHANGED vars
  BY <1>6, IntakeStutter DEF Dequeue, FetchDependencies, vars, pipeline
<1>7. ASSUME NEW b \in Blocks, QuarantineExpires(b) \/ BootPurge(b)
      PROVE  [Intake!Next]_(Intake!vars)
  BY <1>7, IntakeStutter DEF QuarantineExpires, BootPurge, pipeline
<1> QED
  BY <1>1, <1>2, <1>3, <1>4, <1>5, <1>6, <1>7 DEF Next

\* The pipeline of queue, dispatcher, tasks and buffer implements CausalIntake:
\* for every number of tasks, handlers, blocks and crashes, a block enters the
\* DAG only while its one owner works on it and only after all it names.
THEOREM PipelineImplementsIntake == Spec => ImplementsIntake
<1>1. Init => Intake!Init
  BY DEF Init, Intake!Init
<1>2. MarkInv /\ [Next]_vars => [Intake!Next]_(Intake!vars)
  BY IntakeStep
<1> QED
  BY <1>1, <1>2, SpecMarks, PTL DEF Spec, ImplementsIntake, Intake!Spec
=============================================================================
