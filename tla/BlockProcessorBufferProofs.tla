--------------------- MODULE BlockProcessorBufferProofs ---------------------
(***************************************************************************)
(* Proofs about the pipeline and the buffer it feeds: types, that no block *)
(* which waits is validated, and that at rest nothing is left behind in    *)
(* the buffer, for every set of blocks, tasks and handlers and every       *)
(* number of crashes.                                                      *)
(*                                                                         *)
(* Only the one owner of a block's mark adds parents to it, so what a task *)
(* has found of its block (no parents recorded, not in the DAG) lasts      *)
(* although other tasks change the buffer meanwhile.  What is left in the  *)
(* buffer is somebody's to pick up as long as the pipeline is Busy: the    *)
(* last task to become idle does so only after a scan that found nothing.  *)
(***************************************************************************)
EXTENDS BlockProcessorProofs, BlockDependencyDagProofs

\* The buffer and its persisted half.
BufferTyped ==
    /\ GoodDag(buffer)
    /\ parentsStore \in [Hash -> SUBSET Hash]
    /\ Within(parentsStore, buffer)

\* The bookkeeping of missing dependencies and requests.
BookTyped ==
    /\ requested \subseteq Blocks
    /\ attempts \in [Blocks -> 0..(AttemptsMax - 1)]
    /\ quarantine \subseteq Blocks
    /\ restarts \in 0..MaxRestarts

\* The points of a task at which its block is known not to wait; to be
\* stored; not to be in the DAG.
CheckedPc == {"store", "deps", "pendant", "validate", "insert"}
StoredPc == {"deps", "pendant", "validate", "insert"}
NewPc == CheckedPc \cup {"relate", "request"}

TaskOK(t) ==
    /\ actor[t].pc \in CheckedPc => buffer.childToParent[actor[t].block] = {}
    /\ actor[t].pc \in StoredPc => actor[t].block \in stored
    /\ actor[t].pc \in NewPc => actor[t].block \notin blockDag
    /\ actor[t].pc = "relate" => actor[t].todo \subseteq Deps[actor[t].block]

\* Blocks of the DAG are in the block store and wait for nothing.
DagStored == blockDag \subseteq stored
DagParentless == \A b \in blockDag : buffer.childToParent[b] = {}

WorkInv == DagStored /\ DagParentless /\ \A t \in Tasks : TaskOK(t)

-----------------------------------------------------------------------------
\* The steps on the buffer

\* A step that gives nobody a parent.
BufferShrinks ==
    \/ UNCHANGED bufferVars
    \/ \E h \in Hash : BufferRemove(h)
    \/ \E b \in Blocks : BufferPutPendant(b)

\* ... or gives one to the hash c only.
BufferStep(c) == BufferShrinks \/ \E p \in Hash \ {c} : BufferAdd(p, c)

\* The steps on the buffer keep graph and records as they should be.
LEMMA BufferStepTyped ==
    ASSUME BufferTyped, NEW c \in Blocks, BufferStep(c)
    PROVE  BufferTyped'
<1>0. c \in Hash /\ buffer \in Dag
  BY DEF Hash, BufferTyped, GoodDag
<1>1. ASSUME NEW h \in Hash, BufferRemove(h) PROVE BufferTyped'
  BY <1>0, <1>1, DagRemoveGood, RemoveWithin DEF BufferTyped, BufferRemove
<1>2. ASSUME NEW p \in Hash \ {c}, BufferAdd(p, c) PROVE BufferTyped'
  BY <1>0, <1>2, DagAddGood, AddWithin DEF BufferTyped, BufferAdd
<1>3. ASSUME NEW b \in Blocks, BufferPutPendant(b) PROVE BufferTyped'
  <2> DEFINE d == DagAdd(buffer, TempBlock, b)
             s == StoreAdd(parentsStore, TempBlock, b)
  <2>1. TempBlock \in Hash /\ b \in Hash /\ TempBlock # b
    BY TempBlockAssumption DEF Hash
  <2>2. GoodDag(d) /\ s \in [Hash -> SUBSET Hash] /\ Within(s, d)
    BY <1>0, <2>1, DagAddGood, AddWithin DEF BufferTyped
  <2>3. buffer' = DagRemove(d, TempBlock) /\ parentsStore' = StoreRemove(s, d, TempBlock)
    BY <1>3 DEF BufferPutPendant
  <2> HIDE DEF d, s
  <2> QED BY <2>1, <2>2, <2>3, DagRemoveGood, RemoveWithin DEF BufferTyped, GoodDag
<1>4. CASE UNCHANGED bufferVars
  BY <1>4 DEF BufferTyped, bufferVars
<1> QED BY <1>1, <1>2, <1>3, <1>4 DEF BufferStep, BufferShrinks

\* Nobody gets a parent in a step that shrinks.
LEMMA ShrinkingParents ==
    ASSUME BufferTyped, BufferShrinks, NEW h \in Hash
    PROVE  buffer'.childToParent[h] \subseteq buffer.childToParent[h]
<1>1. ASSUME NEW e \in Hash, BufferRemove(e)
      PROVE  buffer'.childToParent[h] \subseteq buffer.childToParent[h]
  BY <1>1, DagRemoveEffect DEF BufferTyped, BufferRemove
<1>2. ASSUME NEW b \in Blocks, BufferPutPendant(b)
      PROVE  buffer'.childToParent[h] \subseteq buffer.childToParent[h]
  BY <1>2, PutPendantEffect DEF BufferTyped, BufferPutPendant
<1>3. CASE UNCHANGED bufferVars
  BY <1>3 DEF bufferVars
<1> QED BY <1>1, <1>2, <1>3 DEF BufferShrinks

\* Only c may get a parent in a step on behalf of c.
LEMMA OtherParents ==
    ASSUME BufferTyped, NEW c \in Blocks, BufferStep(c), NEW h \in Hash, h # c
    PROVE  buffer'.childToParent[h] \subseteq buffer.childToParent[h]
<1>1. ASSUME NEW p \in Hash \ {c}, BufferAdd(p, c)
      PROVE  buffer'.childToParent[h] \subseteq buffer.childToParent[h]
  <2>1. c \in Hash /\ buffer \in Dag
    BY DEF Hash, BufferTyped, GoodDag
  <2> QED BY <1>1, <2>1, DagAddEffect DEF BufferAdd
<1> QED BY <1>1, ShrinkingParents DEF BufferStep

-----------------------------------------------------------------------------
\* What the other tasks know lasts through a step of the owner of a block.
LEMMA OthersOK ==
    ASSUME MarkInv, BufferTyped, WorkInv, NEW t \in Tasks, Works(t),
           BufferStep(actor[t].block), stored \subseteq stored',
           blockDag' \subseteq blockDag \cup {actor[t].block},
           NEW u \in Tasks, u # t, actor'[u] = actor[u]
    PROVE  TaskOK(u)'
<1>1. TaskOK(u) /\ t \in Actors /\ u \in Actors
  BY DEF WorkInv, Actors
<1>2. actor[t].block \in Blocks
  BY <1>1 DEF Works, MarkInv, ClosedInv, WorkersHaveBlock
<1>3. CASE actor[u].pc \in NewPc
  <2>1. Works(u)
    BY <1>3 DEF Works, ProcessingPc, NewPc, CheckedPc
  <2>2. actor[u].block # actor[t].block /\ actor[u].block \in Hash
    BY <1>1, <2>1 DEF MarkInv, OwnInv, OwnersDiffer, ClosedInv, WorkersHaveBlock, Works, Hash
  <2>3. buffer'.childToParent[actor[u].block] \subseteq buffer.childToParent[actor[u].block]
    BY <1>2, <2>2, OtherParents
  <2> QED BY <1>1, <2>2, <2>3 DEF TaskOK
<1>4. CASE actor[u].pc \notin NewPc
  BY <1>4 DEF TaskOK, NewPc, CheckedPc, StoredPc
<1> QED BY <1>3, <1>4

\* A step that leaves buffer, DAG and block store alone and brings no task
\* to a point where it knows something new.
LEMMA QuietWork ==
    ASSUME WorkInv, UNCHANGED <<buffer, stored, blockDag>>,
           \A u \in Tasks : actor'[u] = actor[u] \/ actor'[u].pc \notin NewPc
    PROVE  WorkInv'
<1>1. \A u \in Tasks : TaskOK(u)'
  BY DEF WorkInv, TaskOK, NewPc, CheckedPc, StoredPc
<1> QED BY <1>1 DEF WorkInv, DagStored, DagParentless

\* A step of the owner of a block that leaves the DAG alone.
LEMMA OwnerStep ==
    ASSUME MarkInv, BufferTyped, WorkInv, NEW t \in Tasks, Works(t),
           BufferStep(actor[t].block), BufferShrinks \/ actor[t].block \notin blockDag,
           stored \subseteq stored', blockDag' = blockDag,
           \A u \in Tasks \ {t} : actor'[u] = actor[u],
           TaskOK(t)'
    PROVE  BufferTyped' /\ WorkInv'
<1>1. actor[t].block \in Blocks /\ blockDag \subseteq Blocks
  BY DEF Actors, Works, MarkInv, ClosedInv, WorkersHaveBlock, ActorsTyped
<1>2. BufferTyped'
  BY <1>1, BufferStepTyped
<1>3. DagParentless'
  <2> SUFFICES ASSUME NEW b \in blockDag PROVE buffer'.childToParent[b] = {}
    BY DEF DagParentless
  <2>1. b \in Hash /\ buffer.childToParent[b] = {}
    BY <1>1 DEF Hash, WorkInv, DagParentless
  <2>2. buffer'.childToParent[b] \subseteq buffer.childToParent[b]
    BY <1>1, <2>1, ShrinkingParents, OtherParents
  <2> QED BY <2>1, <2>2
<1>4. \A u \in Tasks : TaskOK(u)'
  BY OthersOK
<1> QED BY <1>2, <1>3, <1>4 DEF WorkInv, DagStored

\* Goto leaves the block and what is to be done alone.
LEMMA GotoFields ==
    ASSUME MarkInv, NEW t \in Tasks, NEW pc, Goto(t, pc)
    PROVE  /\ actor'[t].pc = pc /\ actor'[t].block = actor[t].block
           /\ actor'[t].todo = actor[t].todo
           /\ \A u \in Tasks \ {t} : actor'[u] = actor[u]
<1>1. actor \in [Actors -> ActorType] /\ t \in Actors /\ actor[t] \in ActorType
  BY DEF MarkInv, ClosedInv, ActorsTyped, Actors
<1>2. actor' = [actor EXCEPT ![t] = [actor[t] EXCEPT !.pc = pc]]
  BY <1>1 DEF Goto
<1>3. Tasks \subseteq Actors
  BY DEF Actors
<1> QED BY <1>1, <1>2, <1>3 DEF ActorType

\* The steps of a task, one case per step.
LEMMA TaskWork ==
    ASSUME MarkInv, BufferTyped, WorkInv, NEW t \in Tasks, TaskStep(t)
    PROVE  BufferTyped' /\ WorkInv'
<1> USE DEF ProcessingPc
<1>0. /\ t \in Actors /\ actor \in [Actors -> ActorType] /\ actor[t] \in ActorType
      /\ Tasks \subseteq Actors /\ TaskOK(t)
  BY DEF MarkInv, ClosedInv, ActorsTyped, Actors, WorkInv
<1>a. Works(t) => actor[t].block \in Blocks /\ actor[t].block \in Hash
  BY <1>0 DEF Works, MarkInv, ClosedInv, WorkersHaveBlock, Hash
<1>b. ASSUME NEW pc \in ProcessingPc \ NewPc, Works(t), Goto(t, pc), BufferShrinks,
             stored' = stored, blockDag' = blockDag
      PROVE  BufferTyped' /\ WorkInv'
  <2>1. actor'[t].pc = pc /\ \A u \in Tasks \ {t} : actor'[u] = actor[u]
    BY <1>b, GotoFields
  <2>2. TaskOK(t)'
    BY <1>b, <2>1 DEF TaskOK, NewPc, CheckedPc, StoredPc
  <2> QED BY <1>b, <2>1, <2>2, OwnerStep DEF BufferStep
<1>c. ASSUME Works(t), PurgeAndAck(actor[t].block)
      PROVE  BufferShrinks
  BY <1>a, <1>c DEF PurgeAndAck, BufferShrinks
<1>1. CASE CheckIfOfInterest(t)
  <2>0. Works(t) /\ UNCHANGED <<stored, blockDag>>
    BY <1>1 DEF CheckIfOfInterest, Works
  <2>1. CASE PurgeAndAck(actor[t].block) /\ Goto(t, "finish")
    BY <1>b, <1>c, <2>0, <2>1 DEF NewPc, CheckedPc
  <2>2. CASE ~ AlreadyProcessed(actor[t].block) /\ Goto(t, "store") /\ UNCHANGED bufferVars
    <3>1. /\ actor'[t].pc = "store" /\ actor'[t].block = actor[t].block
          /\ \A u \in Tasks \ {t} : actor'[u] = actor[u]
      BY <2>2, GotoFields
    <3>2. TaskOK(t)'
      BY <2>0, <2>2, <3>1
      DEF TaskOK, NewPc, CheckedPc, StoredPc, AlreadyProcessed, Contains, bufferVars
    <3> QED BY <2>0, <2>2, <3>1, <3>2, OwnerStep DEF BufferStep, BufferShrinks
  <2> QED BY <1>1, <2>1, <2>2 DEF CheckIfOfInterest
<1>2. CASE CheckIfWellFormedAndStore(t)
  <2>0. Works(t) /\ actor[t].pc = "store" /\ blockDag' = blockDag
    BY <1>2 DEF CheckIfWellFormedAndStore, Works
  <2>1. CASE PurgeAndAck(actor[t].block) /\ Goto(t, "finish") /\ UNCHANGED stored
    BY <1>b, <1>c, <2>0, <2>1 DEF NewPc, CheckedPc
  <2>2. CASE /\ stored' = stored \cup {actor[t].block} /\ Goto(t, "deps")
             /\ UNCHANGED bufferVars
    <3>1. /\ actor'[t].pc = "deps" /\ actor'[t].block = actor[t].block
          /\ \A u \in Tasks \ {t} : actor'[u] = actor[u]
      BY <2>2, GotoFields
    <3>2. TaskOK(t)'
      BY <1>0, <2>0, <2>2, <3>1 DEF TaskOK, NewPc, CheckedPc, StoredPc, bufferVars
    <3> QED BY <2>0, <2>2, <3>1, <3>2, OwnerStep DEF BufferStep, BufferShrinks
  <2> QED BY <1>2, <2>1, <2>2 DEF CheckIfWellFormedAndStore
<1>3. CASE CheckDependencies(t)
  <2>0. Works(t) /\ actor[t].pc = "deps" /\ UNCHANGED <<bufferVars, stored, blockDag>>
    BY <1>3 DEF CheckDependencies, Works
  <2>1. CASE Goto(t, "finish")
    BY <1>b, <2>0, <2>1 DEF NewPc, CheckedPc, BufferShrinks
  <2>2. CASE Goto(t, "pendant")
    <3>1. /\ actor'[t].pc = "pendant" /\ actor'[t].block = actor[t].block
          /\ \A u \in Tasks \ {t} : actor'[u] = actor[u]
      BY <2>2, GotoFields
    <3>2. TaskOK(t)'
      BY <1>0, <2>0, <3>1 DEF TaskOK, NewPc, CheckedPc, StoredPc, bufferVars
    <3> QED BY <2>0, <3>1, <3>2, OwnerStep DEF BufferStep, BufferShrinks
  <2>3. ASSUME NEW fetch,
               actor' = [actor EXCEPT ![t].pc = "relate", ![t].todo = NonValidated(actor[t].block),
                                      ![t].fetch = fetch]
        PROVE  BufferTyped' /\ WorkInv'
    <3>1. /\ actor'[t].pc = "relate" /\ actor'[t].block = actor[t].block
          /\ actor'[t].todo = NonValidated(actor[t].block)
          /\ \A u \in Tasks \ {t} : actor'[u] = actor[u]
      BY <1>0, <2>3 DEF ActorType
    <3>2. TaskOK(t)'
      BY <1>0, <2>0, <3>1 DEF TaskOK, NewPc, CheckedPc, StoredPc, NonValidated
    <3> QED BY <2>0, <3>1, <3>2, OwnerStep DEF BufferStep, BufferShrinks
  <2> QED BY <1>3, <2>1, <2>2, <2>3 DEF CheckDependencies
<1>4. CASE CommitPendant(t)
  <2>0. /\ Works(t) /\ actor[t].pc = "pendant" /\ Goto(t, "validate")
        /\ BufferPutPendant(actor[t].block) /\ UNCHANGED <<stored, blockDag>>
    BY <1>4 DEF CommitPendant, Works
  <2>1. BufferShrinks
    BY <1>a, <2>0 DEF BufferShrinks
  <2>2. /\ actor'[t].pc = "validate" /\ actor'[t].block = actor[t].block
        /\ \A u \in Tasks \ {t} : actor'[u] = actor[u]
    BY <2>0, GotoFields
  <2>3. buffer'.childToParent[actor[t].block] \subseteq buffer.childToParent[actor[t].block]
    BY <1>a, <2>0, <2>1, ShrinkingParents
  <2>4. TaskOK(t)'
    BY <1>0, <2>0, <2>2, <2>3 DEF TaskOK, NewPc, CheckedPc, StoredPc
  <2> QED BY <2>0, <2>1, <2>2, <2>4, OwnerStep DEF BufferStep
<1>5. ASSUME NEW p \in Blocks, CommitRelation(t, p) PROVE BufferTyped' /\ WorkInv'
  <2>0. /\ Works(t) /\ actor[t].pc = "relate" /\ p \in actor[t].todo
        /\ BufferAdd(p, actor[t].block) /\ UNCHANGED <<stored, blockDag>>
    BY <1>5 DEF CommitRelation, Works
  <2>1. /\ actor'[t].pc \in {"relate", "request"} /\ actor'[t].block = actor[t].block
        /\ actor'[t].todo \subseteq actor[t].todo
        /\ \A u \in Tasks \ {t} : actor'[u] = actor[u]
    BY <1>0, <1>5, <2>0 DEF CommitRelation, ActorType
  <2>2. actor[t].block \notin blockDag /\ p \in Deps[actor[t].block]
    BY <1>0, <2>0 DEF TaskOK, NewPc
  <2>3. p \in Hash \ {actor[t].block}
    BY <1>a, <2>0, <2>2, DepsAssumption DEF Hash
  <2>4. TaskOK(t)'
    BY <1>0, <2>0, <2>1, <2>2 DEF TaskOK, NewPc, CheckedPc, StoredPc
  <2> QED BY <2>0, <2>1, <2>2, <2>3, <2>4, OwnerStep DEF BufferStep
<1>6. CASE RequestDependencies(t)
  <2>0. Works(t) /\ UNCHANGED <<bufferVars, stored, blockDag>>
    BY <1>6 DEF RequestDependencies, Works
  <2>1. actor'[t].pc = "finish" /\ \A u \in Tasks \ {t} : actor'[u] = actor[u]
    BY <1>0, <1>6 DEF RequestDependencies, ActorType
  <2>2. TaskOK(t)'
    BY <2>1 DEF TaskOK, NewPc, CheckedPc, StoredPc
  <2> QED BY <2>0, <2>1, <2>2, OwnerStep DEF BufferStep, BufferShrinks
<1>7. ASSUME NEW v \in VerdictKinds, Validate(t, v) PROVE BufferTyped' /\ WorkInv'
  <2>0. /\ Works(t) /\ actor[t].pc = "validate" /\ UNCHANGED <<bufferVars, stored, blockDag>>
        /\ (Goto(t, "insert") \/ Goto(t, "unbuffer") \/ Goto(t, "cleanup"))
    BY <1>7 DEF Validate, Works, VerdictKinds
  <2>1. CASE Goto(t, "insert")
    <3>1. /\ actor'[t].pc = "insert" /\ actor'[t].block = actor[t].block
          /\ \A u \in Tasks \ {t} : actor'[u] = actor[u]
      BY <2>1, GotoFields
    <3>2. TaskOK(t)'
      BY <1>0, <2>0, <3>1 DEF TaskOK, NewPc, CheckedPc, StoredPc, bufferVars
    <3> QED BY <2>0, <3>1, <3>2, OwnerStep DEF BufferStep, BufferShrinks
  <2>2. CASE Goto(t, "unbuffer") \/ Goto(t, "cleanup")
    BY <1>b, <2>0, <2>2 DEF NewPc, CheckedPc, BufferShrinks
  <2> QED BY <2>0, <2>1, <2>2
<1>8. CASE InsertIntoDag(t)
  <2>0. /\ Works(t) /\ actor[t].pc = "insert" /\ Goto(t, "unbuffer")
        /\ blockDag' = blockDag \cup {actor[t].block} /\ UNCHANGED <<bufferVars, stored>>
    BY <1>8 DEF InsertIntoDag, Works
  <2>1. actor'[t].pc = "unbuffer" /\ \A u \in Tasks \ {t} : actor'[u] = actor[u]
    BY <2>0, GotoFields
  <2>2. actor[t].block \in stored /\ buffer.childToParent[actor[t].block] = {}
    BY <1>0, <2>0 DEF TaskOK, CheckedPc, StoredPc
  <2>3. DagStored' /\ DagParentless'
    BY <2>0, <2>2 DEF WorkInv, DagStored, DagParentless, bufferVars
  <2>4. \A u \in Tasks \ {t} : TaskOK(u)'
    BY <2>0, <2>1, OthersOK DEF BufferStep, BufferShrinks
  <2>5. TaskOK(t)'
    BY <2>1 DEF TaskOK, NewPc, CheckedPc, StoredPc
  <2>6. BufferTyped'
    BY <2>0 DEF BufferTyped, bufferVars
  <2> QED BY <2>3, <2>4, <2>5, <2>6 DEF WorkInv
<1>9. CASE RemoveAfterInsert(t)
  <2>0. Works(t)
    BY <1>9 DEF RemoveAfterInsert, Works
  <2>1. BufferShrinks
    BY <1>9, <1>a, <2>0 DEF RemoveAfterInsert, BufferShrinks
  <2> QED BY <1>9, <1>b, <2>0, <2>1 DEF RemoveAfterInsert, NewPc, CheckedPc
<1>10. CASE Cleanup(t)
  <2>0. Works(t)
    BY <1>10 DEF Cleanup, Works
  <2> QED BY <1>10, <1>b, <1>c, <2>0 DEF Cleanup, NewPc, CheckedPc
<1>11. CASE Fail(t)
  <2>1. /\ Works(t) /\ UNCHANGED <<bufferVars, stored, blockDag>>
    BY <1>11 DEF Fail, Works
  <2>2. actor'[t].pc = "finish" /\ \A u \in Tasks \ {t} : actor'[u] = actor[u]
    BY <1>0, <1>11 DEF Fail, Idle
  <2>3. TaskOK(t)'
    BY <2>2 DEF TaskOK, NewPc, CheckedPc, StoredPc
  <2> QED BY <2>1, <2>2, <2>3, OwnerStep DEF BufferStep, BufferShrinks
<1>12. ASSUME actor'[t].pc \in {"scan", "idle", "enqueue"},
              \A u \in Tasks \ {t} : actor'[u] = actor[u],
              UNCHANGED <<bufferVars, stored, blockDag>>
       PROVE  BufferTyped' /\ WorkInv'
  <2>1. \A u \in Tasks : actor'[u] = actor[u] \/ actor'[u].pc \notin NewPc
    BY <1>12 DEF NewPc, CheckedPc
  <2>2. WorkInv'
    BY <1>12, <2>1, QuietWork DEF bufferVars
  <2> QED BY <1>12, <2>2 DEF BufferTyped, bufferVars
<1>13. CASE DropGuard(t)
  <2>1. actor'[t].pc = "scan" /\ \A u \in Tasks \ {t} : actor'[u] = actor[u]
    BY <1>0, <1>13 DEF DropGuard, ActorType
  <2> QED BY <1>12, <1>13, <2>1 DEF DropGuard
<1>14. CASE Scan(t)
  <2> DEFINE r == IF DependencyFree = {} THEN Idle
                  ELSE [actor[t] EXCEPT !.pc = "enqueue", !.todo = DependencyFree]
  <2>1. actor' = [actor EXCEPT ![t] = r]
    BY <1>0, <1>14 DEF Scan
  <2>2. r.pc \in {"idle", "enqueue"}
    BY <1>0 DEF Idle, ActorType
  <2> HIDE DEF r
  <2>3. actor'[t].pc \in {"idle", "enqueue"} /\ \A u \in Tasks \ {t} : actor'[u] = actor[u]
    BY <1>0, <2>1, <2>2
  <2> QED BY <1>12, <1>14, <2>3 DEF Scan
<1> QED BY <1>1, <1>2, <1>3, <1>4, <1>5, <1>6, <1>7, <1>8, <1>9, <1>10, <1>11, <1>13, <1>14
        DEF TaskStep

-----------------------------------------------------------------------------
\* The bookkeeping

\* The swept count of attempts is typed like the count.
LEMMA SweptTyped ==
    ASSUME BookTyped
    PROVE  /\ SweptAttempts \in [Blocks -> 0..(AttemptsMax - 1)]
           /\ SweptQuarantine \subseteq Blocks
  BY PipelineAssumption DEF BookTyped, SweptAttempts, SweptQuarantine

\* remove_from_buffer and ack_processed keep the bookkeeping typed.
LEMMA PurgeBook ==
    ASSUME BookTyped, NEW b \in Blocks, PurgeAndAck(b)
    PROVE  /\ requested' \subseteq Blocks /\ quarantine' \subseteq Blocks
           /\ attempts' \in [Blocks -> 0..(AttemptsMax - 1)]
  BY PipelineAssumption DEF BookTyped, PurgeAndAck

\* register_missing_dependency_attempt never counts up to its limit.
LEMMA RegisterBook ==
    ASSUME BookTyped, NEW b \in Blocks, RegisterAttempt(b)
    PROVE  /\ quarantine' \subseteq Blocks
           /\ attempts' \in [Blocks -> 0..(AttemptsMax - 1)]
<1> DEFINE tried == SweptAttempts[b] + 1
           kept == IF tried >= AttemptsMax THEN 0 ELSE tried
<1>1. SweptAttempts \in [Blocks -> 0..(AttemptsMax - 1)] /\ SweptQuarantine \subseteq Blocks
  BY SweptTyped
<1>2. kept \in 0..(AttemptsMax - 1)
  BY <1>1, PipelineAssumption
<1>3. /\ attempts' = [SweptAttempts EXCEPT ![b] = kept]
      /\ quarantine' \subseteq SweptQuarantine \cup {b}
  BY DEF RegisterAttempt
<1> HIDE DEF kept
<1> QED BY <1>1, <1>2, <1>3

\* The steps of a task.
LEMMA TaskBook ==
    ASSUME MarkInv, BookTyped, NEW t \in Tasks, TaskStep(t)
    PROVE  BookTyped'
<1> USE DEF ProcessingPc
<1>0. t \in Actors /\ actor[t] \in ActorType
  BY DEF MarkInv, ClosedInv, ActorsTyped, Actors
<1>a. actor[t].pc \in ProcessingPc => actor[t].block \in Blocks
  BY <1>0 DEF MarkInv, ClosedInv, WorkersHaveBlock
<1>1. CASE CheckIfOfInterest(t)
  BY <1>a, <1>1, PurgeBook DEF CheckIfOfInterest, BookTyped, depVars
<1>2. CASE CheckIfWellFormedAndStore(t)
  BY <1>a, <1>2, PurgeBook DEF CheckIfWellFormedAndStore, BookTyped, depVars
<1>3. CASE CheckDependencies(t)
  <2>0. actor[t].block \in Blocks /\ UNCHANGED <<requested, restarts>>
    BY <1>a, <1>3 DEF CheckDependencies
  <2>1. CASE RegisterAttempt(actor[t].block)
    BY <2>0, <2>1, RegisterBook DEF BookTyped
  <2>2. CASE quarantine' = SweptQuarantine
             /\ (attempts' = SweptAttempts
                 \/ attempts' = [SweptAttempts EXCEPT ![actor[t].block] = 0])
    BY <2>0, <2>2, SweptTyped, PipelineAssumption DEF BookTyped
  <2> QED BY <1>3, <2>1, <2>2 DEF CheckDependencies
<1>4. CASE CommitPendant(t)
  BY <1>4 DEF CommitPendant, BookTyped, depVars
<1>5. ASSUME NEW p \in Blocks, CommitRelation(t, p) PROVE BookTyped'
  BY <1>5 DEF CommitRelation, BookTyped, depVars
<1>6. CASE RequestDependencies(t)
  <2>1. actor[t].fetch \subseteq Blocks
    BY <1>0 DEF ActorType
  <2> QED BY <1>6, <2>1 DEF RequestDependencies, BookTyped, depVars
<1>7. ASSUME NEW v \in VerdictKinds, Validate(t, v) PROVE BookTyped'
  BY <1>7 DEF Validate, BookTyped, depVars
<1>8. CASE InsertIntoDag(t)
  BY <1>8 DEF InsertIntoDag, BookTyped, depVars
<1>9. CASE RemoveAfterInsert(t)
  BY <1>9 DEF RemoveAfterInsert, BookTyped, depVars
<1>10. CASE Cleanup(t)
  BY <1>a, <1>10, PurgeBook DEF Cleanup, BookTyped
<1>11. CASE Fail(t)
  BY <1>11 DEF Fail, BookTyped, depVars
<1>12. CASE DropGuard(t)
  BY <1>12 DEF DropGuard, BookTyped, depVars
<1>13. CASE Scan(t)
  BY <1>13 DEF Scan, BookTyped, depVars
<1> QED BY <1>1, <1>2, <1>3, <1>4, <1>5, <1>6, <1>7, <1>8, <1>9, <1>10, <1>11, <1>12, <1>13
        DEF TaskStep

-----------------------------------------------------------------------------
\* The other steps

\* The start-up pass acknowledges a block it has sent.
AckHasBlock == \A x \in Actors : actor[x].pc = "ack" => actor[x].block \in Blocks

\* A task never acknowledges in the start-up pass's way.
LEMMA TaskAck ==
    ASSUME MarkInv, AckHasBlock, NEW t \in Tasks, TaskStep(t)
    PROVE  AckHasBlock'
<1>0. /\ t \in Actors /\ actor \in [Actors -> ActorType] /\ actor[t] \in ActorType
  BY DEF MarkInv, ClosedInv, ActorsTyped, Actors
<1>1. \A u \in Actors \ {t} : actor'[u] = actor[u]
  BY <1>0 DEF TaskStep, CheckIfOfInterest, CheckIfWellFormedAndStore, CheckDependencies, Goto,
       CommitPendant, CommitRelation, RequestDependencies, Validate, InsertIntoDag,
       RemoveAfterInsert, Cleanup, Fail, DropGuard, Scan
<1>2. actor'[t].pc # "ack"
  <2>1. CASE DropGuard(t)
    BY <1>0, <2>1 DEF DropGuard, ActorType
  <2>2. CASE Scan(t)
    <3> DEFINE r == IF DependencyFree = {} THEN Idle
                    ELSE [actor[t] EXCEPT !.pc = "enqueue", !.todo = DependencyFree]
    <3>1. actor' = [actor EXCEPT ![t] = r]
      BY <1>0, <2>2 DEF Scan
    <3>2. r.pc \in {"idle", "enqueue"}
      BY <1>0 DEF Idle, ActorType
    <3> HIDE DEF r
    <3> QED BY <1>0, <3>1, <3>2
  <2>3. CASE ~ DropGuard(t) /\ ~ Scan(t)
    <3>1. Works(t)
      BY <2>3 DEF TaskStep, CheckIfOfInterest, CheckIfWellFormedAndStore, CheckDependencies,
         CommitPendant, CommitRelation, RequestDependencies, Validate, InsertIntoDag,
         RemoveAfterInsert, Cleanup, Fail, Works, ProcessingPc
    <3>2. Works(t)'
      BY <1>0, <2>3, <3>1, TaskSameOwners DEF SameOwners, MarkInv
    <3> QED BY <3>2 DEF Works, ProcessingPc
  <2> QED BY <2>1, <2>2, <2>3
<1> QED BY <1>1, <1>2 DEF AckHasBlock

\* What an enqueuing step makes of its actor.
LEMMA EnqueueMoves ==
    ASSUME MarkInv, NEW x \in Actors, EnqueueStep(x) \/ \E b \in Blocks : Receive(x, b)
    PROVE  /\ \A u \in Actors \ {x} : actor'[u] = actor[u]
           /\ actor'[x].pc \in {"idle", "enqueue", "cap", "send", "ack"}
           /\ actor'[x].pc = "ack" => actor'[x].block \in Blocks
<1>0. actor \in [Actors -> ActorType] /\ actor[x] \in ActorType
  BY DEF MarkInv, ClosedInv, ActorsTyped
<1>1. EnqueueNext(x).pc \in {"idle", "enqueue"}
  BY <1>0 DEF EnqueueNext, Idle, ActorType
<1>2. ASSUME NEW b \in Blocks, EnqueueMark(x, b)
      PROVE  /\ actor'[x].pc = "cap" /\ \A u \in Actors \ {x} : actor'[u] = actor[u]
  BY <1>0, <1>2 DEF EnqueueMark, Mark, ActorType
<1>3. ASSUME NEW b \in Blocks, EnqueueSkip(x, b)
      PROVE  /\ actor'[x].pc \in {"idle", "enqueue"}
             /\ \A u \in Actors \ {x} : actor'[u] = actor[u]
  <2>1. Skipping(x, b).pc \in {"idle", "enqueue"}
    BY <1>0, <1>3 DEF EnqueueSkip, Skipping, Idle, ActorType
  <2> QED BY <1>0, <1>3, <2>1 DEF EnqueueSkip
<1>4. ASSUME NEW b \in Blocks, Receive(x, b)
      PROVE  /\ actor'[x].pc = "enqueue" /\ \A u \in Actors \ {x} : actor'[u] = actor[u]
  BY <1>0, <1>4 DEF Receive, Idle
<1>5. CASE actor' = [actor EXCEPT ![x] = EnqueueNext(x)]
  BY <1>0, <1>1, <1>5
<1>6. CASE CheckCap(x)
  BY <1>0, <1>5, <1>6 DEF CheckCap, Goto, ActorType
<1>7. CASE Send(x)
  <2>1. actor[x].block \in Blocks
    BY <1>7 DEF Send, MarkInv, ClosedInv, WorkersHaveBlock
  <2> QED BY <1>0, <1>5, <1>7, <2>1 DEF Send, Goto, ActorType
<1> QED BY <1>2, <1>3, <1>4, <1>5, <1>6, <1>7 DEF EnqueueStep, AckReceive

\* An enqueuing actor leaves the buffer, the block store and the DAG alone.
LEMMA EnqueueWork ==
    ASSUME MarkInv, BufferTyped, BookTyped, AckHasBlock, WorkInv, NEW x \in Actors,
           EnqueueStep(x) \/ \E b \in Blocks : Receive(x, b)
    PROVE  /\ BufferTyped' /\ BookTyped' /\ AckHasBlock' /\ WorkInv'
           /\ UNCHANGED <<bufferVars, stored, blockDag, restarts>>
<1>1. UNCHANGED <<bufferVars, stored, blockDag, depVars, restarts>>
  BY DEF EnqueueStep, EnqueueMark, EnqueueSkip, CheckCap, Send, AckReceive, Receive
<1>2. requested' \subseteq Blocks
  BY DEF EnqueueStep, EnqueueMark, EnqueueSkip, CheckCap, Send, AckReceive, Receive,
         BookTyped, AckHasBlock
<1>3. /\ \A u \in Actors \ {x} : actor'[u] = actor[u]
      /\ actor'[x].pc \in {"idle", "enqueue", "cap", "send", "ack"}
      /\ actor'[x].pc = "ack" => actor'[x].block \in Blocks
  BY EnqueueMoves
<1>4. \A u \in Tasks : actor'[u] = actor[u] \/ actor'[u].pc \notin NewPc
  BY <1>3 DEF Actors, NewPc, CheckedPc
<1>5. WorkInv'
  BY <1>1, <1>4, QuietWork DEF bufferVars
<1>6. BufferTyped' /\ BookTyped'
  BY <1>1, <1>2 DEF BufferTyped, BookTyped, bufferVars, depVars
<1> QED BY <1>1, <1>3, <1>5, <1>6 DEF AckHasBlock

\* A task starts with a block of which it knows nothing yet.
LEMMA SpawnWork ==
    ASSUME MarkInv, BufferTyped, BookTyped, AckHasBlock, WorkInv, NEW t \in Tasks, Spawn(t)
    PROVE  BufferTyped' /\ BookTyped' /\ AckHasBlock' /\ WorkInv'
<1>0. actor \in [Actors -> ActorType] /\ Tasks \subseteq Actors
  BY DEF MarkInv, ClosedInv, ActorsTyped, Actors
<1>1. actor'[t].pc = "interest" /\ \A u \in Actors \ {t} : actor'[u] = actor[u]
  BY <1>0 DEF Spawn, Idle
<1>2. \A u \in Tasks : actor'[u] = actor[u] \/ actor'[u].pc \notin NewPc
  BY <1>0, <1>1 DEF NewPc, CheckedPc
<1>3. WorkInv'
  BY <1>2, QuietWork DEF Spawn, bufferVars
<1>4. BufferTyped' /\ BookTyped'
  BY DEF Spawn, BufferTyped, BookTyped, bufferVars, depVars
<1> QED BY <1>1, <1>3, <1>4 DEF AckHasBlock

\* What a crash may leave in parents_store gives parents to nobody in the DAG.
LEMMA CrashStoresTyped ==
    ASSUME MarkInv, BufferTyped, WorkInv, NEW store \in CrashStores
    PROVE  /\ store \in [Hash -> SUBSET Hash]
           /\ \A b \in blockDag : store[b] = {}
<1>0. buffer \in Dag /\ blockDag \subseteq Hash /\ TempBlock \in Hash /\ blockDag \subseteq Blocks
  BY DEF BufferTyped, GoodDag, MarkInv, ClosedInv, ActorsTyped, Hash
<1>a. \A b \in blockDag : parentsStore[b] = {} /\ buffer.childToParent[b] = {}
  BY <1>0 DEF BufferTyped, Within, WorkInv, DagParentless
<1>1. CASE store = parentsStore
  BY <1>1, <1>a DEF BufferTyped
<1>2. ASSUME NEW t \in Tasks, actor[t].pc = "pendant",
             store = StoreAdd(parentsStore, TempBlock, actor[t].block)
      PROVE  store \in [Hash -> SUBSET Hash] /\ \A b \in blockDag : store[b] = {}
  <2>1. actor[t].block \in Hash /\ actor[t].block \notin blockDag
    BY <1>2 DEF MarkInv, ClosedInv, WorkersHaveBlock, Actors, ProcessingPc, Hash,
                WorkInv, TaskOK, NewPc, CheckedPc
  <2>2. store \in [Hash -> SUBSET Hash]
    BY <1>0, <1>2, <2>1, AddWithin DEF BufferTyped
  <2>3. \A b \in blockDag : store[b] = parentsStore[b]
    BY <1>0, <1>2, <2>1 DEF StoreAdd, BufferTyped
  <2> QED BY <1>a, <2>2, <2>3
<1>3. ASSUME NEW h \in Hash, store = StorePut(parentsStore, buffer, h)
      PROVE  store \in [Hash -> SUBSET Hash] /\ \A b \in blockDag : store[b] = {}
  <2>1. store \in [Hash -> SUBSET Hash]
    BY <1>0, <1>3, PutTyped DEF BufferTyped
  <2>2. \A b \in blockDag : store[b] = {}
    BY <1>0, <1>3, <1>a DEF StorePut
  <2> QED BY <2>1, <2>2
<1>4. Removing \subseteq Hash
  <2>1. \A t \in Tasks :
           actor[t].pc \in {"unbuffer", "cleanup", "interest", "store"} => actor[t].block \in Hash
    BY DEF MarkInv, ClosedInv, WorkersHaveBlock, Actors, ProcessingPc, Hash
  <2> QED BY <1>0, <2>1 DEF Removing
<1> QED BY <1>1, <1>2, <1>3, <1>4 DEF CrashStores

\* A restart: no task, and the graph that the records say.
LEMMA RestartWork ==
    ASSUME MarkInv, BufferTyped, BookTyped, WorkInv, NEW store \in CrashStores, Restart(store)
    PROVE  BufferTyped' /\ BookTyped' /\ AckHasBlock' /\ WorkInv'
<1> DEFINE pendants == Rebuild(store).dependencyFree \cap stored
           boot == [Idle EXCEPT !.pc = "enqueue", !.todo = pendants]
<1>1. store \in [Hash -> SUBSET Hash] /\ \A b \in blockDag : store[b] = {}
  BY CrashStoresTyped
<1>2. parentsStore' = store /\ buffer' = Rebuild(store) /\ UNCHANGED <<stored, blockDag>>
  BY DEF Restart
<1>3. boot.pc = "enqueue" /\ Idle.pc = "idle"
  BY DEF Idle
<1>4. actor' = [x \in Actors |-> IF x = Boot /\ pendants # {} THEN boot ELSE Idle]
  BY DEF Restart
<1> HIDE DEF boot
<1>5. \A x \in Actors : actor'[x].pc \in {"enqueue", "idle"}
  BY <1>3, <1>4
<1>6. BufferTyped'
  <2>1. GoodDag(Rebuild(store)) /\ Rebuild(store).childToParent = store
    BY <1>1, RebuildGood DEF Rebuild
  <2> QED BY <1>1, <1>2, <2>1 DEF BufferTyped, Within
<1>7. BookTyped'
  BY PipelineAssumption DEF Restart, BookTyped
<1>8. DagStored' /\ DagParentless'
  BY <1>1, <1>2 DEF WorkInv, DagStored, DagParentless, Rebuild
<1>9. \A t \in Tasks : TaskOK(t)'
  BY <1>5 DEF TaskOK, Actors, NewPc, CheckedPc, StoredPc
<1> QED BY <1>5, <1>6, <1>7, <1>8, <1>9 DEF WorkInv, AckHasBlock

\* The start-up pass purges a pendant that is in the DAG.
LEMMA BootPurgeWork ==
    ASSUME MarkInv, BufferTyped, BookTyped, AckHasBlock, WorkInv, NEW b \in Blocks, BootPurge(b)
    PROVE  BufferTyped' /\ BookTyped' /\ AckHasBlock' /\ WorkInv'
<1>0. /\ Boot \in Actors /\ Boot \notin Tasks /\ actor \in [Actors -> ActorType]
      /\ actor[Boot] \in ActorType /\ Tasks \subseteq Actors
  BY PipelineAssumption DEF MarkInv, ClosedInv, ActorsTyped, Actors
<1>1. BufferShrinks
  BY DEF BootPurge, BufferShrinks, Hash
<1>2. BufferTyped'
  BY <1>1, BufferStepTyped DEF BufferStep
<1>3. \A h \in Hash : buffer'.childToParent[h] \subseteq buffer.childToParent[h]
  BY <1>1, ShrinkingParents
<1>4. Skipping(Boot, b).pc \in {"idle", "enqueue"}
  BY <1>0 DEF BootPurge, Skipping, Idle, ActorType
<1>5. /\ actor'[Boot].pc \in {"idle", "enqueue"} /\ UNCHANGED <<stored, blockDag>>
      /\ \A u \in Actors \ {Boot} : actor'[u] = actor[u]
  BY <1>0, <1>4 DEF BootPurge
<1>6. DagStored' /\ DagParentless'
  BY <1>3, <1>5 DEF WorkInv, DagStored, DagParentless, Hash, MarkInv, ClosedInv, ActorsTyped
<1>7. ASSUME NEW t \in Tasks PROVE TaskOK(t)'
  <2>1. TaskOK(t) /\ actor'[t] = actor[t]
    BY <1>0, <1>5 DEF WorkInv
  <2>2. actor[t].pc \in CheckedPc => actor[t].block \in Hash
    BY <1>0 DEF MarkInv, ClosedInv, WorkersHaveBlock, CheckedPc, ProcessingPc, Hash
  <2> QED BY <1>3, <1>5, <2>1, <2>2 DEF TaskOK
<1>8. BookTyped'
  BY DEF BootPurge, BookTyped, depVars
<1> QED BY <1>2, <1>5, <1>6, <1>7, <1>8 DEF WorkInv, AckHasBlock

\* The steps of the dispatcher, of the retriever and of the clock.
LEMMA OtherWork ==
    ASSUME MarkInv, BufferTyped, BookTyped, AckHasBlock, WorkInv,
           Dequeue \/ FetchDependencies \/ UNCHANGED vars
               \/ \E b \in Blocks : QuarantineExpires(b)
    PROVE  /\ BufferTyped' /\ BookTyped' /\ AckHasBlock' /\ WorkInv'
           /\ UNCHANGED <<actor, inFlight, bufferVars, stored, blockDag, restarts>>
<1>1. UNCHANGED <<actor, inFlight, bufferVars, stored, blockDag, attempts, restarts>>
  BY DEF Dequeue, FetchDependencies, QuarantineExpires, vars, pipeline, depVars, bufferVars
<1>2. requested' \subseteq Blocks /\ quarantine' \subseteq Blocks
  BY DEF Dequeue, FetchDependencies, QuarantineExpires, vars, depVars, BookTyped
<1>3. WorkInv'
  BY <1>1, QuietWork DEF bufferVars
<1> QED BY <1>1, <1>2, <1>3 DEF BufferTyped, BookTyped, AckHasBlock, bufferVars

\* Everything so far, as one invariant.
PipelineInv == MarkInv /\ BufferTyped /\ BookTyped /\ AckHasBlock /\ WorkInv

\* The pipeline starts empty.
LEMMA InitPipeline == Init => PipelineInv
<1> SUFFICES ASSUME Init PROVE PipelineInv
  OBVIOUS
<1>1. MarkInv
  BY InitClosed, InitMarks DEF MarkInv
<1>2. BufferTyped
  BY EmptyDagGood DEF Init, BufferTyped, Within, EmptyDag, EmptyStore
<1>3. BookTyped
  BY PipelineAssumption DEF Init, BookTyped
<1>4. \A x \in Actors : actor[x].pc = "idle"
  BY DEF Init, Idle
<1>5. AckHasBlock /\ WorkInv
  BY <1>4 DEF Init, AckHasBlock, WorkInv, DagStored, DagParentless, TaskOK, Actors, NewPc,
              CheckedPc, StoredPc
<1> QED BY <1>1, <1>2, <1>3, <1>5 DEF PipelineInv

\* Every step of the pipeline keeps the invariant.
LEMMA NextPipeline == PipelineInv /\ [Next]_vars => PipelineInv'
<1> SUFFICES ASSUME PipelineInv, [Next]_vars PROVE PipelineInv'
  OBVIOUS
<1>0. MarkInv /\ BufferTyped /\ BookTyped /\ AckHasBlock /\ WorkInv /\ MarkInv'
  BY NextMarks DEF PipelineInv
<1> SUFFICES BufferTyped' /\ BookTyped' /\ AckHasBlock' /\ WorkInv'
  BY <1>0 DEF PipelineInv
<1>1. ASSUME NEW x \in Handlers, NEW b \in Blocks, Receive(x, b)
      PROVE  BufferTyped' /\ BookTyped' /\ AckHasBlock' /\ WorkInv'
  BY <1>0, <1>1, EnqueueWork DEF Actors
<1>2. ASSUME NEW x \in Actors, EnqueueStep(x)
      PROVE  BufferTyped' /\ BookTyped' /\ AckHasBlock' /\ WorkInv'
  BY <1>0, <1>2, EnqueueWork
<1>3. ASSUME NEW t \in Tasks, Spawn(t)
      PROVE  BufferTyped' /\ BookTyped' /\ AckHasBlock' /\ WorkInv'
  BY <1>0, <1>3, SpawnWork
<1>4. ASSUME NEW t \in Tasks, TaskStep(t)
      PROVE  BufferTyped' /\ BookTyped' /\ AckHasBlock' /\ WorkInv'
  BY <1>0, <1>4, TaskWork, TaskBook, TaskAck
<1>5. ASSUME NEW store \in CrashStores, Restart(store)
      PROVE  BufferTyped' /\ BookTyped' /\ AckHasBlock' /\ WorkInv'
  BY <1>0, <1>5, RestartWork
<1>6. ASSUME NEW b \in Blocks, BootPurge(b)
      PROVE  BufferTyped' /\ BookTyped' /\ AckHasBlock' /\ WorkInv'
  BY <1>0, <1>6, BootPurgeWork
<1>7. CASE Dequeue \/ FetchDependencies \/ UNCHANGED vars
               \/ \E b \in Blocks : QuarantineExpires(b)
  BY <1>0, <1>7, OtherWork
<1> QED BY <1>1, <1>2, <1>3, <1>4, <1>5, <1>6, <1>7 DEF Next

\* The invariant holds in every reachable state.
LEMMA SpecPipeline == Spec => []PipelineInv
  BY InitPipeline, NextPipeline, PTL DEF Spec

\* Every reachable state of queue, marks, tasks, buffer, stores and
\* bookkeeping is well typed; in particular no count of missing-dependency
\* attempts reaches its limit.
THEOREM PipelineTyped == Spec => []TypeOK
<1>1. PipelineInv => TypeOK
  BY DEF PipelineInv, MarkInv, ClosedInv, ActorsTyped, OwnInv, BufferTyped, GoodDag, BookTyped,
         TypeOK
<1> QED BY <1>1, SpecPipeline, PTL

\* A block with recorded parents is not being validated, for any number of
\* tasks: the check is made several steps earlier and without a lock, but
\* only the owner of a block's mark adds parents to it.
THEOREM PipelineValidatesReady == Spec => []ValidatedBlocksDoNotWait
<1>1. PipelineInv => ValidatedBlocksDoNotWait
  BY DEF PipelineInv, WorkInv, TaskOK, CheckedPc, ValidatedBlocksDoNotWait, Contains
<1> QED BY <1>1, SpecPipeline, PTL

-----------------------------------------------------------------------------
\* At rest

\* Somebody will scan the buffer before the pipeline rests: a marked block
\* ends in a task, and a task ends with a scan.
Busy ==
    \/ inFlight # {}
    \/ \E x \in Actors \ {Boot} : actor[x].pc \in {"scan", "enqueue"}

\* A block of the DAG that is still in the buffer will be met again.
DagLeaves == \A b \in blockDag \cap buffer.dependencyFree : Busy \/ b \in actor[Boot].todo

\* Before the first crash, so will every block that has become ready.
ReadyWatched ==
    restarts = 0 => actor[Boot] = Idle /\ (DependencyFree # {} => Busy)

\* A step that is not a restart.
LiveStep ==
    \/ \E x \in Handlers, b \in Blocks : Receive(x, b)
    \/ \E x \in Actors : EnqueueStep(x)
    \/ \E t \in Tasks : Spawn(t) \/ TaskStep(t)
    \/ \E b \in Blocks : BootPurge(b)
    \/ Dequeue \/ FetchDependencies \/ (UNCHANGED vars)
    \/ \E b \in Blocks : QuarantineExpires(b)

\* The buffer and all that decides whether a buffered block is ready.
SameReady == UNCHANGED <<buffer, stored, blockDag, restarts>>

\* Who owns a mark keeps the pipeline busy.
LEMMA WorkIsBusy ==
    ASSUME PipelineInv, NEW x \in Actors, Works(x)
    PROVE  actor[x].block \in inFlight
  BY DEF PipelineInv, MarkInv, OwnInv, OwnersMarked

\* The steps of a task other than its scan leave the pipeline busy.
LEMMA TaskBusy ==
    ASSUME PipelineInv, NEW t \in Tasks, TaskStep(t), ~ Scan(t)
    PROVE  Works(t) /\ Busy'
<1>0. /\ t \in Actors \ {Boot} /\ actor \in [Actors -> ActorType] /\ actor[t] \in ActorType
  BY PipelineAssumption DEF PipelineInv, MarkInv, ClosedInv, ActorsTyped, Actors
<1>1. Works(t)
  BY DEF TaskStep, CheckIfOfInterest, CheckIfWellFormedAndStore, CheckDependencies,
         CommitPendant, CommitRelation, RequestDependencies, Validate, InsertIntoDag,
         RemoveAfterInsert, Cleanup, Fail, DropGuard, Works, ProcessingPc
<1>2. CASE DropGuard(t)
  <2>1. actor'[t].pc = "scan"
    BY <1>0, <1>2 DEF DropGuard, ActorType
  <2> QED BY <1>0, <1>1, <2>1 DEF Busy
<1>3. CASE ~ DropGuard(t)
  <2>1. inFlight' = inFlight
    BY <1>3, TaskSameOwners DEF PipelineInv, MarkInv, pipeline
  <2> QED BY <1>0, <1>1, <2>1, WorkIsBusy DEF Busy
<1> QED BY <1>2, <1>3

\* The cap gives a mark back only while there are others.
LEMMA CapBusy ==
    ASSUME PipelineInv, NEW x \in Actors, CheckCap(x)
    PROVE  inFlight' # {}
<1>1. IsFiniteSet(inFlight) /\ actor[x].block \in inFlight
  BY WorkIsBusy DEF CheckCap, Works, PipelineInv, MarkInv, CapInv
<1>2. CASE Cardinality(inFlight) > MaxInFlight
  <2>1. Cardinality(inFlight \ {actor[x].block}) = Cardinality(inFlight) - 1
        /\ Cardinality(inFlight) \in Nat
    BY <1>1, FS_RemoveElement, FS_CardinalityType
  <2>2. Cardinality(inFlight \ {actor[x].block}) # 0
    BY <1>2, <2>1, PipelineAssumption
  <2>3. inFlight \ {actor[x].block} # {}
    BY <2>2, FS_EmptySet
  <2> QED BY <1>2, <2>3 DEF CheckCap
<1>3. CASE ~ (Cardinality(inFlight) > MaxInFlight)
  BY <1>1, <1>3 DEF CheckCap
<1> QED BY <1>2, <1>3

\* A pipeline that is busy stays so until a scan finds nothing ready.
LEMMA BusyLasts ==
    ASSUME PipelineInv, Busy, LiveStep
    PROVE  Busy' \/ (DependencyFree = {} /\ SameReady /\ actor'[Boot] = actor[Boot])
<1>0. /\ actor \in [Actors -> ActorType] /\ Boot \in Actors
      /\ Tasks \cup Handlers = Actors \ {Boot}
  BY PipelineAssumption DEF PipelineInv, MarkInv, ClosedInv, ActorsTyped, Actors
<1>1. ASSUME NEW x \in Handlers, NEW b \in Blocks, Receive(x, b) PROVE Busy'
  <2>1. actor'[x].pc = "enqueue"
    BY <1>0, <1>1 DEF Receive, Idle
  <2> QED BY <1>0, <2>1 DEF Busy
<1>2. ASSUME NEW x \in Actors, EnqueueStep(x) PROVE Busy'
  <2>1. ASSUME NEW b \in Blocks, EnqueueMark(x, b) \/ EnqueueSkip(x, b) PROVE Busy'
    BY <2>1 DEF EnqueueMark, Mark, EnqueueSkip, pipeline, Busy
  <2>2. CASE CheckCap(x)
    BY <2>2, CapBusy DEF Busy
  <2>3. CASE Send(x)
    BY <2>3, WorkIsBusy DEF Send, Works, Busy
  <2>4. CASE AckReceive(x)
    <3>1. \A y \in Actors \ {x} : actor'[y] = actor[y]
      BY <1>0, <2>4 DEF AckReceive
    <3> QED BY <2>4, <3>1 DEF AckReceive, pipeline, Busy
  <2> QED BY <1>2, <2>1, <2>2, <2>3, <2>4 DEF EnqueueStep
<1>3. ASSUME NEW t \in Tasks, Spawn(t) PROVE Busy'
  BY <1>3 DEF Spawn, Busy
<1>4. ASSUME NEW t \in Tasks, TaskStep(t)
      PROVE  Busy' \/ (DependencyFree = {} /\ SameReady /\ actor'[Boot] = actor[Boot])
  <2>1. CASE Scan(t) /\ DependencyFree = {}
    BY <1>0, <2>1 DEF Scan, SameReady, bufferVars
  <2>2. CASE Scan(t) /\ DependencyFree # {}
    <3>1. actor'[t].pc = "enqueue"
      BY <1>0, <2>2 DEF Scan, ActorType
    <3> QED BY <1>0, <3>1 DEF Busy
  <2>3. CASE ~ Scan(t)
    BY <1>4, <2>3, TaskBusy
  <2> QED BY <2>1, <2>2, <2>3
<1>5. ASSUME NEW b \in Blocks, BootPurge(b) PROVE Busy'
  <2>1. inFlight' = inFlight /\ \A y \in Actors \ {Boot} : actor'[y] = actor[y]
    BY <1>0, <1>5 DEF BootPurge, pipeline
  <2> QED BY <2>1 DEF Busy
<1>6. CASE UNCHANGED <<actor, inFlight>>
  BY <1>6 DEF Busy
<1>7. CASE Dequeue \/ FetchDependencies \/ UNCHANGED vars
               \/ \E b \in Blocks : QuarantineExpires(b)
  BY <1>6, <1>7, OtherWork DEF PipelineInv
<1> QED BY <1>1, <1>2, <1>3, <1>4, <1>5, <1>7 DEF LiveStep

\* A pipeline that is not busy is left alone but by the start-up pass.
LEMMA RestLasts ==
    ASSUME PipelineInv, ~ Busy, LiveStep
    PROVE  \/ Busy'
           \/ /\ SameReady /\ actor[Boot].todo \subseteq actor'[Boot].todo
              /\ actor[Boot] = Idle => actor'[Boot] = Idle
           \/ \E b \in Blocks : BootPurge(b)
<1>0. /\ actor \in [Actors -> ActorType] /\ Boot \in Actors /\ actor[Boot] \in ActorType
      /\ Tasks \cup Handlers = Actors \ {Boot} /\ inFlight = {}
  BY PipelineAssumption DEF PipelineInv, MarkInv, ClosedInv, ActorsTyped, Actors, Busy
<1>1. ASSUME NEW x \in Handlers, NEW b \in Blocks, Receive(x, b) PROVE Busy'
  <2>1. actor'[x].pc = "enqueue"
    BY <1>0, <1>1 DEF Receive, Idle
  <2> QED BY <1>0, <2>1 DEF Busy
<1>2. \A x \in Actors : ~ Works(x)
  BY <1>0, WorkIsBusy
<1>3. ASSUME NEW x \in Actors, AckReceive(x)
      PROVE  /\ SameReady /\ actor[Boot].todo \subseteq actor'[Boot].todo
             /\ actor[Boot] = Idle => actor'[Boot] = Idle
  <2>1. SameReady
    BY <1>3 DEF AckReceive, SameReady, bufferVars
  <2>2. CASE x # Boot
    <3>1. actor'[Boot] = actor[Boot]
      BY <1>0, <1>3, <2>2 DEF AckReceive
    <3> QED BY <2>1, <3>1
  <2>3. CASE x = Boot
    <3>1. actor[Boot] # Idle
      BY <1>3, <2>3 DEF AckReceive, Idle
    <3>2. actor[Boot].todo \subseteq EnqueueNext(Boot).todo
      BY <1>0 DEF EnqueueNext, Idle, ActorType
    <3>3. actor'[Boot] = EnqueueNext(Boot)
      BY <1>0, <1>3, <2>3 DEF AckReceive
    <3> QED BY <2>1, <3>1, <3>2, <3>3
  <2> QED BY <2>2, <2>3
<1>4. ASSUME NEW x \in Actors, EnqueueStep(x), ~ AckReceive(x) PROVE Busy'
  BY <1>0, <1>2, <1>4 DEF EnqueueStep, EnqueueMark, Mark, EnqueueSkip, CheckCap, Send, Works, Busy
<1>5. ASSUME NEW t \in Tasks, Spawn(t) PROVE FALSE
  BY <1>0, <1>5 DEF Spawn, PipelineInv, MarkInv, OwnInv, OwnersMarked
<1>6. ASSUME NEW t \in Tasks, TaskStep(t) PROVE FALSE
  <2>1. CASE Scan(t)
    BY <1>0, <2>1 DEF Scan, Busy
  <2>2. CASE ~ Scan(t)
    BY <1>0, <1>2, <1>6, <2>2, TaskBusy
  <2> QED BY <2>1, <2>2
<1>7. CASE Dequeue \/ FetchDependencies \/ UNCHANGED vars
               \/ \E b \in Blocks : QuarantineExpires(b)
  BY <1>7, OtherWork DEF PipelineInv, SameReady, bufferVars
<1> QED BY <1>1, <1>3, <1>4, <1>5, <1>6, <1>7 DEF LiveStep

\* A block of the DAG is buffered only as a pendant, and is then ready.
LEMMA DagBlockReady ==
    ASSUME PipelineInv, NEW b \in blockDag
    PROVE  /\ Active(b) <=> b \in buffer.dependencyFree
           /\ Active(b) => b \in DependencyFree
  BY DEF PipelineInv, WorkInv, DagStored, DagParentless, Active, Contains, IsPendant,
         DependencyFree, MarkInv, ClosedInv, DagClosed

\* DagLeaves and ReadyWatched, through steps of the pipeline and restarts.
LEMMA NextLeaves == PipelineInv /\ DagLeaves /\ [Next]_vars => DagLeaves'
<1> SUFFICES ASSUME PipelineInv, DagLeaves, [Next]_vars, NEW b \in blockDag',
                    b \in buffer'.dependencyFree, ~ Busy'
             PROVE  b \in actor'[Boot].todo
  BY DEF DagLeaves
<1>0. /\ actor \in [Actors -> ActorType] /\ Boot \in Actors /\ actor[Boot] \in ActorType
      /\ GoodDag(buffer)
  BY DEF PipelineInv, MarkInv, ClosedInv, ActorsTyped, Actors, BufferTyped
<1>1. CASE LiveStep /\ Busy
  <2>1. DependencyFree = {} /\ SameReady
    BY <1>1, BusyLasts
  <2>2. b \in blockDag /\ b \in buffer.dependencyFree
    BY <2>1 DEF SameReady
  <2> QED BY <2>1, <2>2, DagBlockReady
<1>2. ASSUME ~ Busy, NEW e \in Blocks, BootPurge(e)
      PROVE  b \in actor'[Boot].todo
  <2>1. b \in blockDag /\ buffer' = DagRemove(buffer, e) /\ e \in Hash
    BY <1>2 DEF BootPurge, BufferRemove, Hash
  <2>2. b # e /\ b \in buffer.dependencyFree
    BY <1>0, <2>1, DagRemoveEffect DEF PipelineInv, WorkInv, DagParentless
  <2>3. b \in actor[Boot].todo
    BY <1>2, <2>1, <2>2 DEF DagLeaves
  <2>4. b \in Skipping(Boot, e).todo
    BY <1>0, <2>2, <2>3 DEF Skipping, ActorType
  <2> QED BY <1>0, <1>2, <2>4 DEF BootPurge
<1>3. CASE LiveStep /\ ~ Busy
  <2>1. CASE SameReady /\ actor[Boot].todo \subseteq actor'[Boot].todo
    BY <1>3, <2>1 DEF DagLeaves, SameReady
  <2> QED BY <1>2, <1>3, <2>1, RestLasts
<1>4. ASSUME NEW store \in CrashStores, Restart(store)
      PROVE  b \in actor'[Boot].todo
  <2> DEFINE pendants == Rebuild(store).dependencyFree \cap stored
             boot == [Idle EXCEPT !.pc = "enqueue", !.todo = pendants]
  <2>1. /\ buffer' = Rebuild(store) /\ blockDag' = blockDag
        /\ actor' = [x \in Actors |-> IF x = Boot /\ pendants # {} THEN boot ELSE Idle]
    BY <1>4 DEF Restart
  <2>2. b \in pendants
    BY <2>1 DEF PipelineInv, WorkInv, DagStored
  <2>3. boot.todo = pendants
    BY DEF Idle
  <2> HIDE DEF boot
  <2> QED BY <1>0, <2>1, <2>2, <2>3
<1> QED BY <1>1, <1>3, <1>4 DEF Next, LiveStep

\* Only a restart counts a restart, and only a restart wakes the start-up pass.
LEMMA LiveKeepsBoot ==
    ASSUME PipelineInv, LiveStep
    PROVE  /\ restarts' = restarts
           /\ actor[Boot] = Idle => actor'[Boot] = Idle
<1>0. /\ actor \in [Actors -> ActorType] /\ Boot \in Actors /\ Idle.pc = "idle"
      /\ Boot \notin Tasks \cup Handlers
  BY PipelineAssumption DEF PipelineInv, MarkInv, ClosedInv, ActorsTyped, Actors, Idle
<1>1. ASSUME NEW x \in Handlers, NEW b \in Blocks, Receive(x, b)
      PROVE  restarts' = restarts /\ actor'[Boot] = actor[Boot]
  BY <1>0, <1>1 DEF Receive
<1>2. ASSUME NEW x \in Actors, EnqueueStep(x)
      PROVE  restarts' = restarts /\ (actor[Boot] = Idle => actor'[Boot] = Idle)
  <2>1. restarts' = restarts /\ actor[x].pc \in {"enqueue", "cap", "send", "ack"}
    BY <1>2 DEF EnqueueStep, EnqueueMark, EnqueueSkip, CheckCap, Send, AckReceive
  <2>2. ASSUME x # Boot PROVE actor'[Boot] = actor[Boot]
    BY <1>0, <1>2, <2>2 DEF EnqueueStep, EnqueueMark, Mark, EnqueueSkip, CheckCap, Send,
                            AckReceive, Goto
  <2> QED BY <1>0, <2>1, <2>2
<1>3. ASSUME NEW t \in Tasks, Spawn(t)
      PROVE  restarts' = restarts /\ actor'[Boot] = actor[Boot]
  BY <1>0, <1>3 DEF Spawn
<1>4. ASSUME NEW t \in Tasks, TaskStep(t)
      PROVE  restarts' = restarts /\ actor'[Boot] = actor[Boot]
  <2>1. t # Boot /\ t \in Actors
    BY <1>0 DEF Actors
  <2>2. restarts' = restarts
    BY <1>4 DEF TaskStep, CheckIfOfInterest, CheckIfWellFormedAndStore, CheckDependencies,
         CommitPendant, CommitRelation, RequestDependencies, Validate, InsertIntoDag,
         RemoveAfterInsert, Cleanup, Fail, DropGuard, Scan
  <2>3. actor'[Boot] = actor[Boot]
    BY <1>0, <1>4, <2>1 DEF TaskStep, CheckIfOfInterest, CheckIfWellFormedAndStore,
         CheckDependencies, CommitPendant, CommitRelation, RequestDependencies, Validate,
         InsertIntoDag, RemoveAfterInsert, Cleanup, Fail, DropGuard, Scan, Goto
  <2> QED BY <2>2, <2>3
<1>5. ASSUME NEW b \in Blocks, BootPurge(b)
      PROVE  restarts' = restarts /\ actor[Boot] # Idle
  BY <1>0, <1>5 DEF BootPurge
<1>6. CASE Dequeue \/ FetchDependencies \/ UNCHANGED vars
               \/ \E b \in Blocks : QuarantineExpires(b)
  BY <1>6, OtherWork DEF PipelineInv
<1> QED BY <1>1, <1>2, <1>3, <1>4, <1>5, <1>6 DEF LiveStep

\* While no restart has happened, a block that becomes ready becomes so in a
\* step of a busy pipeline, which stays busy until a scan finds none.
LEMMA NextWatched == PipelineInv /\ ReadyWatched /\ [Next]_vars => ReadyWatched'
<1> SUFFICES ASSUME PipelineInv, ReadyWatched, [Next]_vars, restarts' = 0
             PROVE  actor'[Boot] = Idle /\ (DependencyFree' # {} => Busy')
  BY DEF ReadyWatched
<1>1. CASE LiveStep
  <2>1. restarts = 0
    BY <1>1, LiveKeepsBoot
  <2>2. actor'[Boot] = Idle
    BY <1>1, <2>1, LiveKeepsBoot DEF ReadyWatched
  <2>3. SameReady => DependencyFree' = DependencyFree
    BY DEF SameReady, DependencyFree, Active, Contains, IsPendant
  <2>4. \A e \in Blocks : ~ BootPurge(e)
    BY <2>1 DEF ReadyWatched, BootPurge, Idle
  <2>5. CASE Busy
    BY <1>1, <2>2, <2>3, <2>5, BusyLasts
  <2>6. CASE ~ Busy
    BY <1>1, <2>1, <2>2, <2>3, <2>4, <2>6, RestLasts DEF ReadyWatched
  <2> QED BY <2>5, <2>6
<1>2. ASSUME NEW store \in CrashStores, Restart(store) PROVE FALSE
  BY <1>2 DEF Restart, PipelineInv, BookTyped
<1> QED BY <1>1, <1>2 DEF Next, LiveStep

\* The pipeline starts at rest with an empty buffer.
LEMMA InitAtRest == Init => DagLeaves /\ ReadyWatched
<1> SUFFICES ASSUME Init PROVE DagLeaves /\ ReadyWatched
  OBVIOUS
<1>1. blockDag = {} /\ DependencyFree = {}
  BY DEF Init, DependencyFree
<1>2. actor[Boot] = Idle
  BY DEF Init, Actors
<1> QED BY <1>1, <1>2 DEF DagLeaves, ReadyWatched

\* Both hold in every reachable state.
LEMMA SpecAtRest == Spec => [](PipelineInv /\ DagLeaves /\ ReadyWatched)
  BY InitPipeline, InitAtRest, NextPipeline, NextLeaves, NextWatched, PTL DEF Spec

\* A pipeline at rest is not busy, and its start-up pass has nothing left.
LEMMA QuiescentRests ==
    ASSUME PipelineInv, Quiescent
    PROVE  ~ Busy /\ actor[Boot].todo = {}
<1>1. /\ \A x \in Actors : actor[x].pc = "idle" /\ actor[x].todo = {}
      /\ Boot \in Actors
  BY DEF Quiescent, Idle, Actors
<1>2. inFlight = {}
  BY <1>1, PipelineAssumption DEF PipelineInv, MarkInv, OwnInv, MarksOwned, Works,
                                  ProcessingPc, Quiescent
<1> QED BY <1>1, <1>2 DEF Busy

\* When the pipeline comes to rest, no block of the DAG is left in the buffer,
\* for any number of tasks, handlers, failing steps and crashes.
THEOREM PipelineResolves == Spec => []ResolvedDependenciesLeaveBuffer
<1>1. PipelineInv /\ DagLeaves => ResolvedDependenciesLeaveBuffer
  BY QuiescentRests, DagBlockReady DEF DagLeaves, ResolvedDependenciesLeaveBuffer
<1> QED BY <1>1, SpecAtRest, PTL

\* A node that has not crashed strands no ready block: when its pipeline comes
\* to rest, every buffered block still waits for a dependency.  After a restart
\* this is false (a block freed by the start-up pass is not offered).
THEOREM PipelineStrandsNothing == Spec => [](restarts = 0 => NothingReadyStranded)
<1>1. PipelineInv /\ ReadyWatched => (restarts = 0 => NothingReadyStranded)
  BY QuiescentRests DEF ReadyWatched, NothingReadyStranded
<1> QED BY <1>1, SpecAtRest, PTL
=============================================================================
