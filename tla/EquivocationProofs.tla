------------------------- MODULE EquivocationProofs -------------------------
(***************************************************************************)
(* Proofs about EquivocationDetector and the BlockDagStorage it inserts    *)
(* into: for every set of blocks, every number of concurrent validations   *)
(* and every number of failed writes and restarts.                         *)
(*                                                                         *)
(* An insert has three outcomes, according to how many of its writes went  *)
(* through (InsertOutcome); every invariant is preserved by each of them.  *)
(* Two further invariants rest on that one: what the past of a validated   *)
(* block holds (HeedInv), and the heights of the valid blocks (HeightInv). *)
(***************************************************************************)
EXTENDS EquivocationDetector, FiniteSetTheorems, TLAPS

PCs == {"idle", "records", "check", "admissible", "record", "insert"}

TaskRecords ==
    [pc : PCs, block : Blocks \cup {None}, dag : SUBSET Blocks,
     latest : Blocks \cup {None}, invalid : BOOLEAN, records : SUBSET Records]

DetectorTyped ==
    /\ tracker \in [RecordKeys -> (SUBSET Blocks) \cup {NoRecord}]
    /\ task \in [Tasks -> TaskRecords]
    /\ raced \subseteq Blocks /\ admitted \subseteq Blocks

\* What is stored is in memory; the genesis block always is.
StoredInDag == Stored \subseteq dagSet /\ Genesis \in Stored

\* A validation works on one block, which is not in the DAG and which no
\* other validation works on.
TasksApart ==
    \A t \in Tasks :
        task[t].pc # "idle" =>
            /\ task[t].block \in Blocks \ dagSet
            /\ \A u \in Tasks \ {t} : task[u].block # task[t].block

IdleHasNoBlock == \A t \in Tasks : task[t].pc = "idle" => task[t].block = None

Base == StorageTypeOK /\ DetectorTyped /\ StoredInDag /\ TasksApart /\ IdleHasNoBlock

\* A validation ends (Finish), or goes on with the same block.
TaskMoves(t) ==
    /\ task' \in [Tasks -> TaskRecords]
    /\ \A u \in Tasks \ {t} : task'[u] = task[u]
    /\ \/ task'[t] = Idle
       \/ task'[t].pc # "idle" /\ task'[t].block = task[t].block

-----------------------------------------------------------------------------
\* The outcomes of insert

\* No metadata was written: the assertion or the first write failed.
NothingStored(b) ==
    /\ UNCHANGED <<metadata, indexes>>
    /\ fate' = fate \/ fate' = [fate EXCEPT ![b] = "lost"]

\* The metadata was written, and perhaps some of the indexes.
SomeStored(b, invalid) ==
    /\ metadata' = [metadata EXCEPT ![b] = IF invalid THEN "invalid" ELSE "valid"]
    /\ deployIndex' \in [Deploys -> Blocks \cup {None}]
    /\ \A d \in Deploys : deployIndex'[d] \in {b, deployIndex[d]}
    /\ \/ invalidBlocks' = invalidBlocks
       \/ invalid /\ invalidBlocks' = invalidBlocks \cup {b}
    /\ \/ latestMessages' = latestMessages /\ fate' = [fate EXCEPT ![b] = "partial"]
       \/ latestMessages' = new_latest_messages(b) /\ fate' = [fate EXCEPT ![b] = "complete"]

InsertOutcome(b, invalid) ==
    /\ b \notin dagSet
    /\ dagSet' = dagSet \cup {b}
    /\ heightMap' \subseteq dagSet'
    /\ up' \in BOOLEAN
    /\ NothingStored(b) \/ SomeStored(b, invalid)

\* The first m writes of insert_internal.
Writes(m) == {WriteOrder[i] : i \in 1..m}

\* The metadata is the first thing written and the latest messages the last.
LEMMA WritesInOrder ==
    ASSUME NEW m \in 0..4
    PROVE  /\ "metadata" \in Writes(m) <=> m >= 1
           /\ "deploys" \in Writes(m) => m >= 1
           /\ "invalid" \in Writes(m) => m >= 1
           /\ "latest" \in Writes(m) <=> m = 4
<1>1. /\ WriteOrder[1] = "metadata" /\ WriteOrder[2] = "deploys"
      /\ WriteOrder[3] = "invalid" /\ WriteOrder[4] = "latest"
  BY DEF WriteOrder
<1>2. \A i \in 1..m : i = 1 \/ i = 2 \/ i = 3 \/ i = 4
  OBVIOUS
<1> QED BY <1>1, <1>2 DEF Writes

\* Whichever write fails, insert has one of the outcomes.
LEMMA InsertHasOutcome ==
    ASSUME StorageTypeOK, NEW b \in Blocks, NEW invalid \in BOOLEAN, NEW n \in 1..5,
           insert(b, invalid, n)
    PROVE  InsertOutcome(b, invalid)
<1> DEFINE m == IF up' THEN n - 1 ELSE 0
           written == Writes(m)
<1>1. up' \in BOOLEAN
  BY DEF insert, validate_dag_state
<1>2. m \in 0..4
  BY <1>1
<1>3. /\ "metadata" \in written <=> m >= 1
      /\ "deploys" \in written => m >= 1
      /\ "invalid" \in written => m >= 1
      /\ "latest" \in written <=> m = 4
  BY <1>2, WritesInOrder
<1>4. /\ b \notin dagSet /\ dagSet' = dagSet \cup {b} /\ heightMap' \subseteq dagSet'
  BY DEF insert, StorageTypeOK
<1>5. /\ metadata' = IF "metadata" \in written
                     THEN [metadata EXCEPT ![b] = IF invalid THEN "invalid" ELSE "valid"]
                     ELSE metadata
      /\ deployIndex' = IF "deploys" \in written
                        THEN [d \in Deploys |-> IF d \in DeploysOf[b] THEN b
                                                ELSE deployIndex[d]]
                        ELSE deployIndex
      /\ invalidBlocks' = IF "invalid" \in written /\ invalid
                          THEN invalidBlocks \cup {b} ELSE invalidBlocks
      /\ latestMessages' = IF "latest" \in written THEN new_latest_messages(b)
                           ELSE latestMessages
      /\ fate' = IF up' THEN [fate EXCEPT ![b] = Fate(written)] ELSE fate
  BY DEF insert, Writes
<1> HIDE DEF written
<1>6. CASE m = 0
  <2>1. "metadata" \notin written /\ "deploys" \notin written
        /\ "invalid" \notin written /\ "latest" \notin written
    BY <1>3, <1>6
  <2>2. Fate(written) = "lost"
    BY <2>1 DEF Fate
  <2> QED BY <1>1, <1>4, <1>5, <2>1, <2>2 DEF InsertOutcome, NothingStored, indexes
<1>7. CASE m >= 1
  <2>1. up' /\ "metadata" \in written
    BY <1>1, <1>3, <1>7
  <2>2. deployIndex' \in [Deploys -> Blocks \cup {None}]
        /\ \A d \in Deploys : deployIndex'[d] \in {b, deployIndex[d]}
    BY <1>5 DEF StorageTypeOK
  <2>3. \/ latestMessages' = latestMessages /\ fate' = [fate EXCEPT ![b] = "partial"]
        \/ latestMessages' = new_latest_messages(b) /\ fate' = [fate EXCEPT ![b] = "complete"]
    BY <1>5, <2>1 DEF Fate
  <2> QED BY <1>1, <1>4, <1>5, <2>1, <2>2, <2>3 DEF InsertOutcome, SomeStored
<1> QED BY <1>2, <1>6, <1>7

-----------------------------------------------------------------------------
\* Typing, and what the steps have in common

\* A sequence number's record exists for every block but the genesis block.
LEMMA KeyOfBlock ==
    ASSUME NEW b \in Blocks, b # Genesis
    PROVE  Key(b) \in RecordKeys
  BY DEF RecordKeys

\* The latest messages stay blocks or None, whatever is inserted.
LEMMA NewLatestTyped ==
    ASSUME StorageTypeOK, NEW b \in Blocks
    PROVE  new_latest_messages(b) \in [Validators -> Blocks \cup {None}]
  BY DEF StorageTypeOK, new_latest_messages

\* An insert keeps the storage well typed and the stored blocks in memory.
LEMMA InsertBase ==
    ASSUME Base, NEW b \in Blocks, NEW invalid \in BOOLEAN, InsertOutcome(b, invalid),
           failures' \in 0..MaxFailures
    PROVE  StorageTypeOK' /\ StoredInDag'
<1>1. CASE NothingStored(b)
  <2>1. StorageTypeOK'
    BY <1>1 DEF InsertOutcome, NothingStored, Base, StorageTypeOK, indexes
  <2>2. StoredInDag'
    BY <1>1 DEF InsertOutcome, NothingStored, Base, StoredInDag, Stored
  <2> QED BY <2>1, <2>2
<1>2. CASE SomeStored(b, invalid)
  <2>1. (latestMessages \in [Validators -> Blocks \cup {None}])'
    BY <1>2, NewLatestTyped DEF SomeStored, Base, StorageTypeOK
  <2>2. StorageTypeOK'
    BY <1>2, <2>1 DEF InsertOutcome, SomeStored, Base, StorageTypeOK
  <2>3. StoredInDag'
    BY <1>2 DEF InsertOutcome, SomeStored, Base, StorageTypeOK, StoredInDag, Stored
  <2> QED BY <2>2, <2>3
<1> QED BY <1>1, <1>2 DEF InsertOutcome

\* The steps of a task keep the tasks apart, provided that what they insert
\* is the task's own block, which the task then gives up.
LEMMA MovesKeepApart ==
    ASSUME Base, NEW t \in Tasks, task[t].pc # "idle", TaskMoves(t),
           \/ dagSet' = dagSet
           \/ dagSet' = dagSet \cup {task[t].block} /\ task'[t] = Idle
    PROVE  TasksApart' /\ IdleHasNoBlock'
<1>1. Idle.pc = "idle" /\ Idle.block = None
  BY DEF Idle
<1>2. None \notin Blocks
  BY DagAssumption
<1>3. ASSUME NEW u \in Tasks, task'[u].pc # "idle"
      PROVE  /\ task'[u].block \in Blocks \ dagSet'
             /\ \A w \in Tasks \ {u} : task'[w].block # task'[u].block
  <2>1. task[u].pc # "idle" /\ task'[u].block = task[u].block
    BY <1>1, <1>3 DEF TaskMoves
  <2>2. \A w \in Tasks : task'[w].block \in {task[w].block, None}
    BY <1>1 DEF TaskMoves
  <2>3. task[u].block \in Blocks \ dagSet
        /\ \A w \in Tasks \ {u} : task[w].block # task[u].block
    BY <2>1 DEF Base, TasksApart
  <2>4. task'[u].block \in Blocks \ dagSet'
    BY <1>1, <1>3, <2>1, <2>3
  <2> QED BY <1>2, <2>1, <2>2, <2>3, <2>4
<1>4. ASSUME NEW u \in Tasks, task'[u].pc = "idle"
      PROVE  task'[u].block = None
  BY <1>1, <1>4 DEF TaskMoves, Base, IdleHasNoBlock
<1> QED BY <1>3, <1>4 DEF TasksApart, IdleHasNoBlock

\* Idle is a task's record.
LEMMA IdleTyped == Idle \in TaskRecords
  BY DEF Idle, TaskRecords, PCs

\* Finish ends a validation.
LEMMA FinishMoves ==
    ASSUME Base, NEW t \in Tasks, Finish(t)
    PROVE  TaskMoves(t) /\ task'[t] = Idle
<1>1. task \in [Tasks -> TaskRecords]
  BY DEF Base, DetectorTyped
<1> QED BY <1>1, IdleTyped DEF Finish, TaskMoves

\* Goto changes the program counter only.
LEMMA GotoMoves ==
    ASSUME Base, NEW t \in Tasks, task[t].pc # "idle", NEW pc \in PCs, pc # "idle", Goto(t, pc)
    PROVE  /\ TaskMoves(t)
           /\ task'[t] = [task[t] EXCEPT !.pc = pc]
<1>1. task \in [Tasks -> TaskRecords]
  BY DEF Base, DetectorTyped
<1>2. task'[t] = [task[t] EXCEPT !.pc = pc] /\ \A u \in Tasks \ {t} : task'[u] = task[u]
  BY <1>1 DEF Goto
<1>3. task' \in [Tasks -> TaskRecords]
  BY <1>1 DEF Goto, TaskRecords
<1> QED BY <1>1, <1>2, <1>3 DEF TaskMoves, TaskRecords

\* The records a task reads are typed.
LEMMA RecordsTyped ==
    ASSUME Base
    PROVE  equivocation_records \subseteq Records
<1> SUFFICES ASSUME NEW rec \in equivocation_records PROVE rec \in Records
  OBVIOUS
<1>1. PICK k \in RecordKeys : tracker[k] # NoRecord /\ rec = [key |-> k, hashes |-> tracker[k]]
  BY DEF equivocation_records
<1>2. tracker[k] \in SUBSET Blocks
  BY <1>1 DEF Base, DetectorTyped
<1> QED BY <1>1, <1>2 DEF Records

\* Typing of the tracker after an update.
LEMMA UpdateTyped ==
    ASSUME Base, NEW rec \in Records, NEW b \in Blocks, update_equivocation_record(rec, b)
    PROVE  /\ tracker' \in [RecordKeys -> (SUBSET Blocks) \cup {NoRecord}]
           /\ \A k \in RecordKeys : tracker[k] # NoRecord => tracker'[k] # NoRecord
<1>1. rec.key \in RecordKeys /\ rec.hashes \cup {b} \in SUBSET Blocks
  BY DEF Records
<1> QED BY <1>1, DetectorAssumption DEF update_equivocation_record, Base, DetectorTyped

-----------------------------------------------------------------------------
\* Base, action by action

\* The approved block alone, no validation under way.
LEMMA InitBase == Init => Base
<1> SUFFICES ASSUME Init PROVE Base
  OBVIOUS
<1>1. StorageTypeOK /\ StoredInDag
  BY DagAssumption DEF Init, StorageInit, StorageTypeOK, StoredInDag, Stored
<1>2. DetectorTyped
  <2>1. task \in [Tasks -> TaskRecords]
    BY IdleTyped DEF Init
  <2>2. tracker \in [RecordKeys -> (SUBSET Blocks) \cup {NoRecord}]
    BY DEF Init
  <2> QED BY <2>1, <2>2 DEF Init, DetectorTyped
<1>3. \A t \in Tasks : task[t].pc = "idle" /\ task[t].block = None
  BY DEF Init, Idle
<1> QED BY <1>1, <1>2, <1>3 DEF Base, TasksApart, IdleHasNoBlock

\* A new validation takes up a block nobody else has, outside the DAG.
LEMMA StartBase ==
    ASSUME Base, NEW t \in Tasks, NEW b \in Blocks, Start(t, b)
    PROVE  /\ Base' /\ b \notin dagSet
           /\ \A u \in Tasks \ {t} : task'[u] = task[u]
           /\ task'[t].block = b
           /\ \/ task'[t].pc = "insert" /\ task'[t].invalid = TRUE
              \/ task'[t].pc = "records" /\ task'[t].invalid = FALSE
<1> DEFINE neglected == neglected_invalid_block(b, dagSet)
           r == [pc |-> IF neglected THEN "insert" ELSE "records",
                 block |-> b, dag |-> dagSet, latest |-> latestMessages[Sender[b]],
                 invalid |-> neglected, records |-> {}]
<1>1. task' = [task EXCEPT ![t] = r] /\ task[t].pc = "idle" /\ b \notin dagSet
      /\ \A u \in Tasks : task[u].block # b
  BY DEF Start
<1>2. neglected \in BOOLEAN
  BY DEF neglected_invalid_block
<1>3. b # Genesis
  BY <1>1 DEF Base, StoredInDag
<1>4. latestMessages[Sender[b]] \in Blocks \cup {None}
  <2>1. Sender[b] \in Validators
    BY <1>3, DagAssumption
  <2> QED BY <2>1 DEF Base, StorageTypeOK
<1>5. r \in TaskRecords /\ r.block = b
      /\ ((r.pc = "insert" /\ r.invalid = TRUE) \/ (r.pc = "records" /\ r.invalid = FALSE))
  <2>1. dagSet \subseteq Blocks
    BY DEF Base, StorageTypeOK
  <2>2. CASE neglected
    <3>1. r = [pc |-> "insert", block |-> b, dag |-> dagSet,
               latest |-> latestMessages[Sender[b]], invalid |-> TRUE, records |-> {}]
      BY <2>2, <1>2, Zenon
    <3> HIDE DEF r
    <3>2. r \in TaskRecords
      BY <3>1, <1>4, <2>1 DEF TaskRecords, PCs
    <3> QED BY <3>1, <3>2
  <2>3. CASE ~neglected
    <3>1. r = [pc |-> "records", block |-> b, dag |-> dagSet,
               latest |-> latestMessages[Sender[b]], invalid |-> FALSE, records |-> {}]
      <4>1. neglected = FALSE
        <5> HIDE DEF neglected
        <5> QED BY <2>3, <1>2, Zenon
      <4> HIDE DEF neglected
      <4> QED BY <4>1
    <3> HIDE DEF r
    <3>2. r \in TaskRecords
      BY <3>1, <1>4, <2>1 DEF TaskRecords, PCs
    <3> QED BY <3>1, <3>2
  <2> QED BY <2>2, <2>3
<1> HIDE DEF r
<1>6. /\ task' \in [Tasks -> TaskRecords] /\ task'[t] = r
      /\ \A u \in Tasks \ {t} : task'[u] = task[u]
  BY <1>1, <1>5 DEF Base, DetectorTyped
<1>7. DetectorTyped'
  BY <1>6 DEF Start, Base, DetectorTyped
<1>8. StorageTypeOK' /\ StoredInDag'
  BY DEF Start, storage, memory, indexes, Base, StorageTypeOK, StoredInDag, Stored
<1>9. TasksApart' /\ IdleHasNoBlock'
  <2>1. dagSet' = dagSet
    BY DEF Start, storage, memory
  <2>2. r.pc # "idle" /\ r.block = b
    BY <1>5
  <2>3. TasksApart /\ IdleHasNoBlock
    BY DEF Base
  <2> QED BY <1>1, <1>6, <2>1, <2>2, <2>3 DEF TasksApart, IdleHasNoBlock
<1> QED BY <1>1, <1>5, <1>6, <1>7, <1>8, <1>9 DEF Base

\* What every step of a validation that does not insert does: the task moves,
\* the storage is unchanged but for the count of failures, no record is lost.
QuietStep(t) ==
    /\ task[t].pc # "idle" /\ TaskMoves(t)
    /\ UNCHANGED <<metadata, memory, indexes, up, fate, raced>>
    /\ failures' \in 0..MaxFailures
    /\ tracker' \in [RecordKeys -> (SUBSET Blocks) \cup {NoRecord}]
    /\ \A k \in RecordKeys : tracker[k] # NoRecord => tracker'[k] # NoRecord

\* A quiet step keeps the base.
LEMMA QuietBase ==
    ASSUME Base, NEW t \in Tasks, QuietStep(t), admitted' \subseteq Blocks
    PROVE  Base'
<1>1. StorageTypeOK' /\ StoredInDag'
  BY DEF QuietStep, memory, indexes, Base, StorageTypeOK, StoredInDag, Stored
<1>2. dagSet' = dagSet
  BY DEF QuietStep, memory
<1>3. TasksApart' /\ IdleHasNoBlock'
  BY <1>2, MovesKeepApart DEF QuietStep
<1>4. DetectorTyped'
  BY DEF QuietStep, TaskMoves, Base, DetectorTyped
<1> QED BY <1>1, <1>3, <1>4 DEF Base

\* A task that goes on keeps the representation it has taken.
Kept(t) == task'[t].block = task[t].block /\ task'[t].latest = task[t].latest

\* is_neglected_equivocation_detected_with_update reads the records.
LEMMA ReadRecordsQuiet ==
    ASSUME Base, NEW t \in Tasks, ReadRecords(t)
    PROVE  /\ QuietStep(t) /\ Kept(t) /\ admitted' = admitted
           /\ task[t].pc = "records" /\ task'[t].pc = "check"
<1> DEFINE r == [task[t] EXCEPT !.pc = "check", !.records = equivocation_records]
<1>1. task \in [Tasks -> TaskRecords] /\ task[t] \in TaskRecords
  BY DEF Base, DetectorTyped
<1>2. task' = [task EXCEPT ![t] = r] /\ task[t].pc = "records"
  BY <1>1 DEF ReadRecords
<1>3. r \in TaskRecords /\ r.pc = "check" /\ r.block = task[t].block /\ r.latest = task[t].latest
  BY <1>1, RecordsTyped DEF TaskRecords, PCs
<1> HIDE DEF r
<1>4. TaskMoves(t) /\ task'[t] = r
  BY <1>1, <1>2, <1>3 DEF TaskMoves
<1> QED BY <1>2, <1>3, <1>4 DEF ReadRecords, storage, memory, indexes, QuietStep, Kept, Base,
                               StorageTypeOK, DetectorTyped

\* update_equivocations_tracker ends the validation, or refuses the block, or
\* goes on to the next record.
LEMMA CheckRecordQuiet ==
    ASSUME Base, NEW t \in Tasks, NEW rec \in task[t].records, CheckRecord(t, rec)
    PROVE  /\ QuietStep(t) /\ admitted' = admitted /\ task[t].pc = "check"
           /\ \/ task'[t] = Idle
              \/ task'[t].pc = "insert" /\ task'[t].invalid = TRUE
              \/ task'[t].pc = "check" /\ Kept(t)
<1>1. task \in [Tasks -> TaskRecords] /\ task[t] \in TaskRecords /\ task[t].pc = "check"
  BY DEF Base, DetectorTyped, CheckRecord
<1>2. rec \in Records /\ task[t].block \in Blocks
  BY <1>1 DEF TaskRecords, Base, TasksApart
<1>3. /\ UNCHANGED <<metadata, memory, indexes, up, fate, raced>>
      /\ failures' \in 0..MaxFailures /\ admitted' = admitted
  BY DEF CheckRecord, storage, Base, StorageTypeOK
<1>4. \/ task' = [task EXCEPT ![t].pc = "insert", ![t].invalid = TRUE, ![t].records = {}]
      \/ task' = [task EXCEPT ![t].records = @ \ {rec}]
      \/ Finish(t)
  BY DEF CheckRecord
<1>5. tracker' = tracker \/ update_equivocation_record(rec, task[t].block)
  BY DEF CheckRecord
<1>6. /\ tracker' \in [RecordKeys -> (SUBSET Blocks) \cup {NoRecord}]
      /\ \A k \in RecordKeys : tracker[k] # NoRecord => tracker'[k] # NoRecord
  BY <1>2, <1>5, UpdateTyped DEF Base, DetectorTyped
<1>7. /\ TaskMoves(t)
      /\ \/ task'[t] = Idle
         \/ task'[t].pc = "insert" /\ task'[t].invalid = TRUE
         \/ task'[t].pc = "check" /\ Kept(t)
  <2>1. CASE Finish(t)
    BY <2>1, FinishMoves
  <2>2. CASE task' = [task EXCEPT ![t].pc = "insert", ![t].invalid = TRUE, ![t].records = {}]
    <3> DEFINE r == [task[t] EXCEPT !.pc = "insert", !.invalid = TRUE, !.records = {}]
    <3>1. task' = [task EXCEPT ![t] = r]
      BY <1>1, <2>2
    <3>2. r \in TaskRecords /\ r.pc = "insert" /\ r.block = task[t].block /\ r.invalid = TRUE
      BY <1>1 DEF TaskRecords, PCs
    <3> HIDE DEF r
    <3> QED BY <1>1, <3>1, <3>2 DEF TaskMoves
  <2>3. CASE task' = [task EXCEPT ![t].records = @ \ {rec}]
    <3> DEFINE r == [task[t] EXCEPT !.records = @ \ {rec}]
    <3>1. task' = [task EXCEPT ![t] = r]
      BY <1>1, <2>3
    <3>2. r \in TaskRecords /\ r.pc = "check" /\ r.block = task[t].block
          /\ r.latest = task[t].latest
      BY <1>1 DEF TaskRecords, PCs
    <3> HIDE DEF r
    <3> QED BY <1>1, <3>1, <3>2 DEF TaskMoves, Kept
  <2> QED BY <1>4, <2>1, <2>2, <2>3
<1> QED BY <1>1, <1>3, <1>6, <1>7 DEF QuietStep

\* check_equivocations lets a block through as valid only if it names its
\* sender's latest message of the snapshot.
LEMMA CheckEquivocationsQuiet ==
    ASSUME Base, NEW t \in Tasks, NEW requested \in BOOLEAN, CheckEquivocations(t, requested)
    PROVE  /\ QuietStep(t) /\ task[t].pc = "check"
           /\ \/ /\ task'[t].pc = "insert" /\ Kept(t) /\ admitted' = admitted
                 /\ Justifications[task[t].block][Sender[task[t].block]] = task[t].latest
              \/ /\ task'[t].pc = "admissible" /\ task'[t].invalid = TRUE
                 /\ admitted' = admitted \cup {task[t].block}
              \/ task'[t] = Idle /\ admitted' = admitted
<1>1. task \in [Tasks -> TaskRecords] /\ task[t] \in TaskRecords /\ task[t].pc = "check"
  BY DEF Base, DetectorTyped, CheckEquivocations
<1>2. /\ UNCHANGED <<metadata, memory, indexes, up, fate, raced, tracker>>
      /\ failures' \in 0..MaxFailures
  BY DEF CheckEquivocations, storage, Base, StorageTypeOK
<1>3. /\ tracker' \in [RecordKeys -> (SUBSET Blocks) \cup {NoRecord}]
      /\ \A k \in RecordKeys : tracker[k] # NoRecord => tracker'[k] # NoRecord
  BY <1>2 DEF Base, DetectorTyped
<1>4. CASE /\ ~is_equivocation(t, requested) /\ Goto(t, "insert") /\ admitted' = admitted
  <2>1. "insert" \in PCs
    BY DEF PCs
  <2>2. TaskMoves(t) /\ task'[t] = [task[t] EXCEPT !.pc = "insert"]
    BY <1>1, <1>4, <2>1, GotoMoves
  <2>3. task'[t].pc = "insert" /\ Kept(t)
    BY <1>1, <2>2 DEF Kept, TaskRecords
  <2> QED BY <1>1, <1>2, <1>3, <1>4, <2>2, <2>3 DEF QuietStep, is_equivocation
<1>5. CASE /\ task' = [task EXCEPT ![t].pc = "admissible", ![t].invalid = TRUE]
           /\ admitted' = admitted \cup {task[t].block}
  <2> DEFINE r == [task[t] EXCEPT !.pc = "admissible", !.invalid = TRUE]
  <2>1. task' = [task EXCEPT ![t] = r]
    BY <1>1, <1>5
  <2>2. r \in TaskRecords /\ r.pc = "admissible" /\ r.block = task[t].block /\ r.invalid = TRUE
    BY <1>1 DEF TaskRecords, PCs
  <2> HIDE DEF r
  <2> QED BY <1>1, <1>2, <1>3, <1>5, <2>1, <2>2 DEF TaskMoves, QuietStep
<1>6. CASE Finish(t) /\ admitted' = admitted
  BY <1>1, <1>2, <1>3, <1>6, FinishMoves DEF QuietStep
<1> QED BY <1>4, <1>5, <1>6 DEF CheckEquivocations

\* handle_invalid_block goes straight to the insert only if the record exists.
LEMMA FindRecordQuiet ==
    ASSUME Base, NEW t \in Tasks, FindRecord(t)
    PROVE  /\ QuietStep(t) /\ Kept(t) /\ admitted' = admitted /\ tracker' = tracker
           /\ task[t].pc = "admissible" /\ task'[t].invalid = task[t].invalid
           /\ \/ task'[t].pc = "insert" /\ tracker[Key(task[t].block)] # NoRecord
              \/ task'[t].pc = "record"
<1>1. task \in [Tasks -> TaskRecords] /\ task[t] \in TaskRecords /\ task[t].pc = "admissible"
  BY DEF Base, DetectorTyped, FindRecord
<1>2. /\ UNCHANGED <<metadata, memory, indexes, up, fate, raced, tracker, admitted>>
      /\ failures' \in 0..MaxFailures
  BY DEF FindRecord, storage, Base, StorageTypeOK
<1>3. PICK pc \in {"insert", "record"} :
         Goto(t, pc) /\ (pc = "insert" => tracker[Key(task[t].block)] # NoRecord)
  BY DEF FindRecord, record_exists
<1>4. TaskMoves(t) /\ task'[t] = [task[t] EXCEPT !.pc = pc]
  BY <1>1, <1>3, GotoMoves DEF PCs
<1>5. task'[t].pc = pc /\ Kept(t) /\ task'[t].invalid = task[t].invalid
  BY <1>1, <1>4 DEF Kept, TaskRecords
<1>6. /\ tracker' \in [RecordKeys -> (SUBSET Blocks) \cup {NoRecord}]
      /\ \A k \in RecordKeys : tracker[k] # NoRecord => tracker'[k] # NoRecord
  BY <1>2 DEF Base, DetectorTyped
<1>7. QuietStep(t)
  BY <1>1, <1>2, <1>4, <1>6 DEF QuietStep
<1> QED BY <1>1, <1>2, <1>3, <1>5, <1>7

\* handle_invalid_block creates the record before the insert.
LEMMA InsertRecordQuiet ==
    ASSUME Base, NEW t \in Tasks, insert_equivocation_record(t)
    PROVE  /\ QuietStep(t) /\ Kept(t) /\ admitted' = admitted
           /\ task[t].pc = "record" /\ task'[t].pc = "insert"
           /\ task'[t].invalid = task[t].invalid
           /\ tracker'[Key(task[t].block)] # NoRecord
<1>1. task \in [Tasks -> TaskRecords] /\ task[t] \in TaskRecords /\ task[t].pc = "record"
  BY DEF Base, DetectorTyped, insert_equivocation_record
<1>2. /\ UNCHANGED <<metadata, memory, indexes, up, fate, raced, admitted>>
      /\ failures' \in 0..MaxFailures
  BY DEF insert_equivocation_record, storage, Base, StorageTypeOK
<1>3. TaskMoves(t) /\ task'[t] = [task[t] EXCEPT !.pc = "insert"]
  <2>1. "insert" \in PCs
    BY DEF PCs
  <2> QED BY <1>1, <2>1, GotoMoves DEF insert_equivocation_record
<1>4. task'[t].pc = "insert" /\ Kept(t) /\ task'[t].invalid = task[t].invalid
  BY <1>1, <1>3 DEF Kept, TaskRecords
<1>5. Key(task[t].block) \in RecordKeys
  <2>1. task[t].block \in Blocks /\ task[t].block # Genesis
    BY <1>1 DEF Base, TasksApart, StoredInDag
  <2> QED BY <2>1, KeyOfBlock
<1>6. /\ tracker' \in [RecordKeys -> (SUBSET Blocks) \cup {NoRecord}]
      /\ tracker'[Key(task[t].block)] # NoRecord
      /\ \A k \in RecordKeys : tracker[k] # NoRecord => tracker'[k] # NoRecord
  BY <1>5, DetectorAssumption DEF insert_equivocation_record, Base, DetectorTyped
<1>7. QuietStep(t)
  BY <1>1, <1>2, <1>3, <1>6 DEF QuietStep
<1> QED BY <1>1, <1>2, <1>4, <1>6, <1>7

\* A failed write of the tracker ends the validation.
LEMMA TrackerFailsQuiet ==
    ASSUME Base, NEW t \in Tasks, TrackerFails(t)
    PROVE  QuietStep(t) /\ task'[t] = Idle /\ admitted' = admitted
<1>1. task[t].pc # "idle" /\ TaskMoves(t) /\ task'[t] = Idle
  BY FinishMoves DEF TrackerFails
<1>2. failures' \in 0..MaxFailures
  BY DagAssumption DEF TrackerFails, Base, StorageTypeOK
<1> QED BY <1>1, <1>2 DEF TrackerFails, QuietStep, Base, DetectorTyped

\* The insert of a task's block, in full or up to a failing write.
InsertStep(t) ==
    /\ task[t].pc = "insert" /\ TaskMoves(t) /\ task'[t] = Idle
    /\ InsertOutcome(task[t].block, task[t].invalid)
    /\ failures' \in 0..MaxFailures
    /\ NoteRace(t)
    /\ UNCHANGED <<tracker, admitted>>

\* InsertBlock and InsertFails are insert steps.
LEMMA InsertBlockStep ==
    ASSUME Base, NEW t \in Tasks, InsertBlock(t) \/ \E n \in 1..4 : InsertFails(t, n)
    PROVE  InsertStep(t)
<1>1. task[t].pc = "insert" /\ Finish(t) /\ NoteRace(t) /\ UNCHANGED <<tracker, admitted>>
  BY DEF InsertBlock, InsertFails
<1>2. TaskMoves(t) /\ task'[t] = Idle
  BY <1>1, FinishMoves
<1>3. task[t].block \in Blocks /\ task[t].invalid \in BOOLEAN
  BY <1>1 DEF Base, TasksApart, DetectorTyped, TaskRecords
<1>4. PICK n \in 1..5 : insert(task[t].block, task[t].invalid, n)
  BY DEF InsertBlock, InsertFails
<1>5. InsertOutcome(task[t].block, task[t].invalid)
  BY <1>3, <1>4, InsertHasOutcome DEF Base
<1>6. failures' \in 0..MaxFailures
  BY DagAssumption DEF InsertBlock, InsertFails, Base, StorageTypeOK
<1> QED BY <1>1, <1>2, <1>5, <1>6 DEF InsertStep

\* An insert keeps the base.
LEMMA InsertStepBase ==
    ASSUME Base, NEW t \in Tasks, InsertStep(t)
    PROVE  Base'
<1>1. task[t].block \in Blocks /\ task[t].invalid \in BOOLEAN
  BY DEF InsertStep, Base, TasksApart, DetectorTyped, TaskRecords
<1>2. StorageTypeOK' /\ StoredInDag'
  BY <1>1, InsertBase DEF InsertStep
<1>3. TasksApart' /\ IdleHasNoBlock'
  BY MovesKeepApart DEF InsertStep, InsertOutcome
<1>4. raced' \subseteq Blocks
  BY <1>1 DEF InsertStep, NoteRace, Base, DetectorTyped
<1>5. DetectorTyped'
  BY <1>4 DEF InsertStep, TaskMoves, Base, DetectorTyped
<1> QED BY <1>2, <1>3, <1>5 DEF Base

\* A restart keeps the base, and ends every validation.
LEMMA RestartBase ==
    ASSUME Base, Restart
    PROVE  Base' /\ \A t \in Tasks : task'[t] = Idle
<1>1. \A t \in Tasks : task'[t] = Idle /\ Idle.pc = "idle" /\ Idle.block = None
  BY DEF Restart, Idle
<1>2. task' \in [Tasks -> TaskRecords]
  BY IdleTyped DEF Restart
<1>3. TasksApart' /\ IdleHasNoBlock'
  BY <1>1 DEF TasksApart, IdleHasNoBlock
<1>4. up' \in BOOLEAN
  BY DEF Restart, Rebuild, validate_dag_state
<1>5. StorageTypeOK'
  BY <1>4 DEF Restart, Rebuild, Base, StorageTypeOK, Stored, indexes
<1>6. StoredInDag'
  BY DEF Restart, Rebuild, Base, StorageTypeOK, StoredInDag, Stored
<1>7. DetectorTyped'
  BY <1>2 DEF Restart, Base, DetectorTyped
<1> QED BY <1>1, <1>3, <1>5, <1>6, <1>7 DEF Base

-----------------------------------------------------------------------------
\* The inductive invariant

\* Only an invalid block reaches the insert without having named its sender's
\* latest message of the snapshot.
ValidNamesLatest ==
    \A t \in Tasks :
        /\ task[t].pc \in {"admissible", "record"} => task[t].invalid
        /\ task[t].pc = "insert" /\ ~task[t].invalid =>
              Justifications[task[t].block][Sender[task[t].block]] = task[t].latest

\* The way of an admissible equivocation to the insert: past the record.
AdmittedOnItsWay ==
    \A t \in Tasks :
        task[t].pc # "idle" /\ task[t].block \in admitted =>
            /\ task[t].pc \in {"admissible", "record", "insert"}
            /\ task[t].pc = "insert" => tracker[Key(task[t].block)] # NoRecord

\* How far the insert of a stored block got.
StoredFate == \A b \in Stored \ {Genesis} : fate[b] \in {"partial", "complete"}

StorageInv ==
    /\ StoredFate /\ IndexesNameStoredBlocks /\ LatestMessageIsHighest
    /\ ValidSiblingsOnlyByRace

IInv ==
    /\ Base /\ ValidNamesLatest /\ AdmittedOnItsWay /\ AdmissibleIsRecorded /\ StorageInv
    /\ Genesis \notin admitted

\* A step that leaves the storage alone keeps what is said of it.
LEMMA StorageUnchanged ==
    ASSUME StorageInv, UNCHANGED <<metadata, indexes, fate, raced>>
    PROVE  StorageInv'
<1>1. Stored' = Stored
  BY DEF Stored
<1>2. StoredFate' /\ IndexesNameStoredBlocks' /\ LatestMessageIsHighest'
  BY <1>1 DEF StorageInv, StoredFate, IndexesNameStoredBlocks, LatestMessageIsHighest, indexes
<1>3. ValidSiblingsOnlyByRace'
  BY DEF StorageInv, ValidSiblingsOnlyByRace
<1> QED BY <1>2, <1>3 DEF StorageInv

\* The other tasks after a quiet step of t.
LEMMA QuietOthers ==
    ASSUME IInv, NEW t \in Tasks, QuietStep(t), admitted' \subseteq admitted \cup {task[t].block},
           NEW u \in Tasks, u # t
    PROVE  /\ task'[u].pc \in {"admissible", "record"} => task'[u].invalid
           /\ task'[u].pc = "insert" /\ ~task'[u].invalid =>
                 Justifications[task'[u].block][Sender[task'[u].block]] = task'[u].latest
           /\ task'[u].pc # "idle" /\ task'[u].block \in admitted' =>
                 /\ task'[u].pc \in {"admissible", "record", "insert"}
                 /\ task'[u].pc = "insert" => tracker'[Key(task'[u].block)] # NoRecord
<1>1. task'[u] = task[u]
  BY DEF QuietStep, TaskMoves
<1>2. ASSUME task[u].pc # "idle", task[u].block \in admitted'
      PROVE  /\ task[u].pc \in {"admissible", "record", "insert"}
             /\ task[u].pc = "insert" => tracker'[Key(task[u].block)] # NoRecord
  <2>1. task[u].block # task[t].block /\ task[u].block \in Blocks /\ task[u].block # Genesis
    BY <1>2 DEF IInv, Base, TasksApart, QuietStep, StoredInDag
  <2>2. Key(task[u].block) \in RecordKeys
    BY <2>1, KeyOfBlock
  <2> QED BY <1>2, <2>1, <2>2 DEF IInv, AdmittedOnItsWay, QuietStep
<1> QED BY <1>1, <1>2 DEF IInv, ValidNamesLatest

\* A quiet step keeps the records of the admissible equivocations stored.
LEMMA QuietRecorded ==
    ASSUME IInv, NEW t \in Tasks, QuietStep(t), admitted' \subseteq admitted \cup {task[t].block}
    PROVE  AdmissibleIsRecorded'
<1> SUFFICES ASSUME NEW b \in admitted', b \in dagSet'
             PROVE  tracker'[Key(b)] # NoRecord
  BY DEF AdmissibleIsRecorded
<1>1. b \in dagSet
  BY DEF QuietStep, memory
<1>2. task[t].block \notin dagSet
  BY DEF QuietStep, IInv, Base, TasksApart
<1>3. b \in admitted /\ b \in Blocks
  BY <1>1, <1>2 DEF IInv, Base, DetectorTyped
<1>4. tracker[Key(b)] # NoRecord
  BY <1>1, <1>3 DEF IInv, AdmissibleIsRecorded
<1>5. Key(b) \in RecordKeys
  BY <1>3, KeyOfBlock DEF IInv
<1> QED BY <1>4, <1>5 DEF QuietStep

\* What is left to show of a quiet step: its own task.
LEMMA QuietPreserves ==
    ASSUME IInv, NEW t \in Tasks, QuietStep(t), admitted' \subseteq admitted \cup {task[t].block},
           /\ task'[t].pc \in {"admissible", "record"} => task'[t].invalid
           /\ task'[t].pc = "insert" /\ ~task'[t].invalid =>
                 Justifications[task'[t].block][Sender[task'[t].block]] = task'[t].latest
           /\ task'[t].pc # "idle" /\ task'[t].block \in admitted' =>
                 /\ task'[t].pc \in {"admissible", "record", "insert"}
                 /\ task'[t].pc = "insert" => tracker'[Key(task'[t].block)] # NoRecord
    PROVE  IInv'
<1>1. task[t].block \in Blocks /\ task[t].block # Genesis
  BY DEF QuietStep, IInv, Base, TasksApart, StoredInDag
<1>2. admitted' \subseteq Blocks /\ Genesis \notin admitted'
  BY <1>1 DEF IInv, Base, DetectorTyped
<1>3. Base'
  BY <1>2, QuietBase DEF IInv
<1>4. ValidNamesLatest' /\ AdmittedOnItsWay'
  BY QuietOthers DEF ValidNamesLatest, AdmittedOnItsWay
<1>5. AdmissibleIsRecorded'
  BY QuietRecorded
<1>6. StorageInv'
  BY StorageUnchanged DEF IInv, QuietStep
<1> QED BY <1>2, <1>3, <1>4, <1>5, <1>6 DEF IInv

\* A validation that starts anew forgets what the last one found of the block.
LEMMA StartPreserves ==
    ASSUME IInv, NEW t \in Tasks, NEW b \in Blocks, Start(t, b)
    PROVE  IInv'
<1>1. /\ Base' /\ b \notin dagSet
      /\ \A u \in Tasks \ {t} : task'[u] = task[u]
      /\ task'[t].block = b
      /\ \/ task'[t].pc = "insert" /\ task'[t].invalid = TRUE
         \/ task'[t].pc = "records" /\ task'[t].invalid = FALSE
  BY StartBase DEF IInv
<1>2. admitted' = admitted \ {b} /\ UNCHANGED <<storage, tracker, raced>>
  BY DEF Start
<1>3. ValidNamesLatest'
  BY <1>1 DEF ValidNamesLatest, IInv
<1>4. AdmittedOnItsWay'
  BY <1>1, <1>2 DEF AdmittedOnItsWay, IInv
<1>5. AdmissibleIsRecorded'
  BY <1>2 DEF AdmissibleIsRecorded, IInv, storage, memory
<1>6. StorageInv'
  BY <1>2, StorageUnchanged DEF IInv, storage
<1> QED BY <1>1, <1>2, <1>3, <1>4, <1>5, <1>6 DEF IInv

\* The DAG state rebuilt from the stored metadata holds nothing new.
LEMMA RestartPreserves ==
    ASSUME IInv, Restart
    PROVE  IInv'
<1>1. Base' /\ \A t \in Tasks : task'[t] = Idle
  BY RestartBase DEF IInv
<1>2. Idle.pc = "idle"
  BY DEF Idle
<1>3. ValidNamesLatest' /\ AdmittedOnItsWay'
  BY <1>1, <1>2 DEF ValidNamesLatest, AdmittedOnItsWay
<1>4. AdmissibleIsRecorded'
  BY DEF AdmissibleIsRecorded, IInv, Restart, Rebuild, Base, StoredInDag
<1>5. StorageInv'
  BY StorageUnchanged DEF IInv, Restart, Rebuild
<1> QED BY <1>1, <1>3, <1>4, <1>5 DEF IInv, Restart

-----------------------------------------------------------------------------
\* The insert

\* The indexes name stored blocks after every outcome, because the metadata
\* is written first.
LEMMA InsertIndexes ==
    ASSUME IInv, NEW b \in Blocks, NEW invalid \in BOOLEAN, InsertOutcome(b, invalid)
    PROVE  IndexesNameStoredBlocks' /\ StoredFate'
<1>1. b \notin Stored
  BY DEF InsertOutcome, IInv, Base, StoredInDag
<1>2. CASE NothingStored(b)
  <2>1. Stored' = Stored /\ metadata' = metadata
    BY <1>2 DEF NothingStored, Stored
  <2>2. IndexesNameStoredBlocks'
    BY <1>2, <2>1 DEF NothingStored, indexes, IInv, StorageInv, IndexesNameStoredBlocks
  <2>3. StoredFate'
    BY <1>1, <1>2, <2>1
    DEF NothingStored, IInv, StorageInv, StoredFate, Base, StorageTypeOK, Stored
  <2> QED BY <2>2, <2>3
<1>3. CASE SomeStored(b, invalid)
  <2>1. /\ metadata \in [Blocks -> {"absent", "valid", "invalid"}]
        /\ latestMessages \in [Validators -> Blocks \cup {None}]
        /\ fate \in [Blocks -> {"none", "lost", "partial", "complete"}]
    BY DEF IInv, Base, StorageTypeOK
  <2>2. Stored' = Stored \cup {b}
    BY <1>3, <2>1 DEF SomeStored, Stored
  <2>3. (invalidBlocks \subseteq {c \in Blocks : metadata[c] = "invalid"})'
    BY <1>1, <1>3, <2>1 DEF SomeStored, Stored, IInv, StorageInv, IndexesNameStoredBlocks
  <2>4. \A v \in Validators : latestMessages'[v] \in Stored' \cup {None}
    BY <1>3, <2>1, <2>2
    DEF SomeStored, new_latest_messages, IInv, StorageInv, IndexesNameStoredBlocks
  <2>5. \A d \in Deploys : deployIndex'[d] \in Stored' \cup {None}
    BY <1>3, <2>2 DEF SomeStored, IInv, StorageInv, IndexesNameStoredBlocks
  <2>6. StoredFate'
    <3>1. Stored \subseteq Blocks
      BY DEF Stored
    <3> QED BY <1>1, <1>3, <2>1, <2>2, <3>1 DEF SomeStored, IInv, StorageInv, StoredFate
  <2> QED BY <2>3, <2>4, <2>5, <2>6 DEF IndexesNameStoredBlocks
<1> QED BY <1>2, <1>3 DEF InsertOutcome

\* A complete insert is never behind the latest message it leaves, and it
\* does not set back anybody else's.
LEMMA InsertHighest ==
    ASSUME IInv, NEW b \in Blocks, b # Genesis, NEW invalid \in BOOLEAN,
           InsertOutcome(b, invalid)
    PROVE  LatestMessageIsHighest'
<1> SUFFICES ASSUME NEW c \in Blocks \ {Genesis}, fate'[c] = "complete"
             PROVE  /\ latestMessages'[Sender[c]] # None
                    /\ SeqNum[latestMessages'[Sender[c]]] >= SeqNum[c]
  BY DEF LatestMessageIsHighest
<1>1. /\ fate \in [Blocks -> {"none", "lost", "partial", "complete"}]
      /\ latestMessages \in [Validators -> Blocks \cup {None}]
      /\ \A v \in Validators : latestMessages[v] \in Stored \cup {None}
      /\ SeqNum \in [Blocks -> Nat] /\ None \notin Blocks
      /\ Sender[c] \in Validators /\ Sender[b] \in Validators
      /\ Sender[b] \in DOMAIN Justifications[b]
  BY DagAssumption DEF IInv, Base, StorageTypeOK, StorageInv, IndexesNameStoredBlocks
<1>2. fate[c] = "complete" =>
         /\ latestMessages[Sender[c]] # None
         /\ SeqNum[latestMessages[Sender[c]]] >= SeqNum[c]
  BY DEF IInv, StorageInv, LatestMessageIsHighest
<1>3. CASE /\ latestMessages' = latestMessages
           /\ \/ fate' = fate
              \/ \E f \in {"lost", "partial"} : fate' = [fate EXCEPT ![b] = f]
  <2>1. fate[c] = "complete"
    BY <1>1, <1>3
  <2> QED BY <1>2, <1>3, <2>1
<1>4. CASE /\ latestMessages' = new_latest_messages(b)
           /\ fate' = [fate EXCEPT ![b] = "complete"]
  <2>1. CASE Sender[c] = Sender[b] /\ advances_latest_message(b)
    <3>1. latestMessages'[Sender[c]] = b
      BY <1>1, <1>4, <2>1 DEF new_latest_messages
    <3>2. CASE c = b
      BY <1>1, <3>1, <3>2
    <3>3. CASE c # b
      <4>1. fate[c] = "complete"
        BY <1>1, <1>4, <3>3
      <4>2. latestMessages[Sender[c]] \in Stored
        BY <1>1, <1>2, <4>1
      <4>3. SeqNum[b] >= SeqNum[latestMessages[Sender[c]]] /\ latestMessages[Sender[c]] \in Blocks
        BY <2>1, <4>2 DEF advances_latest_message, Stored
      <4> QED BY <1>1, <1>2, <3>1, <4>1, <4>3
    <3> QED BY <3>2, <3>3
  <2>2. CASE Sender[c] = Sender[b] /\ ~advances_latest_message(b)
    <3>1. latestMessages'[Sender[c]] = latestMessages[Sender[c]]
      BY <1>1, <1>4, <2>2 DEF new_latest_messages
    <3>2. /\ latestMessages[Sender[c]] \in Stored
          /\ ~(SeqNum[b] >= SeqNum[latestMessages[Sender[c]]])
      BY <2>2 DEF advances_latest_message
    <3>3. CASE c = b
      BY <1>1, <3>1, <3>2, <3>3 DEF Stored
    <3>4. CASE c # b
      BY <1>1, <1>2, <1>4, <3>1, <3>4
    <3> QED BY <3>3, <3>4
  <2>3. CASE Sender[c] # Sender[b]
    <3>1. c # b /\ fate[c] = "complete"
      BY <1>1, <1>4, <2>3
    <3>2. latestMessages'[Sender[c]] = latestMessages[Sender[c]]
      BY <1>1, <1>2, <1>4, <2>3, <3>1 DEF new_latest_messages
    <3> QED BY <1>2, <3>1, <3>2
  <2> QED BY <2>1, <2>2, <2>3
<1> QED BY <1>3, <1>4 DEF InsertOutcome, NothingStored, SomeStored, indexes

\* A block that is stored as valid without a race has the sequence number
\* after the latest message's, so a sibling that went through before would
\* have been above it.
LEMMA InsertSiblings ==
    ASSUME IInv, NEW t \in Tasks, InsertStep(t)
    PROVE  ValidSiblingsOnlyByRace'
<1> DEFINE b == task[t].block
           latest == latestMessages[Sender[b]]
<1> SUFFICES ASSUME NEW x \in Blocks \ {Genesis}, NEW y \in Blocks \ {Genesis},
                    metadata'[x] = "valid", metadata'[y] = "valid", Siblings(x, y)
             PROVE  {x, y} \cap raced' # {} \/ "partial" \in {fate'[x], fate'[y]}
  BY DEF ValidSiblingsOnlyByRace
<1>1. /\ b \in Blocks /\ b # Genesis /\ task[t].invalid \in BOOLEAN
      /\ b \notin Stored /\ InsertOutcome(b, task[t].invalid)
  BY DEF InsertStep, IInv, Base, TasksApart, DetectorTyped, TaskRecords, StoredInDag
<1>2. /\ metadata \in [Blocks -> {"absent", "valid", "invalid"}]
      /\ fate \in [Blocks -> {"none", "lost", "partial", "complete"}]
      /\ latestMessages \in [Validators -> Blocks \cup {None}]
      /\ SeqNum \in [Blocks -> Nat] /\ Sender[b] \in Validators
  BY <1>1, DagAssumption DEF IInv, Base, StorageTypeOK
<1> HIDE DEF b
<1>3. raced \subseteq raced'
  BY DEF InsertStep, NoteRace
<1>4. \A z \in Blocks : z # b => metadata'[z] = metadata[z] /\ fate'[z] = fate[z]
  BY <1>1, <1>2 DEF InsertOutcome, NothingStored, SomeStored
<1>5. x # y /\ Sender[x] = Sender[y] /\ SeqNum[x] = SeqNum[y]
  BY <1>2 DEF Siblings, Key
<1>6. CASE x # b /\ y # b
  <2>1. metadata[x] = "valid" /\ metadata[y] = "valid"
    BY <1>4, <1>6
  <2>2. {x, y} \cap raced # {} \/ "partial" \in {fate[x], fate[y]}
    BY <2>1 DEF IInv, StorageInv, ValidSiblingsOnlyByRace
  <2> QED BY <1>3, <1>4, <1>6, <2>2
<1>7. ASSUME NEW z \in Blocks \ {Genesis}, z # b, metadata'[z] = "valid", metadata'[b] = "valid",
             Sender[z] = Sender[b], SeqNum[z] = SeqNum[b], b \notin raced'
      PROVE  fate'[z] = "partial"
  <2>1. SomeStored(b, task[t].invalid) /\ ~task[t].invalid
    BY <1>1, <1>2, <1>7 DEF InsertOutcome, NothingStored, SomeStored, Stored
  <2>2. latest = task[t].latest
    BY <1>7, <2>1 DEF InsertStep, NoteRace, b
  <2>3. Justifications[b][Sender[b]] = latest
    BY <2>1, <2>2 DEF IInv, ValidNamesLatest, InsertStep, b
  <2>4. SeqNum[b] = SeqNum[latest] + 1 /\ latest \in Blocks
    BY <1>1, <2>3, DagAssumption
  <2>5. fate[z] # "complete"
    <3>1. fate[z] = "complete" => SeqNum[latest] >= SeqNum[z]
      BY <1>7 DEF IInv, StorageInv, LatestMessageIsHighest
    <3> QED BY <1>2, <1>7, <2>4, <3>1
  <2>6. z \in Stored
    BY <1>4, <1>7 DEF Stored
  <2>7. fate[z] = "partial"
    BY <2>5, <2>6 DEF IInv, StorageInv, StoredFate
  <2> QED BY <1>4, <1>7, <2>7
<1>8. CASE x = b
  BY <1>5, <1>7, <1>8
<1>9. CASE y = b
  BY <1>5, <1>7, <1>9
<1> QED BY <1>6, <1>8, <1>9

\* An insert, in full or up to a failing write, preserves the invariant.
LEMMA InsertPreserves ==
    ASSUME IInv, NEW t \in Tasks, InsertStep(t)
    PROVE  IInv'
<1> DEFINE b == task[t].block
<1>1. /\ b \in Blocks /\ b # Genesis /\ task[t].invalid \in BOOLEAN
      /\ InsertOutcome(b, task[t].invalid)
  BY DEF InsertStep, IInv, Base, TasksApart, DetectorTyped, TaskRecords, StoredInDag
<1>2. Base'
  BY InsertStepBase DEF IInv
<1>3. StorageInv'
  BY <1>1, InsertIndexes, InsertHighest, InsertSiblings DEF StorageInv
<1>4. task'[t] = Idle /\ Idle.pc = "idle" /\ \A u \in Tasks \ {t} : task'[u] = task[u]
  BY DEF InsertStep, TaskMoves, Idle
<1>5. ValidNamesLatest' /\ AdmittedOnItsWay'
  BY <1>4 DEF IInv, ValidNamesLatest, AdmittedOnItsWay, InsertStep
<1>6. AdmissibleIsRecorded'
  <2>1. dagSet' = dagSet \cup {b} /\ admitted' = admitted /\ tracker' = tracker
    BY <1>1 DEF InsertOutcome, InsertStep
  <2>2. b \in admitted => tracker[Key(b)] # NoRecord
    BY DEF IInv, AdmittedOnItsWay, InsertStep
  <2> QED BY <2>1, <2>2 DEF IInv, AdmissibleIsRecorded
<1> QED BY <1>2, <1>3, <1>5, <1>6 DEF IInv, InsertStep

-----------------------------------------------------------------------------
\* The specification

\* The initial state satisfies the invariant.
LEMMA InitIInv == Init => IInv
<1> SUFFICES ASSUME Init PROVE IInv
  OBVIOUS
<1>1. Base
  BY InitBase
<1>2. \A t \in Tasks : task[t].pc = "idle"
  BY DEF Init, Idle
<1>3. ValidNamesLatest /\ AdmittedOnItsWay
  BY <1>2 DEF ValidNamesLatest, AdmittedOnItsWay
<1>4. AdmissibleIsRecorded /\ Genesis \notin admitted
  BY DEF Init, AdmissibleIsRecorded
<1>5. Stored = {Genesis}
  BY DagAssumption DEF Init, StorageInit, Stored
<1>6. StoredFate /\ ValidSiblingsOnlyByRace
  BY <1>5 DEF StoredFate, ValidSiblingsOnlyByRace, Init, StorageInit
<1>7. IndexesNameStoredBlocks
  BY <1>5 DEF IndexesNameStoredBlocks, Init, StorageInit
<1>8. LatestMessageIsHighest
  BY DEF LatestMessageIsHighest, Init, StorageInit
<1> QED BY <1>1, <1>3, <1>4, <1>6, <1>7, <1>8 DEF IInv, StorageInv

\* Every step preserves the inductive invariant, one case per action.
LEMMA NextIInv == IInv /\ [Next]_vars => IInv'
<1> SUFFICES ASSUME IInv, [Next]_vars PROVE IInv'
  OBVIOUS
<1>0. Base /\ Idle.pc = "idle"
  BY DEF IInv, Idle
<1>1. ASSUME NEW t \in Tasks, NEW b \in Blocks, Start(t, b) PROVE IInv'
  BY <1>1, StartPreserves
<1>2. ASSUME NEW t \in Tasks, ReadRecords(t) PROVE IInv'
  <2>1. /\ QuietStep(t) /\ Kept(t) /\ admitted' = admitted
        /\ task[t].pc = "records" /\ task'[t].pc = "check"
    BY <1>0, <1>2, ReadRecordsQuiet
  <2>2. task'[t].block \notin admitted'
    BY <2>1 DEF IInv, AdmittedOnItsWay, Kept
  <2> QED BY <2>1, <2>2, QuietPreserves
<1>3. ASSUME NEW t \in Tasks, NEW rec \in task[t].records, CheckRecord(t, rec) PROVE IInv'
  <2>1. /\ QuietStep(t) /\ admitted' = admitted /\ task[t].pc = "check"
        /\ \/ task'[t] = Idle
           \/ task'[t].pc = "insert" /\ task'[t].invalid = TRUE
           \/ task'[t].pc = "check" /\ Kept(t)
    BY <1>0, <1>3, CheckRecordQuiet
  <2>2. task'[t] = Idle \/ task'[t].block \notin admitted'
    BY <2>1 DEF IInv, AdmittedOnItsWay, QuietStep, TaskMoves
  <2> QED BY <1>0, <2>1, <2>2, QuietPreserves
<1>4. ASSUME NEW t \in Tasks, NEW requested \in BOOLEAN, CheckEquivocations(t, requested)
      PROVE  IInv'
  <2>1. /\ QuietStep(t) /\ task[t].pc = "check"
        /\ \/ /\ task'[t].pc = "insert" /\ Kept(t) /\ admitted' = admitted
              /\ Justifications[task[t].block][Sender[task[t].block]] = task[t].latest
           \/ /\ task'[t].pc = "admissible" /\ task'[t].invalid = TRUE
              /\ admitted' = admitted \cup {task[t].block}
           \/ task'[t] = Idle /\ admitted' = admitted
    BY <1>0, <1>4, CheckEquivocationsQuiet
  <2>2. task[t].block \notin admitted
    BY <2>1 DEF IInv, AdmittedOnItsWay
  <2>3. CASE /\ task'[t].pc = "insert" /\ Kept(t) /\ admitted' = admitted
             /\ Justifications[task[t].block][Sender[task[t].block]] = task[t].latest
    BY <2>1, <2>2, <2>3, QuietPreserves DEF Kept
  <2>4. CASE /\ task'[t].pc = "admissible" /\ task'[t].invalid = TRUE
             /\ admitted' = admitted \cup {task[t].block}
    BY <2>1, <2>4, QuietPreserves
  <2>5. CASE task'[t] = Idle /\ admitted' = admitted
    BY <1>0, <2>1, <2>5, QuietPreserves
  <2> QED BY <2>1, <2>3, <2>4, <2>5
<1>5. ASSUME NEW t \in Tasks, FindRecord(t) PROVE IInv'
  <2>1. /\ QuietStep(t) /\ Kept(t) /\ admitted' = admitted /\ tracker' = tracker
        /\ task[t].pc = "admissible" /\ task'[t].invalid = task[t].invalid
        /\ \/ task'[t].pc = "insert" /\ tracker[Key(task[t].block)] # NoRecord
           \/ task'[t].pc = "record"
    BY <1>0, <1>5, FindRecordQuiet
  <2>2. task'[t].invalid /\ task'[t].block = task[t].block
    BY <2>1 DEF IInv, ValidNamesLatest, Kept
  <2> QED BY <2>1, <2>2, QuietPreserves
<1>6. ASSUME NEW t \in Tasks, insert_equivocation_record(t) PROVE IInv'
  <2>1. /\ QuietStep(t) /\ Kept(t) /\ admitted' = admitted
        /\ task[t].pc = "record" /\ task'[t].pc = "insert"
        /\ task'[t].invalid = task[t].invalid
        /\ tracker'[Key(task[t].block)] # NoRecord
    BY <1>0, <1>6, InsertRecordQuiet
  <2>2. task'[t].invalid /\ task'[t].block = task[t].block
    BY <2>1 DEF IInv, ValidNamesLatest, Kept
  <2> QED BY <2>1, <2>2, QuietPreserves
<1>7. ASSUME NEW t \in Tasks, InsertBlock(t) \/ \E n \in 1..4 : InsertFails(t, n) PROVE IInv'
  BY <1>0, <1>7, InsertBlockStep, InsertPreserves
<1>8. ASSUME NEW t \in Tasks, TrackerFails(t) PROVE IInv'
  <2>1. QuietStep(t) /\ task'[t] = Idle /\ admitted' = admitted
    BY <1>0, <1>8, TrackerFailsQuiet
  <2> QED BY <1>0, <2>1, QuietPreserves
<1>9. CASE Restart
  BY <1>9, RestartPreserves
<1>10. CASE UNCHANGED vars
  <2>1. StorageInv'
    BY <1>10, StorageUnchanged DEF IInv, vars, storage
  <2>2. Base'
    BY <1>10 DEF IInv, Base, vars, storage, memory, indexes, StorageTypeOK, DetectorTyped,
                 StoredInDag, Stored, TasksApart, IdleHasNoBlock
  <2> QED BY <1>10, <2>1, <2>2
      DEF IInv, vars, storage, memory, ValidNamesLatest, AdmittedOnItsWay, AdmissibleIsRecorded
<1> QED
  BY <1>1, <1>2, <1>3, <1>4, <1>5, <1>6, <1>7, <1>8, <1>9, <1>10 DEF Next, TaskStep

\* The invariant holds of every behaviour.
LEMMA SpecIInv == Spec => []IInv
  BY InitIInv, NextIInv, PTL DEF Spec

\* Every reachable state of the storage, of the tracker and of the
\* validations is well typed.
THEOREM DetectorTypeCorrect == Spec => []TypeOK
<1>1. IInv => TypeOK
  BY DEF IInv, Base, DetectorTyped, TypeOK, TaskRecords, PCs
<1> QED BY <1>1, SpecIInv, PTL

\* After any sequence of inserts, failed writes and restarts, the indexes of
\* the DAG storage name only blocks whose metadata can be looked up, for
\* insert_internal writes the metadata first.
THEOREM StorageIndexes == Spec => []IndexesNameStoredBlocks
<1>1. IInv => IndexesNameStoredBlocks
  BY DEF IInv, StorageInv
<1> QED BY <1>1, SpecIInv, PTL

\* latest_messages is never behind a completed insert of the same sender,
\* in whatever order the sides of an equivocation are inserted.
THEOREM StorageLatest == Spec => []LatestMessageIsHighest
<1>1. IInv => LatestMessageIsHighest
  BY DEF IInv, StorageInv
<1> QED BY <1>1, SpecIInv, PTL

\* No admissible equivocation enters the DAG before its record exists,
\* although the tracker is read and written without the storage's lock.
THEOREM EquivocationRecorded == Spec => []AdmissibleIsRecorded
<1>1. IInv => AdmissibleIsRecorded
  BY DEF IInv
<1> QED BY <1>1, SpecIInv, PTL

\* Two siblings are both stored as valid only by a race of their validations
\* or by a failed write of latest_messages: is_equivocation misses nothing
\* else, for any number of validations and blocks.
THEOREM EquivocationRace == Spec => []ValidSiblingsOnlyByRace
<1>1. IInv => ValidSiblingsOnlyByRace
  BY DEF IInv, StorageInv
<1> QED BY <1>1, SpecIInv, PTL

-----------------------------------------------------------------------------
\* The equivocations that a valid block has in its past

\* A block that keeps the sender of d bonded does not neglect d.
Heeds(b, d) == Sender[d] \in Bonds[b] => ~ Neglects(b, Key(d))

\* What holds while no write has failed.  The past of a block under validation
\* is stored, so no later step admits anything in it; until a record has been
\* checked it is among those the validation has read.
DagIsStored == up => dagSet = Stored
StoredClosed == Closed(Stored)
PastIsStored == \A t \in Tasks : task[t].pc # "idle" => JustifiedBy(task[t].block) \subseteq Stored
UncheckedIsRead ==
    \A t \in Tasks : task[t].pc = "check" =>
        \A d \in admitted \cap CausalPast[task[t].block] :
            \/ \E rec \in task[t].records : rec.key = Key(d)
            \/ Heeds(task[t].block, d)
PassedHeeds ==
    \A t \in Tasks : (task[t].pc = "insert" /\ ~task[t].invalid) =>
        \A d \in admitted \cap CausalPast[task[t].block] : Heeds(task[t].block, d)
ValidHeeds ==
    \A b \in Blocks : metadata[b] = "valid" =>
        \A d \in admitted \cap CausalPast[b] : Heeds(b, d)

HeedInv ==
    DagIsStored /\ StoredClosed /\ PastIsStored /\ UncheckedIsRead /\ PassedHeeds /\ ValidHeeds

NeglectInv == failures = 0 => HeedInv

\* What is stored holds the past of every block whose justifications it holds.
LEMMA PastWithinStored ==
    ASSUME NEW b \in Blocks, JustifiedBy(b) \subseteq Stored, StoredClosed
    PROVE  CausalPast[b] \subseteq Stored
<1>1. Stored \in SUBSET Blocks
  BY DEF Stored
<1> QED BY <1>1 DEF CausalPast, StoredClosed

\* The detector lets a block pass a record only if it does not neglect the
\* equivocation: two children would be seen, and so would a broken chain.
LEMMA ObliviousDoesNotNeglect ==
    ASSUME NEW b \in Blocks, NEW rec, NEW dag,
           "oblivious" \in is_equivocation_detectable(b, rec, dag)
    PROVE  ~ Neglects(b, rec.key)
<1> DEFINE validators == DOMAIN Justifications[b]
           recorded == {v \in validators : Justifications[b][v] \in rec.hashes}
           children == {v \in validators \ recorded : AddsChild(Justifications[b][v], rec, dag)}
           failing == {v \in validators \ recorded : Fails(Justifications[b][v], rec, dag)}
<1>1. recorded = {} /\ ~ (Cardinality(children) > 1) /\ failing = {}
  BY DEF is_equivocation_detectable
<1>2. \A v \in validators : ~ Fails(Justifications[b][v], rec, dag)
  BY <1>1
<1>3. \A v \in validators :
         PastBase(Justifications[b][v], rec.key) # {} => v \in children
  BY <1>1, <1>2 DEF Fails, AddsChild
<1>4. \A v \in validators :
         Justifications[b][v] = Genesis \/ ShownBy(Justifications[b][v], rec.key) # {}
  BY <1>2 DEF Fails
<1>5. IsFiniteSet(children)
  <2>1. children \subseteq Validators
    BY DagAssumption
  <2> HIDE DEF children
  <2> QED BY <2>1, DagAssumption, FS_Subset
<1>6. ASSUME NEW v \in children, NEW w \in children, v # w PROVE FALSE
  <2> HIDE DEF children
  <2>1. Cardinality({v, w}) = 2 /\ IsFiniteSet({v, w})
    <3>1. Cardinality({v}) = 1 /\ IsFiniteSet({v})
      BY FS_Singleton
    <3>2. {v} \cup {w} = {v, w} /\ w \notin {v}
      BY <1>6
    <3>3. Cardinality({v} \cup {w}) = 2 /\ IsFiniteSet({v} \cup {w})
      BY <3>1, <3>2, FS_AddElement
    <3> QED BY <3>2, <3>3
  <2>2. Cardinality({v, w}) <= Cardinality(children) /\ Cardinality(children) \in Nat
    BY <1>5, FS_Subset, FS_CardinalityType
  <2> QED BY <1>1, <2>1, <2>2
<1> QED BY <1>3, <1>4, <1>6 DEF Neglects

\* Nothing that is stored is admitted, or given up, by a step of a validation.
LEMMA QuietHeeds ==
    ASSUME IInv, NeglectInv, NEW t \in Tasks, QuietStep(t), failures' = 0 => failures = 0,
           admitted' \subseteq admitted \cup {task[t].block},
           HeedInv =>
             /\ task'[t].pc = "check" =>
                  \A d \in admitted \cap CausalPast[task[t].block] :
                      \/ \E rec \in task'[t].records : rec.key = Key(d)
                      \/ Heeds(task[t].block, d)
             /\ (task'[t].pc = "insert" /\ ~task'[t].invalid) =>
                  \A d \in admitted \cap CausalPast[task[t].block] : Heeds(task[t].block, d)
    PROVE  NeglectInv'
<1> SUFFICES ASSUME failures' = 0 PROVE HeedInv'
  BY DEF NeglectInv
<1>1. HeedInv
  BY DEF NeglectInv
<1>2. Stored' = Stored /\ dagSet' = dagSet /\ up' = up /\ metadata' = metadata
  BY DEF QuietStep, Stored, memory
<1>3. /\ task[t].block \in Blocks /\ task[t].block \notin Stored
      /\ \A u \in Tasks : task[u].pc # "idle" => task[u].block \in Blocks
      /\ Idle.pc = "idle"
  BY DEF QuietStep, IInv, Base, TasksApart, StoredInDag, Idle
<1>4. \A u \in Tasks \ {t} : task'[u] = task[u]
  BY DEF QuietStep, TaskMoves
<1>5. task'[t].pc = "idle" \/ task'[t].block = task[t].block
  BY <1>3 DEF QuietStep, TaskMoves
<1>6. ASSUME NEW b \in Blocks, JustifiedBy(b) \subseteq Stored
      PROVE  admitted' \cap CausalPast[b] \subseteq admitted \cap CausalPast[b]
  BY <1>1, <1>3, <1>6, PastWithinStored DEF HeedInv
<1>7. DagIsStored' /\ StoredClosed'
  BY <1>1, <1>2 DEF HeedInv, DagIsStored, StoredClosed
<1>8. PastIsStored'
  BY <1>1, <1>2, <1>4, <1>5 DEF HeedInv, PastIsStored, QuietStep
<1>9. \A u \in Tasks : task[u].pc # "idle" =>
         admitted' \cap CausalPast[task[u].block] \subseteq admitted \cap CausalPast[task[u].block]
  BY <1>1, <1>3, <1>6 DEF HeedInv, PastIsStored
<1>10. UncheckedIsRead'
  <2> SUFFICES ASSUME NEW u \in Tasks, task'[u].pc = "check",
                      NEW d \in admitted' \cap CausalPast[task'[u].block]
               PROVE  \/ \E rec \in task'[u].records : rec.key = Key(d)
                      \/ Heeds(task'[u].block, d)
    BY DEF UncheckedIsRead
  <2>1. CASE u = t
    BY <1>1, <1>5, <1>9, <2>1 DEF QuietStep
  <2>2. CASE u # t
    BY <1>1, <1>4, <1>9, <2>2 DEF HeedInv, UncheckedIsRead
  <2> QED BY <2>1, <2>2
<1>11. PassedHeeds'
  <2> SUFFICES ASSUME NEW u \in Tasks, task'[u].pc = "insert", ~task'[u].invalid,
                      NEW d \in admitted' \cap CausalPast[task'[u].block]
               PROVE  Heeds(task'[u].block, d)
    BY DEF PassedHeeds
  <2>1. CASE u = t
    BY <1>1, <1>5, <1>9, <2>1 DEF QuietStep
  <2>2. CASE u # t
    BY <1>1, <1>4, <1>9, <2>2 DEF HeedInv, PassedHeeds
  <2> QED BY <2>1, <2>2
<1>12. ValidHeeds'
  <2> SUFFICES ASSUME NEW b \in Blocks, metadata'[b] = "valid",
                      NEW d \in admitted' \cap CausalPast[b]
               PROVE  Heeds(b, d)
    BY DEF ValidHeeds
  <2>1. metadata[b] = "valid" /\ b \in Stored
    BY <1>2 DEF Stored
  <2>2. d \in admitted \cap CausalPast[b]
    BY <1>1, <1>6, <2>1 DEF HeedInv, StoredClosed, Closed
  <2> QED BY <1>1, <2>1, <2>2 DEF HeedInv, ValidHeeds
<1> QED BY <1>7, <1>8, <1>10, <1>11, <1>12 DEF HeedInv

\* The one reading of the records finds one for every admissible equivocation
\* in the block's past, because that past is stored.
LEMMA ReadRecordsHeeds ==
    ASSUME IInv, NeglectInv, NEW t \in Tasks, ReadRecords(t)
    PROVE  NeglectInv'
<1>1. /\ QuietStep(t) /\ admitted' = admitted
      /\ task[t].pc = "records" /\ task'[t].pc = "check"
  BY ReadRecordsQuiet DEF IInv
<1>2. failures' = failures
  BY DEF ReadRecords, storage
<1>3. task'[t].records = equivocation_records
  <2> DEFINE r == [task[t] EXCEPT !.pc = "check", !.records = equivocation_records]
  <2>1. task \in [Tasks -> TaskRecords] /\ task[t] \in TaskRecords
    BY DEF IInv, Base, DetectorTyped
  <2>2. task'[t] = r
    BY <2>1 DEF ReadRecords
  <2>3. r.records = equivocation_records
    BY <2>1 DEF TaskRecords
  <2> QED BY <2>2, <2>3
<1>4. ASSUME HeedInv, NEW d \in admitted \cap CausalPast[task[t].block]
      PROVE  \E rec \in equivocation_records : rec.key = Key(d)
  <2>1. task[t].block \in Blocks /\ JustifiedBy(task[t].block) \subseteq Stored /\ StoredClosed
    BY <1>1, <1>4 DEF IInv, Base, TasksApart, HeedInv, PastIsStored
  <2>2. d \in Stored
    BY <1>4, <2>1, PastWithinStored
  <2>3. tracker[Key(d)] # NoRecord
    BY <2>2 DEF IInv, AdmissibleIsRecorded, Base, StoredInDag
  <2>4. Key(d) \in RecordKeys
    <3>1. d \in Blocks /\ d # Genesis
      BY <2>2 DEF IInv, Stored
    <3> QED BY <3>1, KeyOfBlock
  <2> DEFINE found == [key |-> Key(d), hashes |-> tracker[Key(d)]]
  <2>5. found \in equivocation_records
    BY <2>3, <2>4 DEF equivocation_records
  <2> QED BY <2>5
<1> QED BY <1>1, <1>2, <1>3, <1>4, QuietHeeds

\* A record is done with only if the block does not neglect it.
LEMMA CheckRecordHeeds ==
    ASSUME IInv, NeglectInv, NEW t \in Tasks, NEW rec \in task[t].records, CheckRecord(t, rec)
    PROVE  NeglectInv'
<1> DEFINE b == task[t].block
<1>1. /\ QuietStep(t) /\ admitted' = admitted /\ task[t].pc = "check"
      /\ \/ task'[t] = Idle
         \/ task'[t].pc = "insert" /\ task'[t].invalid = TRUE
         \/ task'[t].pc = "check" /\ Kept(t)
  BY CheckRecordQuiet DEF IInv
<1>2. failures' = failures /\ Idle.pc = "idle"
  BY DEF CheckRecord, storage, Idle
<1>3. b \in Blocks
  BY <1>1 DEF IInv, Base, TasksApart
<1>4. ASSUME task'[t].pc = "check"
      PROVE  /\ task'[t].records = task[t].records \ {rec}
             /\ \A d \in Blocks : rec.key = Key(d) => Heeds(b, d)
  <2>1. task \in [Tasks -> TaskRecords] /\ task[t] \in TaskRecords
    BY DEF IInv, Base, DetectorTyped
  <2>2. PICK status \in get_equivocation_discovery_status(b, rec, task[t].dag) :
          \/ task' = [task EXCEPT ![t].pc = "insert", ![t].invalid = TRUE, ![t].records = {}]
          \/ /\ status \in {"detected", "oblivious"}
             /\ task' = [task EXCEPT ![t].records = @ \ {rec}]
          \/ Finish(t)
    BY DEF CheckRecord
  <2>3. ~ Finish(t)
    BY <1>2, <1>4, <2>1 DEF Finish
  <2>4. task' # [task EXCEPT ![t].pc = "insert", ![t].invalid = TRUE, ![t].records = {}]
    <3> DEFINE r == [task[t] EXCEPT !.pc = "insert", !.invalid = TRUE, !.records = {}]
    <3>1. r.pc = "insert"
      BY <2>1 DEF TaskRecords
    <3>2. [task EXCEPT ![t].pc = "insert", ![t].invalid = TRUE, ![t].records = {}][t] = r
      BY <2>1
    <3> QED BY <1>4, <3>1, <3>2
  <2>5. /\ status \in {"detected", "oblivious"}
        /\ task' = [task EXCEPT ![t].records = @ \ {rec}]
    BY <2>2, <2>3, <2>4
  <2>6. task'[t].records = task[t].records \ {rec}
    BY <2>1, <2>5 DEF TaskRecords
  <2>7. ASSUME NEW d \in Blocks, rec.key = Key(d), Sender[d] \in Bonds[b]
        PROVE  ~ Neglects(b, Key(d))
    <3>1. rec.key[1] = Sender[d]
      BY <2>7 DEF Key
    <3>2. status \in is_equivocation_detectable(b, rec, task[t].dag)
      BY <2>7, <3>1 DEF get_equivocation_discovery_status
    <3>3. status = "oblivious"
      BY <2>5, <3>2 DEF is_equivocation_detectable
    <3> QED BY <1>3, <2>7, <3>2, <3>3, ObliviousDoesNotNeglect
  <2> QED BY <2>6, <2>7 DEF Heeds
<1>5. ASSUME HeedInv, task'[t].pc = "check", NEW d \in admitted \cap CausalPast[b]
      PROVE  (\E other \in task'[t].records : other.key = Key(d)) \/ Heeds(b, d)
  <2>1. (\E other \in task[t].records : other.key = Key(d)) \/ Heeds(b, d)
    BY <1>1, <1>5 DEF HeedInv, UncheckedIsRead
  <2>2. d \in Blocks
    BY DEF IInv, Base, DetectorTyped
  <2> QED BY <1>4, <1>5, <2>1, <2>2
<1> QED BY <1>1, <1>2, <1>5, QuietHeeds

\* When no record is left to check, the block heeds every equivocation.
LEMMA CheckEquivocationsHeeds ==
    ASSUME IInv, NeglectInv, NEW t \in Tasks, NEW requested \in BOOLEAN,
           CheckEquivocations(t, requested)
    PROVE  NeglectInv'
<1>1. /\ QuietStep(t) /\ task[t].pc = "check"
      /\ admitted' \subseteq admitted \cup {task[t].block}
      /\ task'[t].pc # "check"
  <2>1. Base /\ Idle.pc = "idle"
    BY DEF IInv, Idle
  <2>2. /\ QuietStep(t) /\ task[t].pc = "check"
        /\ \/ task'[t].pc = "insert" /\ admitted' = admitted
           \/ task'[t].pc = "admissible" /\ admitted' = admitted \cup {task[t].block}
           \/ task'[t] = Idle /\ admitted' = admitted
    BY <2>1, CheckEquivocationsQuiet
  <2> QED BY <2>1, <2>2
<1>2. failures' = failures /\ task[t].records = {}
  BY DEF CheckEquivocations, storage
<1>3. HeedInv => \A d \in admitted \cap CausalPast[task[t].block] : Heeds(task[t].block, d)
  BY <1>1, <1>2 DEF HeedInv, UncheckedIsRead
<1> QED BY <1>1, <1>2, <1>3, QuietHeeds

\* A validation begins when the justifications of its block are stored.
LEMMA StartHeeds ==
    ASSUME IInv, NeglectInv, up, NEW t \in Tasks, NEW b \in Blocks, Start(t, b)
    PROVE  NeglectInv'
<1> SUFFICES ASSUME failures' = 0 PROVE HeedInv'
  BY DEF NeglectInv
<1>1. /\ b \notin dagSet /\ \A u \in Tasks \ {t} : task'[u] = task[u]
      /\ task'[t].block = b
      /\ \/ task'[t].pc = "insert" /\ task'[t].invalid = TRUE
         \/ task'[t].pc = "records" /\ task'[t].invalid = FALSE
  BY StartBase DEF IInv
<1>2. admitted' = admitted \ {b} /\ UNCHANGED storage
  BY DEF Start
<1>3. HeedInv /\ Stored' = Stored
  BY <1>2 DEF NeglectInv, storage, Stored
<1>4. JustifiedBy(b) \subseteq Stored
  BY <1>3 DEF Start, dependencies_in_dag, JustifiedBy, HeedInv, DagIsStored
<1>5. DagIsStored' /\ StoredClosed'
  BY <1>2, <1>3 DEF HeedInv, DagIsStored, StoredClosed, storage, memory
<1>6. PastIsStored'
  BY <1>1, <1>3, <1>4 DEF HeedInv, PastIsStored
<1>7. UncheckedIsRead'
  BY <1>1, <1>2, <1>3 DEF HeedInv, UncheckedIsRead
<1>8. PassedHeeds'
  <2> SUFFICES ASSUME NEW u \in Tasks, task'[u].pc = "insert", ~task'[u].invalid,
                      NEW d \in admitted' \cap CausalPast[task'[u].block]
               PROVE  Heeds(task'[u].block, d)
    BY DEF PassedHeeds
  <2>1. u # t
    BY <1>1
  <2> QED BY <1>1, <1>2, <1>3, <2>1 DEF HeedInv, PassedHeeds
<1>9. ValidHeeds'
  BY <1>2, <1>3 DEF HeedInv, ValidHeeds, storage
<1> QED BY <1>5, <1>6, <1>7, <1>8, <1>9 DEF HeedInv

\* An insert all of whose writes succeed stores the block in full, or trips
\* the assertion and stores nothing.
LEMMA InsertBlockHeeds ==
    ASSUME IInv, NeglectInv, up, NEW t \in Tasks, InsertBlock(t)
    PROVE  NeglectInv'
<1> SUFFICES ASSUME failures' = 0 PROVE HeedInv'
  BY DEF NeglectInv
<1> DEFINE b == task[t].block
           verdict == IF task[t].invalid THEN "invalid" ELSE "valid"
<1>1. HeedInv /\ InsertStep(t)
  BY InsertBlockStep DEF InsertBlock, NeglectInv, IInv
<1>2. /\ b \in Blocks \ Stored /\ task[t].invalid \in BOOLEAN /\ Idle.pc = "idle"
      /\ metadata \in [Blocks -> {"absent", "valid", "invalid"}]
  BY DEF InsertBlock, IInv, Base, TasksApart, StoredInDag, DetectorTyped, TaskRecords,
         StorageTypeOK, Idle
<1>3. /\ task'[t] = Idle /\ \A u \in Tasks \ {t} : task'[u] = task[u] /\ task[u].block # b
      /\ admitted' = admitted /\ dagSet' = dagSet \cup {b}
  BY <1>1 DEF InsertStep, TaskMoves, InsertOutcome, IInv, Base, TasksApart
<1>4. \/ ~up' /\ metadata' = metadata
      \/ up' /\ metadata' = [metadata EXCEPT ![b] = verdict]
  <2> DEFINE written == Writes(IF up' THEN 5 - 1 ELSE 0)
  <2>1. metadata' = IF "metadata" \in written THEN [metadata EXCEPT ![b] = verdict]
                    ELSE metadata
    BY DEF InsertBlock, insert, Writes
  <2>2. up' \in BOOLEAN
    BY DEF InsertBlock, insert, validate_dag_state
  <2>3. "metadata" \in Writes(4) /\ "metadata" \notin Writes(0)
    BY WritesInOrder
  <2>4. CASE up'
    <3>1. written = Writes(4)
      BY <2>4
    <3> HIDE DEF written
    <3> QED BY <2>1, <2>3, <2>4, <3>1
  <2>5. CASE ~up'
    <3>1. written = Writes(0)
      BY <2>5
    <3> HIDE DEF written
    <3> QED BY <2>1, <2>3, <2>5, <3>1
  <2> QED BY <2>4, <2>5
<1>5. (up' /\ Stored' = Stored \cup {b}) \/ (~up' /\ Stored' = Stored)
  BY <1>2, <1>4 DEF Stored
<1>6. JustifiedBy(b) \subseteq Stored
  BY <1>1 DEF HeedInv, PastIsStored, InsertBlock
<1>7. DagIsStored'
  BY <1>1, <1>3, <1>5 DEF HeedInv, DagIsStored
<1>8. StoredClosed'
  BY <1>1, <1>5, <1>6 DEF HeedInv, StoredClosed, Closed
<1>9. PastIsStored'
  BY <1>1, <1>2, <1>3, <1>5 DEF HeedInv, PastIsStored
<1>10. UncheckedIsRead'
  BY <1>1, <1>2, <1>3 DEF HeedInv, UncheckedIsRead
<1>11. PassedHeeds'
  BY <1>1, <1>2, <1>3 DEF HeedInv, PassedHeeds
<1>12. ValidHeeds'
  <2> SUFFICES ASSUME NEW c \in Blocks, metadata'[c] = "valid",
                      NEW d \in admitted \cap CausalPast[c]
               PROVE  Heeds(c, d)
    BY <1>3 DEF ValidHeeds
  <2>1. CASE metadata[c] = "valid"
    BY <1>1, <2>1 DEF HeedInv, ValidHeeds
  <2>2. CASE metadata[c] # "valid"
    <3>1. c = b /\ verdict = "valid"
      BY <1>2, <1>4, <2>2
    <3>2. ~task[t].invalid
      BY <3>1
    <3> QED BY <1>1, <3>1, <3>2 DEF HeedInv, PassedHeeds, InsertBlock
  <2> QED BY <2>1, <2>2
<1> QED BY <1>7, <1>8, <1>9, <1>10, <1>11, <1>12 DEF HeedInv

\* Every step keeps the invariant.
LEMMA NextNeglect == IInv /\ NeglectInv /\ [Next]_vars => NeglectInv'
<1> SUFFICES ASSUME IInv, NeglectInv, [Next]_vars PROVE NeglectInv'
  OBVIOUS
<1>0. Base /\ Idle.pc = "idle" /\ failures \in Nat
  BY DEF IInv, Idle, Base, StorageTypeOK
<1>1. ASSUME up, NEW t \in Tasks, NEW b \in Blocks, Start(t, b) PROVE NeglectInv'
  BY <1>1, StartHeeds
<1>2. ASSUME NEW t \in Tasks, ReadRecords(t) PROVE NeglectInv'
  BY <1>2, ReadRecordsHeeds
<1>3. ASSUME NEW t \in Tasks, NEW rec \in task[t].records, CheckRecord(t, rec) PROVE NeglectInv'
  BY <1>3, CheckRecordHeeds
<1>4. ASSUME NEW t \in Tasks, NEW requested \in BOOLEAN, CheckEquivocations(t, requested)
      PROVE  NeglectInv'
  BY <1>4, CheckEquivocationsHeeds
<1>5. ASSUME NEW t \in Tasks, FindRecord(t) \/ insert_equivocation_record(t) PROVE NeglectInv'
  <2>1. /\ QuietStep(t) /\ admitted' = admitted /\ task'[t].invalid = task[t].invalid
        /\ task[t].pc \in {"admissible", "record"} /\ task'[t].pc # "check"
    BY <1>0, <1>5, FindRecordQuiet, InsertRecordQuiet
  <2>2. task'[t].invalid
    BY <2>1 DEF IInv, ValidNamesLatest
  <2>3. failures' = failures
    BY <1>5 DEF FindRecord, insert_equivocation_record, storage
  <2> QED BY <2>1, <2>2, <2>3, QuietHeeds
<1>6. ASSUME up, NEW t \in Tasks, InsertBlock(t) PROVE NeglectInv'
  BY <1>6, InsertBlockHeeds
<1>7. ASSUME NEW t \in Tasks, (\E n \in 1..4 : InsertFails(t, n)) \/ TrackerFails(t)
      PROVE  NeglectInv'
  <2>1. failures' # 0
    BY <1>0, <1>7 DEF InsertFails, TrackerFails
  <2> QED BY <2>1 DEF NeglectInv
<1>8. CASE Restart
  <2> SUFFICES ASSUME failures' = 0 PROVE HeedInv'
    BY DEF NeglectInv
  <2>1. /\ failures' = failures /\ metadata' = metadata /\ admitted' = admitted
        /\ dagSet' = Stored /\ Stored' = Stored /\ \A t \in Tasks : task'[t] = Idle
    BY <1>8 DEF Restart, Rebuild, Stored
  <2> QED BY <1>0, <2>1 DEF NeglectInv, HeedInv, DagIsStored, StoredClosed, PastIsStored,
                            UncheckedIsRead, PassedHeeds, ValidHeeds
<1>9. CASE UNCHANGED vars
  <2>1. /\ failures' = failures /\ metadata' = metadata /\ admitted' = admitted /\ up' = up
        /\ dagSet' = dagSet /\ Stored' = Stored /\ task' = task
    BY <1>9 DEF vars, storage, memory, Stored
  <2> QED BY <2>1 DEF NeglectInv, HeedInv, DagIsStored, StoredClosed, PastIsStored,
                      UncheckedIsRead, PassedHeeds, ValidHeeds
<1> QED BY <1>1, <1>2, <1>3, <1>4, <1>5, <1>6, <1>7, <1>8, <1>9 DEF Next, TaskStep

\* No block is stored as valid that neglects an admissible equivocation in its
\* past, for any DAG and any number of validations that interleave, as long as
\* no write fails.
THEOREM NeglectIsDetected == Spec => []ValidBlocksDoNotNeglect
<1>1. Init => NeglectInv
  <2> SUFFICES ASSUME Init PROVE HeedInv
    BY DEF NeglectInv
  <2>1. /\ Stored = {Genesis} /\ dagSet = {Genesis} /\ admitted = {}
        /\ \A t \in Tasks : task[t].pc = "idle"
    BY DagAssumption DEF Init, StorageInit, Stored, Idle
  <2>2. JustifiedBy(Genesis) = {}
    BY DagAssumption DEF JustifiedBy
  <2> QED BY <2>1, <2>2 DEF HeedInv, DagIsStored, StoredClosed, Closed, PastIsStored,
                            UncheckedIsRead, PassedHeeds, ValidHeeds
<1>2. NeglectInv => ValidBlocksDoNotNeglect
  BY DEF NeglectInv, HeedInv, ValidHeeds, Heeds, ValidBlocksDoNotNeglect
<1> QED BY <1>1, <1>2, SpecIInv, NextNeglect, PTL DEF Spec

-----------------------------------------------------------------------------
\* The heights of the valid blocks

\* Every block has a justification one below its own number (its highest
\* parent, Validate::block_number) which this node has not found invalid, or
\* which the check for neglected invalid blocks looks at.  Validation does not
\* establish the rest: a block with a slash, or one that unbonds the parent's
\* sender, may build on a block that is invalid here, and its parents need not
\* be among its justifications (a proposer takes them from there,
\* multi_parent_casper_impl.rs get_snapshot).
BuildsOnValid ==
    \A b \in Blocks \ {Genesis} :
        \E v \in DOMAIN Justifications[b] :
            /\ BlockNumber[b] = BlockNumber[Justifications[b][v]] + 1
            /\ \/ v \in Bonds[b] /\ b \notin CarriesSlash
               \/ metadata[Justifications[b][v]] # "invalid"

Lost == {b \in Blocks : fate[b] = "lost"}

\* What the memory holds and the store does not was lost.
UnstoredIsLost == up => dagSet \ Stored \subseteq Lost

\* The height map holds the valid blocks that are stored, and besides them
\* only blocks that are not stored.
HeightsAreValid ==
    /\ {b \in Blocks : metadata[b] = "valid"} \subseteq heightMap
    /\ \A b \in heightMap : metadata[b] # "invalid"

\* The justifications of a block under validation stay in the DAG, ...
JustifiedInDag ==
    \A t \in Tasks : task[t].pc # "idle" => JustifiedBy(task[t].block) \subseteq dagSet

\* ... and, unless the block was found invalid, none that the check looks at
\* is invalid.
Passes(t) ==
    \/ task[t].pc \in {"records", "check"}
    \/ task[t].pc = "insert" /\ ~task[t].invalid

PassedNeglectsNone ==
    \A t \in Tasks : Passes(t) =>
        LET b == task[t].block
        IN  b \notin CarriesSlash =>
              \A v \in DOMAIN Justifications[b] \cap Bonds[b] :
                  metadata[Justifications[b][v]] # "invalid"

HeightInv ==
    /\ UnstoredIsLost /\ HeightsAreValid /\ JustifiedInDag /\ PassedNeglectsNone
    /\ up => validate_dag_state(heightMap)
    /\ RefusesOnlyAfterLostMetadata

\* A block one above a height that is there leaves no hole.
LEMMA NoHoleAbove ==
    ASSUME NEW heights \in SUBSET Blocks, validate_dag_state(heights),
           NEW h \in heights, NEW b \in Blocks, BlockNumber[b] = BlockNumber[h] + 1
    PROVE  validate_dag_state(heights \cup {b})
<1> DEFINE numbers == {BlockNumber[x] : x \in heights}
           n == BlockNumber[h]
<1>1. n \in numbers /\ numbers \subseteq Nat /\ n \in Nat
  BY DagAssumption
<1>2. \A i, j \in numbers : \A k \in i..j : k \in numbers
  BY DEF validate_dag_state
<1>3. {BlockNumber[x] : x \in heights \cup {b}} = numbers \cup {n + 1}
  OBVIOUS
<1> HIDE DEF numbers, n
<1>4. ASSUME NEW i \in numbers \cup {n + 1}, NEW j \in numbers \cup {n + 1}, NEW k \in i..j
      PROVE  k \in numbers \cup {n + 1}
  <2>1. i \in Nat /\ j \in Nat /\ k \in Nat /\ i <= k /\ k <= j
    BY <1>1
  <2>2. CASE k = n + 1
    BY <2>2
  <2>3. CASE k <= n
    <3>1. i \in numbers /\ k \in i..n
      BY <1>1, <2>1, <2>3
    <3> QED BY <1>1, <1>2, <3>1
  <2>4. CASE k > n + 1
    <3>1. j \in numbers /\ k \in n..j
      BY <1>1, <2>1, <2>4
    <3> QED BY <1>1, <1>2, <3>1
  <2> QED BY <1>1, <2>1, <2>2, <2>3, <2>4
<1> QED BY <1>3, <1>4 DEF validate_dag_state

\* What an insert does to the height map, and what is lost by it.
LEMMA InsertEffect ==
    ASSUME StorageTypeOK, NEW b \in Blocks, NEW invalid \in BOOLEAN, NEW n \in 1..5,
           insert(b, invalid, n)
    PROVE  /\ heightMap' = IF invalid THEN heightMap ELSE heightMap \cup {b}
           /\ up' = validate_dag_state(heightMap')
           /\ \/ ~up' /\ metadata' = metadata /\ fate' = fate
              \/ up' /\ metadata' = metadata /\ fate' = [fate EXCEPT ![b] = "lost"]
              \/ /\ up' /\ \A c \in Blocks : c # b => fate'[c] = fate[c]
                 /\ metadata' = [metadata EXCEPT ![b] = IF invalid THEN "invalid" ELSE "valid"]
<1> DEFINE written == {WriteOrder[i] : i \in 1..(IF up' THEN n - 1 ELSE 0)}
<1>1. /\ heightMap' = IF invalid THEN heightMap ELSE heightMap \cup {b}
      /\ up' = validate_dag_state(heightMap')
      /\ metadata' = IF "metadata" \in written
                     THEN [metadata EXCEPT ![b] = IF invalid THEN "invalid" ELSE "valid"]
                     ELSE metadata
      /\ fate' = IF up' THEN [fate EXCEPT ![b] = Fate(written)] ELSE fate
  BY DEF insert
<1>2. up' \in BOOLEAN
  BY <1>1 DEF validate_dag_state
<1>3. ~up' => written = {}
  OBVIOUS
<1>4. "metadata" \notin written => Fate(written) = "lost"
  BY DEF Fate
<1> HIDE DEF written
<1>5. \A c \in Blocks : c # b => [fate EXCEPT ![b] = Fate(written)][c] = fate[c]
  BY DEF StorageTypeOK
<1>6. CASE ~up'
  BY <1>1, <1>3, <1>6
<1>7. CASE up' /\ "metadata" \notin written
  BY <1>1, <1>4, <1>7
<1>8. CASE up' /\ "metadata" \in written
  BY <1>1, <1>5, <1>8
<1> QED BY <1>1, <1>2, <1>6, <1>7, <1>8

\* A step that leaves the storage alone, and passes no block that was not
\* passed before, keeps the invariant.
LEMMA QuietHeights ==
    ASSUME IInv, HeightInv, NEW t \in Tasks, QuietStep(t), Passes(t)' => Passes(t)
    PROVE  HeightInv'
<1>1. UNCHANGED <<metadata, dagSet, heightMap, up, fate>>
  BY DEF QuietStep, memory
<1>2. UnstoredIsLost' /\ HeightsAreValid' /\ RefusesOnlyAfterLostMetadata'
  BY <1>1 DEF HeightInv, UnstoredIsLost, HeightsAreValid, RefusesOnlyAfterLostMetadata,
              Stored, Lost
<1>3. up' => validate_dag_state(heightMap')
  BY <1>1 DEF HeightInv
<1>4. \A u \in Tasks \ {t} : task'[u] = task[u]
  BY DEF QuietStep, TaskMoves
<1>5. task'[t].pc = "idle" \/ task'[t].block = task[t].block
  BY DEF QuietStep, TaskMoves, Idle
<1>6. JustifiedInDag'
  BY <1>1, <1>4, <1>5 DEF JustifiedInDag, HeightInv, QuietStep
<1>7. PassedNeglectsNone'
  <2> SUFFICES ASSUME NEW u \in Tasks, Passes(u)'
               PROVE  Passes(u) /\ task'[u].block = task[u].block
    BY <1>1 DEF PassedNeglectsNone, HeightInv
  <2>1. CASE u = t
    BY <1>5, <2>1 DEF Passes
  <2>2. CASE u # t
    BY <1>4, <2>2 DEF Passes
  <2> QED BY <2>1, <2>2
<1> QED BY <1>2, <1>3, <1>6, <1>7 DEF HeightInv

\* A validation that begins has its justifications in the DAG, and goes on
\* only if the check finds none of them to be a neglected invalid block.
LEMMA StartHeights ==
    ASSUME IInv, HeightInv, NEW t \in Tasks, NEW b \in Blocks, Start(t, b)
    PROVE  HeightInv'
<1>1. /\ \A u \in Tasks \ {t} : task'[u] = task[u]
      /\ task'[t].block = b /\ task'[t].pc \in {"insert", "records"}
      /\ task'[t].pc = "insert" => task'[t].invalid
  BY StartBase DEF IInv
<1>2. UNCHANGED <<metadata, dagSet, heightMap, up, fate>>
  BY DEF Start, storage, memory
<1>3. UnstoredIsLost' /\ HeightsAreValid' /\ RefusesOnlyAfterLostMetadata'
  BY <1>2 DEF HeightInv, UnstoredIsLost, HeightsAreValid, RefusesOnlyAfterLostMetadata,
              Stored, Lost
<1>4. up' => validate_dag_state(heightMap')
  BY <1>2 DEF HeightInv
<1>5. JustifiedBy(b) \subseteq dagSet
  BY DEF Start, dependencies_in_dag, JustifiedBy
<1>6. JustifiedInDag'
  BY <1>1, <1>2, <1>5 DEF JustifiedInDag, HeightInv
<1>7. Passes(t)' => ~neglected_invalid_block(b, dagSet)
  <2>1. task'[t].pc = IF neglected_invalid_block(b, dagSet) THEN "insert" ELSE "records"
    BY DEF Start, IInv, Base, DetectorTyped
  <2> QED BY <1>1, <2>1 DEF Passes
<1>8. ASSUME ~neglected_invalid_block(b, dagSet), b \notin CarriesSlash,
             NEW v \in DOMAIN Justifications[b] \cap Bonds[b]
      PROVE  metadata[Justifications[b][v]] # "invalid"
  <2>1. Justifications[b][v] \in Blocks
    BY DagAssumption
  <2>2. metadata[Justifications[b][v]] = "invalid" => Justifications[b][v] \in lookup(dagSet)
    BY <2>1 DEF lookup, Stored, IInv, Base, StoredInDag
  <2> QED BY <1>8, <2>2 DEF neglected_invalid_block
<1>9. PassedNeglectsNone'
  <2> SUFFICES ASSUME NEW u \in Tasks, Passes(u)', task'[u].block \notin CarriesSlash,
                      NEW v \in DOMAIN Justifications[task'[u].block] \cap Bonds[task'[u].block]
               PROVE  metadata[Justifications[task'[u].block][v]] # "invalid"
    BY <1>2 DEF PassedNeglectsNone
  <2>1. CASE u = t
    BY <1>1, <1>7, <1>8, <2>1
  <2>2. CASE u # t
    BY <1>1, <2>2 DEF PassedNeglectsNone, HeightInv, Passes
  <2> QED BY <2>1, <2>2
<1> QED BY <1>3, <1>4, <1>6, <1>9 DEF HeightInv

\* An insert leaves no hole unless metadata had been lost: the block builds on
\* one that is in the DAG and not invalid, and that is in the height map unless
\* its metadata was lost.
LEMMA InsertHeights ==
    ASSUME IInv, HeightInv, BuildsOnValid, up, NEW t \in Tasks,
           InsertBlock(t) \/ \E n \in 1..4 : InsertFails(t, n)
    PROVE  HeightInv'
<1> DEFINE b == task[t].block
           invalid == task[t].invalid
           verdict == IF invalid THEN "invalid" ELSE "valid"
<1>1. InsertStep(t) /\ task[t].pc = "insert"
  BY InsertBlockStep DEF IInv, InsertBlock, InsertFails
<1>2. /\ b \in Blocks \ dagSet /\ b # Genesis /\ invalid \in BOOLEAN /\ StorageTypeOK
      /\ Stored \subseteq dagSet /\ heightMap \subseteq dagSet /\ dagSet \subseteq Blocks
      /\ metadata[b] = "absent"
  BY <1>1 DEF IInv, Base, TasksApart, StoredInDag, DetectorTyped, TaskRecords,
              StorageTypeOK, Stored
<1>3. /\ dagSet' = dagSet \cup {b} /\ task'[t].pc = "idle"
      /\ \A u \in Tasks \ {t} : task'[u] = task[u]
  BY <1>1 DEF InsertStep, InsertOutcome, TaskMoves, Idle
<1>4. PICK n \in 1..5 : insert(b, invalid, n)
  BY DEF InsertBlock, InsertFails
<1>5. /\ heightMap' = IF invalid THEN heightMap ELSE heightMap \cup {b}
      /\ up' = validate_dag_state(heightMap')
      /\ \/ ~up' /\ metadata' = metadata /\ fate' = fate
         \/ up' /\ metadata' = metadata /\ fate' = [fate EXCEPT ![b] = "lost"]
         \/ /\ up' /\ \A c \in Blocks : c # b => fate'[c] = fate[c]
            /\ metadata' = [metadata EXCEPT ![b] = verdict]
  BY <1>2, <1>4, InsertEffect
<1> HIDE DEF b, invalid
<1>6. metadata \in [Blocks -> {"absent", "valid", "invalid"}]
      /\ fate \in [Blocks -> {"none", "lost", "partial", "complete"}]
  BY <1>2 DEF StorageTypeOK
<1>7. \A c \in dagSet : c \in Blocks /\ c # b /\ metadata'[c] = metadata[c] /\ fate'[c] = fate[c]
  BY <1>2, <1>5, <1>6
<1>8. UnstoredIsLost'
  <2> SUFFICES ASSUME up', NEW c \in dagSet', c \notin Stored' PROVE fate'[c] = "lost" /\ c \in Blocks
    BY DEF UnstoredIsLost, Lost
  <2>1. CASE c \in dagSet
    BY <1>7, <2>1 DEF HeightInv, UnstoredIsLost, Stored, Lost
  <2>2. CASE c = b
    <3>1. metadata'[b] = "absent"
      BY <1>2, <2>2 DEF Stored
    <3> QED BY <1>2, <1>5, <1>6, <2>2, <3>1
  <2> QED BY <1>3, <2>1, <2>2
<1>9. HeightsAreValid'
  <2>1. ASSUME NEW c \in Blocks, metadata'[c] = "valid" PROVE c \in heightMap'
    <3>1. CASE c = b
      <4>1. ~invalid
        BY <1>2, <1>5, <1>6, <2>1, <3>1
      <4> QED BY <1>5, <3>1, <4>1
    <3>2. CASE c # b
      <4>1. metadata[c] = "valid"
        BY <1>5, <1>6, <2>1, <3>2
      <4> QED BY <1>5, <4>1 DEF HeightInv, HeightsAreValid
    <3> QED BY <3>1, <3>2
  <2>2. ASSUME NEW c \in heightMap' PROVE metadata'[c] # "invalid"
    <3>1. CASE c = b
      <4>1. ~invalid
        BY <1>2, <1>5, <2>2, <3>1
      <4> QED BY <1>2, <1>5, <1>6, <3>1, <4>1
    <3>2. CASE c # b
      <4>1. c \in heightMap
        BY <1>5, <2>2, <3>2
      <4> QED BY <1>2, <1>7, <4>1 DEF HeightInv, HeightsAreValid
    <3> QED BY <3>1, <3>2
  <2> QED BY <2>1, <2>2 DEF HeightsAreValid
<1>10. JustifiedInDag'
  BY <1>3 DEF JustifiedInDag, HeightInv
<1>11. PassedNeglectsNone'
  <2> SUFFICES ASSUME NEW u \in Tasks, Passes(u)', task'[u].block \notin CarriesSlash,
                      NEW v \in DOMAIN Justifications[task'[u].block] \cap Bonds[task'[u].block]
               PROVE  metadata'[Justifications[task'[u].block][v]] # "invalid"
    BY DEF PassedNeglectsNone
  <2>1. task'[u] = task[u] /\ Passes(u) /\ task[u].pc # "idle"
    BY <1>3 DEF Passes
  <2>2. Justifications[task[u].block][v] \in dagSet
    BY <2>1 DEF HeightInv, JustifiedInDag, JustifiedBy
  <2>3. metadata[Justifications[task[u].block][v]] # "invalid"
    BY <2>1 DEF HeightInv, PassedNeglectsNone
  <2> QED BY <1>7, <2>1, <2>2, <2>3
<1>12. RefusesOnlyAfterLostMetadata'
  <2> SUFFICES ASSUME ~up' PROVE \E c \in Blocks : fate'[c] = "lost"
    BY DEF RefusesOnlyAfterLostMetadata
  <2>1. fate' = fate /\ ~invalid
    BY <1>5 DEF HeightInv
  <2>2. PICK v \in DOMAIN Justifications[b] :
           /\ BlockNumber[b] = BlockNumber[Justifications[b][v]] + 1
           /\ \/ v \in Bonds[b] /\ b \notin CarriesSlash
              \/ metadata[Justifications[b][v]] # "invalid"
    BY <1>2 DEF BuildsOnValid
  <2> DEFINE h == Justifications[b][v]
  <2>3. h \in dagSet
    BY <1>1 DEF HeightInv, JustifiedInDag, JustifiedBy, b
  <2>4. metadata[h] # "invalid"
    BY <1>1, <2>1, <2>2 DEF HeightInv, PassedNeglectsNone, Passes, b, invalid
  <2>5. h \notin heightMap
    BY <1>2, <1>5, <2>1, <2>2, NoHoleAbove DEF HeightInv
  <2>6. h \notin Stored
    BY <1>2, <1>6, <2>3, <2>4, <2>5 DEF HeightInv, HeightsAreValid, Stored
  <2> QED BY <2>1, <2>3, <2>6 DEF HeightInv, UnstoredIsLost, Lost
<1> QED BY <1>5, <1>8, <1>9, <1>10, <1>11, <1>12 DEF HeightInv

\* A restart finds the heights as they were in memory, unless some are lost.
LEMMA RestartHeights ==
    ASSUME IInv, HeightInv, Restart
    PROVE  HeightInv'
<1>1. /\ metadata' = metadata /\ fate' = fate /\ dagSet' = Stored /\ Stored' = Stored
      /\ heightMap' = {b \in Blocks : metadata[b] = "valid"}
      /\ up' = validate_dag_state(heightMap')
      /\ \A t \in Tasks : task'[t] = Idle
  BY DEF Restart, Rebuild, Stored
<1>2. UnstoredIsLost' /\ HeightsAreValid'
  BY <1>1 DEF UnstoredIsLost, HeightsAreValid
<1>3. JustifiedInDag' /\ PassedNeglectsNone'
  BY <1>1 DEF JustifiedInDag, PassedNeglectsNone, Passes, Idle
<1>4. RefusesOnlyAfterLostMetadata'
  <2> SUFFICES ASSUME ~up', up, \A b \in Blocks : fate[b] # "lost" PROVE FALSE
    BY <1>1 DEF HeightInv, RefusesOnlyAfterLostMetadata
  <2>1. dagSet \subseteq Stored
    BY DEF HeightInv, UnstoredIsLost, Lost
  <2>2. heightMap \subseteq dagSet /\ metadata \in [Blocks -> {"absent", "valid", "invalid"}]
    BY DEF IInv, Base, StorageTypeOK
  <2>3. heightMap' = heightMap
    BY <1>1, <2>1, <2>2 DEF HeightInv, HeightsAreValid, Stored
  <2> QED BY <1>1, <2>3 DEF HeightInv
<1> QED BY <1>1, <1>2, <1>3, <1>4 DEF HeightInv

\* Every step keeps the invariant, if blocks build on valid blocks.
LEMMA NextHeights == IInv /\ HeightInv /\ BuildsOnValid /\ [Next]_vars => HeightInv'
<1> SUFFICES ASSUME IInv, HeightInv, BuildsOnValid, [Next]_vars PROVE HeightInv'
  OBVIOUS
<1>0. Base /\ Idle.pc = "idle"
  BY DEF IInv, Idle
<1>1. ASSUME NEW t \in Tasks, NEW b \in Blocks, Start(t, b) PROVE HeightInv'
  BY <1>1, StartHeights
<1>2. ASSUME NEW t \in Tasks, ReadRecords(t) PROVE HeightInv'
  BY <1>0, <1>2, ReadRecordsQuiet, QuietHeights DEF Passes
<1>3. ASSUME NEW t \in Tasks, NEW rec \in task[t].records, CheckRecord(t, rec) PROVE HeightInv'
  BY <1>0, <1>3, CheckRecordQuiet, QuietHeights DEF Passes
<1>4. ASSUME NEW t \in Tasks, NEW requested \in BOOLEAN, CheckEquivocations(t, requested)
      PROVE  HeightInv'
  BY <1>0, <1>4, CheckEquivocationsQuiet, QuietHeights DEF Passes
<1>5. ASSUME NEW t \in Tasks, FindRecord(t) \/ insert_equivocation_record(t) PROVE HeightInv'
  <2>1. /\ QuietStep(t) /\ task'[t].invalid = task[t].invalid
        /\ task[t].pc \in {"admissible", "record"} /\ task'[t].pc \in {"insert", "record"}
    BY <1>0, <1>5, FindRecordQuiet, InsertRecordQuiet
  <2>2. task'[t].invalid
    BY <2>1 DEF IInv, ValidNamesLatest
  <2> QED BY <2>1, <2>2, QuietHeights DEF Passes
<1>6. ASSUME up, NEW t \in Tasks, InsertBlock(t) \/ \E n \in 1..4 : InsertFails(t, n)
      PROVE  HeightInv'
  BY <1>6, InsertHeights
<1>7. ASSUME NEW t \in Tasks, TrackerFails(t) PROVE HeightInv'
  BY <1>0, <1>7, TrackerFailsQuiet, QuietHeights DEF Passes
<1>8. CASE Restart
  BY <1>8, RestartHeights
<1>9. CASE UNCHANGED vars
  <2>1. UNCHANGED <<metadata, dagSet, heightMap, up, fate, task>>
    BY <1>9 DEF vars, storage, memory
  <2> QED BY <2>1 DEF HeightInv, UnstoredIsLost, HeightsAreValid, JustifiedInDag, Passes,
                      PassedNeglectsNone, RefusesOnlyAfterLostMetadata, Stored, Lost
<1> QED BY <1>1, <1>2, <1>3, <1>4, <1>5, <1>6, <1>7, <1>8, <1>9 DEF Next, TaskStep

\* The assertion of validate_dag_state fails, on insert or at start-up, only
\* after a write of metadata had failed, for any DAG whose blocks build on
\* blocks that this node has not found invalid, any number of validations that
\* interleave, of failed writes and of restarts.
THEOREM HeightsHaveNoHole == Spec /\ []BuildsOnValid => []RefusesOnlyAfterLostMetadata
<1>1. Init => HeightInv
  <2> SUFFICES ASSUME Init PROVE HeightInv
    OBVIOUS
  <2>1. /\ Stored = {Genesis} /\ dagSet = {Genesis} /\ heightMap = {Genesis} /\ up
        /\ \A b \in Blocks : metadata[b] = IF b = Genesis THEN "valid" ELSE "absent"
        /\ \A t \in Tasks : task[t].pc = "idle"
    BY DagAssumption DEF Init, StorageInit, Stored, Idle
  <2>2. validate_dag_state({Genesis})
    BY DagAssumption DEF validate_dag_state
  <2>3. HeightsAreValid
    BY <2>1, DagAssumption DEF HeightsAreValid
  <2> QED BY <2>1, <2>2, <2>3 DEF HeightInv, UnstoredIsLost, JustifiedInDag, Passes,
                                  PassedNeglectsNone, RefusesOnlyAfterLostMetadata
<1>2. HeightInv => RefusesOnlyAfterLostMetadata
  BY DEF HeightInv
<1> QED BY <1>1, <1>2, SpecIInv, NextHeights, PTL DEF Spec
=============================================================================
