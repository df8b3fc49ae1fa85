------------------------ MODULE EquivocationDetector ------------------------
(***************************************************************************)
(* Concurrent validations against the block DAG storage: the checks of     *)
(* MultiParentCasperImpl::validate for neglected invalid blocks and for    *)
(* equivocations, the equivocation tracker they read and write, and        *)
(* handle_valid_block / handle_invalid_block with the insert.              *)
(*                                                                         *)
(*   tracker   equivocation-tracker: per record (equivocator, base number) *)
(*             the detected block hashes, or NoRecord; persistent          *)
(*   task      per validation: program counter and locals                  *)
(*   raced     history: blocks stored as valid although their sender's     *)
(*             latest message had changed since their snapshot             *)
(*   admitted  history: blocks whose last validation found an admissible   *)
(*             equivocation                                                *)
(*                                                                         *)
(* A validation works on the representation it took at its start (dag,     *)
(* latest); the tracker is read and written without global_lock, so every  *)
(* access is a step of its own.  block_summary, the checkpoint and the     *)
(* bonds cache are inputs: only blocks that pass them are modelled.        *)
(* Which blocks are requested as a dependency is the casper buffer's.      *)
(***************************************************************************)
EXTENDS BlockDagStorage

CONSTANTS
    Tasks,
    NoRecord,
    CarriesSlash   \* blocks with a slash system deploy

Key(b) == <<Sender[b], SeqNum[b] - 1>>
RecordKeys == {Key(b) : b \in Blocks \ {Genesis}}

ASSUME DetectorAssumption ==
    /\ CarriesSlash \subseteq Blocks
    /\ \A hashes \in SUBSET Blocks : NoRecord # hashes

VARIABLES tracker, task, raced, admitted

vars == <<storage, tracker, task, raced, admitted>>

Idle == [pc |-> "idle", block |-> None, dag |-> {}, latest |-> None,
         invalid |-> FALSE, records |-> {}]

\* A record as a task holds it: its key and its detected block hashes.
Records == [key : RecordKeys, hashes : SUBSET Blocks]

TypeOK ==
    /\ StorageTypeOK
    /\ tracker \in [RecordKeys -> (SUBSET Blocks) \cup {NoRecord}]
    /\ \A t \in Tasks :
         /\ task[t].pc \in {"idle", "records", "check", "admissible", "record", "insert"}
         /\ task[t].block \in Blocks \cup {None}
         /\ task[t].dag \subseteq Blocks
         /\ task[t].latest \in Blocks \cup {None}
         /\ task[t].invalid \in BOOLEAN
         /\ task[t].records \subseteq Records
    /\ raced \subseteq Blocks /\ admitted \subseteq Blocks

Init ==
    /\ StorageInit
    /\ tracker = [k \in RecordKeys |-> NoRecord]
    /\ task = [t \in Tasks |-> Idle]
    /\ raced = {} /\ admitted = {}

equivocation_records ==
    {[key |-> k, hashes |-> tracker[k]] : k \in {x \in RecordKeys : tracker[x] # NoRecord}}

-----------------------------------------------------------------------------
(* The checks, on the representation a validation has taken                *)

neglected_invalid_block(b, dag) ==
    /\ \E v \in DOMAIN Justifications[b] \cap Bonds[b] :
         /\ Justifications[b][v] \in lookup(dag)
         /\ metadata[Justifications[b][v]] = "invalid"
    /\ b \notin CarriesSlash

\* The blocks on the creator justification chain of b, b first.
creator_chain[b \in Blocks] ==
    {b} \cup IF b = Genesis THEN {} ELSE creator_chain[Justifications[b][Sender[b]]]

\* find_creator_justification_ancestor_with_seq_num: none if the walk meets
\* a block that the representation does not know.
child_of_base(b, base, dag) ==
    {c \in creator_chain[b] :
        /\ SeqNum[c] = base + 1
        /\ \A x \in creator_chain[b] :
             SeqNum[x] > base /\ c # b => x \in lookup(dag)}

\* What one justification h adds: the block of the equivocator whose branch
\* it shows (maybe_add_equivocation_child), if its number is past the base.
ShownBy(h, key) ==
    IF h = Genesis THEN {}
    ELSE IF Sender[h] = key[1] THEN {h}
    ELSE {Justifications[h][v] : v \in DOMAIN Justifications[h] \cap {key[1]}}

PastBase(h, key) == {x \in ShownBy(h, key) : SeqNum[x] > key[2]}

AddsChild(h, rec, dag) ==
    \E x \in PastBase(h, rec.key) : child_of_base(x, rec.key[2], dag) # {}

\* The errors: h has no justification for the equivocator, or the chain to
\* the child of the base block is broken.
Fails(h, rec, dag) ==
    \/ h # Genesis /\ ShownBy(h, rec.key) = {}
    \/ \E x \in PastBase(h, rec.key) : child_of_base(x, rec.key[2], dag) = {}

\* is_equivocation_detectable goes through the justifications in the order
\* of a hash map, and stops at the first recorded block, at the second child
\* (the same child found twice counts twice) or at the first error: all the
\* results some order gives.
is_equivocation_detectable(b, rec, dag) ==
    LET validators == DOMAIN Justifications[b]
        recorded == {v \in validators : Justifications[b][v] \in rec.hashes}
        children == {v \in validators \ recorded : AddsChild(Justifications[b][v], rec, dag)}
        failing == {v \in validators \ recorded : Fails(Justifications[b][v], rec, dag)}
        detects == recorded # {} \/ Cardinality(children) > 1
    IN  (IF detects THEN {"neglected"} ELSE {})
        \cup (IF failing # {} THEN {"error"} ELSE {})
        \cup (IF ~detects /\ failing = {} THEN {"oblivious"} ELSE {})

\* Mutant of get_equivocation_discovery_status: the test of the bond inverted.
InvertedDiscoveryStatus(b, rec, dag) ==
    IF rec.key[1] \notin Bonds[b] THEN is_equivocation_detectable(b, rec, dag)
    ELSE {"detected"}

get_equivocation_discovery_status(b, rec, dag) ==
    IF rec.key[1] \in Bonds[b] THEN is_equivocation_detectable(b, rec, dag)
    ELSE {"detected"}

-----------------------------------------------------------------------------
(* The steps of a validation                                               *)

Goto(t, pc) == task' = [task EXCEPT ![t].pc = pc]
Finish(t) == task' = [task EXCEPT ![t] = Idle]

\* Mutant of dependencies_in_dag: the check is left out.
NoDependencyCheck(b) == TRUE

dependencies_in_dag(b) ==
    \A v \in DOMAIN Justifications[b] : Justifications[b][v] \in dagSet

\* The node takes up a block that is not in the DAG and whose justifications
\* are, takes its representation of the DAG and checks for neglected invalid
\* blocks (the metadata of what the representation holds no longer changes).
Start(t, b) ==
    /\ task[t].pc = "idle"
    /\ b \notin dagSet /\ \A u \in Tasks : task[u].block # b
    /\ dependencies_in_dag(b)
    /\ LET neglected == neglected_invalid_block(b, dagSet)
       IN  task' = [task EXCEPT ![t] =
                      [pc |-> IF neglected THEN "insert" ELSE "records",
                       block |-> b, dag |-> dagSet, latest |-> latestMessages[Sender[b]],
                       invalid |-> neglected, records |-> {}]]
    /\ admitted' = admitted \ {b}
    /\ UNCHANGED <<storage, tracker, raced>>

\* is_neglected_equivocation_detected_with_update reads the records once.
ReadRecords(t) ==
    /\ task[t].pc = "records"
    /\ task' = [task EXCEPT ![t].pc = "check", ![t].records = equivocation_records]
    /\ UNCHANGED <<storage, tracker, raced, admitted>>

\* update_equivocation_record: the record as it was read, and the new hash.
update_equivocation_record(rec, b) ==
    tracker' = [tracker EXCEPT ![rec.key] = rec.hashes \cup {b}]

\* update_equivocations_tracker, for the records in the order of a hash set.
CheckRecord(t, rec) ==
    /\ task[t].pc = "check" /\ rec \in task[t].records
    /\ LET b == task[t].block
           Left == [task EXCEPT ![t].records = @ \ {rec}]
       IN  \E status \in get_equivocation_discovery_status(b, rec, task[t].dag) :
             \/ /\ status = "neglected"
                /\ task' = [task EXCEPT ![t].pc = "insert", ![t].invalid = TRUE,
                                        ![t].records = {}]
                /\ UNCHANGED tracker
             \/ /\ status = "detected"
                /\ update_equivocation_record(rec, b)
                /\ task' = Left
             \/ /\ status = "oblivious"
                /\ task' = Left
                /\ UNCHANGED tracker
             \/ /\ status = "error"
                /\ Finish(t)
                /\ UNCHANGED tracker
    /\ UNCHANGED <<storage, raced, admitted>>

\* Mutant of is_equivocation: a block that others wait for is let through.
NoEquivocationIfRequested(t, requested) ==
    ~requested /\ Justifications[task[t].block][Sender[task[t].block]] # task[t].latest

is_equivocation(t, requested) ==
    Justifications[task[t].block][Sender[task[t].block]] # task[t].latest

\* check_equivocations: valid, admissible if the block is requested as a
\* dependency, else ignorable: the block is not stored.
CheckEquivocations(t, requested) ==
    /\ task[t].pc = "check" /\ task[t].records = {}
    /\ \/ /\ ~is_equivocation(t, requested)
          /\ Goto(t, "insert")
          /\ UNCHANGED admitted
       \/ /\ is_equivocation(t, requested) /\ requested
          /\ task' = [task EXCEPT ![t].pc = "admissible", ![t].invalid = TRUE]
          /\ admitted' = admitted \cup {task[t].block}
       \/ /\ is_equivocation(t, requested) /\ ~requested
          /\ Finish(t)
          /\ UNCHANGED admitted
    /\ UNCHANGED <<storage, tracker, raced>>

\* Mutant of record_exists: any record of the validator will do.
record_of_validator_exists(b) ==
    \E k \in RecordKeys : k[1] = Sender[b] /\ tracker[k] # NoRecord

record_exists(b) == tracker[Key(b)] # NoRecord

\* handle_invalid_block looks for the record, and adds an empty one later.
FindRecord(t) ==
    /\ task[t].pc = "admissible"
    /\ Goto(t, IF record_exists(task[t].block) THEN "insert" ELSE "record")
    /\ UNCHANGED <<storage, tracker, raced, admitted>>

insert_equivocation_record(t) ==
    /\ task[t].pc = "record"
    /\ tracker' = [tracker EXCEPT ![Key(task[t].block)] = {}]
    /\ Goto(t, "insert")
    /\ UNCHANGED <<storage, raced, admitted>>

NoteRace(t) ==
    raced' = IF ~task[t].invalid /\ latestMessages[Sender[task[t].block]] # task[t].latest
             THEN raced \cup {task[t].block} ELSE raced

InsertBlock(t) ==
    /\ task[t].pc = "insert"
    /\ insert(task[t].block, task[t].invalid, 5)
    /\ NoteRace(t)
    /\ Finish(t)
    /\ UNCHANGED <<failures, tracker, admitted>>

\* The n-th write of the insert fails.
InsertFails(t, n) ==
    /\ task[t].pc = "insert" /\ failures < MaxFailures
    /\ insert(task[t].block, task[t].invalid, n)
    /\ failures' = failures + 1
    /\ NoteRace(t)
    /\ Finish(t)
    /\ UNCHANGED <<tracker, admitted>>

\* A write of the tracker fails: the validation, or the handling of its
\* result, ends with an error, and the block is not stored.
TrackerFails(t) ==
    /\ failures < MaxFailures
    /\ \/ task[t].pc = "record"
       \/ /\ task[t].pc = "check"
          /\ \E rec \in task[t].records : rec.key[1] \notin Bonds[task[t].block]
    /\ failures' = failures + 1
    /\ Finish(t)
    /\ UNCHANGED <<metadata, memory, indexes, up, fate, tracker, raced, admitted>>

\* The node stops, at any point, and starts again.
Restart ==
    /\ Rebuild
    /\ task' = [t \in Tasks |-> Idle]
    /\ UNCHANGED <<tracker, raced, admitted>>

TaskStep(t) ==
    \/ \E b \in Blocks : Start(t, b)
    \/ ReadRecords(t)
    \/ \E rec \in task[t].records : CheckRecord(t, rec)
    \/ \E requested \in BOOLEAN : CheckEquivocations(t, requested)
    \/ FindRecord(t)
    \/ insert_equivocation_record(t)
    \/ InsertBlock(t)
    \/ \E n \in 1..4 : InsertFails(t, n)
    \/ TrackerFails(t)

Next ==
    \/ up /\ \E t \in Tasks : TaskStep(t)
    \/ Restart

Spec == Init /\ [][Next]_vars

-----------------------------------------------------------------------------
(* Properties                                                              *)

Siblings(b, c) == b # c /\ Key(b) = Key(c)

\* An admissible equivocation is stored only when its record is, however
\* many validations run and wherever the node stops: nothing else would ever
\* create the record, since a stored block is not validated again.
AdmissibleIsRecorded ==
    \A b \in admitted : b \in dagSet => tracker[Key(b)] # NoRecord

\* Two blocks of one validator with one sequence number are both stored as
\* valid only if one of them was stored while the other's validation was
\* under way, or if the write that makes one the latest message failed: in
\* every other order the second is recognised as an equivocation.
ValidSiblingsOnlyByRace ==
    \A b, c \in {x \in Blocks \ {Genesis} : metadata[x] = "valid"} :
        Siblings(b, c) => {b, c} \cap raced # {} \/ "partial" \in {fate[b], fate[c]}

\* Everything a block refers to, through any number of justifications: the
\* least set that holds its justifications and theirs.
JustifiedBy(b) == {Justifications[b][v] : v \in DOMAIN Justifications[b]}
Closed(past) == \A c \in past : JustifiedBy(c) \subseteq past
CausalPast ==
    [b \in Blocks |->
        {x \in Blocks : \A past \in SUBSET Blocks :
            (JustifiedBy(b) \subseteq past /\ Closed(past)) => x \in past}]

\* A block is at fault about an equivocation if two of its justifications are
\* past the base block, or if one does not say what it has seen of the
\* equivocator.
Neglects(b, key) ==
    LET past == {v \in DOMAIN Justifications[b] : PastBase(Justifications[b][v], key) # {}}
    IN  \/ \E v, w \in past : v # w
        \/ \E v \in DOMAIN Justifications[b] :
              Justifications[b][v] # Genesis /\ ShownBy(Justifications[b][v], key) = {}

\* As long as no write has failed, no block is stored as valid that has an
\* admissible equivocation anywhere in its past, keeps the equivocator bonded
\* and neglects the equivocation: between its snapshot, its one reading of the
\* records and its insert, no validation that runs beside it, and no lost
\* update of a record, hides the equivocation from the check.
ValidBlocksDoNotNeglect ==
    failures = 0 =>
        \A d \in admitted \cap Stored :
            ~ \E b \in Blocks : /\ metadata[b] = "valid" /\ Sender[d] \in Bonds[b]
                                /\ d \in CausalPast[b] /\ Neglects(b, Key(d))
=============================================================================
