--------------------------- MODULE BlockDagStorage ---------------------------
(***************************************************************************)
(* The block DAG storage: the persistent block metadata with the DAG state *)
(* kept in memory beside it (BlockMetadataStore), and the three indexes    *)
(* that insert writes after it.                                            *)
(*                                                                         *)
(*   metadata        store of block_metadata_index: absent, or stored as   *)
(*                   valid or invalid                                      *)
(*   dagSet, heightMap    the DAG state in memory: every block, and the    *)
(*                   valid ones (height_map leaves the invalid ones out)   *)
(*   deployIndex, invalidBlocks, latestMessages    the indexes, persistent *)
(*   up              FALSE once the assertion on the height map has failed *)
(*   fate            history: how far the last insert of a block got       *)
(*                                                                         *)
(* insert and get_representation hold global_lock, so each is one step.    *)
(* The writes of an insert are separate puts: one may fail, or the node    *)
(* may stop between two of them (a failed write followed by Restart).      *)
(* Which blocks are finalized is the subject of Finalization; the maps of  *)
(* children, parents and numbers follow from dagSet.                       *)
(***************************************************************************)
EXTENDS Integers, FiniteSets

CONSTANTS
    Blocks, Genesis, Validators, Deploys,
    None,            \* no block
    Sender,          \* the validator that signed a block (None for genesis)
    SeqNum, BlockNumber,
    Justifications,  \* per block: validator -> its latest message
    Bonds,           \* per block: the validators with stake after it
    DeploysOf,       \* per block: the deploys in it
    MaxFailures      \* bound: writes that fail

ASSUME DagAssumption ==
    /\ IsFiniteSet(Blocks) /\ IsFiniteSet(Validators) /\ Genesis \in Blocks /\ None \notin Blocks
    /\ Sender \in [Blocks -> Validators \cup {None}]
    /\ {b \in Blocks : Sender[b] = None} = {Genesis}
    /\ SeqNum \in [Blocks -> Nat] /\ BlockNumber \in [Blocks -> Nat]
    /\ \A b \in Blocks :
         /\ DOMAIN Justifications[b] \subseteq Validators
         /\ \A v \in DOMAIN Justifications[b] : Justifications[b][v] \in Blocks
         /\ Bonds[b] \subseteq Validators /\ DeploysOf[b] \subseteq Deploys
    /\ DOMAIN Justifications[Genesis] = {}
    \* what Validate::sequence_number has established of every block
    /\ \A b \in Blocks \ {Genesis} :
         /\ Sender[b] \in DOMAIN Justifications[b]
         /\ SeqNum[b] = SeqNum[Justifications[b][Sender[b]]] + 1
    /\ MaxFailures \in Nat

VARIABLES metadata, dagSet, heightMap, deployIndex, invalidBlocks,
          latestMessages, up, fate, failures

memory == <<dagSet, heightMap>>
indexes == <<deployIndex, invalidBlocks, latestMessages>>
storage == <<metadata, memory, indexes, up, fate, failures>>

StorageTypeOK ==
    /\ metadata \in [Blocks -> {"absent", "valid", "invalid"}]
    /\ dagSet \subseteq Blocks /\ heightMap \subseteq dagSet
    /\ deployIndex \in [Deploys -> Blocks \cup {None}]
    /\ invalidBlocks \subseteq Blocks
    /\ latestMessages \in [Validators -> Blocks \cup {None}]
    /\ up \in BOOLEAN
    /\ fate \in [Blocks -> {"none", "lost", "partial", "complete"}]
    /\ failures \in 0..MaxFailures

Stored == {b \in Blocks : metadata[b] # "absent"}

\* The approved block is in place: every validator it bonds starts from it.
StorageInit ==
    /\ metadata = [b \in Blocks |-> IF b = Genesis THEN "valid" ELSE "absent"]
    /\ dagSet = {Genesis} /\ heightMap = {Genesis}
    /\ deployIndex = [d \in Deploys |-> IF d \in DeploysOf[Genesis] THEN Genesis ELSE None]
    /\ invalidBlocks = {}
    /\ latestMessages =
         [v \in Validators |-> IF v \in Bonds[Genesis] THEN Genesis ELSE None]
    /\ up = TRUE
    /\ fate = [b \in Blocks |-> IF b = Genesis THEN "complete" ELSE "none"]
    /\ failures = 0

-----------------------------------------------------------------------------
(* insert                                                                  *)

\* The assertion of validate_dag_state: the heights have no hole.
validate_dag_state(heights) ==
    LET numbers == {BlockNumber[b] : b \in heights}
    IN  \A i, j \in numbers : \A k \in i..j : k \in numbers

\* dag.lookup on a representation whose dag_set is dag: the metadata comes
\* from the store, which lacks a block whose metadata could not be written.
lookup(dag) == dag \cap Stored

\* Mutant of advances_latest_message: the newest insert always wins.
AlwaysAdvances(b) == TRUE

advances_latest_message(b) ==
    LET latest == latestMessages[Sender[b]]
    IN  \/ latest \notin Stored
        \/ SeqNum[b] >= SeqNum[latest]

\* The sender's latest message, and one for every validator that this block
\* bonds and that has none yet.  Invalid blocks count like valid ones.
new_latest_messages(b) ==
    [v \in Validators |->
        IF \/ v = Sender[b] /\ advances_latest_message(b)
           \/ v \in Bonds[b] \ DOMAIN Justifications[b] /\ latestMessages[v] = None
        THEN b ELSE latestMessages[v]]

\* Mutant of WriteOrder: the indexes are written before the metadata.
WriteOrderIndexesFirst == <<"deploys", "invalid", "latest", "metadata">>

\* The puts of insert_internal, in order.
WriteOrder == <<"metadata", "deploys", "invalid", "latest">>

Fate(written) == IF "metadata" \notin written THEN "lost"
                 ELSE IF "latest" \notin written THEN "partial" ELSE "complete"

\* insert of a block whose n-th write fails, or in full (n = Len + 1).  The
\* DAG state in memory is changed first, and is not rolled back.
insert(b, invalid, n) ==
    /\ b \notin dagSet
    /\ dagSet' = dagSet \cup {b}
    /\ heightMap' = IF invalid THEN heightMap ELSE heightMap \cup {b}
    /\ up' = validate_dag_state(heightMap')
    /\ LET written == {WriteOrder[i] : i \in 1..(IF up' THEN n - 1 ELSE 0)}
       IN  /\ metadata' = IF "metadata" \in written
                          THEN [metadata EXCEPT ![b] = IF invalid THEN "invalid" ELSE "valid"]
                          ELSE metadata
           /\ deployIndex' = IF "deploys" \in written
                             THEN [d \in Deploys |-> IF d \in DeploysOf[b] THEN b
                                                     ELSE deployIndex[d]]
                             ELSE deployIndex
           /\ invalidBlocks' = IF "invalid" \in written /\ invalid
                               THEN invalidBlocks \cup {b} ELSE invalidBlocks
           /\ latestMessages' = IF "latest" \in written THEN new_latest_messages(b)
                                ELSE latestMessages
           /\ fate' = IF up' THEN [fate EXCEPT ![b] = Fate(written)] ELSE fate

\* BlockMetadataStore::new: the DAG state is rebuilt from the stored metadata.
Rebuild ==
    /\ dagSet' = Stored
    /\ heightMap' = {b \in Blocks : metadata[b] = "valid"}
    /\ up' = validate_dag_state(heightMap')
    /\ UNCHANGED <<metadata, indexes, fate, failures>>

-----------------------------------------------------------------------------
(* Properties                                                              *)

\* Whatever write of whichever insert failed, and wherever the node stopped,
\* every index names only blocks whose metadata is stored: latest_message,
\* lookup_by_deploy_id and the invalid blocks can be resolved after a restart.
IndexesNameStoredBlocks ==
    /\ invalidBlocks \subseteq {b \in Blocks : metadata[b] = "invalid"}
    /\ \A v \in Validators : latestMessages[v] \in Stored \cup {None}
    /\ \A d \in Deploys : deployIndex[d] \in Stored \cup {None}

\* latest_messages never falls behind an insert that went through, valid or
\* not, in whatever order the blocks of the two sides of an equivocation come.
LatestMessageIsHighest ==
    \A b \in Blocks \ {Genesis} :
        fate[b] = "complete" =>
            LET latest == latestMessages[Sender[b]]
            IN  latest # None /\ SeqNum[latest] >= SeqNum[b]

\* The assertion on the height map, on insert and when the DAG state is
\* rebuilt at start-up, fails only after a write of metadata had failed: a
\* stop between any other two writes of insert leaves a node that starts.
RefusesOnlyAfterLostMetadata ==
    ~up => \E b \in Blocks : fate[b] = "lost"
=============================================================================
