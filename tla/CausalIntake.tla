---------------------------- MODULE CausalIntake ----------------------------
(***************************************************************************)
(* What the block pipeline promises, without tasks, queue, buffer or       *)
(* stores: a block is taken by one owner, may enter the DAG only while it  *)
(* is taken and only after every block it names, and is then given back;   *)
(* the DAG never loses a block; a crash gives every block back at once.    *)
(* BlockProcessor implements it.                                           *)
(***************************************************************************)
CONSTANTS Blocks, Deps

VARIABLES taken,   \* blocks somebody is working on
          dag      \* blocks that were accepted

vars == <<taken, dag>>

Init == taken = {} /\ dag = {}

Take(b) ==
    /\ b \notin taken
    /\ taken' = taken \cup {b}
    /\ UNCHANGED dag

Accept(b) ==
    /\ b \in taken
    /\ Deps[b] \subseteq dag
    /\ dag' = dag \cup {b}
    /\ UNCHANGED taken

GiveBack(b) ==
    /\ b \in taken
    /\ taken' = taken \ {b}
    /\ UNCHANGED dag

Crash == taken' = {} /\ UNCHANGED dag

Next == Crash \/ \E b \in Blocks : Take(b) \/ Accept(b) \/ GiveBack(b)

Spec == Init /\ [][Next]_vars
=============================================================================
