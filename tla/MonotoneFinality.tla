-------------------------- MODULE MonotoneFinality --------------------------
(***************************************************************************)
(* What finalization promises to the rest of the node, without finalizer   *)
(* runs, flags, caches or locks: a block's finalization is announced       *)
(* before it is recorded, what is recorded is closed under parents and     *)
(* stays recorded, and the last finalized block only moves up; a restart   *)
(* may at most replace it by another one of its height.  Finalization      *)
(* implements it.                                                          *)
(***************************************************************************)
EXTENDS Integers

CONSTANTS Blocks, Genesis, Parents, Height

VARIABLES announced, recorded, last

vars == <<announced, recorded, last>>

Init == announced = {Genesis} /\ recorded = {Genesis} /\ last = Genesis

Announce(b) ==
    /\ announced' = announced \cup {b}
    /\ UNCHANGED <<recorded, last>>

\* b is final, and with it the blocks of s.
Record(b, s) ==
    /\ b \in s
    /\ s \subseteq announced
    /\ \A h \in s : Parents[h] \subseteq recorded \cup s
    /\ recorded' = recorded \cup s
    /\ last' = IF Height[last] <= Height[b] THEN b ELSE last
    /\ UNCHANGED announced

Recover(b) ==
    /\ b \in recorded
    /\ Height[b] = Height[last]
    /\ last' = b
    /\ UNCHANGED <<announced, recorded>>

Next == \E b \in Blocks : \/ Announce(b)
                          \/ Recover(b)
                          \/ \E s \in SUBSET Blocks : Record(b, s)

Spec == Init /\ [][Next]_vars
=============================================================================
