--------------------------- MODULE MCFinalization ---------------------------
(***************************************************************************)
(* Instances of Finalization for TLC.                                      *)
(***************************************************************************)
EXTENDS Finalization, TLC

CONSTANTS b0, b1, b2, b3

\* b1 and b2 are siblings by two validators; b3 merges them, main parent b1.
MCBlocks == {b0, b1, b2, b3}
MCParents == (b0 :> {}) @@ (b1 :> {b0}) @@ (b2 :> {b0}) @@ (b3 :> {b1, b2})
MCHeight == (b0 :> 0) @@ (b1 :> 1) @@ (b2 :> 1) @@ (b3 :> 2)
MCSender == (b0 :> 0) @@ (b1 :> 1) @@ (b2 :> 2) @@ (b3 :> 1)
=============================================================================
