-------------------------- MODULE MCBlockProcessor --------------------------
(***************************************************************************)
(* Instances of BlockProcessor for TLC.                                    *)
(***************************************************************************)
EXTENDS BlockProcessor, TLC

CONSTANTS b1, b2, b3

\* b3 waits for b1 and b2, b2 waits for b1.
MCBlocks == {b1, b2, b3}
MCDeps == (b1 :> {}) @@ (b2 :> {b1}) @@ (b3 :> {b1, b2})

\* Every block turns out valid.
AllValid == [x \in MCBlocks |-> {"valid"}]

\* Two blocks, the second waiting for the first, with every kind of verdict.
PairBlocks == {b1, b2}
PairDeps == (b1 :> {}) @@ (b2 :> {b1})
AnyVerdict == [x \in PairBlocks |-> VerdictKinds]

\* Tasks are interchangeable, and so are handlers.
ActorSymmetry == Permutations(Tasks) \cup Permutations(Handlers)
=============================================================================
