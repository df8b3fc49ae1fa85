--------------------------- MODULE MCCasperBuffer ---------------------------
(***************************************************************************)
(* Instances of CasperBuffer for TLC.                                      *)
(***************************************************************************)
EXTENDS CasperBuffer, FiniteSetsExt, TLC

CONSTANTS b1, b2, b3

\* b3 waits for b1 and b2, b2 waits for b1: a chain and a join.
MCBlocks == {b1, b2, b3}
MCDeps == (b1 :> {}) @@ (b2 :> {b1}) @@ (b3 :> {b1, b2})

\* The stored pairs, folded through DagAdd one at a time, give the graph that
\* Rebuild states in closed form (new_from_kv_store folds add over the map in
\* whatever order the store returns).
RebuildIsFoldOfAdd ==
    Rebuild(parentsStore) =
        FoldSet(LAMBDA pr, d : DagAdd(d, pr[1], pr[2]), EmptyDag,
                {pr \in Hash \X Hash : pr[1] \in parentsStore[pr[2]]})
=============================================================================
