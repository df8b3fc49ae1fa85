----------------------- MODULE MCEquivocationDetector -----------------------
(***************************************************************************)
(* An instance of EquivocationDetector for TLC.                            *)
(***************************************************************************)
EXTENDS EquivocationDetector, TLC

CONSTANTS g, e1, e2, f1, c2, d3, k3, n2, v1, v2, v3, v4, p1

MCValidators == {v1, v2, v3, v4}

\* v1 equivocates: e1 and e2 on genesis, f1 on e1.  c2 builds on e1 and
\* bonds v4.  d3 has seen e2 and slashes v1; k3 builds on d3, where v1 is no
\* longer bonded.  n2 builds on c2, cites k3 and still keeps v1 bonded.
MCBlocks == {g, e1, e2, f1, c2, d3, k3, n2}
MCSender == (g :> None) @@ (e1 :> v1) @@ (e2 :> v1) @@ (f1 :> v1)
            @@ (c2 :> v2) @@ (d3 :> v3) @@ (k3 :> v3) @@ (n2 :> v2)
MCSeqNum == (g :> 0) @@ (e1 :> 1) @@ (e2 :> 1) @@ (f1 :> 2)
            @@ (c2 :> 1) @@ (d3 :> 1) @@ (k3 :> 2) @@ (n2 :> 2)
MCBlockNumber == (g :> 0) @@ (e1 :> 1) @@ (e2 :> 1) @@ (f1 :> 2)
                 @@ (c2 :> 2) @@ (d3 :> 1) @@ (k3 :> 2) @@ (n2 :> 3)
OnGenesis == (v1 :> g) @@ (v2 :> g) @@ (v3 :> g)
MCJustifications ==
    (g :> << >>) @@ (e1 :> OnGenesis) @@ (e2 :> OnGenesis)
    @@ (f1 :> ((v1 :> e1) @@ OnGenesis))
    @@ (c2 :> ((v1 :> e1) @@ OnGenesis))
    @@ (d3 :> ((v1 :> e2) @@ OnGenesis))
    @@ (k3 :> ((v2 :> g) @@ (v3 :> d3)))
    @@ (n2 :> ((v1 :> e1) @@ (v2 :> c2) @@ (v3 :> k3) @@ (v4 :> c2)))
MCBonds ==
    [b \in MCBlocks |->
        CASE b \in {d3, k3} -> {v2, v3} [] b \in {c2, n2} -> MCValidators [] OTHER -> {v1, v2, v3}]

\* The two sides of the equivocation carry the same deploy.
MCDeploysOf == [b \in MCBlocks |-> IF b \in {e1, e2} THEN {p1} ELSE {}]

\* Every block has a justification one below its own number that is genesis,
\* or that the check for neglected invalid blocks looks at: the premise
\* BuildsOnValid of HeightsHaveNoHole (EquivocationProofs) holds throughout.
ASSUME InstanceBuildsOnValid ==
    \A b \in MCBlocks \ {g} :
        \E v \in DOMAIN MCJustifications[b] :
            /\ MCBlockNumber[b] = MCBlockNumber[MCJustifications[b][v]] + 1
            /\ MCJustifications[b][v] = g \/ (v \in MCBonds[b] /\ b \notin CarriesSlash)

TaskSymmetry == Permutations(Tasks)
=============================================================================
