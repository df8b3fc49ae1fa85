-------------------------- MODULE MCBlockRetriever --------------------------
(***************************************************************************)
(* Instances of BlockRetriever for TLC.                                    *)
(***************************************************************************)
EXTENDS BlockRetriever, TLC

CONSTANTS x1, x2, p1, p2

MCHashes == {x1, x2}
MCPeers == {p1, p2}

\* No connection at all, or one.
MCConnections == {<<>>, <<p1>>}

\* Every call for one hash; the other is only announced, which is enough to
\* take the table over its bound.
MCInputs ==
    {[op |-> o, hash |-> x1, peer |-> None] : o \in DOMAIN FirstStep}
    \cup {[op |-> "admit", hash |-> x1, peer |-> p] : p \in MCPeers}
    \cup {[op |-> "admit", hash |-> x2, peer |-> p1]}
=============================================================================
