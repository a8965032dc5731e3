------------------------------ MODULE MCPulls ------------------------------
(* Two runs of one driver on one issue, and one request and one commit of the  *)
(* owner, on a repo with or without a main branch.                            *)
EXTENDS Pulls, TLC

CONSTANTS r1, r2, q1, c1, s1, coder

MCRuns     == {r1, r2}
MCRequests == {q1}
MCPushes   == {c1}
MCSeed     == {s1}
MCOneBranch   == {coder}
MCBranchOf    == [r \in MCRuns |-> coder]

Symmetry == Permutations(MCRuns)
=============================================================================
