-------------------------------- MODULE MCRepos --------------------------------
(* Two requests at once on a name that is taken up to twice, two members,   *)
(* two roles.                                                               *)
EXTENDS Repos, TLC

CONSTANTS r1, r2, m1, m2

MCRequests == {r1, r2}
MCMembers  == {m1, m2}

Symmetry == Permutations(MCRequests) \cup Permutations(MCMembers)
=============================================================================
