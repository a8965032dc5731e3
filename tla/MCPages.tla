------------------------------ MODULE MCPages ------------------------------
(* Two callbacks and the reconciler for one repo: one upload, one waiter and *)
(* one more that takes its place.  A later tree has another file, so an      *)
(* upload of it creates and deletes, and a repeated one overwrites.          *)
EXTENDS Pages, TLC

CONSTANTS h1, h2, p1, p2, t1

MCHooks   == {h1, h2}
MCOneHook == {h1}
MCTargets == {t1}
MCPaths   == {p1, p2}
MCEscaped == {}
MCFiles   == [t \in Trees |-> IF t = <<1, "raw">> THEN {p1} ELSE {p2}]

SomeWorkflows == [v \in Commits |-> IF v = 1 THEN "none" ELSE "publish"]
OtherWorkflows == [v \in Commits |-> IF v = 1 THEN "root" ELSE "publish"]
Symmetry == Permutations(MCHooks)
=============================================================================
