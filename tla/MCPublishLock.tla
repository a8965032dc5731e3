--------------------------- MODULE MCPublishLock ---------------------------
(* Two repos; three callers for one of them (a task, a waiter and a newer  *)
(* call) and two for the other.                                            *)
EXTENDS PublishLock

CONSTANTS r1, r2, a1, a2, a3, b1, b2

MCRepos   == {r1, r2}
MCCallers == {a1, a2, a3, b1, b2}
MCRepoOf  == [c \in MCCallers |-> IF c \in {a1, a2, a3} THEN r1 ELSE r2]
=============================================================================
