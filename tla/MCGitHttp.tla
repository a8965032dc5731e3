------------------------------ MODULE MCGitHttp ------------------------------
(* Two requests at once, a bucket that holds one failure, a repository that *)
(* is full after one push.                                                  *)
EXTENDS GitHttp, TLC

CONSTANTS r1, r2, t1, t2

MCRequests == {r1, r2}
MCTokens   == {t1, t2}
=============================================================================
