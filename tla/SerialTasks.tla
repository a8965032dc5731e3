---------------------------- MODULE SerialTasks ----------------------------
(***************************************************************************)
(* What the Pages code relies on when it wraps an upload in                *)
(* withPublishLock (src/src/lib/pages/publish-lock.ts): for one repo the   *)
(* tasks run one at a time, at most one more call waits, a newer call      *)
(* takes the place of the one that waits, and a task that ends hands over  *)
(* to the waiting call at once.  How the calls are recorded (the Map, the  *)
(* pending slot, the promises) is left to PublishLock, which implements    *)
(* this module.                                                            *)
(***************************************************************************)
CONSTANTS Repos, Callers, RepoOf

VARIABLE stage    \* what each call is doing

Stages == {"idle", "waiting", "working", "over"}

Peers(c) == {d \in Callers : RepoOf[d] = RepoOf[c]}

Busy(c)    == {d \in Peers(c) : stage[d] = "working"}
Waiting(c) == {d \in Peers(c) : stage[d] = "waiting"}

Init == stage = [c \in Callers |-> "idle"]

(* A call for a repo on which nothing runs starts its task. *)
Begin(c) ==
    /\ stage[c] = "idle"
    /\ Busy(c) = {}
    /\ stage' = [stage EXCEPT ![c] = "working"]

(* A call for a busy repo waits, and whoever waited for that repo is told *)
(* that its task will not run.                                            *)
Join(c) ==
    /\ stage[c] = "idle"
    /\ Busy(c) # {}
    /\ stage' = [d \in Callers |->
                    IF d = c THEN "waiting"
                    ELSE IF d \in Waiting(c) THEN "over" ELSE stage[d]]

(* A task ends; the waiting call, if there is one, starts in the same step. *)
End(c) ==
    /\ stage[c] = "working"
    /\ \/ /\ Waiting(c) = {}
          /\ stage' = [stage EXCEPT ![c] = "over"]
       \/ \E d \in Waiting(c) :
              stage' = [stage EXCEPT ![c] = "over", ![d] = "working"]

(* The caller has its answer and may call again. *)
Leave(c) ==
    /\ stage[c] = "over"
    /\ stage' = [stage EXCEPT ![c] = "idle"]

Next == \E c \in Callers : Begin(c) \/ Join(c) \/ End(c) \/ Leave(c)

Spec == Init /\ [][Next]_stage
=============================================================================
