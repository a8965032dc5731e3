------------------------------- MODULE Pulls -------------------------------
(***************************************************************************)
(* From an issue to a merged pull request: the dispatcher                  *)
(* (src/src/lib/agents/dispatch.ts) and the coder and codex drivers, which *)
(* clone, work, push and open a pull request; the owner who pushes, opens, *)
(* merges and closes (app/api/repos/.../pulls); mergeBranches              *)
(* (src/src/lib/git/merge.ts); the rows of agent_runs and pull_requests,   *)
(* and the ledger that the bridge's own AI key is metered with.            *)
(*                                                                         *)
(* A branch is the set of commits it has, {} when the ref does not exist,  *)
(* so a push is a fast-forward when it only adds.  A commit is named by    *)
(* who makes it: a run, a merge, the owner.  There is one issue and one    *)
(* target branch.  The previews of pull requests are left out.             *)
(***************************************************************************)
EXTENDS Integers, Sequences

CONSTANTS
    Runs,        \* agent runs; each has a row of agent_runs
    Requests,    \* requests of the owner that open or merge a pull request
    Pushes,      \* commits the owner makes
    Seed,        \* commits main has at first, if the repo is not a fresh one
    Branches,    \* source branches: one of each driver for the issue
    BranchOf,    \* the branch a run commits to
    Allotment,   \* the owner's balance at first, in runs
    MaxFaults,   \* bound: failures of git or of the ledger
    MaxCrashes   \* bound: crashes of the bridge

Commits == Runs \cup Requests \cup Pushes \cup Seed
Refs    == Branches \cup {"main"}

ASSUME BranchesAssumption == "main" \notin Branches /\ BranchOf \in [Runs -> Branches]
ASSUME CommitsAssumption ==
    /\ Runs \cap Requests = {} /\ Runs \cap Pushes = {} /\ Runs \cap Seed = {}
    /\ Requests \cap Pushes = {} /\ Requests \cap Seed = {} /\ Pushes \cap Seed = {}
ASSUME BoundsAssumption ==
    Allotment \in Nat /\ MaxFaults \in Nat /\ MaxCrashes \in Nat

VARIABLES
    refs,      \* the bare repo
    pulls,     \* pull_requests of the repo, by number
    issue,     \* the status of the issue
    row,       \* agent_runs: the status of each row, "none" before it is there
    run,       \* the local state of each run of a driver
    request,   \* the local state of each request
    comments,  \* runs that have commented on the issue
    balance, debits,   \* the ledger: what is left, and how often each run was debited
    faults, crashes    \* used-up bounds

ledgerVars == <<balance, debits>>
bounds     == <<faults, crashes>>
vars == <<refs, pulls, issue, row, run, request, comments, ledgerVars, bounds>>

(* base: what was cloned.  meter: the run is to be paid from the allotment. *)
(* verdict: what the driver returns.                                        *)
IdleRun == [pc |-> "idle", base |-> {}, meter |-> FALSE, verdict |-> "ok"]

(* pull, branch, tip: the number, source branch and source_sha of the row   *)
(* as it was read, or the branch to open one for.  result: the tip of the   *)
(* local target.  A request is made once.                                   *)
IdleRequest == [pc |-> "idle", pull |-> 0, tip |-> {}, branch |-> "main", result |-> {}]
Answered    == [IdleRequest EXCEPT !.pc = "done"]

RunStates ==
    [pc : {"idle", "gate", "clone", "work", "comment", "push", "upsert", "charge", "finish"},
     base : SUBSET Commits, meter : BOOLEAN, verdict : {"ok", "error"}]

RequestStates ==
    [pc : {"idle", "open", "merge", "fetch", "push", "mark", "done"},
     pull : Nat, tip : SUBSET Commits, branch : Refs, result : SUBSET Commits]

Pull == [branch : Branches, status : {"open", "merged", "closed"},
         tip : SUBSET Commits, merge : SUBSET Commits, linked : BOOLEAN]

TypeOK ==
    /\ refs \in [Refs -> SUBSET Commits]
    /\ pulls \in Seq(Pull)
    /\ \A n \in DOMAIN pulls : pulls[n].merge # {} <=> pulls[n].status = "merged"
    /\ issue \in {"open", "closed"}
    /\ row \in [Runs -> {"none", "running", "ok", "error"}]
    /\ run \in [Runs -> RunStates]
    /\ \A r \in Runs : run[r].pc # "idle" => row[r] = "running"
    /\ request \in [Requests -> RequestStates]
    /\ comments \subseteq Runs
    /\ balance \in 0 .. Allotment
    /\ debits \in [Runs -> Nat]
    /\ faults \in 0 .. MaxFaults /\ crashes \in 0 .. MaxCrashes

Init ==
    /\ \E main \in {{}, Seed} : refs = [f \in Refs |-> IF f = "main" THEN main ELSE {}]
    /\ pulls = <<>>
    /\ issue = "open"
    /\ row = [r \in Runs |-> "none"]
    /\ run = [r \in Runs |-> IdleRun]
    /\ request = [q \in Requests |-> IdleRequest]
    /\ comments = {}
    /\ balance = Allotment
    /\ debits = [r \in Runs |-> 0]
    /\ faults = 0 /\ crashes = 0

Fault == faults < MaxFaults /\ faults' = faults + 1

RunAt(r, pc) == run[r].pc = pc
Goes(r, pc) == run' = [run EXCEPT ![r].pc = pc]
Fails(r)    == run' = [run EXCEPT ![r].pc = "finish", ![r].verdict = "error"]

(* git push of `tip` to a ref: done, or refused because the ref has moved. *)
FastForward(ref, tip) == refs[ref] \subseteq tip
GitPush(ref, tip)     == refs' = [refs EXCEPT ![ref] = tip]

(* upsertPullRequest: update the open row of the branch, or insert one. *)
OpenPulls(b) == {n \in DOMAIN pulls : pulls[n].branch = b /\ pulls[n].status = "open"}

InsertPull(b, tip, linked) ==
    pulls' = Append(pulls, [branch |-> b, status |-> "open", tip |-> tip,
                            merge |-> {}, linked |-> linked])

UpsertPull(b, tip, linked) ==
    \/ /\ OpenPulls(b) = {}
       /\ InsertPull(b, tip, linked)
    \/ \E n \in OpenPulls(b) :
          pulls' = [pulls EXCEPT ![n].tip = tip, ![n].linked = @ \/ linked]

-----------------------------------------------------------------------------
(* Slip: the row is written when the driver returns. *)
DispatchUnrecorded(r) ==
    /\ row[r] = "none"
    /\ RunAt(r, "idle")
    /\ Goes(r, "gate")
    /\ UNCHANGED <<refs, pulls, issue, row, request, comments, ledgerVars, bounds>>

(* A new issue, a comment of the owner or a dispatch request fires a run: *)
(* createAgentRun, then the driver up to its first wait.                  *)
Dispatch(r) ==
    /\ row[r] = "none"
    /\ row' = [row EXCEPT ![r] = "running"]
    /\ Goes(r, "gate")
    /\ UNCHANGED <<refs, pulls, issue, request, comments, ledgerVars, bounds>>

(* The codex driver has a login of its own. *)
Unmetered(r) == Goes(r, "clone")

(* getBalance: what the ledger has, or no answer.                           *)
Unread == -1
GetBalance(left) ==
    \/ left = balance /\ UNCHANGED faults
    \/ left = Unread /\ Fault

(* Nor is the owner's own key metered.  The bridge's key needs a balance,   *)
(* and one that cannot be read is taken for one that is there.              *)
Gate(r) ==
    /\ RunAt(r, "gate")
    /\ \/ Unmetered(r) /\ UNCHANGED faults
       \/ \E left \in {Unread} \cup 0 .. Allotment :
             /\ GetBalance(left)
             /\ IF left = 0 THEN Fails(r)
                ELSE run' = [run EXCEPT ![r].pc = "clone", ![r].meter = TRUE]
    /\ UNCHANGED <<refs, pulls, issue, row, request, comments, ledgerVars, crashes>>

(* git clone, and the agent's branch is checked out if it is there. *)
StartingPoint(r) == IF refs[BranchOf[r]] # {} THEN refs[BranchOf[r]] ELSE refs["main"]

Clone(r) ==
    /\ RunAt(r, "clone")
    /\ \/ /\ run' = [run EXCEPT ![r].pc = "work", ![r].base = StartingPoint(r)]
          /\ UNCHANGED faults
       \/ Fault /\ Fails(r)
    /\ UNCHANGED <<refs, pulls, issue, row, request, comments, ledgerVars, crashes>>

(* What git status finds in the work tree decides: nothing or only          *)
(* screenshots, a comment, or changes.                                      *)
Leaves(r) == Fails(r) \/ Goes(r, "comment") \/ Goes(r, "push")

(* The agent ends or is killed. *)
Work(r) ==
    /\ RunAt(r, "work")
    /\ Leaves(r)
    /\ UNCHANGED <<refs, pulls, issue, row, request, comments, ledgerVars, bounds>>

Unpaid(r) == Goes(r, IF run[r].meter THEN "charge" ELSE "finish")

(* postAgentComment *)
Says(r) == comments' = comments \cup {r}

Comment(r) ==
    /\ RunAt(r, "comment")
    /\ Says(r)
    /\ Unpaid(r)
    /\ UNCHANGED <<refs, pulls, issue, row, request, ledgerVars, bounds>>

(* Commit: the agent's changes on top of what was cloned. *)
Tip(r) == run[r].base \cup {r}

(* Slip: git push --force. *)
PushForced(r) ==
    /\ RunAt(r, "push")
    /\ GitPush(BranchOf[r], Tip(r))
    /\ Goes(r, "upsert")
    /\ UNCHANGED <<pulls, issue, row, request, comments, ledgerVars, bounds>>

(* Slip: the exit code of git push is not looked at. *)
PushUnchecked(r) ==
    /\ RunAt(r, "push")
    /\ IF FastForward(BranchOf[r], Tip(r))
       THEN GitPush(BranchOf[r], Tip(r))
       ELSE UNCHANGED refs
    /\ Goes(r, "upsert")
    /\ UNCHANGED <<pulls, issue, row, request, comments, ledgerVars, bounds>>

(* The push.  One that is no fast-forward is refused, and the run fails     *)
(* with its work.                                                           *)
Push(r) ==
    /\ RunAt(r, "push")
    /\ \/ /\ FastForward(BranchOf[r], Tip(r))
          /\ GitPush(BranchOf[r], Tip(r))
          /\ Goes(r, "upsert")
          /\ UNCHANGED faults
       \/ /\ ~FastForward(BranchOf[r], Tip(r))
          /\ Fails(r)
          /\ UNCHANGED <<refs, faults>>
       \/ /\ Fault
          /\ Fails(r)
          /\ UNCHANGED refs
    /\ UNCHANGED <<pulls, issue, row, request, comments, ledgerVars, crashes>>

(* git rev-parse has answered: the pull request, and the comment if the     *)
(* agent left one with its changes.                                         *)
PullAndNote(r) ==
    /\ UpsertPull(BranchOf[r], Tip(r), TRUE)
    /\ Says(r) \/ UNCHANGED comments

Upsert(r) ==
    /\ RunAt(r, "upsert")
    /\ PullAndNote(r)
    /\ Unpaid(r)
    /\ UNCHANGED <<refs, issue, row, request, ledgerVars, bounds>>

(* debit: the ledger takes the price, or answers 402, or the request or its *)
(* answer is lost.  The run is over either way.                             *)
Charge(r) ==
    /\ RunAt(r, "charge")
    /\ Goes(r, "finish")
    /\ \/ /\ balance > 0
          /\ balance' = balance - 1
          /\ debits' = [debits EXCEPT ![r] = @ + 1]
          /\ UNCHANGED faults \/ Fault
       \/ /\ UNCHANGED ledgerVars
          /\ IF balance > 0 THEN Fault ELSE UNCHANGED faults
    /\ UNCHANGED <<refs, pulls, issue, row, request, comments, crashes>>

(* finishAgentRun *)
Finish(r) ==
    /\ RunAt(r, "finish")
    /\ row' = [row EXCEPT ![r] = run[r].verdict]
    /\ run' = [run EXCEPT ![r] = IdleRun]
    /\ UNCHANGED <<refs, pulls, issue, request, comments, ledgerVars, bounds>>

RunStep(r) ==
    Gate(r) \/ Clone(r) \/ Work(r) \/ Comment(r) \/ Push(r) \/ Upsert(r) \/ Charge(r) \/ Finish(r)

-----------------------------------------------------------------------------
RequestAt(q, pc) == request[q].pc = pc
Answers(q) == request' = [request EXCEPT ![q] = Answered]

(* The owner pushes a commit to main or to a source branch. *)
OwnerPushes(c, ref) ==
    /\ \A f \in Refs : c \notin refs[f]
    /\ GitPush(ref, (IF refs[ref] # {} THEN refs[ref] ELSE refs["main"]) \cup {c})
    /\ UNCHANGED <<pulls, issue, row, run, request, comments, ledgerVars, bounds>>

(* POST pulls: listBranches answers with the tip to record ... *)
OpenPull(q, b) ==
    /\ RequestAt(q, "idle")
    /\ refs[b] # {} /\ refs["main"] # {}
    /\ request' = [request EXCEPT ![q].pc = "open", ![q].branch = b, ![q].tip = refs[b]]
    /\ UNCHANGED <<refs, pulls, issue, row, run, comments, ledgerVars, bounds>>

(* Slip: whether an open row is there is asked before the wait. *)
RecordPullBlindly(q) ==
    /\ RequestAt(q, "open")
    /\ \E linked \in BOOLEAN : InsertPull(request[q].branch, request[q].tip, linked)
    /\ Answers(q)
    /\ UNCHANGED <<refs, issue, row, run, comments, ledgerVars, bounds>>

(* ... which upsertPullRequest writes. *)
RecordPull(q) ==
    /\ RequestAt(q, "open")
    /\ \E linked \in BOOLEAN : UpsertPull(request[q].branch, request[q].tip, linked)
    /\ Answers(q)
    /\ UNCHANGED <<refs, issue, row, run, comments, ledgerVars, bounds>>

(* POST merge: the row is read, and must be open. *)
StartMerge(q, n) ==
    /\ RequestAt(q, "idle")
    /\ pulls[n].status = "open"
    /\ request' = [request EXCEPT ![q].pc = "merge", ![q].pull = n,
                                  ![q].branch = pulls[n].branch, ![q].tip = pulls[n].tip]
    /\ UNCHANGED <<refs, pulls, issue, row, run, comments, ledgerVars, bounds>>

(* mergeBranches: whether the target is there, and the clone of it. *)
MergeClones(q) ==
    /\ RequestAt(q, "merge")
    /\ request' = [request EXCEPT ![q].pc = "fetch", ![q].result = refs["main"]]
    /\ UNCHANGED <<refs, pulls, issue, row, run, comments, ledgerVars, bounds>>

(* The source, and the merge.  Without a target the source is all there is  *)
(* to push; a source that the target has is already up to date.             *)
MergeFetches(q) ==
    /\ RequestAt(q, "fetch")
    /\ LET base   == request[q].result
           source == refs[request[q].branch]
           Merged(result) ==
               request' = [request EXCEPT ![q].pc = "push", ![q].result = result] IN
       /\ source # {}
       /\ \/ base = {} /\ Merged(source)
          \/ base # {} /\ source \subseteq base /\ Merged(base)
          \/ /\ base \cap source # {} /\ ~(source \subseteq base)
             /\ Merged(base \cup source \cup {q})
    /\ UNCHANGED <<refs, pulls, issue, row, run, comments, ledgerVars, bounds>>

(* The branches conflict or have nothing in common, or git fails. *)
MergeFails(q) ==
    /\ RequestAt(q, "merge") \/ RequestAt(q, "fetch")
    /\ Answers(q)
    /\ UNCHANGED <<refs, pulls, issue, row, run, comments, ledgerVars, bounds>>

(* git push: refused when the target has moved since it was cloned. *)
MergePush(q) ==
    /\ RequestAt(q, "push")
    /\ \/ /\ FastForward("main", request[q].result)
          /\ GitPush("main", request[q].result)
          /\ request' = [request EXCEPT ![q].pc = "mark"]
       \/ /\ ~FastForward("main", request[q].result)
          /\ Answers(q)
          /\ UNCHANGED refs
    /\ UNCHANGED <<pulls, issue, row, run, comments, ledgerVars, bounds>>

(* markPullRequestMerged, and the issue of the pull request is closed.  A   *)
(* row that is not open any more makes it throw: the target keeps the merge.*)
MarkMerged(q) ==
    /\ RequestAt(q, "mark")
    /\ Answers(q)
    /\ LET n == request[q].pull IN
       \/ /\ pulls[n].status = "open"
          /\ pulls' = [pulls EXCEPT ![n].status = "merged", ![n].merge = request[q].result]
          /\ issue' = IF pulls[n].linked THEN "closed" ELSE issue
       \/ /\ pulls[n].status # "open"
          /\ UNCHANGED <<pulls, issue>>
    /\ UNCHANGED <<refs, row, run, comments, ledgerVars, bounds>>

(* POST close *)
ClosePull(n) ==
    /\ pulls[n].status = "open"
    /\ pulls' = [pulls EXCEPT ![n].status = "closed"]
    /\ UNCHANGED <<refs, issue, row, run, request, comments, ledgerVars, bounds>>

RequestStep(q) ==
    RecordPull(q) \/ MergeClones(q) \/ MergeFetches(q) \/ MergeFails(q) \/ MergePush(q) \/ MarkMerged(q)

-----------------------------------------------------------------------------
(* The bridge dies: the drivers and the requests are gone, the rows, the    *)
(* bare repo and the ledger are not.  Nobody looks at agent_runs.           *)
Crash ==
    /\ crashes < MaxCrashes
    /\ crashes' = crashes + 1
    /\ run' = [r \in Runs |-> IdleRun]
    /\ request' = [q \in Requests |-> IF RequestAt(q, "idle") THEN IdleRequest ELSE Answered]
    /\ UNCHANGED <<refs, pulls, issue, row, comments, ledgerVars, faults>>

Next ==
    \/ \E r \in Runs : Dispatch(r) \/ RunStep(r)
    \/ \E q \in Requests :
          \/ \E b \in Branches : OpenPull(q, b)
          \/ \E n \in DOMAIN pulls : StartMerge(q, n)
          \/ RequestStep(q)
    \/ \E c \in Pushes, ref \in Refs : OwnerPushes(c, ref)
    \/ \E n \in DOMAIN pulls : ClosePull(n)
    \/ Crash

Spec == Init /\ [][Next]_vars

-----------------------------------------------------------------------------
(* A source branch has at most one open pull request, whoever opens it:     *)
(* runs of the drivers, the owner, or both at once.                         *)
OneOpenPull ==
    \A m, n \in DOMAIN pulls :
        pulls[m].branch = pulls[n].branch /\ pulls[m].status = "open"
            /\ pulls[n].status = "open" => m = n

(* Nobody's push drops what somebody else has pushed: not a run that cloned *)
(* before another run or the owner pushed, not a merge that cloned before.  *)
PushesOnlyAdd == [][\A f \in Refs : refs[f] \subseteq refs'[f]]_vars

(* What a run with verdict "ok" has done is there: its commit is in its     *)
(* branch, or its comment is on the issue.                                  *)
OkMeansDone ==
    \A r \in Runs : row[r] = "ok" => r \in refs[BranchOf[r]] \/ r \in comments

(* The tip a pull request records was pushed to its branch, and what it     *)
(* records as its merge is in the target.                                   *)
PullsAreInGit ==
    \A n \in DOMAIN pulls :
        /\ pulls[n].tip \subseteq refs[pulls[n].branch]
        /\ pulls[n].merge \subseteq refs["main"]

(* When a merge is about to be recorded the target has at least the tip the *)
(* row named when the owner asked for it, whatever was pushed meanwhile.    *)
MergeHasTheTip ==
    \A q \in Requests : RequestAt(q, "mark") => request[q].tip \subseteq refs["main"]

(* A pull request that is merged or closed stays as it is: a late merge, a  *)
(* close or a run that comes back to its branch does not touch the row.     *)
VerdictIsFinal ==
    [][\A n \in DOMAIN pulls : pulls[n].status # "open" => pulls'[n] = pulls[n]]_vars

(* The allotment pays once for a run, and only for work that is there.      *)
PaidForWork ==
    \A r \in Runs :
        /\ debits[r] <= 1
        /\ debits[r] = 1 => r \in refs[BranchOf[r]] \/ r \in comments

(* What the rows say of git is so: one open request per branch, its tip and *)
(* its merge.                                                               *)
PullsAgreeWithGit == OneOpenPull /\ PullsAreInGit /\ MergeHasTheTip

(* What a run is called ok for, and paid for, is there. *)
WorkIsThere == OkMeansDone /\ PaidForWork

(* What was pushed and what was decided stays. *)
HistoryStays == PushesOnlyAdd /\ VerdictIsFinal
=============================================================================
