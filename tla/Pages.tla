------------------------------- MODULE Pages -------------------------------
(***************************************************************************)
(* Publishing one repo's Pages site to its owner's pod: git pushes and the *)
(* post-receive callback, workflow runs, publishPages / publishDirectory   *)
(* (src/src/lib/pages/publisher.ts), the workflow runner                   *)
(* (src/src/lib/workflows/runner.ts), the reconciler                       *)
(* (src/src/lib/pages/reconciler.ts), the pages_configs and workflow_runs  *)
(* rows, and a crash of the bridge.                                        *)
(*                                                                         *)
(* A chain is one fire-and-forget promise chain: a post-receive callback,  *)
(* or the reconciler's pass.  A step is what a chain does between two      *)
(* awaits.  Chains meet in withPublishLock, whose steps are those of       *)
(* PublishLock, and the one that has the lock runs publishDirectory, whose *)
(* steps are those of Upload.  Commits of the source branch are numbered;  *)
(* a tree is a commit's checkout ("raw") or its build output ("built").    *)
(***************************************************************************)
EXTENDS Integers, Sequences

CONSTANTS
    Hooks,        \* chains a post-receive callback may start
    Reconciler,   \* the chain of reconcilePages
    NoChain,
    Paths,        \* file names a site may have
    Escaped,      \* those a URL spells otherwise
    Absent,       \* no such file in the container
    Targets,      \* pod containers the owner may configure
    None,         \* targetContainer = "", or no tree
    MaxPush,      \* bound: commits pushed
    MaxFaults,    \* bound: failures of git or of the pod
    MaxCrashes,   \* bound: crashes of the bridge
    MaxEdits,     \* bound: edits of the Pages configuration and runs asked for
    Files,        \* the files of each tree
    WorkflowOf    \* what .mind/workflow.yml of each commit says

Commits == 1 .. MaxPush
Trees   == Commits \X {"raw", "built"}
Chains  == Hooks \cup {Reconciler}

(* "none": no workflow file; "invalid": parseWorkflow rejects it; "build":  *)
(* no publish key; "publish": publish names a subdirectory; "root": publish *)
(* is ".", which parseWorkflow accepts and resolvePublishDir does not.      *)
Workflows == {"none", "invalid", "build", "publish", "root"}

ASSUME ChainsAssumption ==
    Reconciler \notin Hooks /\ NoChain \notin Hooks /\ NoChain # Reconciler
ASSUME BoundsAssumption ==
    /\ MaxPush \in Nat /\ MaxFaults \in Nat /\ MaxCrashes \in Nat /\ MaxEdits \in Nat
ASSUME TreesAssumption ==
    /\ Absent \notin Trees /\ None \notin Targets /\ None \notin Trees
    /\ Escaped \subseteq Paths
    /\ Files \in [Trees -> SUBSET Paths]
    /\ WorkflowOf \in [Commits -> Workflows]

VARIABLES
    head,      \* last commit of the source branch, 0: the branch is not there
    notices,   \* post-receive callbacks not yet received by the bridge
    config,    \* pages_configs: enabled, target_container
    row,       \* pages_configs: last_published_sha (0: NULL), last_publish_status
    runs,      \* workflow_runs: the status of each row
    stranded,  \* history: rows whose chain ended by resolvePublishDir's exception
    chain,     \* the local state of each chain
    pod, upload,                                          \* publishDirectory
    faults, crashes, edits,                               \* used-up bounds
    initial, current, pending, phase, result, settled     \* withPublishLock

Lock == INSTANCE PublishLock WITH
            Repos <- {"repo"}, Callers <- Chains, NoCaller <- NoChain,
            RepoOf <- [c \in Chains |-> "repo"]

Up == INSTANCE Upload WITH Uploaders <- Chains

lockVars == <<initial, current, pending, phase, result, settled>>
dbVars   == <<config, row, runs, stranded>>
upVars   == <<pod, upload>>
bounds   == <<faults, crashes, edits>>
vars     == <<head, notices, dbVars, upVars, chain, bounds, lockVars>>

(* A chain that does nothing. *)
Idle == [pc |-> "idle", sha |-> 0, tree |-> None, target |-> None, run |-> 0]

(* Where a chain is: the await it is suspended at.  In "upload" it waits    *)
(* for the lock, or has it and is where upload[c] says.                     *)
WorkflowPcs == {"clone", "cloned", "queued", "build", "rehead", "mark"}
LegacyPcs   == {"compare", "head", "checkout", "request"}
Pcs         == {"idle", "upload", "answer"} \cup WorkflowPcs \cup LegacyPcs

RunStatuses == {"queued", "running", "success", "failed", "error"}
RowStatuses == {"never", "success", "failed", "needs-reauth"}

ChainStates ==
    [pc : Pcs, sha : 0 .. MaxPush, tree : Trees \cup {None},
     target : Targets \cup {None}, run : Nat]

TypeOK ==
    /\ head \in 0 .. MaxPush
    /\ notices \in Nat
    /\ config \in [enabled : BOOLEAN, target : Targets \cup {None}]
    /\ row \in [sha : 0 .. MaxPush, status : RowStatuses]
    /\ runs \in Seq(RunStatuses)
    /\ stranded \subseteq Nat
    /\ chain \in [Chains -> ChainStates]
    /\ \A c \in Chains : chain[c].pc = "upload" =>
                             chain[c].tree \in Trees /\ chain[c].target \in Targets
    /\ crashes \in 0 .. MaxCrashes /\ edits \in 0 .. MaxEdits
    /\ Up!TypeOK
    /\ Lock!TypeOK

Init ==
    /\ head = 0
    /\ notices = 0
    /\ config \in [enabled : {TRUE}, target : Targets]
    /\ row = [sha |-> 0, status |-> "never"]
    /\ runs = <<>>
    /\ stranded = {}
    /\ chain = [c \in Chains |-> Idle]
    /\ crashes = 0 /\ edits = 0
    /\ Up!Init
    /\ Lock!Init

At(c, pc) == chain[c].pc = pc

Publishable == config.enabled /\ config.target # None

Fault == faults < MaxFaults /\ faults' = faults + 1

(* A chain's own step: what it does to its local state.  c goes on at pc, *)
(* or ends and forgets everything.                                        *)
Goes(c, pc) == chain' = [chain EXCEPT ![c].pc = pc]
Ends(c)     == chain' = [chain EXCEPT ![c] = Idle]

(* markPagesPublished: a NULL sha keeps the one that is there. *)
MarkPublished(sha) ==
    row' = [sha |-> IF sha = 0 THEN row.sha ELSE sha, status |-> "success"]

MarkFailed(status) == row' = [row EXCEPT !.status = status]

FinishRun(c, status) == runs' = [runs EXCEPT ![chain[c].run] = status]

-----------------------------------------------------------------------------
(* git push: receive-pack moves the branch, then the hook calls the bridge. *)
Push ==
    /\ head < MaxPush
    /\ head' = head + 1
    /\ notices' = notices + 1
    /\ UNCHANGED <<dbVars, upVars, chain, bounds, lockVars>>

(* The callback fails (curl ... || echo): nobody tries again. *)
LoseNotice ==
    /\ notices > 0
    /\ notices' = notices - 1
    /\ UNCHANGED <<head, dbVars, upVars, chain, bounds, lockVars>>

(* updatePagesConfig: the row of the repository, but not its sha. *)
SetConfig(new) == new # config /\ config' = new /\ UNCHANGED row

(* The owner edits the Pages configuration (PUT .../pages). *)
UpdateConfig ==
    /\ edits < MaxEdits
    /\ edits' = edits + 1
    /\ \E new \in [enabled : BOOLEAN, target : Targets \cup {None}] : SetConfig(new)
    /\ UNCHANGED <<head, notices, runs, stranded, upVars, chain, faults, crashes, lockVars>>

(* The owner asks for a run of the branch (POST .../runs), whatever the     *)
(* configuration says.  Without a workflow there is nothing to do.          *)
RunNow(c) ==
    /\ edits < MaxEdits
    /\ edits' = edits + 1
    /\ head > 0
    /\ At(c, "idle")
    /\ chain' = [chain EXCEPT ![c] = [Idle EXCEPT !.pc = "clone"]]
    /\ UNCHANGED <<head, notices, dbVars, upVars, faults, crashes, lockVars>>

(* POST post-receive: starts runWorkflow when the branch is published.  The *)
(* config it read decides later whether publishPages is tried.              *)
PostReceive(c) ==
    /\ notices > 0
    /\ notices' = notices - 1
    /\ \/ /\ config.enabled
          /\ chain' = [chain EXCEPT ![c] = [Idle EXCEPT !.pc = "clone",
                                                        !.target = config.target]]
       \/ /\ ~config.enabled
          /\ UNCHANGED chain
    /\ At(c, "idle")
    /\ UNCHANGED <<head, dbVars, upVars, bounds, lockVars>>

(* A timer tick, a boot or an admin request starts a pass unless one is in  *)
(* flight.  reconcileOne reads the row, then waits for the branch head.     *)
StartPass ==
    /\ At(Reconciler, "idle")
    /\ Publishable
    /\ chain' = [chain EXCEPT ![Reconciler] = [Idle EXCEPT !.pc = "compare",
                                                           !.sha = row.sha]]
    /\ UNCHANGED <<head, notices, dbVars, upVars, bounds, lockVars>>

-----------------------------------------------------------------------------
(* publishPages up to the lock.  Its first turn reads the configuration and *)
(* throws unless the site can be published.                                 *)
EnterPublishPages(c) ==
    IF Publishable
    THEN chain' = [chain EXCEPT ![c].pc = "head", ![c].target = config.target]
    ELSE Ends(c)

(* reconcileOne has the branch head: compare it with the last_published_sha *)
(* it read before the wait (kept in the chain's sha).                       *)
Compare ==
    /\ At(Reconciler, "compare")
    /\ IF head = 0 \/ head = chain[Reconciler].sha
       THEN Ends(Reconciler)
       ELSE EnterPublishPages(Reconciler)
    /\ UNCHANGED <<head, notices, dbVars, upVars, bounds, lockVars>>

(* readBranchHead resolves: the commit to record later, or null when git *)
(* fails.                                                                *)
ReadHead(c) ==
    /\ At(c, "head")
    /\ \/ /\ chain' = [chain EXCEPT ![c].pc = "checkout", ![c].sha = head]
          /\ UNCHANGED faults
       \/ /\ Fault
          /\ chain' = [chain EXCEPT ![c].pc = "checkout", ![c].sha = 0]
    /\ UNCHANGED <<head, notices, dbVars, upVars, crashes, edits, lockVars>>

(* Slip: checkoutBranchToTempDir cleans up and does not throw again. *)
CheckoutSwallows(c) ==
    /\ At(c, "checkout")
    /\ \/ /\ head > 0
          /\ chain' = [chain EXCEPT ![c].pc = "request", ![c].tree = <<head, "raw">>]
          /\ UNCHANGED faults
       \/ /\ Fault
          /\ Goes(c, "request")
    /\ UNCHANGED <<head, notices, dbVars, upVars, crashes, edits, lockVars>>

(* git clone takes its snapshot of the branch, or fails. *)
Checkout(c) ==
    /\ At(c, "checkout")
    /\ \/ /\ head > 0
          /\ chain' = [chain EXCEPT ![c].pc = "request", ![c].tree = <<head, "raw">>]
          /\ UNCHANGED faults
       \/ /\ Fault
          /\ Ends(c)
    /\ UNCHANGED <<head, notices, dbVars, upVars, crashes, edits, lockVars>>

(* withPublishLock(publishDirectory): run it now or wait for a turn. *)
AskForLock(c, tree, target) ==
    /\ chain' = [chain EXCEPT ![c].pc = "upload", ![c].tree = tree, ![c].target = target]
    /\ Lock!Request(c)

Request(c) ==
    /\ At(c, "request")
    /\ AskForLock(c, chain[c].tree, chain[c].target)
    /\ UNCHANGED <<head, notices, dbVars, upVars, bounds>>

-----------------------------------------------------------------------------
(* runWorkflow up to the lock. *)
Clone(c) ==
    /\ At(c, "clone")
    /\ \/ /\ head > 0
          /\ chain' = [chain EXCEPT ![c].pc = "cloned", ![c].tree = <<head, "raw">>]
          /\ UNCHANGED faults
       \/ /\ Fault
          /\ Ends(c)
    /\ UNCHANGED <<head, notices, dbVars, upVars, crashes, edits, lockVars>>

(* No workflow file: runWorkflow returns null, and the callback goes on to *)
(* publishPages if the configuration it had read names a container.        *)
NoWorkflow(c) ==
    /\ At(c, "cloned")
    /\ WorkflowOf[chain[c].tree[1]] = "none"
    /\ IF chain[c].target = None THEN Ends(c) ELSE EnterPublishPages(c)
    /\ UNCHANGED <<head, notices, dbVars, upVars, bounds, lockVars>>

(* createRun *)
CreateRun(c) ==
    /\ At(c, "cloned")
    /\ WorkflowOf[chain[c].tree[1]] # "none"
    /\ runs' = Append(runs, "queued")
    /\ chain' = [chain EXCEPT ![c].pc = "queued", ![c].run = Len(runs) + 1]
    /\ UNCHANGED <<head, notices, config, row, stranded, upVars, bounds, lockVars>>

(* markRunRunning: the same turn as createRun, but another transaction, so *)
(* a crash can fall between the two.                                       *)
StartRun(c) ==
    /\ At(c, "queued")
    /\ FinishRun(c, "running")
    /\ Goes(c, "build")
    /\ UNCHANGED <<head, notices, config, row, stranded, upVars, bounds, lockVars>>

(* The workflow does not parse, or its batch exits non-zero. *)
BuildFails(c) ==
    /\ At(c, "build")
    /\ IF WorkflowOf[chain[c].tree[1]] = "invalid"
       THEN FinishRun(c, "error") /\ UNCHANGED faults
       ELSE FinishRun(c, "failed") /\ Fault
    /\ Ends(c)
    /\ UNCHANGED <<head, notices, config, row, stranded, upVars, crashes, edits, lockVars>>

(* The batch succeeds and there is nothing to publish, or nowhere. *)
BuildOnly(c) ==
    /\ At(c, "build")
    /\ WorkflowOf[chain[c].tree[1]] # "invalid"
    /\ WorkflowOf[chain[c].tree[1]] = "build" \/ ~Publishable
    /\ FinishRun(c, "success")
    /\ Ends(c)
    /\ UNCHANGED <<head, notices, config, row, stranded, upVars, bounds, lockVars>>

(* The batch succeeds: upload the publish directory under the lock. *)
BuildPublishes(c) ==
    /\ At(c, "build")
    /\ WorkflowOf[chain[c].tree[1]] = "publish"
    /\ Publishable
    /\ AskForLock(c, <<chain[c].tree[1], "built">>, config.target)
    /\ UNCHANGED <<head, notices, dbVars, upVars, bounds>>

(* resolvePublishDir throws outside the try that finishes the run: the row  *)
(* stays as it is and nobody has it any more.                               *)
PublishDirEscapes(c) ==
    /\ At(c, "build")
    /\ WorkflowOf[chain[c].tree[1]] = "root"
    /\ Publishable
    /\ stranded' = stranded \cup {chain[c].run}
    /\ Ends(c)
    /\ UNCHANGED <<head, notices, config, row, runs, upVars, bounds, lockVars>>

-----------------------------------------------------------------------------
(* publishDirectory, run by the chain that has the lock.  When it gets no  *)
(* fetch for the owner it writes that to the row: its only failure that is  *)
(* written.                                                                 *)
BeginUpload(c) ==
    /\ At(c, "upload")
    /\ phase[c] = "running"
    /\ \/ /\ Up!Begin(c, chain[c].tree, chain[c].target)
          /\ UNCHANGED row
       \/ /\ Up!Refuse(c, chain[c].tree, chain[c].target)
          /\ \E status \in {"failed", "needs-reauth"} : MarkFailed(status)
    /\ UNCHANGED <<head, notices, config, runs, stranded, chain, crashes, edits, lockVars>>

UploadStep(c) ==
    /\ Up!Step(c)
    /\ UNCHANGED <<head, notices, dbVars, chain, crashes, edits, lockVars>>

(* publishDirectory returns or throws: the task ends. *)
EndUpload(c) ==
    /\ Up!End(c)
    /\ Goes(c, "answer")
    /\ Lock!DrainNext(c, upload[c].ending) \/ Lock!Release(c, upload[c].ending)
    /\ UNCHANGED <<head, notices, dbVars, crashes, edits>>

-----------------------------------------------------------------------------
(* Slip: a pass that throws does not clear inFlight. *)
AnswerKeepsPass(c) ==
    /\ chain[c].run = 0
    /\ Lock!Resume(c)
    /\ IF result[c] = "ran" THEN MarkPublished(chain[c].sha) ELSE UNCHANGED row
    /\ IF result[c] = "threw" THEN Goes(c, "answer") ELSE Ends(c)
    /\ UNCHANGED <<head, notices, config, runs, stranded, upVars, bounds>>

(* publishPages with the lock's answer: record the sha it read at first,  *)
(* unless its task was coalesced or threw.                                *)
AnswerLegacy(c) ==
    /\ chain[c].run = 0
    /\ Lock!Resume(c)
    /\ IF result[c] = "ran" THEN MarkPublished(chain[c].sha) ELSE UNCHANGED row
    /\ Ends(c)
    /\ UNCHANGED <<head, notices, config, runs, stranded, upVars, bounds>>

(* runWorkflow with the lock's answer: a run whose upload threw has failed, *)
(* one whose upload was coalesced has succeeded.                            *)
AnswerWorkflow(c) ==
    /\ chain[c].run # 0
    /\ Lock!Resume(c)
    /\ IF result[c] = "ran"
       THEN Goes(c, "rehead") /\ UNCHANGED runs
       ELSE /\ FinishRun(c, IF result[c] = "threw" THEN "failed" ELSE "success")
            /\ Ends(c)
    /\ UNCHANGED <<head, notices, config, row, stranded, upVars, bounds>>

(* runWorkflow reads the branch head after the upload. *)
Rehead(c) ==
    /\ At(c, "rehead")
    /\ \/ /\ chain' = [chain EXCEPT ![c].pc = "mark", ![c].sha = head]
          /\ UNCHANGED faults
       \/ /\ Fault
          /\ chain' = [chain EXCEPT ![c].pc = "mark", ![c].sha = 0]
    /\ UNCHANGED <<head, notices, dbVars, upVars, crashes, edits, lockVars>>

MarkAndFinish(c) ==
    /\ At(c, "mark")
    /\ MarkPublished(chain[c].sha)
    /\ FinishRun(c, "success")
    /\ Ends(c)
    /\ UNCHANGED <<head, notices, config, stranded, upVars, bounds, lockVars>>

-----------------------------------------------------------------------------
(* What a crash loses: the chains, their uploads and the Map `locks`. *)
BridgeForgets ==
    /\ crashes < MaxCrashes
    /\ crashes' = crashes + 1
    /\ chain' = [c \in Chains |-> Idle]
    /\ Lock!Restart
    /\ Up!Abandon
    /\ UNCHANGED <<head, notices, config, row, edits>>

(* Slip: no reaper at startup. *)
CrashWithoutReaper == BridgeForgets /\ UNCHANGED <<runs, stranded>>

(* The bridge dies and starts again: reapStuckRuns fails the rows the old *)
(* process left running.                                                  *)
Crash ==
    /\ BridgeForgets
    /\ runs' = [n \in DOMAIN runs |-> IF runs[n] = "running" THEN "failed" ELSE runs[n]]
    /\ stranded' = {}

ChainStep(c) ==
    \/ ReadHead(c) \/ Checkout(c) \/ Request(c)
    \/ Clone(c) \/ NoWorkflow(c) \/ CreateRun(c) \/ StartRun(c)
    \/ BuildFails(c) \/ BuildOnly(c) \/ BuildPublishes(c) \/ PublishDirEscapes(c)
    \/ BeginUpload(c) \/ UploadStep(c) \/ EndUpload(c)
    \/ AnswerLegacy(c) \/ AnswerWorkflow(c) \/ Rehead(c) \/ MarkAndFinish(c)

Environment ==
    Push \/ LoseNotice \/ UpdateConfig \/ Crash \/ \E c \in Hooks : PostReceive(c) \/ RunNow(c)

Next == Environment \/ StartPass \/ Compare \/ \E c \in Chains : ChainStep(c)

(* Every git command, build and request to the pod ends, one way or the    *)
(* other, and the reconciler's timer ticks.  Pushes, callbacks, edits,     *)
(* failures and crashes need not happen.                                   *)
Fairness ==
    /\ WF_vars(StartPass) /\ WF_vars(Compare)
    /\ \A c \in Chains : WF_vars(ChainStep(c))

Spec == Init /\ [][Next]_vars

FairSpec == Spec /\ Fairness

-----------------------------------------------------------------------------
(* P0-R1: uploads of one repo never overlap.  Every step of the model is a  *)
(* step of uploads that begin only when nobody is at work on the container, *)
(* so what Upload says of a single upload holds for the site.               *)
UploadsTakeTurns == [][Up!Next]_upVars

(* A workflow_runs row that says "running" belongs to a chain that will     *)
(* finish it: neither a failed upload, nor a coalesced one, nor a crash     *)
(* leaves it running.  The exception are the rows whose workflow publishes  *)
(* ".", for which resolvePublishDir threw outside the try (runner.ts:116):  *)
(* they are left running until the reaper of the next start takes them,     *)
(* although runner.ts:64 has any failure surface in the row.                *)
RunningRunsAreOwned ==
    \A n \in DOMAIN runs :
        runs[n] = "running" =>
            n \in stranded \/ \E c \in Chains : chain[c].run = n /\ ~At(c, "idle")

(* A run that has ended keeps its verdict: the reaper and a late chain do   *)
(* not change it.                                                           *)
VerdictsAreFinal ==
    [][\A n \in DOMAIN runs :
          runs[n] \in {"success", "failed", "error"} => runs'[n] = runs[n]]_vars

(* P0-R4: drift is repaired.  Once pushes, edits, failures and crashes are  *)
(* over, last_published_sha is the branch head, or nothing can be published.*)
DriftIsRepaired == <>[](row.sha = head \/ ~Publishable)

(* Chains do not disturb one another: neither their uploads nor verdicts. *)
ChainsKeepApart == UploadsTakeTurns /\ VerdictsAreFinal
=============================================================================
