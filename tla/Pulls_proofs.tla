----------------------------- MODULE Pulls_proofs -----------------------------
(***************************************************************************)
(* Proofs about Pulls, for every number of runs, requests, branches,       *)
(* commits of the owner, faults and crashes.  Branches only ever grow, so  *)
(* what a run or a request has seen in git stays there while it waits;     *)
(* PullsInv says, for each place at which a run or a request can be, what  *)
(* it has to have in git by then.                                          *)
(***************************************************************************)
EXTENDS Pulls, SequenceTheorems, TLAPS

(* The work of a run is where its owner sees it. *)
HasWork(r) == r \in refs[BranchOf[r]] \/ r \in comments

(* A run is debited once, at the end, when its work is there. *)
RunInv(r) ==
    /\ row[r] = "none" => debits[r] = 0
    /\ run[r].pc \notin {"idle", "finish"} => debits[r] = 0
    /\ RunAt(r, "upsert") => Tip(r) \subseteq refs[BranchOf[r]]
    /\ RunAt(r, "charge") => HasWork(r)
    /\ RunAt(r, "finish") /\ run[r].verdict = "ok" => HasWork(r)
    /\ row[r] = "ok" => HasWork(r)
    /\ debits[r] <= 1
    /\ debits[r] = 1 => HasWork(r)

(* The tip a request was asked for is in its branch, then in its merge, then *)
(* in the target.                                                            *)
RequestInv(q) ==
    /\ RequestAt(q, "open") => /\ request[q].branch \in Branches
                               /\ request[q].tip \subseteq refs[request[q].branch]
    /\ request[q].pc \in {"merge", "fetch", "push", "mark"} =>
          request[q].pull \in DOMAIN pulls
    /\ request[q].pc \in {"merge", "fetch"} =>
          request[q].tip \subseteq refs[request[q].branch]
    /\ request[q].pc \in {"push", "mark"} =>
          request[q].result # {} /\ request[q].tip \subseteq request[q].result
    /\ RequestAt(q, "mark") => request[q].result \subseteq refs["main"]

RefTypes == refs \in [Refs -> SUBSET Commits]

PullTypes ==
    /\ pulls \in Seq(Pull)
    /\ \A n \in DOMAIN pulls : pulls[n].merge # {} <=> pulls[n].status = "merged"

RunTypes ==
    /\ row \in [Runs -> {"none", "running", "ok", "error"}]
    /\ run \in [Runs -> RunStates]
    /\ \A r \in Runs : run[r].pc # "idle" => row[r] = "running"
    /\ comments \subseteq Runs
    /\ debits \in [Runs -> Nat]

OtherTypes ==
    /\ issue \in {"open", "closed"}
    /\ balance \in 0 .. Allotment
    /\ faults \in 0 .. MaxFaults /\ crashes \in 0 .. MaxCrashes

RequestTypes == request \in [Requests -> RequestStates]

PullsOk    == PullTypes /\ OneOpenPull /\ PullsAreInGit
RunsOk     == RunTypes /\ \A r \in Runs : RunInv(r)
RequestsOk == RequestTypes /\ \A q \in Requests : RequestInv(q)

PullsInv == RefTypes /\ OtherTypes /\ PullsOk /\ RunsOk /\ RequestsOk

-----------------------------------------------------------------------------
LEMMA InitHolds == Init => PullsInv
<1> SUFFICES ASSUME Init PROVE PullsInv
    OBVIOUS
<1>1. RefTypes
    BY DEF Init, RefTypes, Commits
<1>2. OtherTypes
    BY BoundsAssumption DEF Init, OtherTypes
<1>3. PullsOk
    <2>1. pulls = <<>> /\ DOMAIN pulls = {}
        BY DEF Init
    <2>2. pulls \in Seq(Pull)
        BY <2>1
    <2> QED
        BY <2>1, <2>2 DEF PullsOk, PullTypes, OneOpenPull, PullsAreInGit
<1>4. RunsOk
    <2>1. IdleRun \in RunStates /\ IdleRun.pc = "idle"
        BY DEF IdleRun, RunStates
    <2>2. RunTypes
        BY <2>1 DEF Init, RunTypes
    <2> QED
        BY <2>1, <2>2 DEF Init, RunsOk, RunInv, RunAt
<1>5. RequestsOk
    <2>1. IdleRequest \in RequestStates /\ IdleRequest.pc = "idle"
        BY DEF IdleRequest, RequestStates, Refs
    <2> QED
        BY <2>1 DEF Init, RequestsOk, RequestTypes, RequestInv, RequestAt
<1> QED
    BY <1>1, <1>2, <1>3, <1>4, <1>5 DEF PullsInv

-----------------------------------------------------------------------------
(* The bare repository.  What each step does to it: nothing, or a push.     *)
Grows == \A f \in Refs : refs[f] \subseteq refs'[f]

LEMMA PushGrows ==
    ASSUME RefTypes, NEW f \in Refs, NEW tip \in SUBSET Commits,
           FastForward(f, tip), GitPush(f, tip)
    PROVE  RefTypes' /\ Grows /\ refs'[f] = tip
BY DEF RefTypes, FastForward, GitPush, Grows

LEMMA RunIsRecord ==
    ASSUME RunTypes, NEW r \in Runs
    PROVE  /\ run[r] \in RunStates /\ run[r].base \subseteq Commits
           /\ Tip(r) \in SUBSET Commits /\ BranchOf[r] \in Branches /\ BranchOf[r] \in Refs
BY BranchesAssumption DEF RunTypes, RunStates, Tip, Commits, Refs

LEMMA RequestIsRecord ==
    ASSUME RequestTypes, NEW q \in Requests
    PROVE  /\ request[q] \in RequestStates /\ request[q].tip \subseteq Commits
           /\ request[q].result \in SUBSET Commits /\ request[q].branch \in Refs
           /\ request[q].pull \in Nat
BY DEF RequestTypes, RequestStates

(* No push drops a commit: each either fast-forwards or is refused. *)
LEMMA RefsHold == PullsInv /\ [Next]_vars => RefTypes' /\ Grows
<1> SUFFICES ASSUME PullsInv, [Next]_vars PROVE RefTypes' /\ Grows
    OBVIOUS
<1>0. RefTypes /\ RunTypes /\ RequestTypes
    BY DEF PullsInv, RunsOk, RequestsOk
<1>1. CASE UNCHANGED refs
    BY <1>0, <1>1 DEF RefTypes, Grows
<1>2. ASSUME NEW r \in Runs, Push(r), ~UNCHANGED refs PROVE RefTypes' /\ Grows
    BY <1>0, <1>2, PushGrows, RunIsRecord DEF Push
<1>3. ASSUME NEW q \in Requests, MergePush(q), ~UNCHANGED refs PROVE RefTypes' /\ Grows
    BY <1>0, <1>3, PushGrows, RequestIsRecord DEF MergePush, Refs
<1>4. ASSUME NEW c \in Pushes, NEW f \in Refs, OwnerPushes(c, f) PROVE RefTypes' /\ Grows
    <2> DEFINE tip == (IF refs[f] # {} THEN refs[f] ELSE refs["main"]) \cup {c}
    <2>1. tip \in SUBSET Commits /\ refs[f] \subseteq tip
        BY <1>0 DEF RefTypes, Commits, Refs
    <2>2. GitPush(f, tip)
        BY <1>4 DEF OwnerPushes
    <2> HIDE DEF tip
    <2> QED
        BY <1>0, <2>1, <2>2, PushGrows DEF FastForward
<1> QED
    BY <1>1, <1>2, <1>3, <1>4
    DEF Next, vars, RunStep, RequestStep, Dispatch, Gate, Clone, Work, Comment, Upsert, Charge,
        Finish, OpenPull, StartMerge, RecordPull, MergeClones, MergeFetches, MergeFails, MarkMerged,
        ClosePull, Crash

-----------------------------------------------------------------------------
(* The rows of pull_requests.  A row stays, and stays as it is once it is   *)
(* merged or closed.                                                        *)
Kept ==
    \A n \in DOMAIN pulls :
        /\ n \in DOMAIN pulls'
        /\ pulls[n].status # "open" => pulls'[n] = pulls[n]

LEMMA PullIsRecord ==
    ASSUME PullTypes, NEW n \in DOMAIN pulls
    PROVE  /\ pulls[n] \in Pull /\ pulls[n].branch \in Branches /\ pulls[n].branch \in Refs
           /\ pulls[n].tip \subseteq Commits /\ pulls[n].merge \subseteq Commits
           /\ pulls[n].status \in {"open", "merged", "closed"}
           /\ n \in Nat
<1>1. pulls[n] \in Pull /\ n \in Nat
    BY DEF PullTypes
<1> QED
    BY <1>1 DEF Pull, Refs

(* Nothing is written, but git has grown. *)
LEMMA PullsStay ==
    ASSUME PullsOk, Grows, UNCHANGED pulls
    PROVE  PullsOk' /\ Kept
<1>1. PullTypes' /\ OneOpenPull' /\ Kept
    BY DEF PullsOk, PullTypes, OneOpenPull, Kept
<1>2. ASSUME NEW n \in DOMAIN pulls
      PROVE  /\ pulls[n].tip \subseteq refs'[pulls[n].branch]
             /\ pulls[n].merge \subseteq refs'["main"]
    <2>1. pulls[n].branch \in Refs /\ "main" \in Refs
        BY PullIsRecord DEF PullsOk, Refs
    <2> QED
        BY <2>1 DEF PullsOk, PullsAreInGit, Grows
<1>3. PullsAreInGit'
    BY <1>2 DEF PullsAreInGit
<1> QED
    BY <1>1, <1>3 DEF PullsOk

(* A row is written over by one of the same branch, with a tip and a merge  *)
(* that are in git; it may be closed or merged, never opened again.         *)
LEMMA RowChanges ==
    ASSUME PullsOk, UNCHANGED refs, NEW n \in DOMAIN pulls, NEW p \in Pull,
           pulls' = [pulls EXCEPT ![n] = p], pulls[n].status = "open",
           p.branch = pulls[n].branch, p.merge # {} <=> p.status = "merged",
           p.tip \subseteq refs[p.branch], p.merge \subseteq refs["main"]
    PROVE  PullsOk' /\ Kept
<1>1. pulls \in Seq(Pull) /\ n \in 1 .. Len(pulls)
    BY DEF PullsOk, PullTypes
<1>2. pulls' \in Seq(Pull) /\ Len(pulls') = Len(pulls)
    BY <1>1
<1>3. /\ DOMAIN pulls' = DOMAIN pulls /\ pulls'[n] = p
      /\ \A m \in DOMAIN pulls \ {n} : pulls'[m] = pulls[m]
    BY <1>1
<1>4. PullTypes'
    BY <1>2, <1>3 DEF PullsOk, PullTypes
<1>5. OneOpenPull'
    BY <1>3 DEF PullsOk, OneOpenPull
<1>6. PullsAreInGit'
    BY <1>3 DEF PullsOk, PullsAreInGit
<1>7. Kept
    BY <1>3 DEF Kept
<1> QED
    BY <1>4, <1>5, <1>6, <1>7 DEF PullsOk

(* upsertPullRequest, by a run or by the owner. *)
LEMMA UpsertHolds ==
    ASSUME PullsOk, RefTypes, UNCHANGED refs, NEW b \in Branches, NEW tip \in SUBSET Commits,
           NEW linked \in BOOLEAN, tip \subseteq refs[b], UpsertPull(b, tip, linked)
    PROVE  PullsOk' /\ Kept
<1>1. CASE OpenPulls(b) = {} /\ InsertPull(b, tip, linked)
    <2> DEFINE p == [branch |-> b, status |-> "open", tip |-> tip, merge |-> {},
                     linked |-> linked]
               k == Len(pulls) + 1
    <2>1. p \in Pull
        BY DEF Pull
    <2>2. pulls \in Seq(Pull) /\ pulls' = Append(pulls, p)
        BY <1>1 DEF PullsOk, PullTypes, InsertPull
    <2>3. /\ p.branch = b /\ p.status = "open" /\ p.tip = tip /\ p.merge = {}
        OBVIOUS
    <2> HIDE DEF p
    <2>4. /\ pulls' \in Seq(Pull) /\ DOMAIN pulls = 1 .. Len(pulls)
          /\ DOMAIN pulls' = 1 .. k /\ pulls'[k] = p
          /\ \A m \in 1 .. Len(pulls) : pulls'[m] = pulls[m]
          /\ Len(pulls) \in Nat
        BY <2>1, <2>2, AppendProperties
    <2>5. DOMAIN pulls' = DOMAIN pulls \cup {k} /\ \A m \in DOMAIN pulls : pulls'[m] = pulls[m]
        BY <2>4
    <2> HIDE DEF k
    <2>6. PullTypes'
        BY <2>3, <2>4, <2>5 DEF PullsOk, PullTypes
    <2>7. OneOpenPull'
        <3>1. \A n \in DOMAIN pulls : ~(pulls[n].branch = b /\ pulls[n].status = "open")
            BY <1>1 DEF OpenPulls
        <3>2. pulls'[k].branch = b /\ pulls'[k].status = "open"
            BY <2>3, <2>4
        <3> QED
            BY <2>5, <3>1, <3>2 DEF PullsOk, OneOpenPull
    <2>8. PullsAreInGit'
        BY <2>3, <2>4, <2>5 DEF PullsOk, PullsAreInGit
    <2>9. Kept
        BY <2>5 DEF Kept
    <2> QED
        BY <2>6, <2>7, <2>8, <2>9 DEF PullsOk
<1>2. ASSUME NEW n \in OpenPulls(b),
             pulls' = [pulls EXCEPT ![n].tip = tip, ![n].linked = @ \/ linked]
      PROVE  PullsOk' /\ Kept
    <2>1. n \in DOMAIN pulls /\ pulls[n].branch = b /\ pulls[n].status = "open"
        BY <1>2 DEF OpenPulls
    <2>2. pulls[n] \in Pull /\ pulls[n].linked \in BOOLEAN /\ pulls[n].merge = {}
        BY <2>1, PullIsRecord DEF PullsOk, PullTypes, Pull
    <2> DEFINE l == pulls[n].linked \/ linked
               p == [pulls[n] EXCEPT !.tip = tip, !.linked = l]
    <2>3. /\ p \in Pull /\ p.branch = b /\ p.status = "open" /\ p.merge = {} /\ p.tip = tip
        <3>1. l \in BOOLEAN
            BY <2>2
        <3> HIDE DEF l
        <3> QED
            BY <2>1, <2>2, <3>1 DEF Pull
    <2>4. pulls' = [pulls EXCEPT ![n] = p]
        BY <1>2
    <2> HIDE DEF p
    <2> QED
        BY <2>1, <2>3, <2>4, RowChanges
<1> QED
    BY <1>1, <1>2 DEF UpsertPull

LEMMA PullsHold == PullsInv /\ [Next]_vars => PullsOk' /\ Kept
<1> SUFFICES ASSUME PullsInv, [Next]_vars PROVE PullsOk' /\ Kept
    OBVIOUS
<1>0. PullsOk /\ RefTypes /\ RunTypes /\ RequestTypes
    BY DEF PullsInv, RunsOk, RequestsOk
<1>1. CASE UNCHANGED pulls
    BY <1>0, <1>1, RefsHold, PullsStay
<1>2. ASSUME NEW r \in Runs, Upsert(r) PROVE PullsOk' /\ Kept
    <2>1. Tip(r) \subseteq refs[BranchOf[r]]
        BY <1>2 DEF PullsInv, RunsOk, RunInv, Upsert
    <2> QED
        BY <1>0, <1>2, <2>1, RunIsRecord, UpsertHolds DEF Upsert, PullAndNote
<1>3. ASSUME NEW q \in Requests, RecordPull(q) PROVE PullsOk' /\ Kept
    <2>1. /\ request[q].branch \in Branches
          /\ request[q].tip \subseteq refs[request[q].branch]
        BY <1>3 DEF PullsInv, RequestsOk, RequestInv, RecordPull
    <2> QED
        BY <1>0, <1>3, <2>1, RequestIsRecord, UpsertHolds DEF RecordPull
<1>4. ASSUME NEW q \in Requests, MarkMerged(q) PROVE PullsOk' /\ Kept
    <2> DEFINE n == request[q].pull
    <2>1. /\ n \in DOMAIN pulls /\ request[q].result # {} /\ request[q].result \subseteq refs["main"]
        BY <1>4 DEF PullsInv, RequestsOk, RequestInv, MarkMerged, RequestAt
    <2>2. CASE pulls[n].status # "open"
        <3>1. UNCHANGED pulls
            BY <1>4, <2>2 DEF MarkMerged
        <3> QED
            BY <1>1, <3>1
    <2>3. CASE pulls[n].status = "open"
        <3> DEFINE p == [pulls[n] EXCEPT !.status = "merged", !.merge = request[q].result]
        <3>1. pulls[n] \in Pull /\ pulls[n].tip \subseteq refs[pulls[n].branch]
            BY <1>0, <2>1, PullIsRecord DEF PullsOk, PullsAreInGit
        <3>2. /\ p \in Pull /\ p.branch = pulls[n].branch /\ p.tip = pulls[n].tip
              /\ p.status = "merged" /\ p.merge = request[q].result
            BY <1>0, <3>1, RequestIsRecord DEF Pull
        <3>3. pulls' = [pulls EXCEPT ![n] = p] /\ UNCHANGED refs
            BY <1>4, <2>3 DEF MarkMerged
        <3> HIDE DEF p, n
        <3> QED
            BY <1>0, <2>1, <2>3, <3>1, <3>2, <3>3, RowChanges
    <2> QED
        BY <2>2, <2>3
<1>5. ASSUME NEW n \in DOMAIN pulls, ClosePull(n) PROVE PullsOk' /\ Kept
    <2> DEFINE p == [pulls[n] EXCEPT !.status = "closed"]
    <2>1. /\ pulls[n] \in Pull /\ pulls[n].tip \subseteq refs[pulls[n].branch]
          /\ pulls[n].status = "open" /\ pulls[n].merge = {}
        BY <1>0, <1>5, PullIsRecord DEF PullsOk, PullTypes, PullsAreInGit, ClosePull
    <2>2. /\ p \in Pull /\ p.branch = pulls[n].branch /\ p.tip = pulls[n].tip
          /\ p.status = "closed" /\ p.merge = {}
        BY <2>1 DEF Pull
    <2>3. pulls' = [pulls EXCEPT ![n] = p] /\ UNCHANGED refs
        BY <1>5 DEF ClosePull
    <2> HIDE DEF p
    <2> QED
        BY <1>0, <2>1, <2>2, <2>3, RowChanges
<1> QED
    BY <1>1, <1>2, <1>3, <1>4, <1>5
    DEF Next, vars, RunStep, RequestStep, Dispatch, Gate, Clone, Work, Comment, Push, Charge,
        Finish, OpenPull, StartMerge, MergeClones, MergeFetches, MergeFails, MergePush,
        OwnerPushes, Crash

-----------------------------------------------------------------------------
(* The runs.  Work that is there stays there. *)
LEMMA WorkStays ==
    ASSUME RunTypes, Grows, comments \subseteq comments', NEW r \in Runs, HasWork(r)
    PROVE  HasWork(r)'
BY RunIsRecord DEF HasWork, Grows

LEMMA RunsStay ==
    ASSUME RunsOk, Grows, UNCHANGED <<row, run, debits, comments>>
    PROVE  RunsOk'
<1>1. RunTypes'
    BY DEF RunsOk, RunTypes
<1>2. ASSUME NEW r \in Runs PROVE RunInv(r)'
    <2>1. HasWork(r) => HasWork(r)'
        BY WorkStays DEF RunsOk
    <2>2. RunAt(r, "upsert")' => Tip(r)' \subseteq refs'[BranchOf[r]]
        BY RunIsRecord DEF RunsOk, RunInv, RunAt, Tip, Grows
    <2> QED
        BY <2>1, <2>2 DEF RunsOk, RunInv, RunAt
<1> QED
    BY <1>1, <1>2 DEF RunsOk

(* A step of one run: what it has to have in git is all there is to show. *)
LEMMA OneRunMoves ==
    ASSUME RunsOk, Grows, NEW r \in Runs, NEW s \in RunStates,
           NEW v \in {"running", "ok", "error"}, NEW d \in Nat,
           run' = [run EXCEPT ![r] = s], row' = [row EXCEPT ![r] = v],
           debits' = [debits EXCEPT ![r] = d],
           comments' \in {comments, comments \cup {r}},
           s.pc # "idle" => v = "running",
           RunInv(r)'
    PROVE  RunsOk'
<1>1. RunTypes'
    BY DEF RunsOk, RunTypes
<1>2. ASSUME NEW q \in Runs \ {r} PROVE RunInv(q)'
    <2>1. run'[q] = run[q] /\ row'[q] = row[q] /\ debits'[q] = debits[q]
        BY DEF RunsOk, RunTypes
    <2>2. HasWork(q) => HasWork(q)'
        BY WorkStays DEF RunsOk
    <2>3. RunAt(q, "upsert")' => Tip(q)' \subseteq refs'[BranchOf[q]]
        BY <2>1, RunIsRecord DEF RunsOk, RunInv, RunAt, Tip, Grows
    <2>4. RunInv(q)
        BY DEF RunsOk
    <2> HIDE DEF RunsOk
    <2> QED
        BY <2>1, <2>2, <2>3, <2>4 DEF RunInv, RunAt
<1> QED
    BY <1>1, <1>2 DEF RunsOk

(* The record of a run that goes on, or fails. *)
LEMMA RunUpdate ==
    ASSUME NEW s \in RunStates,
           NEW pc \in {"idle", "gate", "clone", "work", "comment", "push", "upsert", "charge",
                       "finish"}
    PROVE  /\ [s EXCEPT !.pc = pc] \in RunStates
           /\ [s EXCEPT !.pc = pc].pc = pc
           /\ [s EXCEPT !.pc = pc].verdict = s.verdict
           /\ [s EXCEPT !.pc = pc].base = s.base
BY DEF RunStates

LEMMA RunGoes ==
    ASSUME RunTypes, NEW r \in Runs,
           NEW pc \in {"idle", "gate", "clone", "work", "comment", "push", "upsert", "charge",
                       "finish"},
           Goes(r, pc)
    PROVE  \E s \in RunStates : /\ run' = [run EXCEPT ![r] = s] /\ run'[r] = s
                                /\ s.pc = pc /\ s.verdict = run[r].verdict /\ s.base = run[r].base
<1> DEFINE s == [run[r] EXCEPT !.pc = pc]
<1>1. /\ s \in RunStates /\ s.pc = pc /\ s.verdict = run[r].verdict /\ s.base = run[r].base
    BY RunIsRecord, RunUpdate
<1>2. run' = [run EXCEPT ![r] = s] /\ run'[r] = s
    BY DEF Goes, RunTypes
<1> QED
    BY <1>1, <1>2

LEMMA RunFails ==
    ASSUME RunTypes, NEW r \in Runs, Fails(r)
    PROVE  \E s \in RunStates : /\ run' = [run EXCEPT ![r] = s] /\ run'[r] = s
                                /\ s.pc = "finish" /\ s.verdict = "error"
<1> DEFINE s == [run[r] EXCEPT !.pc = "finish", !.verdict = "error"]
<1>1. s \in RunStates /\ s.pc = "finish" /\ s.verdict = "error"
    BY RunIsRecord DEF RunStates
<1>2. run' = [run EXCEPT ![r] = s] /\ run'[r] = s
    BY DEF Fails, RunTypes
<1> QED
    BY <1>1, <1>2

(* A run under way is not debited before its work is there. *)
LEMMA RunUnderWay ==
    ASSUME RunsOk, NEW r \in Runs, run[r].pc # "idle"
    PROVE  /\ row[r] = "running"
           /\ run[r].pc # "finish" => debits[r] = 0
           /\ row = [row EXCEPT ![r] = "running"] /\ debits = [debits EXCEPT ![r] = debits[r]]
           /\ debits[r] \in Nat /\ RunInv(r) /\ RunTypes
BY DEF RunsOk, RunTypes, RunInv

LEMMA EarlyStepHolds ==
    ASSUME NEW r \in Runs, RunsOk, Grows, Gate(r) \/ Clone(r) \/ Work(r), RefTypes
    PROVE  RunsOk'
<1>1. /\ run[r].pc \in {"gate", "clone", "work"}
      /\ UNCHANGED <<row, debits, comments>>
    BY DEF Gate, Clone, Work, RunAt, ledgerVars
<1>2. /\ row[r] = "running" /\ debits[r] = 0 /\ debits[r] \in Nat /\ RunTypes
      /\ row' = [row EXCEPT ![r] = "running"] /\ debits' = [debits EXCEPT ![r] = debits[r]]
    BY <1>1, RunUnderWay
<1>3. \E s \in RunStates :
          /\ run' = [run EXCEPT ![r] = s] /\ run'[r] = s
          /\ \/ s.pc \in {"clone", "work", "comment", "push"}
             \/ s.pc = "finish" /\ s.verdict = "error"
    <2>1. CASE Fails(r)
        BY <1>2, <2>1, RunFails
    <2>2. CASE \E pc \in {"clone", "comment", "push"} : Goes(r, pc)
        BY <1>2, <2>2, RunGoes
    <2>3. CASE run' = [run EXCEPT ![r].pc = "clone", ![r].meter = TRUE]
        <3> DEFINE s == [run[r] EXCEPT !.pc = "clone", !.meter = TRUE]
        <3>1. s \in RunStates /\ s.pc = "clone"
            BY <1>2, RunIsRecord DEF RunStates
        <3>2. run' = [run EXCEPT ![r] = s] /\ run'[r] = s
            BY <1>2, <2>3 DEF RunTypes
        <3> QED
            BY <3>1, <3>2
    <2>4. CASE run' = [run EXCEPT ![r].pc = "work", ![r].base = StartingPoint(r)]
        <3> DEFINE s == [run[r] EXCEPT !.pc = "work", !.base = StartingPoint(r)]
        <3>1. StartingPoint(r) \in SUBSET Commits
            BY <1>2, RunIsRecord DEF StartingPoint, RefTypes, Refs
        <3>2. s \in RunStates /\ s.pc = "work"
            BY <1>2, <3>1, RunIsRecord DEF RunStates
        <3>3. run' = [run EXCEPT ![r] = s] /\ run'[r] = s
            BY <1>2, <2>4 DEF RunTypes
        <3> QED
            BY <3>2, <3>3
    <2> QED
        BY <2>1, <2>2, <2>3, <2>4 DEF Gate, Clone, Work, Unmetered, Leaves
<1>4. PICK s \in RunStates : /\ run' = [run EXCEPT ![r] = s] /\ run'[r] = s
                             /\ \/ s.pc \in {"clone", "work", "comment", "push"}
                                \/ s.pc = "finish" /\ s.verdict = "error"
    BY <1>3
<1>5. RunInv(r)'
    BY <1>1, <1>2, <1>4 DEF RunInv, RunAt
<1> QED
    BY <1>1, <1>2, <1>4, <1>5, OneRunMoves

(* The push leaves the run with its commit in its branch, or failed. *)
LEMMA PushHolds ==
    ASSUME NEW r \in Runs, RunsOk, RefTypes, Grows, Push(r)
    PROVE  RunsOk'
<1>1. run[r].pc = "push" /\ UNCHANGED <<row, debits, comments>>
    BY DEF Push, RunAt, ledgerVars
<1>2. /\ row[r] = "running" /\ debits[r] = 0 /\ debits[r] \in Nat /\ RunTypes
      /\ row' = [row EXCEPT ![r] = "running"] /\ debits' = [debits EXCEPT ![r] = debits[r]]
    BY <1>1, RunUnderWay
<1>3. CASE Fails(r)
    <2>1. PICK s \in RunStates : /\ run' = [run EXCEPT ![r] = s] /\ run'[r] = s
                                 /\ s.pc = "finish" /\ s.verdict = "error"
        BY <1>2, <1>3, RunFails
    <2>2. RunInv(r)'
        BY <1>1, <1>2, <2>1 DEF RunInv, RunAt
    <2> QED
        BY <1>1, <1>2, <2>1, <2>2, OneRunMoves
<1>4. CASE GitPush(BranchOf[r], Tip(r)) /\ Goes(r, "upsert")
    <2>1. PICK s \in RunStates :
              /\ run' = [run EXCEPT ![r] = s] /\ run'[r] = s
              /\ s.pc = "upsert" /\ s.verdict = run[r].verdict /\ s.base = run[r].base
        BY <1>2, <1>4, RunGoes
    <2>2. refs'[BranchOf[r]] = Tip(r) /\ Tip(r)' = Tip(r)
        BY <1>2, <1>4, <2>1, RunIsRecord DEF GitPush, RefTypes, Tip
    <2>3. RunInv(r)'
        BY <1>1, <1>2, <2>1, <2>2 DEF RunInv, RunAt
    <2> QED
        BY <1>1, <1>2, <2>1, <2>3, OneRunMoves
<1> QED
    BY <1>3, <1>4 DEF Push

(* A comment, or the commit that was pushed: the run may be paid for. *)
LEMMA DoneHolds ==
    ASSUME NEW r \in Runs, RunsOk, Grows, Comment(r) \/ Upsert(r)
    PROVE  RunsOk'
<1>1. /\ run[r].pc \in {"comment", "upsert"} /\ UNCHANGED <<row, debits>>
      /\ comments' \in {comments, comments \cup {r}} /\ Unpaid(r)
    BY DEF Comment, Upsert, PullAndNote, Says, RunAt, ledgerVars
<1>2. /\ row[r] = "running" /\ debits[r] = 0 /\ debits[r] \in Nat /\ RunTypes /\ RunInv(r)
      /\ row' = [row EXCEPT ![r] = "running"] /\ debits' = [debits EXCEPT ![r] = debits[r]]
    BY <1>1, RunUnderWay
<1>3. HasWork(r)'
    <2>1. CASE Comment(r)
        BY <2>1 DEF Comment, Says, HasWork
    <2>2. CASE Upsert(r)
        BY <1>2, <2>2, RunIsRecord DEF Upsert, RunInv, Tip, HasWork, Grows
    <2> QED
        BY <2>1, <2>2
<1>4. PICK s \in RunStates : /\ run' = [run EXCEPT ![r] = s] /\ run'[r] = s
                             /\ s.pc \in {"charge", "finish"}
    BY <1>1, <1>2, RunGoes DEF Unpaid
<1>5. RunInv(r)'
    BY <1>1, <1>2, <1>3, <1>4 DEF RunInv, RunAt
<1> QED
    BY <1>1, <1>2, <1>4, <1>5, OneRunMoves

(* The debit, whose answer may be lost, is made at most once. *)
LEMMA ChargeHolds ==
    ASSUME NEW r \in Runs, RunsOk, Grows, Charge(r)
    PROVE  RunsOk'
<1>1. run[r].pc = "charge" /\ UNCHANGED <<row, comments>>
    BY DEF Charge, RunAt
<1>2. /\ row[r] = "running" /\ debits[r] = 0 /\ debits[r] \in Nat /\ RunTypes /\ RunInv(r)
      /\ row' = [row EXCEPT ![r] = "running"]
    BY <1>1, RunUnderWay
<1>3. HasWork(r)'
    BY <1>1, <1>2, WorkStays DEF RunInv, RunAt
<1>4. PICK s \in RunStates : /\ run' = [run EXCEPT ![r] = s] /\ run'[r] = s
                             /\ s.pc = "finish"
    BY <1>2, RunGoes DEF Charge
<1>5. PICK d \in Nat : d \in {0, 1} /\ debits' = [debits EXCEPT ![r] = d]
    BY <1>2 DEF Charge, ledgerVars, RunTypes
<1>6. RunInv(r)'
    BY <1>1, <1>2, <1>3, <1>4, <1>5 DEF RunInv, RunAt, RunTypes
<1> QED
    BY <1>1, <1>2, <1>4, <1>5, <1>6, OneRunMoves

LEMMA FinishHolds ==
    ASSUME NEW r \in Runs, RunsOk, Grows, Finish(r)
    PROVE  RunsOk'
<1>1. run[r].pc = "finish" /\ UNCHANGED <<debits, comments>>
    BY DEF Finish, RunAt, ledgerVars
<1>2. /\ RunTypes /\ RunInv(r) /\ debits' = [debits EXCEPT ![r] = debits[r]] /\ debits[r] \in Nat
    BY <1>1, RunUnderWay
<1>3. HasWork(r) => HasWork(r)'
    BY <1>1, <1>2, WorkStays
<1>4. /\ IdleRun \in RunStates /\ IdleRun.pc = "idle"
      /\ run[r].verdict \in {"ok", "error"}
    BY <1>2, RunIsRecord DEF IdleRun, RunStates
<1>5. /\ run' = [run EXCEPT ![r] = IdleRun] /\ run'[r] = IdleRun
      /\ row' = [row EXCEPT ![r] = run[r].verdict] /\ row'[r] = run[r].verdict
    BY <1>2 DEF Finish, RunTypes
<1>6. RunInv(r)'
    BY <1>1, <1>2, <1>3, <1>4, <1>5 DEF RunInv, RunAt
<1> QED
    BY <1>1, <1>2, <1>4, <1>5, <1>6, OneRunMoves

LEMMA RunsHold == PullsInv /\ [Next]_vars => RunsOk'
<1> SUFFICES ASSUME PullsInv, [Next]_vars PROVE RunsOk'
    OBVIOUS
<1>0. RunsOk /\ RunTypes /\ RefTypes /\ Grows
    BY RefsHold DEF PullsInv, RunsOk
<1>1. CASE UNCHANGED <<row, run, debits, comments>>
    BY <1>0, <1>1, RunsStay
<1>2. ASSUME NEW r \in Runs, Dispatch(r) PROVE RunsOk'
    <2>1. /\ run[r].pc = "idle" /\ debits[r] = 0 /\ UNCHANGED <<debits, comments>>
          /\ row' = [row EXCEPT ![r] = "running"] /\ row'[r] = "running"
          /\ debits' = [debits EXCEPT ![r] = debits[r]] /\ ~(debits[r] = 1)
          /\ debits[r] \in Nat
        BY <1>0, <1>2 DEF Dispatch, RunsOk, RunTypes, RunInv, ledgerVars, RunStates
    <2>2. PICK s \in RunStates : /\ run' = [run EXCEPT ![r] = s] /\ run'[r] = s /\ s.pc = "gate"
        BY <1>0, <1>2, RunGoes DEF Dispatch
    <2>3. RunInv(r)'
        BY <2>1, <2>2 DEF RunInv, RunAt
    <2> QED
        BY <1>0, <2>1, <2>2, <2>3, OneRunMoves
<1>3. CASE Crash
    <2>1. IdleRun \in RunStates /\ IdleRun.pc = "idle"
        BY DEF IdleRun, RunStates
    <2>2. run' = [r \in Runs |-> IdleRun] /\ UNCHANGED <<row, comments, debits>>
        BY <1>3 DEF Crash, ledgerVars
    <2>3. RunTypes'
        BY <1>0, <2>1, <2>2 DEF RunTypes
    <2>4. ASSUME NEW r \in Runs PROVE RunInv(r)'
        <3>1. RunInv(r) /\ (HasWork(r) => HasWork(r)')
            BY <1>0, <2>2, WorkStays DEF RunsOk
        <3> QED
            BY <2>1, <2>2, <3>1 DEF RunInv, RunAt
    <2> QED
        BY <2>3, <2>4 DEF RunsOk
<1> QED
    BY <1>0, <1>1, <1>2, <1>3, EarlyStepHolds, PushHolds, DoneHolds, ChargeHolds, FinishHolds
    DEF Next, vars, RunStep, RequestStep, OpenPull, StartMerge, RecordPull, MergeClones,
        MergeFetches, MergeFails, MergePush, MarkMerged, OwnerPushes, ClosePull, ledgerVars

-----------------------------------------------------------------------------
(* The requests of the owner.  What one waits with is not lost to the steps *)
(* of others: rows stay and branches grow.                                  *)
LEMMA RequestWaits ==
    ASSUME RequestTypes, Grows, Kept, NEW q \in Requests, RequestInv(q),
           request'[q] = request[q]
    PROVE  RequestInv(q)'
<1>1. request[q].branch \in Refs /\ "main" \in Refs
    BY RequestIsRecord DEF Refs
<1> QED
    BY <1>1 DEF RequestInv, RequestAt, Grows, Kept

LEMMA RequestsStay ==
    ASSUME RequestsOk, Grows, Kept, UNCHANGED request
    PROVE  RequestsOk'
BY RequestWaits DEF RequestsOk, RequestTypes

LEMMA OneRequestMoves ==
    ASSUME RequestsOk, Grows, Kept, NEW q \in Requests, NEW s \in RequestStates,
           request' = [request EXCEPT ![q] = s], RequestInv(q)'
    PROVE  RequestsOk'
<1>1. RequestTypes' /\ \A p \in Requests \ {q} : request'[p] = request[p]
    BY DEF RequestsOk, RequestTypes
<1> QED
    BY <1>1, RequestWaits DEF RequestsOk

LEMMA AnswerIsTyped == Answered \in RequestStates /\ Answered.pc = "done"
BY DEF Answered, IdleRequest, RequestStates, Refs

(* The owner gets an answer; nothing is expected of the request any more. *)
LEMMA AnswerHolds ==
    ASSUME RequestsOk, Grows, Kept, NEW q \in Requests, Answers(q)
    PROVE  RequestsOk'
<1>1. request'[q] = Answered
    BY DEF Answers, RequestsOk, RequestTypes
<1>2. RequestInv(q)'
    BY <1>1, AnswerIsTyped DEF RequestInv, RequestAt
<1> QED
    BY <1>2, AnswerIsTyped, OneRequestMoves DEF Answers

LEMMA OpenHolds ==
    ASSUME RequestsOk, RefTypes, Grows, Kept, NEW q \in Requests, NEW b \in Branches, OpenPull(q, b)
    PROVE  RequestsOk'
<1> DEFINE s == [request[q] EXCEPT !.pc = "open", !.branch = b, !.tip = refs[b]]
<1>1. request[q] \in RequestStates /\ b \in Refs /\ refs[b] \in SUBSET Commits
    BY RequestIsRecord DEF RequestsOk, RefTypes, Refs
<1>2. s \in RequestStates /\ s.pc = "open" /\ s.branch = b /\ s.tip = refs[b]
    BY <1>1 DEF RequestStates
<1>3. request' = [request EXCEPT ![q] = s] /\ request'[q] = s
    BY DEF OpenPull, RequestsOk, RequestTypes
<1> HIDE DEF s
<1>4. RequestInv(q)'
    BY <1>1, <1>2, <1>3 DEF RequestInv, RequestAt, Grows
<1> QED
    BY <1>2, <1>3, <1>4, OneRequestMoves

LEMMA StartMergeHolds ==
    ASSUME RequestsOk, PullsOk, Grows, Kept, NEW q \in Requests, NEW n \in DOMAIN pulls,
           StartMerge(q, n)
    PROVE  RequestsOk'
<1> DEFINE s == [request[q] EXCEPT !.pc = "merge", !.pull = n,
                                   !.branch = pulls[n].branch, !.tip = pulls[n].tip]
<1>1. /\ request[q] \in RequestStates /\ n \in Nat /\ pulls[n].branch \in Refs
      /\ pulls[n].tip \in SUBSET Commits /\ pulls[n].tip \subseteq refs[pulls[n].branch]
    BY RequestIsRecord, PullIsRecord DEF RequestsOk, PullsOk, PullsAreInGit
<1>2. /\ s \in RequestStates /\ s.pc = "merge" /\ s.pull = n
      /\ s.branch = pulls[n].branch /\ s.tip = pulls[n].tip
    BY <1>1 DEF RequestStates
<1>3. request' = [request EXCEPT ![q] = s] /\ request'[q] = s
    BY DEF StartMerge, RequestsOk, RequestTypes
<1>4. pulls[n].tip \subseteq refs'[pulls[n].branch] /\ n \in DOMAIN pulls'
    BY <1>1 DEF Grows, Kept
<1> HIDE DEF s
<1>5. RequestInv(q)'
    BY <1>2, <1>3, <1>4 DEF RequestInv, RequestAt
<1> QED
    BY <1>2, <1>3, <1>5, OneRequestMoves

(* The steps of mergeBranches: the clone of the target, ... *)
LEMMA ClonesHolds ==
    ASSUME RequestsOk, RefTypes, Grows, Kept, NEW q \in Requests, MergeClones(q)
    PROVE  RequestsOk'
<1> DEFINE s == [request[q] EXCEPT !.pc = "fetch", !.result = refs["main"]]
<1>1. /\ request[q] \in RequestStates /\ refs["main"] \in SUBSET Commits
      /\ request[q].branch \in Refs
    BY RequestIsRecord DEF RequestsOk, RefTypes, Refs
<1>2. /\ s \in RequestStates /\ s.pc = "fetch" /\ s.pull = request[q].pull
      /\ s.branch = request[q].branch /\ s.tip = request[q].tip
    BY <1>1 DEF RequestStates
<1>3. request' = [request EXCEPT ![q] = s] /\ request'[q] = s
    BY DEF MergeClones, RequestsOk, RequestTypes
<1>4. /\ request[q].pull \in DOMAIN pulls'
      /\ request[q].tip \subseteq refs'[request[q].branch]
    BY <1>1 DEF RequestsOk, RequestInv, MergeClones, RequestAt, Grows, Kept
<1> HIDE DEF s
<1>5. RequestInv(q)'
    BY <1>2, <1>3, <1>4 DEF RequestInv, RequestAt
<1> QED
    BY <1>2, <1>3, <1>5, OneRequestMoves

(* ... the source, which has the tip that was asked for, and so has what is *)
(* made of the two, ...                                                     *)
LEMMA FetchesHolds ==
    ASSUME RequestsOk, RefTypes, Grows, Kept, NEW q \in Requests, MergeFetches(q)
    PROVE  RequestsOk'
<1> DEFINE source == refs[request[q].branch]
           base   == request[q].result
<1>1. /\ request[q] \in RequestStates /\ source \in SUBSET Commits /\ base \in SUBSET Commits
    BY RequestIsRecord DEF RequestsOk, RefTypes
<1>2. /\ request[q].pull \in DOMAIN pulls' /\ request[q].tip \subseteq source
    BY DEF RequestsOk, RequestInv, MergeFetches, RequestAt, Kept
<1>3. \E result \in {source, base, base \cup source \cup {q}} :
          /\ result # {} /\ source \subseteq result
          /\ request' = [request EXCEPT ![q].pc = "push", ![q].result = result]
    BY DEF MergeFetches
<1>4. PICK result \in SUBSET Commits :
          /\ result # {} /\ source \subseteq result
          /\ request' = [request EXCEPT ![q].pc = "push", ![q].result = result]
    BY <1>1, <1>3 DEF Commits
<1> DEFINE s == [request[q] EXCEPT !.pc = "push", !.result = result]
<1>5. /\ s \in RequestStates /\ s.pc = "push" /\ s.pull = request[q].pull
      /\ s.tip = request[q].tip /\ s.result = result
    BY <1>1 DEF RequestStates
<1>6. request' = [request EXCEPT ![q] = s] /\ request'[q] = s
    BY <1>4 DEF RequestsOk, RequestTypes
<1> HIDE DEF s
<1>7. RequestInv(q)'
    BY <1>2, <1>4, <1>5, <1>6 DEF RequestInv, RequestAt
<1> QED
    BY <1>5, <1>6, <1>7, OneRequestMoves

(* ... and the push to the target. *)
LEMMA MergePushHolds ==
    ASSUME RequestsOk, RefTypes, Grows, Kept, NEW q \in Requests, MergePush(q)
    PROVE  RequestsOk'
<1>1. CASE Answers(q)
    BY <1>1, AnswerHolds
<1>2. CASE GitPush("main", request[q].result) /\ request' = [request EXCEPT ![q].pc = "mark"]
    <2> DEFINE s == [request[q] EXCEPT !.pc = "mark"]
    <2>1. request[q] \in RequestStates
        BY RequestIsRecord DEF RequestsOk
    <2>2. /\ s \in RequestStates /\ s.pc = "mark" /\ s.pull = request[q].pull
          /\ s.tip = request[q].tip /\ s.result = request[q].result
        BY <2>1 DEF RequestStates
    <2>3. request' = [request EXCEPT ![q] = s] /\ request'[q] = s
        BY <1>2 DEF RequestsOk, RequestTypes
    <2>4. refs'["main"] = request[q].result
        BY <1>2 DEF GitPush, RefTypes, Refs
    <2>5. /\ request[q].pull \in DOMAIN pulls' /\ request[q].result # {}
          /\ request[q].tip \subseteq request[q].result
        BY DEF RequestsOk, RequestInv, MergePush, RequestAt, Kept
    <2> HIDE DEF s
    <2>6. RequestInv(q)'
        BY <2>2, <2>3, <2>4, <2>5 DEF RequestInv, RequestAt
    <2> QED
        BY <2>2, <2>3, <2>6, OneRequestMoves
<1> QED
    BY <1>1, <1>2 DEF MergePush

LEMMA RequestsHold == PullsInv /\ [Next]_vars => RequestsOk'
<1> SUFFICES ASSUME PullsInv, [Next]_vars PROVE RequestsOk'
    OBVIOUS
<1>0. RequestsOk /\ RefTypes /\ PullsOk /\ Grows /\ Kept
    BY RefsHold, PullsHold DEF PullsInv
<1>1. CASE UNCHANGED request
    BY <1>0, <1>1, RequestsStay
<1>2. CASE Crash
    <2>1. IdleRequest \in RequestStates /\ IdleRequest.pc = "idle"
        BY DEF IdleRequest, RequestStates, Refs
    <2>2. /\ request' \in [Requests -> RequestStates]
          /\ \A q \in Requests : request'[q].pc \in {"idle", "done"}
        BY <1>2, <2>1, AnswerIsTyped DEF Crash
    <2> QED
        BY <2>2 DEF RequestsOk, RequestTypes, RequestInv, RequestAt
<1>3. ASSUME NEW q \in Requests, RecordPull(q) \/ MergeFails(q) \/ MarkMerged(q) PROVE RequestsOk'
    BY <1>0, <1>3, AnswerHolds DEF RecordPull, MergeFails, MarkMerged
<1> QED
    BY <1>0, <1>1, <1>2, <1>3, OpenHolds, StartMergeHolds, ClonesHolds, FetchesHolds,
       MergePushHolds
    DEF Next, vars, RequestStep, RunStep, Dispatch, Gate, Clone, Work, Comment, Push, Upsert,
        Charge, Finish, OwnerPushes, ClosePull

-----------------------------------------------------------------------------
(* The balance is counted down only while there is one, and each fault and  *)
(* each crash is counted.                                                   *)
LEMMA OthersHold == PullsInv /\ [Next]_vars => OtherTypes'
<1> SUFFICES ASSUME PullsInv, [Next]_vars PROVE OtherTypes'
    OBVIOUS
<1>0. OtherTypes /\ Allotment \in Nat /\ MaxFaults \in Nat /\ MaxCrashes \in Nat
    BY BoundsAssumption DEF PullsInv
<1>1. UNCHANGED faults \/ Fault
    BY DEF Next, vars, bounds, GetBalance, RunStep, RequestStep, Dispatch, Gate,
           Clone, Work, Comment, Push, Upsert, Charge, Finish, OpenPull, StartMerge, RecordPull,
           MergeClones, MergeFetches, MergeFails, MergePush, MarkMerged, OwnerPushes, ClosePull,
           Crash
<1>2. UNCHANGED crashes \/ Crash
    BY DEF Next, vars, bounds, RunStep, RequestStep, Dispatch, Gate,
           Clone, Work, Comment, Push, Upsert, Charge, Finish, OpenPull, StartMerge, RecordPull,
           MergeClones, MergeFetches, MergeFails, MergePush, MarkMerged, OwnerPushes, ClosePull
<1>3. UNCHANGED balance \/ (balance > 0 /\ balance' = balance - 1)
    <2>1. ASSUME NEW r \in Runs, Charge(r)
          PROVE  UNCHANGED balance \/ (balance > 0 /\ balance' = balance - 1)
        BY <2>1 DEF Charge, ledgerVars
    <2>2. CASE ~\E r \in Runs : Charge(r)
        BY <2>2
        DEF Next, vars, ledgerVars, RunStep, RequestStep, Dispatch, Gate, Clone, Work, Comment,
            Push, Upsert, Finish, OpenPull, StartMerge, RecordPull, MergeClones, MergeFetches,
            MergeFails, MergePush, MarkMerged, OwnerPushes, ClosePull, Crash
    <2> QED
        BY <2>1, <2>2
<1>4. issue' \in {"open", "closed"}
    BY <1>0
    DEF OtherTypes, Next, vars, RunStep, RequestStep, Dispatch, Gate,
        Clone, Work, Comment, Push, Upsert, Charge, Finish, OpenPull, StartMerge, RecordPull,
        MergeClones, MergeFetches, MergeFails, MergePush, MarkMerged, OwnerPushes, ClosePull, Crash
<1>5. faults' \in 0 .. MaxFaults
    BY <1>0, <1>1 DEF OtherTypes, Fault
<1>6. crashes' \in 0 .. MaxCrashes
    BY <1>0, <1>2 DEF OtherTypes, Crash
<1>7. balance' \in 0 .. Allotment
    BY <1>0, <1>3 DEF OtherTypes
<1> QED
    BY <1>4, <1>5, <1>6, <1>7 DEF OtherTypes

(* The invariant holds in every state. *)
THEOREM PullsInvariant == Spec => []PullsInv
<1>1. PullsInv /\ [Next]_vars => PullsInv'
    BY RefsHold, PullsHold, RunsHold, RequestsHold, OthersHold DEF PullsInv
<1> QED
    BY <1>1, InitHolds, PTL DEF Spec

(* The types; a row has a merge exactly when it is merged, and a driver that *)
(* is at work has a row of agent_runs that says so.                          *)
THEOREM PullsTypes == Spec => []TypeOK
<1>1. PullsInv => TypeOK
    BY DEF PullsInv, RefTypes, OtherTypes, PullsOk, PullTypes, RunsOk, RunTypes, RequestsOk,
           RequestTypes, TypeOK
<1> QED
    BY <1>1, PullsInvariant, PTL

(* One open pull request per branch, tips and merges that are in git, and a *)
(* merge that has at least the tip its owner asked for.                     *)
THEOREM PullsStayInGit == Spec => []PullsAgreeWithGit
<1>1. PullsInv => PullsAgreeWithGit
    <2> SUFFICES ASSUME PullsInv PROVE MergeHasTheTip
        BY DEF PullsInv, PullsOk, PullsAgreeWithGit
    <2> QED
        BY DEF PullsInv, RequestsOk, RequestInv, RequestAt, MergeHasTheTip
<1> QED
    BY <1>1, PullsInvariant, PTL

(* A run that is called ok, or that was paid for, has left its work where   *)
(* its owner sees it; no run is paid for twice.                             *)
THEOREM WorkStaysThere == Spec => []WorkIsThere
<1>1. PullsInv => WorkIsThere
    BY DEF PullsInv, RunsOk, RunInv, HasWork, WorkIsThere, OkMeansDone, PaidForWork
<1> QED
    BY <1>1, PullsInvariant, PTL

(* No push drops what was pushed before, by whoever; a pull request that is *)
(* merged or closed is never written again.                                 *)
THEOREM NothingIsRewritten == Spec => HistoryStays
<1>1. PullsInv /\ [Next]_vars => \A f \in Refs : refs[f] \subseteq refs'[f]
    BY RefsHold DEF Grows
<1>2. PullsInv /\ [Next]_vars => \A n \in DOMAIN pulls :
                                    pulls[n].status # "open" => pulls'[n] = pulls[n]
    BY PullsHold DEF Kept
<1> QED
    BY <1>1, <1>2, PullsInvariant, PTL DEF Spec, HistoryStays, PushesOnlyAdd, VerdictIsFinal
=============================================================================
