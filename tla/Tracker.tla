------------------------------ MODULE Tracker ------------------------------
(***************************************************************************)
(* The issue tracker of one repository.  Issues and epics are Markdown     *)
(* under .mind/ on the default branch; the bridge adds to them by cloning, *)
(* writing, folding the tree into the Turtle documents of .mind/build and  *)
(* pushing (lib/tracker/author).  Every push is mirrored into the owner's  *)
(* pod and from there projected into the registry's issues table, where    *)
(* the flat issues of the older API live too.  Visitors leave proposals in *)
(* an inbox on the pod, which the owner accepts or dismisses.              *)
(*                                                                         *)
(* A document of the pod is named by the commit it was read from.          *)
(* tracker.ttl comes from the configuration, which nothing here edits: it  *)
(* is left out, and so is its namespace: the tracker's is one that         *)
(* parse.ts tells, or the board has no number to add one to (TrackerFiles  *)
(* has both).  Input that is refused before anything is read or written is *)
(* left out too.                                                           *)
(***************************************************************************)
EXTENDS Integers, Sequences, FiniteSetsExt, SequencesExt, Functions

CONSTANTS
    Requests,    \* requests the bridge serves at once
    Proposals,   \* ids of the notifications in the inbox
    Words,       \* words of titles
    Titles,      \* slugified titles of new epics, each a sequence of words
    None,        \* no epic, or no argument
    Old,         \* epics the tracker has at the start
    MaxCommits,  \* bound: commits on the branch, the first one included; no
                 \* new issue or epic is asked for after the last one
    MaxMirrors,  \* bound: mirrors running at once
    MaxFlat,     \* bound: issues created through the flat API, all of them
                 \* before the second commit
    MaxMishaps   \* bound: failed calls to the pod and restarts of the bridge

ASSUME BoundsAssumption ==
    MaxCommits \in Nat \ {0} /\ {MaxMirrors, MaxFlat, MaxMishaps} \subseteq Nat
ASSUME TitlesAssumption ==
    Titles \cup Old \subseteq Seq(Words \cup Nat) /\ IsFiniteSet(Old)

VARIABLES
    log,      \* commits of the default branch: source tree and .mind/build
    pod,      \* epics.ttl and state.ttl in the pod, 0 when absent
    rows,     \* the issues table: by number, whose issue it is
    inbox,    \* the notifications of the pod's inbox: unsent, there, gone
    request,  \* the local state of each request
    mirror,   \* mirrors started by post-receive, by the commit pushed
    mishaps   \* used-up bound

vars == <<log, pod, rows, inbox, request, mirror, mishaps>>

Owner  == "owner"
Commit == 1 .. MaxCommits

(* ---------------------------- Folding a tree --------------------------- *)

(* The events directory of an issue, in the order of its file names: the    *)
(* state each event moves it to.  Who holds the issue is left out.          *)
Events == {"todo", "done"}
Closed == {"done"}

(* foldEvents: the last event that names a state decides it.                *)
FoldEvents(events) == FoldLeft(LAMBDA state, to : to, "todo", events)

(* loadEpics refuses two epics of one id.  Duplicate numbers pass the fold. *)
Foldable(src) == IsInjective(src.epics)

(* buildTrackerOutputs: what epics.ttl and state.ttl say of a source tree.  *)
Fold(src) ==
    [epics  |-> Range(src.epics),
     issues |-> {[n |-> i.n, epic |-> i.epic, from |-> i.from,
                  open |-> FoldEvents(i.events) \notin Closed] : i \in src.issues}]

Built(src) == [src |-> src, trio |-> Fold(src)]

NextNumber(checkout) ==
    1 + Max({0} \cup {i.n : i \in Fold(checkout.src).issues})

(* createMindIssue, up to the commit: the new directory and its open event. *)
WithIssue(checkout, epic, from) ==
    [checkout.src EXCEPT !.issues = @ \cup
        {[n |-> NextNumber(checkout), epic |-> epic, from |-> from,
          events |-> <<"todo">>]}]

(* createMindEpic: a slug that is taken gets the position as a suffix.      *)
EpicSlug(src, title) ==
    IF title \in Range(src.epics) THEN Append(title, Len(src.epics) + 1)
                                  ELSE title
WithEpic(checkout, title) ==
    [checkout.src EXCEPT !.epics = Append(@, EpicSlug(checkout.src, title))]

(* --------------------------- Reading a tracker ------------------------- *)

(* What goes into the general group.                                        *)
General(epics, shown) == {i \in shown : i.epic \notin epics}

(* A plausible slip: an epic that the other document does not know is not   *)
(* the absence of an epic.                                                  *)
GroupsOfKnown(epics, issues, shown) ==
    {[epic |-> None, issues |-> {i \in shown : i.epic = None}]}
    \cup {[epic |-> e, issues |-> {i \in shown : i.epic = e}] :
             e \in {x \in epics : (\E i \in shown : i.epic = x)
                                  \/ ~ \E i \in issues : i.epic = x}}

(* groupByEpic over the epics of one document and the issues of another:    *)
(* the general group, and a group for each epic that has some of the issues *)
(* or has none at all.                                                      *)
Groups(epics, issues, shown) ==
    {[epic |-> None, issues |-> General(epics, shown)]}
    \cup {[epic |-> e, issues |-> {i \in shown : i.epic = e}] :
             e \in {x \in epics : (\E i \in shown : i.epic = x)
                                  \/ ~ \E i \in issues : i.epic = x}}

(* ------------------------------- Requests ------------------------------ *)

(* op: what is asked.  at: the await it is suspended at.  arg: a proposal,  *)
(* an epic or a title.  base: the commit it has cloned, or read state.ttl   *)
(* of.                                                                      *)
Idle == [op |-> "idle", at |-> "-", arg |-> None, base |-> 0]

(* The first commit has just been pushed.                                   *)
MirrorJob == [at |-> "state", state |-> 0, epics |-> 0]
Init ==
    /\ log = <<Built([issues |-> {}, epics |-> SetToSeq(Old)])>>
    /\ pod = [epics |-> 0, state |-> 0]
    /\ rows = [n \in {} |-> None]
    /\ inbox = [p \in Proposals |-> "unsent"]
    /\ request = [r \in Requests |-> Idle]
    /\ mirror = [c \in {1} |-> MirrorJob]
    /\ mishaps = 0

Goto(r, at) == request' = [request EXCEPT ![r].at = at]
Return(r)   == request' = [request EXCEPT ![r] = Idle]
Mishap == mishaps < MaxMishaps /\ mishaps' = mishaps + 1
Begin(r, op, at, arg, base) ==
    request' = [request EXCEPT ![r] = [op |-> op, at |-> at, arg |-> arg,
                                       base |-> base]]

(* The clone of a request, and the tree it makes of it.                     *)
Written(job) ==
    LET checkout == log[job.base] IN
    CASE job.op = "issue"  -> WithIssue(checkout, job.arg, Owner)
      [] job.op = "accept" -> WithIssue(checkout, None, job.arg)
      [] job.op = "epic"   -> WithEpic(checkout, job.arg)

(* POST mind-issues and POST mind-epics: checkoutBranchToTempDir, and the   *)
(* work in the clone up to the commit.  An unknown epic is refused, and so  *)
(* is a tree that does not fold.                                            *)
Slugs == Range(log[Len(log)].src.epics)

PostIssue(r) ==
    /\ request[r] = Idle /\ Len(log) < MaxCommits
    /\ \E epic \in {None} \cup Slugs : Begin(r, "issue", "push", epic, Len(log))
    /\ UNCHANGED <<log, pod, rows, inbox, mirror, mishaps>>

PostEpic(r) ==
    /\ request[r] = Idle /\ Len(log) < MaxCommits
    /\ \E title \in Titles :
          /\ Foldable(WithEpic(log[Len(log)], title))
          /\ Begin(r, "epic", "push", title, Len(log))
    /\ UNCHANGED <<log, pod, rows, inbox, mirror, mishaps>>

Inbox == {p \in Proposals : inbox[p] = "there"}

(* postProposal: a notification under a new id. *)
PostProposal(p) == inbox[p] = "unsent" /\ inbox' = [inbox EXCEPT ![p] = "there"]

(* POST issues/propose, by anyone.                                          *)
Propose ==
    /\ Len(log) < MaxCommits
    /\ \E p \in Proposals : PostProposal(p)
    /\ UNCHANGED <<log, pod, rows, request, mirror, mishaps>>

(* POST inbox/[id]/accept reads the proposal, and then does the same; a     *)
(* proposal that is gone is a 404.  DELETE inbox/[id] dismisses it.         *)
Accept(r) ==
    /\ request[r] = Idle /\ Len(log) < MaxCommits
    /\ \E p \in Inbox : Begin(r, "accept", "checkout", p, 0)
    /\ UNCHANGED <<log, pod, rows, inbox, mirror, mishaps>>

Checkout(r) ==
    /\ request[r].at = "checkout"
    /\ Begin(r, "accept", "push", request[r].arg, Len(log))
    /\ UNCHANGED <<log, pod, rows, inbox, mirror, mishaps>>

Dismiss(r) ==
    /\ request[r] = Idle
    /\ \E p \in Inbox : Begin(r, "dismiss", "delete", p, 0)
    /\ UNCHANGED <<log, pod, rows, inbox, mirror, mishaps>>

(* post-receive is called for the new commit, and starts a mirror.          *)
Running == DOMAIN mirror
Land(commit) ==
    /\ Len(log) < MaxCommits
    /\ Cardinality(Running) < MaxMirrors
    /\ log' = Append(log, commit)
    /\ mirror' = [c \in Running \cup {Len(log) + 1} |->
                     IF c \in Running THEN mirror[c] ELSE MirrorJob]

(* git push origin HEAD:branch is refused unless it is a fast-forward.      *)
Ahead(r) == request[r].base = Len(log)
Consume(r) == IF request[r].op = "accept" THEN Goto(r, "delete") ELSE Return(r)

(* A plausible slip: the accept route does not wait for the push to succeed.*)
PushAndConsume(r) ==
    /\ request[r].at = "push"
    /\ \/ Ahead(r) /\ Land(Built(Written(request[r]))) /\ Consume(r)
       \/ ~ Ahead(r) /\ Consume(r) /\ UNCHANGED <<log, mirror>>
    /\ UNCHANGED <<pod, rows, inbox, mishaps>>

Push(r) ==
    /\ request[r].at = "push"
    /\ \/ Ahead(r) /\ Land(Built(Written(request[r]))) /\ Consume(r)
       \/ ~ Ahead(r) /\ Return(r) /\ UNCHANGED <<log, mirror>>
    /\ UNCHANGED <<pod, rows, inbox, mishaps>>

(* deleteProposal: a failure is only logged after an accept, and is a 500   *)
(* for a dismissal.  A notification that is gone already is no failure.     *)
Delete(r) ==
    /\ request[r].at = "delete"
    /\ Return(r)
    /\ \/ inbox' = [inbox EXCEPT ![request[r].arg] = "gone"] /\ UNCHANGED mishaps
       \/ Mishap /\ UNCHANGED inbox
    /\ UNCHANGED <<log, pod, rows, mirror>>

(* The board (issues/page.tsx) reads state.ttl from the pod and then        *)
(* epics.ttl; a pod without a tracker, or one that cannot be read, makes it *)
(* read the branch's head instead, a file at a time too.  Readers change    *)
(* nothing, so one at a time is enough, opened while nothing is under way:  *)
(* a request that can still push could as well begin after it.              *)
Look(r, where, commit) == Begin(r, "board", where, None, commit)
OpenBoard(r) ==
    /\ \A q \in Requests : request[q] = Idle
    /\ \/ pod.state # 0 /\ Look(r, "pod", pod.state) /\ UNCHANGED mishaps
       \/ pod.state # 0 /\ Look(r, "git", Len(log)) /\ Mishap
       \/ pod.state = 0 /\ Look(r, "git", Len(log)) /\ UNCHANGED mishaps
    /\ UNCHANGED <<log, pod, rows, inbox, mirror>>

EpicsSeen(r) == IF request[r].at = "git" THEN Len(log) ELSE pod.epics
Shown(r, shown) ==
    Groups(log[EpicsSeen(r)].trio.epics, log[request[r].base].trio.issues, shown)
Board(r) ==
    /\ request[r].op = "board"
    /\ Return(r)
    /\ UNCHANGED <<log, pod, rows, inbox, mirror, mishaps>>

(* A developer or an agent pushes from a clone of its own: another event of *)
(* an issue, with .mind/build rebuilt.                                      *)
ClientPush ==
    /\ \E i \in log[Len(log)].src.issues : \E to \in Events \ {Last(i.events)} :
         Land(Built([log[Len(log)].src EXCEPT !.issues =
                        (@ \ {i}) \cup {[i EXCEPT !.events = Append(@, to)]}]))
    /\ UNCHANGED <<pod, rows, inbox, request, mishaps>>

(* --------------------------- Flat issues ------------------------------- *)

FlatRows == {n \in DOMAIN rows : rows[n] = "flat"}

(* createIssue: the number is MAX + 1 within the transaction.               *)
CreateFlat ==
    /\ Cardinality(FlatRows) < MaxFlat /\ Len(log) = 1
    /\ rows' = [n \in DOMAIN rows \cup {1 + Max({0} \cup DOMAIN rows)} |->
                   IF n \in DOMAIN rows THEN rows[n] ELSE "flat"]
    /\ UNCHANGED <<log, pod, inbox, request, mirror, mishaps>>

(* ---------------------- Mirroring and projecting ----------------------- *)

Job(c) == c \in Running
Step(c, job) == mirror' = [mirror EXCEPT ![c] = job]
End(c) == mirror' = [d \in Running \ {c} |-> mirror[d]]

(* mirrorTrackerFromGit reads state.ttl and then epics.ttl at the branch,   *)
(* not at the commit that was pushed.                                       *)
ReadGit(c) ==
    /\ Job(c)
    /\ \/ /\ mirror[c].at = "state"
          /\ Step(c, [mirror[c] EXCEPT !.at = "epics", !.state = Len(log)])
       \/ /\ mirror[c].at = "epics"
          /\ Step(c, [mirror[c] EXCEPT !.at = "put epics", !.epics = Len(log)])
    /\ UNCHANGED <<log, pod, rows, inbox, request, mishaps>>

(* A plausible slip: the documents are written in the order they were read. *)
PutStateFirst(c) ==
    /\ Job(c)
    /\ \/ /\ mirror[c].at = "put epics"
          /\ pod' = [pod EXCEPT !.state = mirror[c].state]
          /\ Step(c, [mirror[c] EXCEPT !.at = "put state"])
       \/ /\ mirror[c].at = "put state"
          /\ pod' = [pod EXCEPT !.epics = mirror[c].epics]
          /\ Step(c, [mirror[c] EXCEPT !.at = "read"])
    /\ UNCHANGED <<log, rows, inbox, request, mishaps>>

(* publishTrackerToPod writes state.ttl last.                               *)
Put(c) ==
    /\ Job(c)
    /\ \/ /\ mirror[c].at = "put epics"
          /\ pod' = [pod EXCEPT !.epics = mirror[c].epics]
          /\ Step(c, [mirror[c] EXCEPT !.at = "put state"])
       \/ /\ mirror[c].at = "put state"
          /\ pod' = [pod EXCEPT !.state = mirror[c].state]
          /\ Step(c, [mirror[c] EXCEPT !.at = "read"])
    /\ UNCHANGED <<log, rows, inbox, request, mishaps>>

MirrorFails(c) ==
    /\ Job(c)
    /\ mirror[c].at \notin {"state", "epics"}
    /\ Mishap
    /\ End(c)
    /\ UNCHANGED <<log, pod, rows, inbox, request>>

(* readPodTracker, of which the issues come from state.ttl alone, and       *)
(* projectTrackerToRegistry: one transaction, an upsert by number.          *)
Projected(issues) ==
    LET numbers == {i.n : i \in issues} IN
    [n \in DOMAIN rows \cup numbers |-> IF n \in numbers THEN "tracker" ELSE rows[n]]

Project(c) ==
    /\ Job(c)
    /\ mirror[c].at = "read"
    /\ rows' = Projected(log[pod.state].trio.issues)
    /\ End(c)
    /\ UNCHANGED <<log, pod, inbox, request, mishaps>>

(* The process of the bridge ends: requests and mirrors go with it.         *)
Restart ==
    /\ Mishap
    /\ request' = [r \in Requests |-> Idle]
    /\ mirror' = [c \in {} |-> None]
    /\ UNCHANGED <<log, pod, rows, inbox>>

RequestStep(r) ==
    \/ PostIssue(r) \/ PostEpic(r) \/ Accept(r) \/ Dismiss(r) \/ OpenBoard(r)
    \/ Checkout(r) \/ Push(r) \/ Delete(r) \/ Board(r)

MirrorStep(c) ==
    ReadGit(c) \/ Put(c) \/ MirrorFails(c) \/ Project(c)

Next ==
    \/ \E r \in Requests : RequestStep(r)
    \/ \E c \in Commit : MirrorStep(c)
    \/ Propose \/ ClientPush \/ CreateFlat \/ Restart

Spec == Init /\ [][Next]_vars

(* ------------------------------ Properties ----------------------------- *)

Issue == [n : Nat \ {0}, epic : {None} \cup Slugs, from : {Owner} \cup Proposals,
          events : Seq(Events)]

(* Every variable has its type, an issue is in an epic of its own tree, and *)
(* a pod that has state.ttl, by which readers tell that there is a tracker, *)
(* has the document it is read with.                                        *)
TypeOK ==
    /\ Len(log) \in Commit
    /\ \A c \in DOMAIN log : log[c].src.issues \subseteq Issue
    /\ pod \in [epics : 0 .. Len(log), state : 0 .. Len(log)]
    /\ pod.state # 0 => pod.epics # 0
    /\ \A n \in DOMAIN rows :
          n \in Nat \ {0} /\ rows[n] \in {"flat", "tracker"}
    /\ inbox \in [Proposals -> {"unsent", "there", "gone"}]
    /\ Running \subseteq DOMAIN log
    /\ \A c \in Running :
          mirror[c] \in [at : {"state", "epics", "put epics", "put state", "read"},
                         state : 0 .. Len(log), epics : 0 .. Len(log)]
    /\ mishaps \in 0 .. MaxMishaps

(* Whatever two authors do at once, the branch stays a tracker the bridge   *)
(* can fold, no two issues have one number, and an issue or an epic that    *)
(* was pushed stays.  createMindIssue takes MAX + 1 of a clone, and         *)
(* createMindEpic a free slug of it, without a lock: only the rule that a   *)
(* push must be a fast-forward keeps them apart.                            *)
Named(c) == {<<i.n, i.from>> : i \in log[c].src.issues}
BranchOnlyGrows ==
    \A c \in DOMAIN log :
       /\ Foldable(log[c].src)
       /\ \A i, j \in log[c].src.issues : i.n = j.n => i = j
       /\ \A d \in 1 .. c : /\ Named(d) \subseteq Named(c)
                            /\ Range(log[d].src.epics) \subseteq Range(log[c].src.epics)

(* The board shows every issue once: readers fetch state.ttl and epics.ttl  *)
(* apart, while mirrors replace them one by one, so the two documents may   *)
(* be of different commits and an issue's epic unknown to the other.        *)
EveryIssueIsShown ==
    \A r \in Requests : request[r].op = "board" =>
       LET issues == log[request[r].base].trio.issues IN
       \A shown \in {issues, {i \in issues : i.open}} :
          \A i \in shown :
             Cardinality({g \in Shown(r, shown) : i \in g.issues}) = 1

(* A proposal leaves the inbox only when the owner has dismissed it or its  *)
(* issue is on the branch: a failed push, a lost race or a restart between  *)
(* the two calls of the accept route loses none.                            *)
NoProposalIsLost ==
    [][\A p \in Inbox \ Inbox' :
          \/ \E r \in Requests : request[r].op = "dismiss" /\ request[r].arg = p
          \/ \E i \in log[Len(log)].src.issues : i.from = p]_vars

(* The branch stays a tracker whose issues the board shows, each once. *)
TrackerKeepsItsIssues == BranchOnlyGrows /\ EveryIssueIsShown
=============================================================================
