------------------------------ MODULE Previews ------------------------------
(***************************************************************************)
(* The preview of one pull request: a build or a teardown that the bridge  *)
(* starts and does not wait for (src/src/lib/pages/preview.ts), the        *)
(* preview_* fields of the row (lib/registry/pulls.ts), the routes that    *)
(* start it (pulls/[number]/preview, merge, close, and the dispatcher      *)
(* after an agent has opened the request), the workflow's shell            *)
(* (lib/workflows/docker.ts), and the card in the browser that asks for a  *)
(* build and polls until it is over (pr-preview-card.tsx).                 *)
(*                                                                         *)
(* A commit is a number, newer ones are larger.  What a file of the        *)
(* preview's container holds is the commit it comes from, 0 when it is not *)
(* there.  Unlike the publication of a site, a preview's does not take the *)
(* publish lock, so nothing keeps two of them apart.                       *)
(***************************************************************************)
EXTENDS Integers, FiniteSetsExt

CONSTANTS
    Jobs,        \* slots for builds and teardowns that are under way
    PreviewFiles,       \* paths below the container
    MaxCommit,   \* bound: commits of the source branch
    FilesOf,     \* what each commit publishes
    OutcomeOf,   \* "static", or how the workflow of the commit ends
    Index,       \* the path of index.html
    MaxAsks,     \* bound: builds that are asked for, and reloads of the page
    MaxMishaps   \* bound: failures, restarts and requests that get lost

Commits == 1 .. MaxCommit
ASSUME CommitsAssumption ==
    /\ MaxCommit \in Nat \ {0} /\ {MaxAsks, MaxMishaps} \subseteq Nat
    /\ FilesOf \in [Commits -> SUBSET PreviewFiles]
    /\ OutcomeOf \in [Commits -> {"static", "passes", "fails"}]

VARIABLES
    tip,         \* the head of pull.sourceBranch
    status,      \* pull_requests.status
    row,         \* its preview_status, preview_sha and preview_url
    site,        \* last_publish_status of the repository's Pages
    container,   \* what is published below the preview's container
    job,         \* the builds and teardowns under way
    merge,       \* POST .../merge: the previewStatus it has read, or "none"
    card,        \* the panel in the browser
    asks,        \* used-up bound
    mishaps,     \* used-up bound: what sort of thing went wrong
    overlapped   \* history: two of them, or one and the end of the request, met

pull    == <<status, row>>
bounds  == <<asks, mishaps>>
previewVars    == <<tip, pull, site, container, job, merge, card, bounds, overlapped>>

Statuses == {"null", "building", "ready", "failed"}
Row == [status : Statuses, sha : Commits \cup {0}, url : {"null", "index", "folder"}]

(* was: the row as it was when the job was started.  live: the head then.   *)
(* tree: the commit that was checked out.  todo: files still to upload or,  *)
(* in the prune, to delete.  kept: files uploaded.                          *)
NoJob == [pc |-> "idle", kind |-> "build", was |-> [status |-> "null", sha |-> 0],
         live |-> 0, tree |-> 0, todo |-> {}, kept |-> {}]

(* shown: the commit of the row the panel shows.  asked: the head when its  *)
(* button was last pressed.  post: where the request of each press is, by   *)
(* the number of the press; a refusal whose text is being read is in        *)
(* "read".  poll: the answer under way.  slipped: history, a poll went out  *)
(* while a refusal was being read.                                          *)
PostStates == {"none", "sent", "done", "refused", "read"}
NoPost == [n \in 1 .. MaxAsks |-> "none"]
NoPoll == [status |-> "none", sha |-> 0]
Shown == [status |-> row.status, sha |-> IF row.status = "ready" THEN row.sha ELSE 0]
NewCard == [status |-> row.status, shown |-> Shown.sha, asked |-> 0, landed |-> TRUE,
            post |-> NoPost, poll |-> NoPoll, slipped |-> FALSE]

PreviewsTypeOK ==
    /\ tip \in Commits
    /\ status \in {"open", "merged", "closed"}
    /\ row \in Row
    /\ site \in {"published", "failed"}
    /\ container \in [PreviewFiles -> Commits \cup {0}]
    /\ job \in [Jobs -> [pc : {"idle", "head", "log", "checkout", "build", "auth", "put",
                                "prune"},
                         kind : {"build", "teardown"},
                         was : [status : Statuses, sha : Commits \cup {0}],
                         live : Commits \cup {0}, tree : Commits \cup {0},
                         todo : SUBSET PreviewFiles, kept : SUBSET PreviewFiles]]
    /\ \A j \in Jobs : job[j].pc \in {"idle", "head"} \/ job[j].kind = "teardown"
                           \/ job[j].live # 0
    /\ merge \in Statuses \cup {"none"}
    /\ card \in [status : Statuses, shown : Commits \cup {0}, asked : Commits \cup {0},
                 landed : BOOLEAN, slipped : BOOLEAN, post : [1 .. MaxAsks -> PostStates],
                 poll : [status : Statuses \cup {"none"}, sha : Commits \cup {0}]]
    /\ asks \in 0 .. MaxAsks
    /\ mishaps \subseteq {"request", "content", "row"} /\ Cardinality(mishaps) <= MaxMishaps
    /\ overlapped \in BOOLEAN

PreviewsInit ==
    /\ tip = 1 /\ status = "open"
    /\ row = [status |-> "null", sha |-> 0, url |-> "null"]
    /\ site = "published" /\ container = [f \in PreviewFiles |-> 0]
    /\ job = [j \in Jobs |-> NoJob] /\ merge = "none"
    /\ card = NewCard
    /\ asks = 0 /\ mishaps = {} /\ overlapped = FALSE

JobAt(j, pc)   == job[j].pc = pc
JobGoes(j, pc) == job' = [job EXCEPT ![j].pc = pc]
JobEnds(j)     == job' = [job EXCEPT ![j] = NoJob]
Quiet       == \A j \in Jobs : JobAt(j, "idle")
(* A request of the browser fails; content is not what was checked out, or  *)
(* not what the row says; a row is left behind by the one who works on it.  *)
Mishap(sort) ==
    /\ sort \notin mishaps /\ Cardinality(mishaps) < MaxMishaps
    /\ mishaps' = mishaps \cup {sort}
Ask         == asks < MaxAsks /\ asks' = asks + 1

Overlaps    == overlapped' = (overlapped \/ ~Quiet \/ status # "open" \/ merge # "none")
Row3(s, sha, url) == row' = [status |-> s, sha |-> sha, url |-> url]
SetStatus(s)      == row' = [row EXCEPT !.status = s]

(* A function that nobody waits for is called with the row as it is read. *)
Start(kind, pc) ==
    \E j \in Jobs :
        /\ j = CHOOSE i \in Jobs : JobAt(i, "idle")
        /\ JobAt(j, "idle")
        /\ job' = [job EXCEPT ![j] = [NoJob EXCEPT !.pc = pc, !.kind = kind,
                          !.was = [status |-> row.status, sha |-> row.sha]]]

(* deletePreview, when the row that the route has read was ready. *)
TearDown(read) ==
    /\ IF read = "ready" THEN Start("teardown", "auth") ELSE UNCHANGED job
    /\ overlapped' = (overlapped \/ ~Quiet)

-----------------------------------------------------------------------------
(* The browser.  build(): the button is disabled while the card says        *)
(* "building".                                                              *)
Press ==
    /\ card.status # "building"
    /\ Ask
    /\ card' = [card EXCEPT !.status = "building", !.landed = FALSE, !.post[asks'] = "sent",
                            !.asked = tip, !.shown = 0]
    /\ UNCHANGED <<tip, pull, site, container, job, merge, mishaps, overlapped>>

(* The answer has come: polls may go out.  The text of a refusal is read    *)
(* first, and the card says "failed" only then.                             *)
PostAnswered(n) ==
    /\ card.post[n] \in {"done", "refused"}
    /\ card' = [card EXCEPT !.landed = TRUE,
                            !.post[n] = IF @ = "refused" THEN "read" ELSE "none"]
    /\ UNCHANGED <<tip, pull, site, container, job, merge, bounds, overlapped>>

RefusalRead(n) ==
    /\ card.post[n] = "read"
    /\ card' = [card EXCEPT !.status = "failed", !.post[n] = "none", !.poll = NoPoll]
    /\ UNCHANGED <<tip, pull, site, container, job, merge, bounds, overlapped>>

Outstanding == {n \in 1 .. MaxAsks : card.post[n] \in {"sent", "done", "refused"}}

(* The catch: landed stays as it is. *)
LosePosts(lost) ==
    [card EXCEPT !.status = "failed", !.poll = NoPoll,
                 !.post = [n \in 1 .. MaxAsks |-> IF n \in lost THEN "none" ELSE @[n]]]

PostLost(n) ==
    /\ n \in Outstanding /\ Mishap("request")
    /\ card' = LosePosts({n})
    /\ UNCHANGED <<tip, pull, site, container, job, merge, asks, overlapped>>

(* tick and the GET it sends.  A poll that is overtaken by a change of the  *)
(* card's status is cancelled, so one at a time is enough.                  *)
Poll ==
    /\ card.status = "building" /\ card.landed /\ card.poll = NoPoll
    /\ card' = [card EXCEPT !.poll = Shown,
                   !.slipped = @ \/ \E n \in 1 .. MaxAsks : card.post[n] = "read"]
    /\ UNCHANGED <<tip, pull, site, container, job, merge, bounds, overlapped>>

(* A null status keeps the card polling. *)
PollAnswered ==
    /\ card.poll # NoPoll
    /\ card' = IF card.poll.status = "null" \/ card.status # "building"
               THEN [card EXCEPT !.poll = NoPoll]
               ELSE [card EXCEPT !.poll = NoPoll, !.status = card.poll.status,
                                 !.shown = card.poll.sha]
    /\ UNCHANGED <<tip, pull, site, container, job, merge, bounds, overlapped>>

(* The page is opened again, with the row as the server reads it. *)
Reload ==
    /\ Ask
    /\ card' = NewCard
    /\ UNCHANGED <<tip, pull, site, container, job, merge, mishaps, overlapped>>

-----------------------------------------------------------------------------
(* The routes. *)

(* POST .../preview marks the row before the answer goes out, and hands the *)
(* row it had read to the build.                                            *)
Post(n) ==
    /\ card.post[n] = "sent"
    /\ card' = [card EXCEPT !.post[n] = "done"]
    /\ SetStatus("building")
    /\ Start("build", "head")
    /\ Overlaps
    /\ UNCHANGED <<tip, status, site, container, merge, bounds>>

PostRefused(n) ==
    /\ card.post[n] = "sent" /\ Mishap("request")
    /\ card' = [card EXCEPT !.post[n] = "refused"]
    /\ UNCHANGED <<tip, pull, site, container, job, merge, asks, overlapped>>

(* buildPreviewForPull, when an agent's run has opened the request. *)
AgentAsks ==
    /\ Ask
    /\ Start("build", "head")
    /\ Overlaps
    /\ UNCHANGED <<tip, pull, site, container, merge, card, mishaps>>

(* A push to the source branch, which triggers nothing here. *)
Push ==
    /\ tip < MaxCommit
    /\ tip' = tip + 1
    /\ UNCHANGED <<pull, site, container, job, merge, card, bounds, overlapped>>

Close ==
    /\ status = "open" /\ status' = "closed"
    /\ TearDown(row.status)
    /\ UNCHANGED <<tip, row, site, container, merge, card, bounds>>

(* The merge reads the row, merges the branches in git, and marks the row   *)
(* merged if it is still open.                                              *)
BeginMerge ==
    /\ status = "open" /\ merge = "none"
    /\ merge' = row.status
    /\ overlapped' = (overlapped \/ ~Quiet)
    /\ UNCHANGED <<tip, pull, site, container, job, card, bounds>>

MergeConflicts ==
    /\ merge # "none" /\ merge' = "none"
    /\ UNCHANGED <<tip, pull, site, container, job, card, bounds, overlapped>>

MarkMerged ==
    /\ merge # "none" /\ merge' = "none"
    /\ IF status = "open" THEN status' = "merged" /\ TearDown(merge)
                          ELSE UNCHANGED <<status, job, overlapped>>
    /\ UNCHANGED <<tip, row, site, container, card, bounds>>

-----------------------------------------------------------------------------
(* buildAndPublishPreview.  The head is read; when it cannot be, the commit *)
(* the request was opened with stands in for it.                            *)
Guarded(j, live) ==
    /\ JobAt(j, "head")
    /\ IF job[j].was = [status |-> "ready", sha |-> live]
       THEN SetStatus("ready") /\ JobEnds(j)
       ELSE job' = [job EXCEPT ![j].pc = "log", ![j].live = live, ![j].was = NoJob.was] /\ UNCHANGED row

ReadHead(j) ==
    /\ Guarded(j, tip)
    /\ UNCHANGED <<tip, status, site, container, merge, card, bounds, overlapped>>

ReadNoHead(j) ==
    /\ Guarded(j, 1) /\ Mishap("content")
    /\ UNCHANGED <<tip, status, site, container, merge, card, asks, overlapped>>

OpenLog(j) ==
    /\ JobAt(j, "log") /\ JobGoes(j, "checkout")
    /\ SetStatus("building")
    /\ UNCHANGED <<tip, status, site, container, merge, card, bounds, overlapped>>

(* Outside the try: the row stays as it is. *)
OpenLogFails(j) ==
    /\ JobAt(j, "log") /\ JobEnds(j) /\ Mishap("row")
    /\ UNCHANGED <<tip, pull, site, container, merge, card, asks, overlapped>>

Checkout(j) ==
    /\ JobAt(j, "checkout")
    /\ job' = [job EXCEPT ![j].pc = IF OutcomeOf[tip] = "static" THEN "auth" ELSE "build",
                          ![j].tree = tip]
    /\ UNCHANGED <<tip, pull, site, container, merge, card, bounds, overlapped>>

(* The script stops at the first command that fails, and the timer kills    *)
(* what does not end: it ends in any case.                                  *)
Succeeds(c) == OutcomeOf[c] = "passes"

Build(j) ==
    /\ JobAt(j, "build")
    /\ IF Succeeds(job[j].tree)
       THEN JobGoes(j, "auth") /\ UNCHANGED row
       ELSE SetStatus("failed") /\ JobEnds(j)
    /\ UNCHANGED <<tip, status, site, container, merge, card, bounds, overlapped>>

(* publishDirectory: the owner's session, the files one by one, what is in  *)
(* the container, and what of it is not kept.  A teardown publishes an      *)
(* empty directory.                                                         *)
GetOwnerFetch(j) ==
    /\ JobAt(j, "auth")
    /\ job' = [job EXCEPT ![j].pc = "put",
                   ![j].todo = IF job[j].kind = "build" THEN FilesOf[job[j].tree] ELSE {}]
    /\ UNCHANGED <<tip, pull, site, container, merge, card, bounds, overlapped>>

Put(j, f) ==
    /\ JobAt(j, "put") /\ f \in job[j].todo
    /\ container' = [container EXCEPT ![f] = job[j].tree]
    /\ job' = [job EXCEPT ![j].todo = @ \ {f}, ![j].kept = @ \cup {f}]
    /\ UNCHANGED <<tip, pull, site, merge, card, bounds, overlapped>>

(* The pod refuses the file; the prune then takes an older one away. *)
PutRefused(j, f) ==
    /\ JobAt(j, "put") /\ f \in job[j].todo /\ Mishap("content")
    /\ job' = [job EXCEPT ![j].todo = @ \ {f}]
    /\ UNCHANGED <<tip, pull, site, container, merge, card, asks, overlapped>>

List(j) ==
    /\ JobAt(j, "put") /\ job[j].todo = {}
    /\ job' = [job EXCEPT ![j].pc = "prune", ![j].kept = {},
                   ![j].todo = {f \in PreviewFiles \ job[j].kept : container[f] # 0}]
    /\ UNCHANGED <<tip, pull, site, container, merge, card, bounds, overlapped>>

Prune(j, f) ==
    /\ JobAt(j, "prune") /\ f \in job[j].todo
    /\ container' = [container EXCEPT ![f] = 0]
    /\ job' = [job EXCEPT ![j].todo = @ \ {f}]
    /\ UNCHANGED <<tip, pull, site, merge, card, bounds, overlapped>>

PruneRefused(j, f) ==
    /\ JobAt(j, "prune") /\ f \in job[j].todo /\ Mishap("content")
    /\ job' = [job EXCEPT ![j].todo = @ \ {f}]
    /\ UNCHANGED <<tip, pull, site, container, merge, card, asks, overlapped>>

Published(j, kind) == JobAt(j, "prune") /\ job[j].todo = {} /\ job[j].kind = kind

LinkTo(c) == IF Index \in FilesOf[c] THEN "index" ELSE "folder"

(* Slip: the head is read again for the row. *)
MarkHead(j) ==
    /\ Published(j, "build") /\ JobEnds(j)
    /\ Row3("ready", tip, LinkTo(job[j].tree))
    /\ UNCHANGED <<tip, status, site, container, merge, card, bounds, overlapped>>

(* Ready, at the head as it was before the checkout. *)
MarkReady(j) ==
    /\ Published(j, "build") /\ JobEnds(j)
    /\ Row3("ready", job[j].live, LinkTo(job[j].tree))
    /\ UNCHANGED <<tip, status, site, container, merge, card, bounds, overlapped>>

MarkGone(j) ==
    /\ Published(j, "teardown") /\ JobEnds(j)
    /\ Row3("null", 0, "null")
    /\ UNCHANGED <<tip, status, site, container, merge, card, bounds, overlapped>>

(* Checkout, workflow, session, a PUT or the listing throws: the build ends *)
(* as failed, the teardown as if nothing had happened.  Without the owner's *)
(* session, publishDirectory also marks the repository's own site failed.   *)
JobThrows(j) ==
    /\ job[j].pc \in {"checkout", "build", "auth", "put"} /\ JobEnds(j) /\ Mishap("content")
    /\ IF job[j].kind = "build" THEN SetStatus("failed") ELSE Row3("null", 0, "null")
    /\ IF JobAt(j, "auth") THEN site' \in {site, "failed"} ELSE UNCHANGED site
    /\ UNCHANGED <<tip, status, container, merge, card, asks, overlapped>>

(* Whatever runs, and the requests that are answered, are gone; nothing     *)
(* looks at the row again.                                                  *)
Restart ==
    /\ Mishap("row")
    /\ job' = [j \in Jobs |-> NoJob] /\ merge' = "none"
    /\ card' = IF Outstanding = {} THEN [card EXCEPT !.poll = NoPoll]
                                  ELSE LosePosts(Outstanding)
    /\ UNCHANGED <<tip, pull, site, container, asks, overlapped>>

JobStep(j) ==
    \/ ReadHead(j) \/ OpenLog(j) \/ Checkout(j) \/ Build(j) \/ GetOwnerFetch(j)
    \/ \E f \in PreviewFiles : Put(j, f) \/ Prune(j, f)
    \/ List(j) \/ MarkReady(j) \/ MarkGone(j)

Failure(j) ==
    \/ ReadNoHead(j) \/ OpenLogFails(j) \/ JobThrows(j)
    \/ \E f \in PreviewFiles : PutRefused(j, f) \/ PruneRefused(j, f)

PreviewsNext ==
    \/ Press \/ Poll \/ PollAnswered \/ Reload \/ AgentAsks \/ Push
    \/ \E n \in 1 .. MaxAsks :
           PostAnswered(n) \/ RefusalRead(n) \/ PostLost(n) \/ Post(n) \/ PostRefused(n)
    \/ Close \/ BeginMerge \/ MergeConflicts \/ MarkMerged
    \/ \E j \in Jobs : JobStep(j) \/ Failure(j)
    \/ Restart

PreviewsSpec == PreviewsInit /\ [][PreviewsNext]_previewVars

-----------------------------------------------------------------------------
Undisturbed == ~overlapped /\ mishaps \subseteq {"request"}
Finished == Quiet /\ Undisturbed

(* A preview that says it is ready at a commit shows one whole commit, that *)
(* one or a newer one, and its link leads to a page: the SHA guard may rely *)
(* on the row.  Builds that meet, and files that are refused, are not       *)
(* guarded against.                                                         *)
ReadyIsServed ==
    Finished /\ row.status = "ready" =>
        \E c \in row.sha .. tip :
            /\ container = [f \in PreviewFiles |-> IF f \in FilesOf[c] THEN c ELSE 0]
            /\ row.url = LinkTo(c)

(* Once the request is merged or closed its preview is taken down, files    *)
(* and row, unless the last build had failed or never told how it ended:    *)
(* the routes look for a row that is ready.                                 *)
PreviewIsGone ==
    Finished /\ status # "open" /\ row.status \in {"ready", "null"} =>
        row.status = "null" /\ \A f \in PreviewFiles : container[f] = 0

(* After its button was pressed the card calls a preview ready only for the *)
(* branch as it was then, or newer: it never takes the row of before for    *)
(* the answer.  The exception is a request that was refused: postLanded is  *)
(* set before the refusal is read (pr-preview-card.tsx:92, :94), and a poll *)
(* that goes out in between is answered with the row of before.             *)
CardIsCurrent ==
    card.status = "ready" /\ Undisturbed /\ ~card.slipped => card.shown >= card.asked

(* The row, the container and the card agree about the preview. *)
PreviewsAgree == ReadyIsServed /\ PreviewIsGone /\ CardIsCurrent
=============================================================================
