# A TLA+ model of codespaces

codespaces is a Git host whose users own their data: repositories live on a *bridge* (a Next.js
server with SQLite and bare git repositories), while sites, issues, packages and pull requests are
mirrored to the owner's Solid pod. This directory holds TLA+ models of the parts of the bridge, and
of the pages in a browser that talk to it, whose correctness depends on order: what happens when
promise chains, requests, restarts and a slow pod server interleave. TLC checks each model on a
small instance and TLAPS proves the theorems listed below for every instance.

All paths below are relative to the root of the repository; a path without `src/src/` at its
beginning is below `src/src/`. `PROJECT.json` ties every definition to the lines it models (`map`)
and every property to the hazard it is about (`hazards`).

## How to read the models

- JavaScript runs a function without interruption from one `await` to the next. **One action is what
  runs between two awaits**; a call that waits is a record with a `pc` (or `at`) that names the await.
  SQLite is synchronous (better-sqlite3), so a statement or a transaction is never split.
- A **fault** is a call to git, the pod or the issuer that fails; a **crash** or restart is one of the
  bridge, which forgets every variable that is not a row, a git ref, a file or a resource of the pod.
  Both are bounded (`MaxFaults`, `MaxCrashes`, `MaxMishaps`, `MaxHitches`, `MaxBreaks`), and the bound
  is a guard of the action. Every module that may fail lets the failure come at any step.
- A **history variable** (`touched`, `acked`, `torn`, `spoiled`, `overlapped`, ...) is not in the code.
  It records that something happened, so that a property can except a case the code does not guard
  against, and can say which.
- Some definitions carry a comment that begins "Slip:" (in PublishLock, the section "Ways the code
  could go wrong"). They are not part of `Next`. Each is the neighbouring action with a plausible bug
  in it; substituting it must break the property that is about it.
- A module `X` is instantiated for TLC by an `MC` module and one or more `.cfg`; `X_proofs` has its
  theorems. `Credentials_proofs` is about Sessions and GitHttp, `Tracker_proofs` about `MCTracker`;
  `Browser_proofs` and `Publishing_proofs` are about the models of `MCBrowser` and
  `MCPublishing`, one after the other and side by side.
- Three MC modules **check several models side by side**: `MCPublishing` (Upload, Packages, Previews),
  `MCTracker` (Tracker, TrackerFiles) and `MCBrowser` (Drafts, Issues, AgentLog, Providers,
  Accounts, Browse).
  A variable `part`, chosen once in the initial state, says which of them is at work; the others rest
  in their initial states. These models do not interact: such a run is what separate runs would be, and
  explores exactly the disjoint union of their state graphs. Models that do interact are composed for
  real: Pages runs the actions of PublishLock and Upload inside its own.

## Inventory

| component | state | operations | hard part | what makes it correct | model |
|---|---|---|---|---|---|
| publish lock (`lib/pages/publish-lock.ts`) | `locks`: per repo a running task and one pending slot | `withPublishLock` | "latest wins", a drain loop run by one of the callers | one task per repo; nobody left hanging; only an older call loses its turn | PublishLock, SerialTasks |
| publisher (`lib/pages/publisher.ts`) | the container on the pod, `pages_configs.last_published_*` | `publishPages`, `publishDirectory`, `pruneStale` | refused PUTs, a crash half-way, what is deleted | the container is the tree; nothing of the source is pruned | Upload, Pages |
| workflow runner (`lib/workflows`) | `workflow_runs`, a temp dir | `runWorkflow`, `reapStuckRuns`, "run now" | a run must end on every path | a running row has somebody who will end it; a verdict is final | Pages, Previews |
| reconciler (`lib/pages/reconciler.ts`) | `inFlight` | `reconcilePages` | lost callbacks, drift | drift is repaired | Pages |
| post-receive callback (`app/api/git/post-receive`) | none | two fire-and-forget chains per push | nobody awaits them, the callback may be lost | see reconciler and tracker | Pages, Tracker |
| OIDC sessions, identities (`lib/solid/oidc-server.ts`) | `sessionCache`, `inFlightRefresh`, identities and KV rows | `loadAuthedFetchForWebId`, connect, disconnect | refresh tokens that can be spent once | spent once; nobody re-connects without a reason | Sessions |
| sign-up, sign-in, browser sessions (`app/api/signup`, `app/api/auth`, `lib/auth`) | accounts of the pod server, `users`, cookies | sign-up, password login, popup, sign-out | several tabs, one cookie jar; accounts made in steps | a session is proved; rows have pods; flows do not disturb each other | Accounts |
| agents (`lib/agents`) | `agent_runs`, a branch | dispatch, gate, clone, work, push, open a pull request, comment, debit | runs on one branch, failures between push and row | ok means done; paid once and for work; pushes only add | Pulls, Issues |
| agent log viewer (`agent-run-card.tsx`) | the tail shown by a card | poll | polls overlap | no gap; the verdict last | AgentLog |
| pull requests (`lib/registry/pulls.ts`, `lib/git/merge.ts`) | `pull_requests`, refs | upsert, open, merge, close | the branch moves while a merge runs | one open request per branch; a row names what git has; a verdict is final | Pulls |
| ledger (`lib/ledger`) | the balance at the ledger | gate, debit | read before, debited after, lost answers | paid once, for work that is there | Pulls, Providers |
| AI providers (`lib/ai-providers`, `app/profile/ai-providers`) | keys, a preference, a form | set, delete, prefer, resolve; a script on the side | what is resolved is stale when the run ends | who pays is whose key it was; a preference has its key | Providers |
| previews (`lib/pages/preview.ts`) | `preview_*` of the row, a container, a card | build, tear down, poll | no lock; builds and teardowns overlap | a ready preview is there; a closed request has none | Previews |
| packages and OCI (`app/v2`, `app/api/packages`, `lib/packages`) | upload sessions in memory, blobs on the pod, `packages` | start, append, finish, manifest; npm and file publish; downloads | requests of one session overlap; blob and row are apart | what is acknowledged is stored, what is indexed is there, what is served is what was named | Packages |
| repositories, members and ACLs (`app/api/repos`, `lib/solid/members.ts`) | row, directory, roster, ACLs, advertised visibility | create, save, delete, add, remove | three stores, no transaction; read-modify-write | a row can be pushed to; who was answered has what was answered | Repos |
| tracker (`lib/tracker`, `lib/solid/tracker-pod.ts`) | `.mind/` in git, documents on the pod, projected rows | author, mirror, project, read the board | two authors, two mirrors | numbers are used once; a board shows every issue once | Tracker, TrackerFiles |
| inbox (`lib/solid/inbox.ts`) | notifications on the pod | propose, accept, dismiss | an accept is a push and a delete | no proposal is lost | Tracker |
| issues and comments (`app/api/.../issues`, `lib/solid/issues.ts`) | rows, copies on the pod | comment, edit, close | PUTs nobody awaits | the pod agrees in the end; the agent hears everything | Issues |
| drafts and relay (`collaborative-draft.tsx`, `src/relay/server.ts`) | rooms, connections, documents, IndexedDB | join, type, time out, close | close handlers that run twice, answers before the store was read | peers of one name share a room; what was stored stays | Drafts |
| git over HTTP (`app/api/git`, `lib/git`, `lib/registry/tokens.ts`) | push tokens, throttle, size cache, children | serve, mint, revoke | children that hang; checks before waits | guesses are bounded; children are reaped | GitHttp |
| quotas | counts | checks before inserts | checks apart from inserts | the limit holds | GitHttp, Packages (partly) |
| git reading (`lib/git/objects.ts`, `diff.ts`, the pages of code and of a pull request) | none of its own | open a page | several git commands on branches that move | a page at a commit is of that commit; a README is found | Browse |
| activity, health, metrics, log, environment, demo seeds, the rest of the UI | none of their own | reads | none that needs a model | | not modelled |

Fire-and-forget promises are what makes this program hard: a push starts chains that nobody awaits,
chains of one repo meet only in the publish lock, chains of one owner only in the session cache, a PUT
to the pod has nobody who repeats it, and the rows they write in SQLite outlive them.

## What is modelled

### PublishLock, SerialTasks
`withPublishLock`. A caller is one call; the entry of the Map is `initial` (who opened it), `current`
and `pending`. `Acquire` and `Enqueue` are the two branches at entry; `DrainNext` and `Release` are
one turn of the drain loop; `settled` is the queue of continuations, because the order in which
callers learn of their result matters to Pages. `SerialTasks` is the abstract promise (tasks one at a
time, one waiter, the newest), and `ImplementsSerialTasks` is the refinement.

Run `publish_lock`: two repos, three callers for one (a task, a waiter, and one that takes its place)
and two for the other; callers call again without bound. Fairness: the steps of a task that has
started and of the continuations it queues; a caller need never call. The task is assumed to end
(docker and fetch have time-outs), which the code does not enforce itself.

### Upload
`publishDirectory` from the ensure of the container to the last DELETE: `EnsureContainer`, `PutFile`
once per file, `ListContainer`, `DeleteFile` per stale file, `End`. `pod` remembers which tree each
file is from. `kept` is the local set of names that were PUT. A refused PUT or DELETE is only counted,
an exception skips the rest. `Escaped` is the set of names whose URL spelling differs from that on the
disk: what is compared with `kept` is the URL spelling, so such a file matches nothing.

Part of run `publishing`: two calls taking turns on one container, a tree that drops a file, adds one
and shares the others, one escaped name, two failures. The file names of the model are all in one container. The publisher
descends into sub-containers when it prunes (`pruneStale` calls itself), with one set of kept names for
the whole tree; that the model has one level is its abstraction. Run `upload_escaped` is the finding
below.

### Pages
A push, its callback (which may be lost), the workflow runner or the legacy publish, the reconciler's
pass, edits of the configuration (`SetConfig`), "run now" (`RunNow`), crashes. Each chain composes the
actions of PublishLock (`Lock!`) and Upload (`Up!`) with its own steps: a chain asks for the lock, and
the caller whose task runs performs Upload's steps. Commits are numbered, `row.sha` is
`last_published_sha`.

- `pages`: two callbacks and the reconciler, two commits (the first without a workflow, the second
  with one), a failure and a crash. With three chains one uploads, one waits and one replaces the
  waiter. `UploadsTakeTurns` (in `ChainsKeepApart`) says that each step is a step of Upload's `Next`, in
  which an upload begins only when no other is at work: it is what makes the proofs about Upload
  applicable here.
- `pages_converge`: one callback, the reconciler, an edit or a "run now", a failure, a crash, workflows
  that publish and one that throws (`publish: .`). `DriftIsRepaired` under `FairSpec`: chains that can
  step do, and the reconciler is started again and again (the interval timer of
  `lib/pages/reconciler.ts`). `RunningRunsAreOwned` is checked here, where workflows of each kind are:
  its exception is `stranded`, the history of rows that `publish: .` has left running since the last
  start, a disagreement with the code's own comment that is listed below.

### Pulls
Runs of the drivers, the owner's requests and pushes, `mergeBranches`, rows and the ledger. A branch
is the set of its commits; a push is a fast-forward when it only adds, and git refuses any other. A
run goes gate, clone, work, push (or comment), upsert, charge, finish; each step may fail. A merge is
clone, fetch, push, mark: the clone has the target and the fetch the source, at two moments.

Run `pulls`: two runs on one branch, one request (open or merge; a close is a single step), one commit
of the owner, a repo with or without a first commit, a balance for one run, a failure, a crash.
A forced push or deletion of a branch by the owner is left out (PushesOnlyAdd is about the program's
own pushes), and so is a second merge request at once.

### Issues
One issue and its conversation: rows, the runs that comments start, and the copies on the pod. What
git does in a run and its payment are in Pulls; here a run reads the conversation (`ReadNotes`), works
(`WorkEnds`), uploads screenshots and answers. `puts` are the PUTs nobody awaits; `spoiled` marks a
document one of whose PUTs failed or was started while an older one was under way, since two PUTs of
one document may arrive the other way round and a failed one is not repeated. A comment sets
`updated_at` of the issue, which its document carries as `dcterms:modified`, and nobody PUTs the issue
for it: `rev` counts the times it was set, `edited` is the last that was a change of the issue itself,
and `PodFollows` asks the issue's copy for that one: what comments do to the date is not awaited.

### AgentLog
The card of a run and its overlapping polls. A poll reads the row before the file
(`ReadRow`, `Stat`), so that a verdict comes with the whole log; an answer is applied in whatever order
it comes. Overlapping polls show lines twice: `LogHasNoGap` claims that none is skipped, and that
none is repeated while polls do not overlap.

### Browse
The pages of the code and of a pull request, against pushes, deletions and a merge. Every command of
git looks its branch up again (`RevParse`), so a page of a branch may mix what the branch was and is. A
page at a commit may not, nor that of a merged request, which is compared by its merge and not by its
branches (`RefsOfPull`): `PinnedPagesAreWhole`. Files are told apart by the names of a README only, and
which histories have a common commit is left open.

### Sessions
`loadAuthedFetchForWebId`, `startAuthFlow`, `completeAuthFlow`, `saveIdentity`, `deleteIdentity`.
Every map is keyed by the WebID, so one WebID is enough; a session is one connect flow. A refresh
token is a number: the issuer takes the last one it gave out, once. A call is answered from the cache,
joins the refresh in `inFlightRefresh`, or begins one: read the stored token, spend it, store the
next, settle. `Settle` and `RefuseAll` answer all who wait in one action: the `finally` of the first
caller runs in the same turn.

Run `sessions`: two sessions, three calls, two lapses of the access token, one failure, one restart;
three calls are a refresh, one that waits for it and one that comes after it. Fairness: a running
refresh goes on (the storage and the issuer answer or the request fails).

### Accounts
Tabs of one browser that share a cookie jar. A sign-up makes an account, its password and its pod at
the pod server in three calls and inserts a row afterwards; a password login walks the OIDC prompts on
the owner's behalf; a popup is matched with its flow by a cookie, which the next popup overwrites. The
session cookie and its csrf twin are set by every answer, in the order in which answers arrive.

### Packages
The OCI endpoints, npm publish and file publish, and their downloads, against the content-addressed
store and the index. A blob is the sequence of its chunks and its own digest, so "the digest matches"
is equality. The sessions of chunked uploads are in memory and are lost by `Crash`. A request is split
at the body's arrival, the owner's fetch, the HEAD, the container, the PUT and the row. `Tamper` is
another application of the owner that writes into the pod; what is served is checked against the
digest.

### Previews
One pull request, the builds and teardowns which the routes and the dispatcher start without awaiting
them, and the card that posts and polls. Workflow outcomes are a constant per commit; publishing and
emptying the container go file by file. Nothing keeps two jobs apart (they do not take the publish
lock), so the two properties about the container are about histories in which none overlapped;
`overlapped` is the exception's name. The card sets `postLanded` when the answer to its POST is there,
and reads the text of a refusal after another await: a refused POST has two steps, `PostAnswered` and
`RefusalRead`, and a poll may go out between them, with the row of before as its answer. `CardIsCurrent`
excepts the histories in which one did (`slipped`); it needs no exception for requests that got lost.

### Repos
One name: the row, the bare repository with its hook, and the pod's index, inbox, roster and ACLs.
A create, delete or save, an add or remove of a member, and the opening of a pull request (which
writes the ACL of `pulls/`) are each the sequence of writes in the source. `alone` is the history of
a request that no other overlapped; `AckedIsDone` says that whatever *earlier* requests left half done
is completed by it.

### Tracker, TrackerFiles
Tracker has the branch as a log of commits (tree and built documents), the two documents on the pod, the
projected rows, the inbox, requests and mirrors. A request that authors clones, writes and pushes; git
refuses a push that is no fast-forward. A mirror reads two documents of its own commit and PUTs them one
by one, and then projects. TrackerFiles has what Tracker abstracts: the fold of append-only event logs
into `epics.ttl`, `state.ttl` and `tracker.ttl`, and the parser that reads the board back. Its files
grow in any order, because merged clones put events between those that are there; the reference
`LogSays` says without a loop what a log means, and `BoardIsTheFiles` compares.

The configuration is any that `loadConfig` takes. Ids become classes (`ClassName`), of which several
may be one; labels need not be the ids; the namespace may end as it likes. `DetectMcNamespace` is the
sniffing of `parse.ts`, which sees namespaces with a `#` only. So what can be read back depends on the
configuration, and the property says on what: of states and categories `StateIsTold` and
`CategoryIsTold`, of numbers, epics and links `NamespaceIsTold`. Run `tracker` has a state and a
category that share a class, a category whose label is not its id, and a namespace that is told.
Tracker supposes one that is: without it the board has no number to add one to.

### Drafts
Two browsers, each with a Yjs document and its IndexedDB copy, and the relay's rooms. Yjs documents are
joining sets (items inserted, items deleted, and the last write of the kind), so an update under way is
left out: it may arrive later or with the next handshake. The relay's `rooms` is `room`: the connection
the room was made for, since a room that was dropped and one made again under its name differ.
`CloseEvent`, `PingTimeout` and `Oust` (a frame that cannot be read, or an answer to a ping that comes
late) all run `closeConn`.

`closeConn` leaves the `message` handler attached, and the socket delivers what is on its way until the
closing handshake is done. A connection that is lost or closing therefore keeps what it still carries
(`cursor`, `edits`), and `LateCursor` and `LateEdit` apply it to the room it was made for, dropped or
not. `late` is the history of presences that came so. The next announcement of the peer by a connection
of his own, or their expiry (`Expire`), ends them. Run `browser` has a connection for each page and a
third in the place of one that breaks; a page turns, which the relay does not see, or a connection
breaks, but not both (`TurnsOrBreaks` of MCBrowser).

### Providers
The vault, the preference and the form of the page, a script that writes keys and preference behind the
bridge's back in two steps (`ScriptKey`, `ScriptPref`), and a run that resolves them at its start and is
charged at its end. `torn` excepts the case that the code answers by falling back. A page that is loaded
anew (`MountTab`) starts from the saved preference and shows the list of models, also when the saved
one was typed in; `router.refresh` (`RenderTab`) keeps the form. The ledger may refuse a debit or be out
of reach, and the run then goes uncharged (`Debit`): `billed` is what the code asks for, `paid` what the
ledger took.

### GitHttp
A request from its credentials to the death of its child: throttle, token, quota, `git http-backend`,
header parsing, the body's stream, time-out, SIGTERM and SIGKILL, a client who goes: before the headers
(the abort signal, part of `Timeout`) or while it reads (`Cancel` of the body). Time is in the actions
that let a timer fire (`Timeout`, `Escalate`, `Refill`, `Expire`).

Of a body that was cancelled, `enqueue` and `close` throw. In the listener of `data` that loses the
chunk (`Output`); in the listener of `end` it keeps Node from destroying the pipe, and the child's
`close` event, which clears the time-out and takes the child from `liveChildren`, never comes
(`EndOfOutput`: `stdout` is then `threw`). The exceptions themselves end nobody: Next logs what is not
caught.

Fairness: timers fire and Node delivers `end`, and `close` of a child that is gone and whose pipe was
destroyed (`Timeout`, `Escalate`, `EndOfOutput`, `Close`); `Close` is not enabled after an exception, so
none is assumed of it then. There is no fairness of the child, which may hang, nor of the client, who
may never read.

## Bounds, and why they are enough

| run | instance | why |
|---|---|---|
| `publish_lock` | 2 repos, 3 + 2 callers | a task, a waiter and one that replaces it; a second repo to see that they are independent |
| `pages` | 2 hooks and the reconciler, 2 commits, 1 fault, 1 crash | as above, with older and newer commits; symmetry in hooks and files |
| `pages_converge` | 1 hook, 2 commits, 1 edit or run, 1 fault, 1 crash | each way of drifting once; no symmetry, since a liveness property is checked |
| `publishing` | 2 uploads, 4 files, 2 faults; 2 requests, 1 upload session, blobs of at most 2 chunks, 1 failure; 2 jobs, 2 commits, 2 asks, 1 mishap | two trees that drop, add and share; a body that is too long; an artifact that breaks the quota; a build and a teardown at once |
| `browser` | 2 browsers, 3 connections, 1 word, a turn of a page or a break; 2 runs, 2 comments; 3 polls, 3 lines; 2 vendors, 1 run, 3 changes, keys of the bridge for all, for a pinned one or for none that it may use; 2 tabs, 2 e-mails, 2 handles, 3 tries; 2 pushes, 1 merge, 2 names of a README; 1 mishap each | a dead connection beside its replacement and a peer, with frames that are late in each; a comment during a run; polls that overtake twice; the smallest case in which two people want one handle; a branch that moves, goes or is merged between two commands of a page |
| `pulls` | 2 runs, 1 request, 1 push, 1 fault, 1 crash | two writers of one branch and a merge between them |
| `sessions` | 2 sessions, 3 calls, 2 lapses, 1 fault, 1 crash | a refresh, one that waits, one that comes later, a re-connect |
| `tracker` | 2 requests, 1 proposal, 3 commits, 2 mirrors, 1 flat issue, 1 mishap; 3 states, 3 categories, 2 issues, 3 times, 2 epics, 4 files | two authors on one base; a mirror overtaking another; logs in which a claim, a move and a release come in every order; a state and a category of one class |
| `repos` | 2 requests, 2 members, 2 roles, 2 creations, 3 edits, 1 mishap | one who left and one who stayed; a name that is taken twice |
| `git_http` | 2 requests at a time, 3 served, 2 tokens of which 1 at a time, a bucket of 1, 1 chunk | a request past an empty bucket beside another; a child beside another |

A bound on calls, commits or changes makes the modelled system stop, so deadlock is checked only in
`publish_lock`, whose callers call for ever; the other configurations say `CHECK_DEADLOCK FALSE`.
Where a system may hang for ever, a liveness property says that it does not. The runs that expect a
violation have an instance of their own: `upload_escaped` is `publishing` without failures, and
`drafts_one_room` the relay with three connections and one break.

## What the runs show

| run | properties | result |
|---|---|---|
| `publish_lock` | TypeOK, OneTaskPerRepo, CallersSettleInOrder, WaiterIsAnswered, ImplementsSerialTasks | hold |
| `pages` | TypeOK, ChainsKeepApart | hold |
| `pages_converge` | RunningRunsAreOwned, DriftIsRepaired | hold |
| `publishing` | PublishingTypeOK, UploadedStays, ExactPublish, RegistryKeepsItsWord, PreviewsAgree | hold |
| `upload_escaped` | SourceSurvives | violated |
| `browser` | BrowserTypeOK, RelayIsClean, StoredOnlyGrows, ConversationIsKept, PodKeepsUp, PagesTellWhatIs, KeysAreRespected, AccountsDoNotMix | hold |
| `drafts_one_room` | OneRoom | violated |
| `pulls` | TypeOK, PullsAgreeWithGit, WorkIsThere, HistoryStays | hold |
| `sessions` | TypeOK, SpentOnce, AsksOnlyWhenLost, WaitersAreAnswered | hold |
| `tracker` | TrackerTypeOK, TrackerKeepsItsIssues, BoardIsTheFiles, NoProposalIsLost | hold |
| `repos` | TypeOK, AckedIsDone, RowHasDir | hold |
| `git_http` | GitTypeOK, GuessesAreBounded, ChildrenAreReaped | hold |

Several properties are conjunctions of named parts, each stated and commented in its module:
`RegistryKeepsItsWord` of AckedIsInBlob, IndexedIsStored and PulledIsNamed, `PreviewsAgree` of
ReadyIsServed, PreviewIsGone and CardIsCurrent, `PagesTellWhatIs` of LogHasNoGap, VerdictComesLast,
PinnedPagesAreWhole and ReadmeIsFound, `PullsAgreeWithGit` of OneOpenPull, PullsAreInGit and
MergeHasTheTip, and so on.

Findings, each with a trace of its run:

- **A file whose name a URL escapes is uploaded and then pruned** (`upload_escaped`,
  `lib/pages/publisher.ts:253`): what was PUT is remembered under its raw name, what is listed is
  percent-encoded.
- **The relay drops a room that is in use** (`drafts_one_room`, `relay/server.ts:240`): `closeConn`
  runs at the ping time-out and again at the late close event. When in between the old room was dropped
  and a page has opened a new one of that name, the second call removes the new room from the map, and
  the next page gets a third.

Disagreements between the code and what it says that were met while modelling. They can be seen in the
models, by the actions named, and no run is spent on them. Where a property is about such a case, it
names the case and excepts it:

- `publish: .` is accepted by `parseWorkflow`, and `resolvePublishDir` throws for it outside the try that
  finishes the run, so the row stays `running` until the next start, although from `createRun` on any
  failure is said to surface (`lib/workflows/runner.ts:116`, `:64`; `PublishDirEscapes` of Pages,
  `stranded` in RunningRunsAreOwned).
- `closeConn` removes the peer's presence so that "the peer's cursor vanishes immediately", but a frame
  that is handled after it puts the presence back, and the close event has nothing left to remove. It
  goes when the peer announces himself anew and that connection closes, when it expires, or with the
  room (`relay/server.ts:175`, `:191`; `LateCursor` of Drafts, `late` in NoGhosts).
- The sniffing that was made so that other trackers keep their numbers sees predicates with a `#` only,
  and `loadConfig` accepts a namespace that ends in `/`: number, epic and links are then missing from
  the board (`lib/tracker/parse.ts:82`, `:74`; `DetectMcNamespace` of TrackerFiles, `NamespaceIsTold` in
  BoardIsTheFiles).
- `close` of a body that was cancelled throws in the listener of `end`, the child's `close` event does
  not come, and neither its time-out nor `liveChildren` is tidied up (`lib/git/http-cgi.ts:189`, `:205`;
  `EndOfOutput` of GitHttp, `stdout` in ChildrenAreReaped).
- `last_published_sha` is read before the clone and the lock, so a chain with an older commit can
  upload last while another records the newer one; the reconciler then takes the repo for in-sync
  (`lib/pages/reconciler.ts:23`; `ReadHead`, `Checkout` of Pages).
- A call that has read a new identity may be answered with the refresh of the old session
  (`lib/solid/oidc-server.ts:205`, `:211`; `Join` of Sessions).
- The projection takes over the row of a flat issue that has the number of a tracker issue
  (`lib/registry/issue-projection.ts:17`, `:37`; `Projected` of Tracker).
- An existing roster is clobbered when a member is added between a HEAD and the PUT of the empty roster
  (`lib/solid/members.ts:225`, `:231`; `EnsureMembers`, `PutEmptyRoster` of Repos).
- A child that fails after its headers gives an answer that is truncated without a sign
  (`lib/git/http-cgi.ts:43`, `:189`; `EndOfOutput`, `Close` of GitHttp).
- The size of a repository is cached for a minute, so several pushes pass the quota on one measurement
  (`lib/git/backend.ts:164`; `Sized`, `Expire` of GitHttp).
- Leaving the markdown tab of a draft replaces what peers typed meanwhile, while the page says that it
  merges (`collaborative-draft.tsx:215`, `:486`; `ToRich` of Drafts).
- A comment whose answer was lost is kept by the form and sent again: the conversation then has it
  twice (`AnswerIsLost` of Issues).
- The pod's copy of an issue keeps the `dcterms:modified` of its last edit when comments are made
  (`lib/registry/issues.ts:299`, `lib/solid/issues.ts:77`; `AddNote` of Issues).
- The preview card lets polls through before it has read that its request was refused
  (`pr-preview-card.tsx:92`, `:94`; `PostAnswered`, `Poll` of Previews).
- A preference with a model that was typed in comes back after a reload as a choice from a list that
  does not have it (`app/profile/ai-providers/manage.tsx:88`; `MountTab` of Providers).
- A run whose debit is refused has been worked and is not paid for (`lib/ledger/client.ts:68`; `Debit` of
  Providers).
- A state and a category of one class cannot be told apart on the board, and `loadConfig` lets that pass
  (`lib/tracker/build.ts:116`, `lib/tracker/parse.ts:200`; `StateIsTold`, `CategoryIsTold` of
  TrackerFiles).

## What is proved

The theorems hold for all values of the constants that satisfy the modules' named assumptions (sets
are disjoint where they are different things, bounds are naturals, the body of a request is a sequence
of chunks). No theorem uses a bound's value.

- `PublishLock_proofs`. `LockInv` is TypeOK, `SlotsOfRepo` (a slot of a repo holds callers of that
  repo), `EntryMatchesCallers` and `SettledAreQueued`. Mutual exclusion is not inductive by itself: it
  needs that a running caller is the one in `current`, so that two running callers of one repo are
  equal. `LockTypes`, `LockExcludes`, `LockForgetsNobody` follow; `LatestWins` and `InitialIsLast` are
  action properties proved per action, and `LockSettlesInOrder` is the three as the run checks them;
  `LockImplementsSerialTasks` is the safety part of the refinement, each action mapped to an action of
  SerialTasks or a stutter (SerialTasks states no fairness).
- `Credentials_proofs`, about two modules that share no variable.
  - Sessions (`SessionsInv`): a refresh that runs is the one in `inFlightRefresh` and those who wait,
    wait for it (`OneRefresh`); refreshes are of saved sessions; the token a refresh was given is the one
    the issuer accepts; and while nothing has failed, the stored token of the identity is the accepted
    one unless a refresh is about to store it (`StoredIsLive`). `SpentOnce` needs all of it: the token a
    call presents was read in an earlier step, and only exclusivity keeps it fresh. `SessionsInvariant`,
    `SessionsTypes`, `TokensAreSpentOnce`, `AsksOnlyForDropped`.
  - GitHttp (`ThrottleInv`). The bound on guesses is not inductive: it says nothing of the requests that
    have looked at the bucket and have not yet recorded their failure. `WasteIsBounded` counts the
    failures that were recorded in an empty bucket and shows that each emptying of it can be overtaken
    by the other requests once each, and no more. What the time-outs and the client do to the children
    is independent of it. `ThrottleInvariant`, `GitHttpTypes`,
    `GuessesStayBounded`.
- `Pages_proofs`. A step of Pages is a step of the lock, of an upload, or of neither; so the invariants
  of PublishLock and of Upload hold here once it is known that a chain stands where such a step takes
  it up. `PagesInv` adds that: a chain is in the lock's hands exactly while it waits for
  `withPublishLock`, and at work on the pod only while its task runs (`LockMatchesChains`); a run is one
  chain's alone and its row says how far that chain is (`RunsMatchChains`). That gives Upload the promise
  it asks of its callers, that uploads to one container take turns. From it `PagesTypes`,
  `ChainsStayApart` and `SiteIsPublished` (both promises of Upload, at the place where the bridge runs
  it), and `RunsAreOwned`, for workflows of every kind, with the stranded rows of `publish: .` as its
  exception. tlapm does not reach a theorem through INSTANCE, so the lemmas about the lock and the
  uploads are proved here again for the instances.
- `Tracker_proofs`.
  - Tracker (`TrackerInv`): every commit is a tree that folds, whose numbers are an interval from 1 (so
    MAX + 1 is free), and that keeps what the commits before it had; what a request has cloned is on the
    branch; and a request that is about to take a proposal off the inbox has its issue on the branch or
    was asked to dismiss it. `TrackerTypes`, `TrackerKeeps`, and the action property `ProposalsStay`.
  - TrackerFiles (`FilesInv`, and `BoardStaysTheFiles`): the fold is a recursive function, and
    that it gives for every log what the log says is shown by the principle of the least number
    (`LeastNumber`, from the well-foundedness of Nat, without an operator parameter): of the beginnings
    of a log, a shortest one where they differ would be one event longer than one where they agree. The
    proof goes on through the three documents and the parser. Of the configuration the module assumes
    what `loadConfig` checks, and no more; the theorem is about states and categories whose classes tell
    them and, for numbers, epics and links, about a namespace that is told. `FilesInv` has that issues
    are numbered without a gap, which `NextOnBoardIsFree` needs of the number the next one gets.
  - `TrackerInvariant` is the two: a step of one leaves the variables of the other.
- `Pulls_proofs`. Branches only grow (`NothingIsRewritten`, the action property `HistoryStays`), so what
  a run or a merge has seen in git stays there while it waits. `PullsInv` says per pc what that is: a
  run about to upsert its row has its tip in its branch, one that will be called ok or charged has its
  work on the branch or in a comment, a merge about to be marked is in the target. From it
  `PullsTypes`, `PullsStayInGit`, `WorkStaysThere`.
- `Repos_proofs`. `DirInv` says how a create and a delete share the row and the directory as long as
  none was torn, `AloneInv` what a request that nothing overlaps has done at each of its writes. From
  them `ReposTypes`, `RowKeepsItsDirectory` and `AckIsKept`.
- `Browser_proofs` has an inductive invariant for each of the six models of MCBrowser.
  - Providers (`AiInv`): what a run is metered for was decided at its gate, whether the ledger is on
    does not change, and what it took is for runs that were billed. `ProvidersTypes`,
    `KeysStayRespected`. The proof failed at first on a preference saved with an empty model; the route
    refuses it (`Acceptable`), which the model had left out.
  - Accounts (`AccInv`): what each tab knows at each step and what server and cookies hold for it; two
    sign-ups with one e-mail differ in who was given the account. `AccountsTypes`, `AccountsStayApart`.
  - AgentLog (`LogInv`): every line before the place a poll reads from is shown already, and a verdict
    that a poll was told is final. `LogTypesHold`, `CardIsTrue`.
  - Browse (`BrowseInv`): commits are never taken away, so what git said of a hash stays true.
    `BrowseTypes`, `PagesAreWhole`.
  - Issues (`IssueInv`): a run at its gate will read the comment that started it; of a document
    nothing went wrong with, every PUT under way, and the copy once there is none, is of its last own
    change (`RevInv` bounds what comments add to `rev`). `IssuesTypes`, `ConversationStaysWhole`,
    `PodStaysUp`.
  - Drafts (`DraftInv`): whoever is present in a room, but by a late frame, is tracked by a connection
    of his own in that room, so the close of a dead one leaves him and the close of his last one takes
    him out; and whoever is present at all is tracked by some connection of it, with which he goes
    (`Presence`). What is stored is joined with and never replaced. `DraftsTypes`,
    `RelayStaysClean`, and the action property `StoredStaysAndGrows`.
  - `BrowserInv` is all of them: a step of one leaves the variables of the others. `BrowserTypes`,
    `PagesTell`, `BrowserPromises`.
- `Publishing_proofs`.
  - Upload (`UploadInv`): busy calls have different containers (`Apart`) and, call by call, how `todo`,
    `kept` and the container relate at each pc: what is not yet PUT and not kept can still be anything,
    after the listing only what is in `todo` is stale. `UploadTypes`, `KeptStays` and `CleanIsExact`.
  - Packages (`PackagesInv`): a session that is there has exactly what was acknowledged, a request that
    is closing one begins with it, and one past its PUT has its blob in the store. The other requests
    rely only on `Steady`: blobs stay, and nothing more is acknowledged for a session that is gone.
    `PackagesInvariant`, `PackagesTypes`, `RegistryKeeps`.
  - Previews (`PreviewsInv`): the properties except histories in which two builds meet, so the
    invariant is the types and, while nothing was disturbed, `Calm`: one build or teardown at a time,
    for each of its phases what of the container is whose, and for the card that the row it will poll
    was marked for its request (`Awaits`), unless a poll has slipped into a refusal.
    `PreviewsTypes`, `PreviewsStayInStep`.
  - `PublishingInv` is the two and UploadInv: `PublishingTypes`, `PublishingPromises`.

Every inductive invariant was first checked by TLC on the instance of the corresponding run.

Every invariant and every action property that a passing run checks is stated by a theorem. Only
model-checked is liveness (`WaiterIsAnswered`, `DriftIsRepaired`, `WaitersAreAnswered`,
`ChildrenAreReaped`): the prover does not do fairness or ENABLED. Of the refinement of SerialTasks the
safety part is proved, and there is no other: SerialTasks states no fairness.

## Not modelled

- **Activity, health, metrics, log, environment**: rows, counters and formatting for display; nothing is
  kept.
- **The user interface** apart from the pages with state of their own (draft composer, comment form,
  preview card, log card, provider form, sign-in panels): it shows what the registry has.
- **Demo seeds**: scripts that fill an empty bridge.
- Of components that are modelled: the openrouter driver (it writes no state), prompts and
  the container an agent runs in (abstracted to what the work tree holds at the end), encryption of keys
  and tokens, npm packuments and dist-tags (documents computed from the index), quotas on the number of
  repositories and runs (one read before one insert), rate limits other than that on wrong push tokens.
- Contents (HTML, Turtle outside the tracker, Markdown) are abstracted away everywhere. The Inrupt SDK,
  git, SQLite, docker, Yjs and the pod server are modelled by what the code relies on; several processes
  of the bridge on one database are not, since the lock and the caches are per process and the code says
  so.

Hazards without a property are in `PROJECT.json` with the reason: most are in a model, and what happens
there is what the code accepts or says nothing about.

## Plan

What is left, in order of what is at stake:

1. Properties for the hazards that have none, where code and comments say what ought to happen: they are
   in `PROJECT.json` with the reason why none is stated.
2. Several repositories in Pages: the lock is proved for any number, the reconciler's pass is over one.
