--------------------------------- MODULE Repos ---------------------------------
(***************************************************************************)
(* The life of one repository, and who is on it: creating it, changing its *)
(* settings and deleting it (src/src/app/api/repos), the members' roster   *)
(* (lib/solid/members), and what these write into the owner's pod          *)
(* (lib/solid/repo-metadata, containers, inbox, pulls).  Three stores have *)
(* to agree: the row in the registry, the bare repository on disk, and the *)
(* pod, and no transaction spans two of them.                              *)
(*                                                                         *)
(* There is one name, so a repository that is created again has the        *)
(* directory and the containers of the one that was deleted.  A request    *)
(* whose session or body is refused changes nothing and is left out.       *)
(***************************************************************************)
EXTENDS Integers, Sequences, Functions

CONSTANTS
    Requests,     \* requests the bridge serves at once
    Members,      \* WebIDs other than the owner's
    Roles,        \* MEMBER_ROLES, or a part of them
    Admin,        \* the role that manages members
    MaxRepos,     \* bound: rows that are ever inserted
    MaxEdits,     \* bound: requests other than creates
    MaxMishaps    \* bound: failures of git, of the disk and of the pod, and
                  \* restarts of the bridge, taken together

ASSUME RolesAssumption  == Admin \in Roles
ASSUME BoundsAssumption == {MaxRepos, MaxEdits, MaxMishaps} \subseteq Nat

Visibilities == {"public", "private"}
Repo  == [id : 1 .. MaxRepos, visibility : Visibilities]
NoRow == [id |-> 0, visibility |-> "public"]

(* The ACL a resource of the pod has: its own, or that of what it is in.    *)
Missing  == <<"missing">>
Inherits == <<"inherits">>
Public   == <<"public">>
OwnerAnd(ms) == <<"read", ms>>
Acls == {Missing, Inherits, Public} \cup {OwnerAnd(ms) : ms \in SUBSET Members}

(* The resources that get an ACL: codespaces/, inbox/, pulls/, members.ttl. *)
Resources == {"codespaces", "inbox", "pulls", "members"}

Rosters == UNION {[ms -> Roles] : ms \in SUBSET Members}
NoOne   == [m \in {} |-> Admin]

VARIABLES
    row,        \* repos: the row of the name, or NoRow
    created,    \* sqlite_sequence: rows inserted so far
    dir,        \* the bare repository: "none", "bare" (no hook yet) or "whole"
    roster,     \* members.ttl, when acl["members"] says that it is there
    acl,        \* what is on the pod, and with what ACL
    index,      \* index.ttl: the visibility it advertises
    req,        \* the local state of each request
    torn,       \* history: a create overlapped a delete, or was cut short
    edits,      \* used-up bound
    mishaps     \* used-up bound

pod    == <<roster, acl, index>>
local  == <<row, created, dir>>
bounds == <<edits, mishaps>>
vars   == <<local, pod, req, torn, bounds>>

(* repo: the row as the request has read it.  who, role: what is asked.     *)
(* seen: the roster it is about to write or grant.  alone: nothing else has *)
(* been under way since it began.  again: this is the retry.                *)
Idle == [pc |-> "idle", kind |-> "none", repo |-> NoRow, who |-> {}, role |-> Admin,
         seen |-> NoOne, alone |-> FALSE, again |-> FALSE]

RequestStates ==
    [pc : {"idle", "git", "hook", "body", "rm", "read", "put", "codespaces",
           "codespacesAcl", "inbox", "inboxAcl", "head", "empty", "pulls", "pullsAcl",
           "membersAcl", "index", "done"},
     kind : {"none", "create", "save", "delete", "add", "remove", "pull"},
     repo : Repo \cup {NoRow}, who : {{}} \cup {{m} : m \in Members}, role : Roles,
     seen : Rosters, alone : BOOLEAN, again : BOOLEAN]

TypeOK ==
    /\ row \in Repo \cup {NoRow} /\ created \in 0 .. MaxRepos /\ row.id <= created
    /\ dir \in {"none", "bare", "whole"}
    /\ roster \in Rosters
    /\ acl \in [Resources -> Acls]
    /\ index \in Visibilities \cup {"none"}
    /\ req \in [Requests -> RequestStates]
    /\ torn \in BOOLEAN /\ edits \in 0 .. MaxEdits /\ mishaps \in 0 .. MaxMishaps

Init ==
    /\ row = NoRow /\ created = 0 /\ dir = "none"
    /\ roster = NoOne /\ acl = [x \in Resources |-> Missing] /\ index = "none"
    /\ req = [r \in Requests |-> Idle]
    /\ torn = FALSE /\ edits = 0 /\ mishaps = 0

At(r, pc)   == req[r].pc = pc
Goes(r, pc) == req' = [req EXCEPT ![r].pc = pc]
Ends(r)     == req' = [req EXCEPT ![r] = Idle]
Mishap      == mishaps < MaxMishaps /\ mishaps' = mishaps + 1
Edit        == edits < MaxEdits /\ edits' = edits + 1

(* A request arrives: those that are under way are no longer alone. *)
Begins(r, state) ==
    /\ At(r, "idle")
    /\ req' = [q \in Requests |->
                  IF q = r THEN [state EXCEPT !.alone = \A p \in Requests : At(p, "idle")]
                  ELSE IF At(q, "idle") THEN req[q] ELSE [req[q] EXCEPT !.alone = FALSE]]

(* A call to the pod fails.  writeRepoMetadata starts over once, if it was  *)
(* a 401; every other caller gives up.                                      *)
Fails(r) ==
    /\ Mishap
    /\ \/ Ends(r)
       \/ /\ req[r].kind = "save" /\ ~req[r].again
          /\ req' = [req EXCEPT ![r].pc = "codespaces", ![r].again = TRUE]

Deleting == {r \in Requests : req[r].kind = "delete"}
Creating == {r \in Requests : req[r].kind = "create"}

(* The request becomes the write of the metadata, which nobody waits for. *)
Saves(r, repo) ==
    req' = [req EXCEPT ![r].pc = "codespaces", ![r].kind = "save", ![r].repo = repo]

(* Slip: the id of a row that is gone is used again. *)
InsertReusing(visibility) ==
    /\ row = NoRow /\ created < MaxRepos
    /\ row' = [id |-> created + 1, visibility |-> visibility]
    /\ created' = created

-----------------------------------------------------------------------------
(* createRepo: a row with an id that was never used, if the name is free. *)
Insert(visibility) ==
    /\ row = NoRow /\ created < MaxRepos
    /\ row' = [id |-> created + 1, visibility |-> visibility]
    /\ created' = created + 1

(* POST repos. *)
Create(r, visibility) ==
    /\ Insert(visibility)
    /\ Begins(r, [Idle EXCEPT !.pc = "git", !.kind = "create", !.repo = row'])
    /\ torn' = (torn \/ Deleting # {})
    /\ UNCHANGED <<dir, pod, bounds>>

(* Slip: the row stays. *)
KeepRow(r) == row' = row /\ Ends(r)

(* createBareRepo fails: deleteRepoById takes the row back. *)
RollBack(r) ==
    /\ row' = IF row.id = req[r].repo.id THEN NoRow ELSE row
    /\ Ends(r)

(* git init --bare, which leaves a directory alone that is there already. *)
GitInit(r) ==
    /\ At(r, "git")
    /\ dir' = IF dir = "none" THEN "bare" ELSE dir
    /\ \/ Goes(r, "hook") /\ UNCHANGED <<row, mishaps>>
       \/ Mishap /\ RollBack(r)
    /\ UNCHANGED <<created, pod, torn, edits>>

(* installPostReceiveHook: a file in the directory, if it is still there.   *)
(* Then 201, and the pod is told.                                           *)
InstallHook(r) ==
    /\ At(r, "hook")
    /\ \/ dir # "none" /\ dir' = "whole" /\ Saves(r, req[r].repo) /\ UNCHANGED <<row, mishaps>>
       \/ dir = "none" /\ RollBack(r) /\ UNCHANGED <<dir, mishaps>>
       \/ Mishap /\ RollBack(r) /\ UNCHANGED dir
    /\ UNCHANGED <<created, pod, torn, edits>>

(* DELETE of the repository: the row is read before the session and the     *)
(* body are.                                                                *)
AskDelete(r) ==
    /\ Edit
    /\ row # NoRow
    /\ Begins(r, [Idle EXCEPT !.pc = "body", !.kind = "delete", !.repo = row])
    /\ torn' = (torn \/ Creating # {})
    /\ UNCHANGED <<local, pod, mishaps>>

DeleteRow(r) ==
    /\ At(r, "body") /\ req[r].kind = "delete"
    /\ row' = IF row.id = req[r].repo.id THEN NoRow ELSE row
    /\ Goes(r, "rm")
    /\ UNCHANGED <<created, dir, pod, torn, bounds>>

(* deleteBareRepo: by name, and a failure is only logged. *)
RemoveDir(r) ==
    /\ At(r, "rm")
    /\ \/ dir' = "none" /\ UNCHANGED mishaps
       \/ Mishap /\ UNCHANGED dir
    /\ Ends(r)
    /\ UNCHANGED <<row, created, pod, torn, edits>>

(* updateRepo looks the name up once more. *)
Update(visibility) == row # NoRow /\ row' = [row EXCEPT !.visibility = visibility]

(* PATCH, when its body is there. *)
Patch(r, visibility) ==
    /\ Edit
    /\ Update(visibility)
    /\ Begins(r, [Idle EXCEPT !.pc = "codespaces", !.kind = "save", !.repo = row'])
    /\ UNCHANGED <<created, dir, pod, torn, mishaps>>

-----------------------------------------------------------------------------
(* POST and DELETE of a member, by the owner or by a member whose role      *)
(* requireMember finds to be admin.  The repository is as it is now.        *)
IsAdmin(m) == m \in DOMAIN roster /\ roster[m] = Admin

Ask(r, kind, m, role) ==
    /\ Edit
    /\ row # NoRow
    /\ \E by \in {"owner"} \cup {n \in Members : IsAdmin(n)} :
          Begins(r, [Idle EXCEPT !.pc = "read", !.kind = kind, !.repo = row,
                         !.who = {m}, !.role = role])
    /\ UNCHANGED <<local, pod, torn, mishaps>>

AskAdd(r, m, role) == Ask(r, "add", m, role)
AskRemove(r, m)    == Ask(r, "remove", m, Admin)

(* addMember and removeMember, on the roster that was read. *)
Removed(r, old) == Restrict(old, DOMAIN old \ req[r].who)
Added(r, old) ==
    [m \in DOMAIN old \cup req[r].who |-> IF m \in req[r].who THEN req[r].role ELSE old[m]]
Edited(r, old) == IF req[r].kind = "add" THEN Added(r, old) ELSE Removed(r, old)

(* fetchRoster: what is there, and no one when it cannot be read. *)
ReadRoster(r) ==
    /\ At(r, "read")
    /\ \E old \in {roster, NoOne} :
          /\ IF old = roster THEN UNCHANGED mishaps ELSE Mishap
          /\ req' = IF req[r].kind = "pull"
                    THEN [req EXCEPT ![r].pc = "pullsAcl", ![r].seen = old]
                    ELSE [req EXCEPT ![r].pc = "put", ![r].seen = Edited(r, old)]
    /\ UNCHANGED <<local, pod, torn, edits>>

(* A PUT or a PUT of an ACL takes effect or does not; the caller hears of   *)
(* it or not.                                                               *)
Writes(r, effect, next) ==
    \/ effect /\ next /\ UNCHANGED mishaps
    \/ (effect \/ UNCHANGED pod) /\ Fails(r)

PutsRoster(members) ==
    /\ roster' = members
    /\ acl' = [acl EXCEPT !["members"] = IF @ = Missing THEN Inherits ELSE @]
    /\ UNCHANGED index

SetsAcl(x, value) == acl' = [acl EXCEPT ![x] = value] /\ UNCHANGED <<roster, index>>

(* applyMemberAcls is only needed for a private repository. *)
AfterRoster(r) ==
    LET last == IF req[r].kind = "save" THEN "index" ELSE "done" IN
    Goes(r, IF req[r].repo.visibility = "private" THEN "pulls" ELSE last)

PutRoster(r) ==
    /\ At(r, "put")
    /\ Writes(r, PutsRoster(req[r].seen), AfterRoster(r))
    /\ UNCHANGED <<local, torn, edits>>

-----------------------------------------------------------------------------
(* ensureContainer: HEAD, and a PUT when it is not there.  It says created  *)
(* also when another request came in between.                               *)
Busy(r) == \E q \in Requests \ {r} : ~At(q, "idle")

EnsureContainer(r, x, made, there) ==
    /\ At(r, x)
    /\ Writes(r,
         IF acl[x] = Missing THEN SetsAcl(x, Inherits) ELSE UNCHANGED pod,
         \/ acl[x] = Missing /\ Goes(r, made)
         \/ acl[x] # Missing /\ Goes(r, there)
         \/ acl[x] # Missing /\ Busy(r) /\ Goes(r, made))
    /\ UNCHANGED <<local, torn, edits>>

SetAcl(r, pc, x, value, next) ==
    /\ At(r, pc)
    /\ Writes(r, SetsAcl(x, value), Goes(r, next))
    /\ UNCHANGED <<local, torn, edits>>

(* writeRepoMetadataOnce: the containers, with their ACLs when they are new. *)
EnsureCodespaces(r)    == EnsureContainer(r, "codespaces", "codespacesAcl", "inbox")
SetPublicReadAcl(r)    == SetAcl(r, "codespacesAcl", "codespaces", Public, "inbox")
EnsureInbox(r)         == EnsureContainer(r, "inbox", "inboxAcl", "head")
SetInboxAcl(r)         == SetAcl(r, "inboxAcl", "inbox", OwnerAnd({}), "head")

(* ensureMembers: any answer to HEAD but a 2xx is taken for no roster. *)
EnsureMembers(r) ==
    /\ At(r, "head")
    /\ \/ Goes(r, IF acl["members"] # Missing THEN "index" ELSE "empty") /\ UNCHANGED mishaps
       \/ Mishap /\ Goes(r, "empty")
       \/ Fails(r)
    /\ UNCHANGED <<local, pod, torn, edits>>

PutEmptyRoster(r) ==
    /\ At(r, "empty")
    /\ Writes(r, PutsRoster(NoOne), AfterRoster(r))
    /\ UNCHANGED <<local, torn, edits>>

(* renderTurtle, as far as it depends on the settings. *)
Advertised(repo) == repo.visibility

PutIndex(r) ==
    /\ At(r, "index")
    /\ Writes(r, index' = Advertised(req[r].repo) /\ UNCHANGED <<roster, acl>>, Goes(r, "done"))
    /\ UNCHANGED <<local, torn, edits>>

(* applyMemberAcls, and ensurePullContainers of a new pull request: only    *)
(* the latter leaves a container alone that is there.                       *)
EnsurePulls(r) ==
    EnsureContainer(r, "pulls",
        IF req[r].kind = "pull" /\ req[r].repo.visibility = "private" THEN "read" ELSE "pullsAcl",
        IF req[r].kind = "pull" THEN "done" ELSE "pullsAcl")

(* Slip: the grants are not taken back, only added to. *)
GrownAcl(repo, members) ==
    IF repo.visibility = "private"
    THEN OwnerAnd(DOMAIN members \cup (IF Len(acl["pulls"]) = 2 THEN acl["pulls"][2] ELSE {}))
    ELSE Public

(* setVisibilityAcl. *)
VisibilityAcl(repo, members) ==
    IF repo.visibility = "private" THEN OwnerAnd(DOMAIN members) ELSE Public

SetPullsAcl(r) ==
    SetAcl(r, "pullsAcl", "pulls", VisibilityAcl(req[r].repo, req[r].seen),
           IF req[r].kind = "pull" THEN "done" ELSE "membersAcl")

SetMembersAcl(r) ==
    SetAcl(r, "membersAcl", "members", VisibilityAcl(req[r].repo, req[r].seen),
           IF req[r].kind = "save" THEN "index" ELSE "done")

(* A pull request is opened and written to the pod in the background. *)
OpenPull(r) ==
    /\ Edit
    /\ row # NoRow
    /\ Begins(r, [Idle EXCEPT !.pc = "pulls", !.kind = "pull", !.repo = row])
    /\ UNCHANGED <<local, pod, torn, mishaps>>

Answer(r) ==
    /\ At(r, "done")
    /\ Ends(r)
    /\ UNCHANGED <<local, pod, torn, bounds>>

(* The bridge restarts.  reinstallAllHooks writes the hook into every       *)
(* directory there is.                                                      *)
Restart ==
    /\ Mishap
    /\ torn' = (torn \/ \E r \in Requests : At(r, "git"))
    /\ dir' = IF dir = "none" THEN "none" ELSE "whole"
    /\ req' = [r \in Requests |-> Idle]
    /\ UNCHANGED <<row, created, pod, edits>>

Next ==
    \/ \E r \in Requests :
          \/ \E v \in Visibilities : Create(r, v) \/ Patch(r, v)
          \/ GitInit(r) \/ InstallHook(r)
          \/ AskDelete(r) \/ DeleteRow(r) \/ RemoveDir(r)
          \/ \E m \in Members :
                \/ \E role \in Roles : AskAdd(r, m, role)
                \/ AskRemove(r, m)
          \/ OpenPull(r) \/ ReadRoster(r) \/ PutRoster(r)
          \/ EnsureCodespaces(r) \/ SetPublicReadAcl(r) \/ EnsureInbox(r) \/ SetInboxAcl(r)
          \/ EnsureMembers(r) \/ PutEmptyRoster(r) \/ PutIndex(r)
          \/ EnsurePulls(r) \/ SetPullsAcl(r) \/ SetMembersAcl(r)
          \/ Answer(r)
    \/ Restart

Spec == Init /\ [][Next]_vars

-----------------------------------------------------------------------------
(* A request that was answered, and that no other request overlapped, has   *)
(* done what it says in all the places it writes: the roster has the member *)
(* in the role, or not at all; a private repository lets the roster's       *)
(* members read its pull requests and the roster, and no one who has left   *)
(* it, whatever earlier requests left half done; and the pod advertises the *)
(* visibility the registry has.                                             *)
AckedIsDone ==
    \A r \in Requests : (At(r, "done") /\ req[r].alone) =>
        /\ req[r].kind = "add" =>
              \A m \in req[r].who : m \in DOMAIN roster /\ roster[m] = req[r].role
        /\ req[r].kind = "remove" => DOMAIN roster \cap req[r].who = {}
        /\ (req[r].kind \in {"add", "remove"} /\ req[r].repo.visibility = "private") =>
              /\ acl["pulls"] = OwnerAnd(DOMAIN roster)
              /\ acl["members"] = acl["pulls"]
        /\ req[r].kind = "save" => index = row.visibility

(* A repository in the registry is one that can be pushed to: its directory *)
(* is there with the hook, although the row is written first, git and the   *)
(* disk fail, and the bridge restarts; only a create that overlaps a delete *)
(* of the same name, or a restart before git init, can come in the way.     *)
RowHasDir ==
    (row # NoRow /\ Creating = {} /\ ~torn) => dir = "whole"
=============================================================================
