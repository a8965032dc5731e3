----------------------------- MODULE Repos_proofs -----------------------------
(***************************************************************************)
(* Proofs about Repos, for every number of requests, members, roles,       *)
(* repositories, edits and mishaps.  ReposInv is the inductive invariant:  *)
(* DirInv says how a create and a delete share the row and the directory   *)
(* as long as none was torn, and AloneInv what a request that nothing      *)
(* overlaps has already done at each place.                                *)
(***************************************************************************)
EXTENDS Repos, TLAPS

Pcs == {"idle", "git", "hook", "body", "rm", "read", "put", "codespaces",
        "codespacesAcl", "inbox", "inboxAcl", "head", "empty", "pulls", "pullsAcl",
        "membersAcl", "index", "done"}

(* Where a request of each kind can be. *)
Flow(s) ==
    \/ s = Idle
    \/ s.kind = "create" /\ s.pc \in {"git", "hook"}
    \/ s.kind = "delete" /\ s.pc \in {"body", "rm"}
    \/ s.kind \in {"add", "remove"}
       /\ s.pc \in {"read", "put", "pulls", "pullsAcl", "membersAcl", "done"}
    \/ s.kind = "pull" /\ s.pc \in {"pulls", "read", "pullsAcl", "done"}
    \/ s.kind = "save" /\ s.pc \in {"codespaces", "codespacesAcl", "inbox", "inboxAcl", "head",
                                    "empty", "pulls", "pullsAcl", "membersAcl", "index", "done"}

(* The row and the directory, when no create has overlapped a delete: the   *)
(* row is that of the one create, or what the deletes have read, and a row  *)
(* that nobody creates has its directory.                                   *)
DirInv ==
    /\ \A r \in Creating : row # NoRow /\ row.id = req[r].repo.id
    /\ \A q, r \in Creating : q = r
    /\ Creating = {} \/ Deleting = {}
    /\ \A r \in Requests : At(r, "hook") => dir # "none"
    /\ \A r \in Deleting : row # NoRow => At(r, "body") /\ row.id = req[r].repo.id
    /\ row # NoRow /\ Creating = {} => dir = "whole"

(* The roster a request is about to write has what it was asked for. *)
AsAsked(s) ==
    /\ s.kind = "add" => \A m \in s.who : m \in DOMAIN s.seen /\ s.seen[m] = s.role
    /\ s.kind = "remove" => DOMAIN s.seen \cap s.who = {}

(* The pod, after each write of a change of the roster. *)
MembersDone(s) ==
    /\ s.pc # "read" => AsAsked(s)
    /\ s.pc \in {"pulls", "pullsAcl", "membersAcl", "done"} => roster = s.seen
    /\ s.repo.visibility = "private" /\ s.pc \in {"membersAcl", "done"} =>
          acl["pulls"] = OwnerAnd(DOMAIN s.seen)
    /\ s.repo.visibility = "private" /\ s.pc = "done" =>
          acl["members"] = OwnerAnd(DOMAIN s.seen)

(* A request is alone only while no other is under way, so what it has read *)
(* and written is still so.                                                 *)
AloneInv(r) ==
    req[r].alone =>
        /\ \A q \in Requests \ {r} : At(q, "idle")
        /\ req[r].kind \in {"create", "save"} => row = req[r].repo
        /\ req[r].kind \in {"add", "remove"} => MembersDone(req[r])
        /\ req[r].kind = "save" /\ At(r, "done") => index = req[r].repo.visibility

LocalTypes ==
    /\ row \in Repo \cup {NoRow} /\ created \in 0 .. MaxRepos /\ row.id <= created
    /\ dir \in {"none", "bare", "whole"} /\ torn \in BOOLEAN
Counted == edits \in 0 .. MaxEdits /\ mishaps \in 0 .. MaxMishaps
PodTypes ==
    /\ roster \in Rosters
    /\ acl \in [Resources -> Acls]
    /\ index \in Visibilities \cup {"none"}
ReqTypes == req \in [Requests -> RequestStates] /\ \A r \in Requests : Flow(req[r])
AllAlone == \A r \in Requests : AloneInv(r)

ReposInv == LocalTypes /\ Counted /\ PodTypes /\ ReqTypes /\ (~torn => DirInv) /\ AllAlone

-----------------------------------------------------------------------------
LEMMA BoundsAreNatural == MaxRepos \in Nat /\ MaxEdits \in Nat /\ MaxMishaps \in Nat
BY BoundsAssumption

LEMMA RosterIsTyped ==
    ASSUME NEW f \in Rosters
    PROVE  DOMAIN f \in SUBSET Members /\ f \in [DOMAIN f -> Roles]
BY DEF Rosters

LEMMA RosterFromDomain ==
    ASSUME NEW ms \in SUBSET Members, NEW f \in [ms -> Roles]
    PROVE  f \in Rosters
BY DEF Rosters

LEMMA NoOneIsTyped == NoOne \in Rosters /\ DOMAIN NoOne = {}
<1>1. NoOne \in [{} -> Roles]
    BY DEF NoOne
<1> QED
    BY <1>1, RosterFromDomain

LEMMA IdleIsTyped == /\ Idle \in RequestStates /\ Flow(Idle)
                     /\ Idle.pc = "idle" /\ Idle.kind = "none" /\ Idle.alone = FALSE
BY NoOneIsTyped, RolesAssumption DEF Idle, RequestStates, Flow

LEMMA AclsAreTyped ==
    /\ Missing \in Acls /\ Inherits \in Acls /\ Public \in Acls
    /\ \A f \in Rosters : OwnerAnd(DOMAIN f) \in Acls
    /\ OwnerAnd({}) \in Acls
BY RosterIsTyped DEF Acls

LEMMA VisibilityAclIsTyped ==
    ASSUME NEW f \in Rosters, NEW repo
    PROVE  VisibilityAcl(repo, f) \in Acls
BY AclsAreTyped DEF VisibilityAcl

LEMMA RequestIsRecord ==
    ASSUME ReqTypes, NEW r \in Requests
    PROVE  /\ req[r] \in RequestStates /\ Flow(req[r])
           /\ req[r].repo \in Repo \cup {NoRow} /\ req[r].seen \in Rosters
           /\ req[r].who \in SUBSET Members /\ req[r].role \in Roles
           /\ req[r].pc \in Pcs
BY DEF ReqTypes, RequestStates, Pcs

(* A request moves to another place. *)
LEMMA PcUpdate ==
    ASSUME NEW s \in RequestStates, NEW pc \in Pcs
    PROVE  LET t == [s EXCEPT !.pc = pc] IN
           /\ t \in RequestStates /\ t.pc = pc
           /\ t.kind = s.kind /\ t.repo = s.repo /\ t.who = s.who /\ t.role = s.role
           /\ t.seen = s.seen /\ t.alone = s.alone
BY DEF RequestStates, Pcs

(* The rosters that addMember and removeMember make. *)
LEMMA EditedIsTyped ==
    ASSUME ReqTypes, NEW r \in Requests, NEW old \in Rosters
    PROVE  Edited(r, old) \in Rosters
<1>1. /\ DOMAIN old \in SUBSET Members /\ old \in [DOMAIN old -> Roles]
      /\ req[r].who \in SUBSET Members /\ req[r].role \in Roles
    BY RosterIsTyped, RequestIsRecord
<1>2. Added(r, old) \in [DOMAIN old \cup req[r].who -> Roles]
    BY <1>1 DEF Added
<1>3. Removed(r, old) \in [DOMAIN old \ req[r].who -> Roles]
    BY <1>1 DEF Removed, Restrict
<1> QED
    BY <1>1, <1>2, <1>3, RosterFromDomain DEF Edited

(* They have, or do not have, the member in question. *)
LEMMA EditedAsAsked ==
    ASSUME NEW r \in Requests, NEW old
    PROVE  /\ req[r].kind = "add" =>
                 \A m \in req[r].who : /\ m \in DOMAIN Edited(r, old)
                                       /\ Edited(r, old)[m] = req[r].role
           /\ req[r].kind = "remove" => DOMAIN Edited(r, old) \cap req[r].who = {}
<1>1. ASSUME req[r].kind = "add", NEW m \in req[r].who
      PROVE  m \in DOMAIN Edited(r, old) /\ Edited(r, old)[m] = req[r].role
    BY <1>1 DEF Edited, Added
<1>2. ASSUME req[r].kind = "remove"
      PROVE  DOMAIN Edited(r, old) \cap req[r].who = {}
    <2>1. Edited(r, old) = [m \in DOMAIN old \ req[r].who |-> old[m]]
        BY <1>2 DEF Edited, Removed, Restrict
    <2>2. DOMAIN Edited(r, old) = DOMAIN old \ req[r].who
        BY <2>1
    <2> QED
        BY <2>2
<1> QED
    BY <1>1, <1>2

LEMMA InitHolds == Init => ReposInv
<1> SUFFICES ASSUME Init PROVE ReposInv
    OBVIOUS
<1>1. LocalTypes /\ Counted
    <2>1. NoRow.id = 0
        BY DEF NoRow
    <2>2. row = NoRow /\ created = 0 /\ dir = "none" /\ torn \in BOOLEAN /\ edits = 0 /\ mishaps = 0
        BY DEF Init
    <2> QED
        BY <2>1, <2>2, BoundsAreNatural DEF LocalTypes, Counted
<1>2. PodTypes
    BY NoOneIsTyped, AclsAreTyped DEF Init, PodTypes
<1>3. ReqTypes /\ AllAlone
    BY IdleIsTyped DEF Init, ReqTypes, AllAlone, AloneInv
<1>4. DirInv
    BY IdleIsTyped DEF Init, DirInv, Creating, Deleting, At
<1> QED
    BY <1>1, <1>2, <1>3, <1>4 DEF ReposInv

-----------------------------------------------------------------------------
(* Every step that counts stays within its bound. *)
LEMMA CountedStays ==
    ASSUME Counted, (UNCHANGED edits) \/ Edit, (UNCHANGED mishaps) \/ Mishap
    PROVE  Counted'
BY BoundsAreNatural DEF Counted, Edit, Mishap

(* A request that writes to the pod moves on: neither the row nor the       *)
(* directory has to do with it, and no other request was alone.             *)
LEMMA PodMoveHolds ==
    ASSUME ReposInv, NEW r \in Requests, NEW s \in RequestStates,
           ~At(r, "idle"), req[r].kind \notin {"create", "delete"},
           Flow(s), s.kind \notin {"create", "delete"},
           req' = [req EXCEPT ![r] = s], UNCHANGED <<local, torn, edits>>,
           (UNCHANGED mishaps) \/ Mishap,
           PodTypes', AloneInv(r)'
    PROVE  ReposInv'
<1>1. LocalTypes' /\ Counted'
    BY CountedStays DEF ReposInv, LocalTypes, local
<1>2. ReqTypes'
    BY DEF ReposInv, ReqTypes
<1>3. /\ req'[r] = s /\ \A q \in Requests \ {r} : req'[q] = req[q]
    BY DEF ReposInv, ReqTypes
<1>4. ~torn' => DirInv'
    <2>1. Creating' = Creating /\ Deleting' = Deleting
        BY <1>3 DEF Creating, Deleting
    <2>2. \A q \in Requests : At(q, "hook")' => At(q, "hook")
        BY <1>3, IdleIsTyped DEF At, Flow
    <2>3. \A q \in Creating \cup Deleting : req'[q] = req[q]
        BY <1>3 DEF Creating, Deleting
    <2> QED
        BY <2>1, <2>2, <2>3 DEF ReposInv, DirInv, local, At
<1>5. ASSUME NEW q \in Requests \ {r} PROVE AloneInv(q)'
    <2>1. ~req[q].alone
        BY DEF ReposInv, AllAlone, AloneInv
    <2> QED
        BY <1>3, <2>1 DEF AloneInv
<1>6. AllAlone'
    BY <1>5 DEF AllAlone
<1> QED
    BY <1>1, <1>2, <1>4, <1>6 DEF ReposInv

-----------------------------------------------------------------------------
(* Nothing to be said of a request that is over, or of one that is not alone. *)
LEMMA OverIsFree ==
    ASSUME NEW r \in Requests, ~req'[r].alone
    PROVE  AloneInv(r)'
BY DEF AloneInv

(* A call to the pod failed: the request gives up, or writes its metadata   *)
(* once more.                                                               *)
LEMMA FailsHolds ==
    ASSUME ReposInv, NEW r \in Requests, ~At(r, "idle"),
           req[r].kind \notin {"create", "delete"},
           Fails(r), UNCHANGED <<local, torn, edits>>, PodTypes'
    PROVE  ReposInv'
<1>1. ReqTypes /\ req \in [Requests -> RequestStates] /\ Mishap
    BY DEF ReposInv, ReqTypes, Fails
<1>2. CASE Ends(r)
    <2>1. req' = [req EXCEPT ![r] = Idle] /\ req'[r] = Idle
        BY <1>1, <1>2 DEF Ends
    <2> QED
        BY <1>1, <2>1, IdleIsTyped, OverIsFree, PodMoveHolds
<1>3. CASE /\ req[r].kind = "save"
           /\ req' = [req EXCEPT ![r].pc = "codespaces", ![r].again = TRUE]
    <2> DEFINE s == [req[r] EXCEPT !.pc = "codespaces", !.again = TRUE]
    <2>1. /\ s \in RequestStates /\ s.pc = "codespaces" /\ s.kind = "save"
          /\ s.repo = req[r].repo /\ s.alone = req[r].alone
        BY <1>1, <1>3, RequestIsRecord DEF RequestStates
    <2>2. req' = [req EXCEPT ![r] = s] /\ req'[r] = s
        BY <1>1, <1>3
    <2> HIDE DEF s
    <2>3. AloneInv(r)'
        <3>1. \A q \in Requests \ {r} : req'[q] = req[q]
            BY <1>1, <2>2
        <3>2. AloneInv(r)
            BY DEF ReposInv, AllAlone
        <3> QED
            BY <1>3, <2>1, <2>2, <3>1, <3>2 DEF AloneInv, At, local
    <2>4. Flow(s)
        BY <2>1 DEF Flow
    <2> QED
        BY <1>1, <2>1, <2>2, <2>3, <2>4, PodMoveHolds
<1> QED
    BY <1>2, <1>3 DEF Fails

(* A call to the pod succeeded, and the request goes on to `pc`. *)
LEMMA GoesHolds ==
    ASSUME ReposInv, NEW r \in Requests, NEW pc \in Pcs, ~At(r, "idle"),
           req[r].kind \notin {"create", "delete"}, Goes(r, pc),
           UNCHANGED <<local, torn, edits>>, (UNCHANGED mishaps) \/ Mishap, PodTypes',
           Flow([req[r] EXCEPT !.pc = pc]),
           req[r].alone /\ req[r].kind \in {"add", "remove"} => MembersDone(req[r])',
           req[r].alone /\ req[r].kind = "save" /\ pc = "done" => index' = req[r].repo.visibility
    PROVE  ReposInv'
<1> DEFINE s == [req[r] EXCEPT !.pc = pc]
<1>1. ReqTypes /\ req \in [Requests -> RequestStates]
    BY DEF ReposInv, ReqTypes
<1>2. /\ s \in RequestStates /\ s.pc = pc /\ s.kind = req[r].kind /\ s.repo = req[r].repo
      /\ s.alone = req[r].alone
    BY <1>1, RequestIsRecord, PcUpdate
<1>3. req' = [req EXCEPT ![r] = s] /\ req'[r] = s
    BY <1>1 DEF Goes
<1>4. \A q \in Requests \ {r} : req'[q] = req[q]
    BY <1>1, <1>3
<1> HIDE DEF s
<1>5. AloneInv(r)'
    <2>1. AloneInv(r)
        BY DEF ReposInv, AllAlone
    <2> QED
        BY <1>2, <1>3, <1>4, <2>1 DEF AloneInv, At, local
<1>6. Flow(s)
    BY DEF s
<1> QED
    BY <1>1, <1>2, <1>3, <1>5, <1>6, PodMoveHolds

-----------------------------------------------------------------------------
(* What the writes leave in the pod. *)
LEMMA PodStays == PodTypes /\ UNCHANGED pod => PodTypes'
BY DEF PodTypes, pod

LEMMA SetsAclIsTyped ==
    ASSUME PodTypes, NEW x \in Resources, NEW value \in Acls, SetsAcl(x, value)
    PROVE  PodTypes' /\ acl'[x] = value /\ UNCHANGED <<roster, index>>
           /\ \A y \in Resources \ {x} : acl'[y] = acl[y]
BY DEF PodTypes, SetsAcl

LEMMA PutsRosterIsTyped ==
    ASSUME PodTypes, NEW members \in Rosters, PutsRoster(members)
    PROVE  PodTypes' /\ roster' = members
BY AclsAreTyped DEF PodTypes, PutsRoster, Resources

(* The kinds of requests that are at a place, and what is known there. *)
LEMMA PlaceOf ==
    ASSUME ReposInv, NEW r \in Requests
    PROVE  /\ At(r, "read") => req[r].kind \in {"add", "remove", "pull"}
           /\ At(r, "put") => req[r].kind \in {"add", "remove"}
           /\ req[r].pc \in {"codespaces", "codespacesAcl", "inbox", "inboxAcl", "head", "empty",
                             "index"} => req[r].kind = "save"
           /\ At(r, "pulls") => req[r].kind \in {"add", "remove", "pull", "save"}
           /\ At(r, "pullsAcl") => req[r].kind \in {"add", "remove", "pull", "save"}
           /\ At(r, "membersAcl") => req[r].kind \in {"add", "remove", "save"}
           /\ At(r, "done") => req[r].kind \in {"add", "remove", "pull", "save"}
           /\ At(r, "body") => req[r].kind = "delete"
           /\ At(r, "rm") => req[r].kind = "delete"
           /\ At(r, "git") => req[r].kind = "create"
           /\ At(r, "hook") => req[r].kind = "create"
           /\ At(r, "idle") => req[r] = Idle
           /\ (req[r].alone /\ req[r].kind \in {"add", "remove"} => MembersDone(req[r]))
<1>1. Flow(req[r])
    BY DEF ReposInv, ReqTypes
<1>2. req[r].alone /\ req[r].kind \in {"add", "remove"} => MembersDone(req[r])
    BY DEF ReposInv, AllAlone, AloneInv
<1> QED
    BY <1>1, <1>2, IdleIsTyped DEF Flow, At

(* A request that goes on to another place, as it is. *)
LEMMA GoesIsSeen ==
    ASSUME ReposInv, NEW r \in Requests, NEW pc \in Pcs, Goes(r, pc)
    PROVE  LET s == [req[r] EXCEPT !.pc = pc] IN
           /\ req'[r] = s /\ s.pc = pc /\ s.kind = req[r].kind /\ s.repo = req[r].repo
           /\ s.who = req[r].who /\ s.role = req[r].role /\ s.seen = req[r].seen
           /\ s.alone = req[r].alone
<1>1. ReqTypes /\ req[r] \in RequestStates
    BY RequestIsRecord DEF ReposInv
<1>2. req'[r] = [req[r] EXCEPT !.pc = pc]
    BY <1>1 DEF Goes, ReqTypes
<1> QED
    BY <1>1, <1>2, PcUpdate

(* The containers codespaces/ and inbox/, their ACLs and the index, which   *)
(* only a save writes.                                                      *)
LEMMA SaveGoes ==
    ASSUME ReposInv, NEW r \in Requests, req[r].kind = "save",
           NEW pc \in {"codespaces", "codespacesAcl", "inbox", "inboxAcl", "head", "empty",
                       "pulls", "pullsAcl", "membersAcl", "index", "done"},
           Goes(r, pc), UNCHANGED <<local, torn, edits>>, (UNCHANGED mishaps) \/ Mishap, PodTypes',
           pc = "done" => index' = req[r].repo.visibility
    PROVE  ReposInv'
<1>1. pc \in Pcs /\ ~At(r, "idle")
    BY PlaceOf, IdleIsTyped DEF Pcs
<1>2. Flow([req[r] EXCEPT !.pc = pc])
    BY <1>1, GoesIsSeen DEF Flow
<1> QED
    BY <1>1, <1>2, GoesHolds

LEMMA SaveStepHolds ==
    ASSUME ReposInv, NEW r \in Requests,
           \/ EnsureCodespaces(r) \/ SetPublicReadAcl(r) \/ EnsureInbox(r) \/ SetInboxAcl(r)
           \/ EnsureMembers(r) \/ PutIndex(r)
    PROVE  ReposInv'
<1>1. /\ req[r].pc \in {"codespaces", "codespacesAcl", "inbox", "inboxAcl", "head", "index"}
      /\ UNCHANGED <<local, torn, edits>>
    BY DEF EnsureCodespaces, SetPublicReadAcl, EnsureInbox, SetInboxAcl, EnsureMembers, PutIndex,
           EnsureContainer, SetAcl, At
<1>2. req[r].kind = "save" /\ ~At(r, "idle") /\ PodTypes
    BY <1>1, PlaceOf DEF At, ReposInv
<1>3. PodTypes'
    <2>1. {"codespaces", "inbox"} \subseteq Resources
        BY DEF Resources
    <2>2. CASE EnsureCodespaces(r) \/ EnsureInbox(r)
        BY <1>2, <2>1, <2>2, AclsAreTyped, SetsAclIsTyped, PodStays
        DEF EnsureCodespaces, EnsureInbox, EnsureContainer, Writes
    <2>3. CASE SetPublicReadAcl(r) \/ SetInboxAcl(r)
        BY <1>2, <2>1, <2>3, AclsAreTyped, SetsAclIsTyped, PodStays
        DEF SetPublicReadAcl, SetInboxAcl, SetAcl, Writes
    <2>4. CASE EnsureMembers(r)
        BY <1>2, <2>4, PodStays DEF EnsureMembers
    <2>5. CASE PutIndex(r)
        <3>1. UNCHANGED pod \/ (index' = Advertised(req[r].repo) /\ UNCHANGED <<roster, acl>>)
            BY <2>5 DEF PutIndex, Writes
        <3>2. Advertised(req[r].repo) \in Visibilities
            BY RequestIsRecord DEF ReposInv, Advertised, Repo, NoRow, Visibilities
        <3> QED
            BY <1>2, <3>1, <3>2, PodStays DEF PodTypes
    <2> QED
        BY <2>2, <2>3, <2>4, <2>5
<1>4. CASE Fails(r)
    BY <1>1, <1>2, <1>3, <1>4, FailsHolds
<1>5. CASE ~Fails(r)
    <2>1. \E pc \in {"codespacesAcl", "inbox", "inboxAcl", "head", "empty", "index", "done"} :
              /\ Goes(r, pc) /\ ((UNCHANGED mishaps) \/ Mishap)
              /\ pc = "done" => index' = req[r].repo.visibility
        BY <1>5
        DEF EnsureCodespaces, SetPublicReadAcl, EnsureInbox, SetInboxAcl, EnsureMembers, PutIndex,
            EnsureContainer, SetAcl, Writes, Advertised
    <2> QED
        BY <1>1, <1>2, <1>3, <2>1, SaveGoes
<1> QED
    BY <1>4, <1>5

-----------------------------------------------------------------------------
(* The roster is read, and edited as it was read. *)
LEMMA ReadRosterHolds ==
    ASSUME ReposInv, NEW r \in Requests, ReadRoster(r)
    PROVE  ReposInv'
<1>1. /\ At(r, "read") /\ UNCHANGED <<local, pod, torn, edits>> /\ PodTypes /\ ReqTypes
      /\ req \in [Requests -> RequestStates] /\ req[r] \in RequestStates
      /\ req[r].kind \in {"add", "remove", "pull"} /\ ~At(r, "idle")
    BY PlaceOf DEF ReadRoster, ReposInv, ReqTypes, At
<1>2. PICK old \in {roster, NoOne} :
          /\ (UNCHANGED mishaps) \/ Mishap
          /\ req' = IF req[r].kind = "pull"
                    THEN [req EXCEPT ![r].pc = "pullsAcl", ![r].seen = old]
                    ELSE [req EXCEPT ![r].pc = "put", ![r].seen = Edited(r, old)]
    BY DEF ReadRoster
<1>3. old \in Rosters /\ Edited(r, old) \in Rosters
    BY <1>1, NoOneIsTyped, EditedIsTyped DEF PodTypes
<1> DEFINE pc   == IF req[r].kind = "pull" THEN "pullsAcl" ELSE "put"
           seen == IF req[r].kind = "pull" THEN old ELSE Edited(r, old)
           s    == [req[r] EXCEPT !.pc = pc, !.seen = seen]
<1>4. /\ pc \in {"pullsAcl", "put"} /\ seen \in Rosters
      /\ req[r].kind = "pull" <=> pc = "pullsAcl"
      /\ req[r].kind # "pull" => seen = Edited(r, old)
    BY <1>3
<1>5. req' = [req EXCEPT ![r] = s] /\ req'[r] = s
    BY <1>1, <1>2
<1> HIDE DEF pc, seen
<1>6. /\ s \in RequestStates /\ s.pc = pc /\ s.kind = req[r].kind /\ s.repo = req[r].repo
      /\ s.who = req[r].who /\ s.role = req[r].role /\ s.seen = seen /\ s.alone = req[r].alone
    BY <1>1, <1>4 DEF RequestStates
<1> HIDE DEF s
<1>7. Flow(s)
    BY <1>1, <1>4, <1>6 DEF Flow
<1>8. AloneInv(r)'
    <2>1. AloneInv(r)
        BY DEF ReposInv, AllAlone
    <2>2. \A q \in Requests \ {r} : req'[q] = req[q]
        BY <1>1, <1>5
    <2>3. req[r].kind \in {"add", "remove"} => AsAsked(s)
        BY <1>1, <1>4, <1>6, EditedAsAsked DEF AsAsked
    <2>4. req[r].kind \in {"add", "remove"} => MembersDone(req[r])'
        BY <1>4, <1>5, <1>6, <2>3 DEF MembersDone, AsAsked
    <2> QED
        BY <1>1, <1>5, <1>6, <2>1, <2>2, <2>4 DEF AloneInv, At
<1> QED
    BY <1>1, <1>2, <1>5, <1>6, <1>7, <1>8, PodStays, PodMoveHolds

(* The roster is written; what comes next depends on the visibility the     *)
(* request has read.                                                        *)
LEMMA PutRosterHolds ==
    ASSUME ReposInv, NEW r \in Requests, PutRoster(r) \/ PutEmptyRoster(r)
    PROVE  ReposInv'
<1>1. /\ req[r].pc \in {"put", "empty"} /\ UNCHANGED <<local, torn, edits>> /\ PodTypes
      /\ req[r].kind \in {"add", "remove", "save"} /\ ~At(r, "idle")
      /\ At(r, "put") => req[r].kind \in {"add", "remove"}
      /\ At(r, "empty") => req[r].kind = "save"
      /\ req[r].seen \in Rosters
    BY PlaceOf, RequestIsRecord DEF PutRoster, PutEmptyRoster, ReposInv, At
<1>2. PodTypes'
    BY <1>1, NoOneIsTyped, PutsRosterIsTyped, PodStays DEF PutRoster, PutEmptyRoster, Writes
<1>3. CASE Fails(r)
    BY <1>1, <1>2, <1>3, FailsHolds
<1>4. CASE PutEmptyRoster(r) /\ ~Fails(r)
    <2>1. req[r].kind = "save" /\ AfterRoster(r) /\ UNCHANGED mishaps
        BY <1>1, <1>4 DEF PutEmptyRoster, Writes
    <2>2. \E pc \in {"pulls", "index"} : Goes(r, pc)
        BY <2>1 DEF AfterRoster
    <2> QED
        BY <1>1, <1>2, <2>1, <2>2, SaveGoes
<1>5. CASE PutRoster(r) /\ ~Fails(r)
    <2>1. /\ req[r].kind \in {"add", "remove"} /\ AfterRoster(r) /\ UNCHANGED mishaps
          /\ PutsRoster(req[r].seen) /\ req[r].pc = "put"
        BY <1>1, <1>5 DEF PutRoster, Writes, At
    <2>2. PICK pc \in {"pulls", "done"} :
              Goes(r, pc) /\ (req[r].repo.visibility = "private" => pc = "pulls")
        BY <2>1 DEF AfterRoster
    <2>3. roster' = req[r].seen
        BY <1>1, <2>1, PutsRosterIsTyped
    <2>4. pc \in Pcs
        BY DEF Pcs
    <2> DEFINE s == [req[r] EXCEPT !.pc = pc]
    <2>5. /\ req'[r] = s /\ s.pc = pc /\ s.kind = req[r].kind /\ s.repo = req[r].repo
          /\ s.who = req[r].who /\ s.role = req[r].role /\ s.seen = req[r].seen
          /\ s.alone = req[r].alone
        BY <2>2, <2>4, GoesIsSeen
    <2> HIDE DEF s
    <2>6. Flow(s)
        BY <2>1, <2>5 DEF Flow
    <2>7. req[r].alone => MembersDone(req[r])'
        BY <2>1, <2>2, <2>3, <2>5, PlaceOf DEF MembersDone, AsAsked
    <2>8. Flow([req[r] EXCEPT !.pc = pc])
        BY <2>6 DEF s
    <2> QED
        BY <1>1, <1>2, <2>1, <2>2, <2>4, <2>7, <2>8, GoesHolds
<1> QED
    BY <1>3, <1>4, <1>5

(* applyMemberAcls, for a change of the roster: each ACL is that of the     *)
(* roster it has written.                                                   *)
LEMMA MembersGo ==
    ASSUME ReposInv, NEW r \in Requests, req[r].kind \in {"add", "remove"},
           NEW pc \in {"pullsAcl", "membersAcl", "done"}, Goes(r, pc),
           req[r].pc \in {"pulls", "pullsAcl", "membersAcl"},
           UNCHANGED <<local, torn, edits, mishaps, roster>>, PodTypes',
           req[r].repo.visibility = "private" /\ pc \in {"membersAcl", "done"} =>
               acl'["pulls"] = OwnerAnd(DOMAIN req[r].seen),
           req[r].repo.visibility = "private" /\ pc = "done" =>
               acl'["members"] = OwnerAnd(DOMAIN req[r].seen)
    PROVE  ReposInv'
<1>1. pc \in Pcs /\ ~At(r, "idle")
    BY DEF Pcs, At
<1> DEFINE s == [req[r] EXCEPT !.pc = pc]
<1>2. /\ req'[r] = s /\ s.pc = pc /\ s.kind = req[r].kind /\ s.repo = req[r].repo
      /\ s.who = req[r].who /\ s.role = req[r].role /\ s.seen = req[r].seen
      /\ s.alone = req[r].alone
    BY <1>1, GoesIsSeen
<1> HIDE DEF s
<1>3. Flow(s)
    BY <1>2 DEF Flow
<1>4. req[r].alone => MembersDone(req[r])'
    BY <1>2, PlaceOf DEF MembersDone, AsAsked
<1>5. Flow([req[r] EXCEPT !.pc = pc])
    BY <1>3 DEF s
<1> QED
    BY <1>1, <1>4, <1>5, GoesHolds

(* The same of a pull request that was opened, of which nothing is said. *)
LEMMA PullGoes ==
    ASSUME ReposInv, NEW r \in Requests, req[r].kind = "pull",
           NEW pc \in {"read", "pullsAcl", "done"}, Goes(r, pc),
           UNCHANGED <<local, torn, edits, mishaps>>, PodTypes'
    PROVE  ReposInv'
<1>1. pc \in Pcs /\ ~At(r, "idle")
    BY PlaceOf, IdleIsTyped DEF Pcs
<1>2. Flow([req[r] EXCEPT !.pc = pc])
    BY <1>1, GoesIsSeen DEF Flow
<1> QED
    BY <1>1, <1>2, GoesHolds

LEMMA AclStepHolds ==
    ASSUME ReposInv, NEW r \in Requests, EnsurePulls(r) \/ SetPullsAcl(r) \/ SetMembersAcl(r)
    PROVE  ReposInv'
<1>1. /\ req[r].pc \in {"pulls", "pullsAcl", "membersAcl"} /\ UNCHANGED <<local, torn, edits>>
      /\ PodTypes /\ ~At(r, "idle") /\ req[r].kind \in {"add", "remove", "pull", "save"}
      /\ At(r, "membersAcl") => req[r].kind # "pull"
      /\ req[r].seen \in Rosters /\ {"pulls", "members"} \subseteq Resources
    BY PlaceOf, RequestIsRecord
    DEF EnsurePulls, SetPullsAcl, SetMembersAcl, EnsureContainer, SetAcl, ReposInv, At, Resources
<1> DEFINE value == VisibilityAcl(req[r].repo, req[r].seen)
<1>2. value \in Acls /\ (req[r].repo.visibility = "private" => value = OwnerAnd(DOMAIN req[r].seen))
    BY <1>1, VisibilityAclIsTyped DEF VisibilityAcl
<1> HIDE DEF value
<1>3. PodTypes'
    <2>1. CASE EnsurePulls(r)
        BY <1>1, <2>1, AclsAreTyped, SetsAclIsTyped, PodStays
        DEF EnsurePulls, EnsureContainer, Writes
    <2>2. CASE SetPullsAcl(r)
        BY <1>1, <1>2, <2>2, SetsAclIsTyped, PodStays DEF SetPullsAcl, SetAcl, Writes, value
    <2>3. CASE SetMembersAcl(r)
        BY <1>1, <1>2, <2>3, SetsAclIsTyped, PodStays DEF SetMembersAcl, SetAcl, Writes, value
    <2> QED
        BY <2>1, <2>2, <2>3
<1>4. CASE Fails(r)
    BY <1>1, <1>3, <1>4, FailsHolds
<1>5. CASE EnsurePulls(r) /\ ~Fails(r)
    <2>1. /\ UNCHANGED mishaps
          /\ UNCHANGED roster
          /\ \E pc \in {"read", "pullsAcl", "done"} :
                Goes(r, pc) /\ (req[r].kind # "pull" => pc = "pullsAcl")
          /\ At(r, "pulls")
        BY <1>5 DEF EnsurePulls, EnsureContainer, Writes, SetsAcl, pod
    <2>2. CASE req[r].kind = "pull"
        BY <1>1, <1>3, <2>1, <2>2, PullGoes
    <2>3. CASE req[r].kind # "pull"
        <3>1. Goes(r, "pullsAcl")
            BY <2>1, <2>3
        <3>2. CASE req[r].kind = "save"
            BY <1>1, <1>3, <2>1, <3>1, <3>2, SaveGoes
        <3>3. CASE req[r].kind \in {"add", "remove"}
            BY <1>1, <1>3, <2>1, <3>1, <3>3, MembersGo
        <3> QED
            BY <1>1, <2>3, <3>2, <3>3
    <2> QED
        BY <2>2, <2>3
<1>6. CASE SetPullsAcl(r) /\ ~Fails(r)
    <2>1. /\ UNCHANGED mishaps /\ SetsAcl("pulls", value)
          /\ Goes(r, IF req[r].kind = "pull" THEN "done" ELSE "membersAcl")
        BY <1>6 DEF SetPullsAcl, SetAcl, Writes, value
    <2>2. acl'["pulls"] = value /\ UNCHANGED roster
        BY <1>1, <1>2, <2>1, SetsAclIsTyped
    <2>3. CASE req[r].kind = "pull"
        BY <1>1, <1>3, <2>1, <2>3, PullGoes
    <2>4. CASE req[r].kind # "pull"
        <3>1. Goes(r, "membersAcl")
            BY <2>1, <2>4
        <3>2. CASE req[r].kind = "save"
            BY <1>1, <1>3, <2>1, <3>1, <3>2, SaveGoes
        <3>3. CASE req[r].kind \in {"add", "remove"}
            BY <1>1, <1>2, <1>3, <2>1, <2>2, <3>1, <3>3, MembersGo
        <3> QED
            BY <1>1, <2>4, <3>2, <3>3
    <2> QED
        BY <2>3, <2>4
<1>7. CASE SetMembersAcl(r) /\ ~Fails(r)
    <2>1. /\ UNCHANGED mishaps /\ SetsAcl("members", value) /\ At(r, "membersAcl")
          /\ Goes(r, IF req[r].kind = "save" THEN "index" ELSE "done")
        BY <1>7 DEF SetMembersAcl, SetAcl, Writes, value
    <2>2. acl'["members"] = value /\ acl'["pulls"] = acl["pulls"] /\ UNCHANGED roster
        BY <1>1, <1>2, <2>1, SetsAclIsTyped
    <2>3. CASE req[r].kind = "save"
        BY <1>1, <1>3, <2>1, <2>3, SaveGoes
    <2>4. CASE req[r].kind \in {"add", "remove"} /\ req[r].alone
        <3>1. req[r].repo.visibility = "private" => acl["pulls"] = OwnerAnd(DOMAIN req[r].seen)
            BY <2>1, <2>4, PlaceOf DEF MembersDone, At
        <3> QED
            BY <1>1, <1>2, <1>3, <2>1, <2>2, <2>4, <3>1, MembersGo
    <2>5. CASE req[r].kind \in {"add", "remove"} /\ ~req[r].alone
        <3>1. Goes(r, "done") /\ "done" \in Pcs
            BY <2>1, <2>5 DEF Pcs
        <3>2. Flow([req[r] EXCEPT !.pc = "done"])
            BY <2>5, <3>1, GoesIsSeen DEF Flow
        <3> QED
            BY <1>1, <1>3, <2>1, <2>5, <3>1, <3>2, GoesHolds
    <2> QED
        BY <1>1, <2>1, <2>3, <2>4, <2>5
<1> QED
    BY <1>4, <1>5, <1>6, <1>7

(* The request is answered, or over. *)
LEMMA AnswerHolds ==
    ASSUME ReposInv, NEW r \in Requests, Answer(r)
    PROVE  ReposInv'
<1>1. /\ ~At(r, "idle") /\ req[r].kind \notin {"create", "delete"}
      /\ req \in [Requests -> RequestStates] /\ PodTypes
      /\ UNCHANGED <<local, pod, torn, bounds>>
    BY PlaceOf DEF Answer, At, ReposInv, ReqTypes
<1>2. req' = [req EXCEPT ![r] = Idle] /\ req'[r] = Idle
    BY <1>1 DEF Answer, Ends
<1> QED
    BY <1>1, <1>2, IdleIsTyped, OverIsFree, PodStays, PodMoveHolds DEF bounds

-----------------------------------------------------------------------------
(* A request begins: it is alone if all others are idle, and no other is    *)
(* alone any more.                                                          *)
LEMMA AloneUpdate ==
    ASSUME NEW s \in RequestStates, NEW a \in BOOLEAN
    PROVE  LET t == [s EXCEPT !.alone = a] IN
           /\ t \in RequestStates /\ t.alone = a /\ t.pc = s.pc /\ t.kind = s.kind
           /\ t.repo = s.repo /\ t.who = s.who /\ t.role = s.role /\ t.seen = s.seen
           /\ (Flow(s) /\ s.kind # "none" => Flow(t))
<1> DEFINE t == [s EXCEPT !.alone = a]
<1>1. /\ t \in RequestStates /\ t.alone = a /\ t.pc = s.pc /\ t.kind = s.kind
      /\ t.repo = s.repo /\ t.who = s.who /\ t.role = s.role /\ t.seen = s.seen
    BY DEF RequestStates
<1> HIDE DEF t
<1>2. Flow(s) /\ s.kind # "none" => Flow(t)
    BY <1>1, IdleIsTyped DEF Flow
<1> QED
    BY <1>1, <1>2 DEF t

LEMMA BeginsEffect ==
    ASSUME ReposInv, NEW r \in Requests, NEW state \in RequestStates,
           Flow(state), state.kind # "none", Begins(r, state)
    PROVE  /\ ReqTypes'
           /\ req[r] = Idle
           /\ req'[r].pc = state.pc /\ req'[r].kind = state.kind /\ req'[r].repo = state.repo
           /\ req'[r].seen = state.seen /\ req'[r].who = state.who
           /\ \A q \in Requests \ {r} :
                 /\ req'[q].pc = req[q].pc /\ req'[q].kind = req[q].kind
                 /\ req'[q].repo = req[q].repo /\ ~req'[q].alone
           /\ req'[r].alone => \A q \in Requests \ {r} : req'[q].pc = "idle"
<1> DEFINE a == \A p \in Requests : At(p, "idle")
<1>0. a \in BOOLEAN /\ req[r] = Idle /\ req \in [Requests -> RequestStates]
    BY PlaceOf DEF Begins, ReposInv, ReqTypes
<1>1. /\ req'[r] = [state EXCEPT !.alone = a]
      /\ \A q \in Requests \ {r} :
            req'[q] = IF At(q, "idle") THEN req[q] ELSE [req[q] EXCEPT !.alone = FALSE]
      /\ req' = [q \in Requests |-> req'[q]]
    BY DEF Begins
<1>2. a => \A q \in Requests : req[q].pc = "idle"
    BY DEF At
<1> HIDE DEF a
<1>3. /\ req'[r] \in RequestStates /\ Flow(req'[r]) /\ req'[r].alone = a
      /\ req'[r].pc = state.pc /\ req'[r].kind = state.kind /\ req'[r].repo = state.repo
      /\ req'[r].seen = state.seen /\ req'[r].who = state.who
    BY <1>0, <1>1, AloneUpdate
<1>4. ASSUME NEW q \in Requests \ {r}
      PROVE  /\ req'[q] \in RequestStates /\ Flow(req'[q])
             /\ req'[q].pc = req[q].pc /\ req'[q].kind = req[q].kind
             /\ req'[q].repo = req[q].repo /\ ~req'[q].alone
    <2>1. req[q] \in RequestStates /\ Flow(req[q])
        BY RequestIsRecord DEF ReposInv
    <2>2. CASE At(q, "idle")
        BY <1>1, <2>1, <2>2, PlaceOf, IdleIsTyped
    <2>3. CASE ~At(q, "idle")
        <3>1. req'[q] = [req[q] EXCEPT !.alone = FALSE]
            BY <1>1, <2>3
        <3>2. req[q].kind # "none"
            BY <2>1, <2>3, IdleIsTyped DEF Flow, At
        <3> DEFINE t == [req[q] EXCEPT !.alone = FALSE]
        <3>3. /\ t \in RequestStates /\ Flow(t) /\ t.pc = req[q].pc /\ t.kind = req[q].kind
              /\ t.repo = req[q].repo /\ t.alone = FALSE
            BY <2>1, <3>2, AloneUpdate, Zenon
        <3> HIDE DEF t
        <3>4. req'[q] = t
            BY <3>1 DEF t
        <3> QED
            BY <3>3, <3>4
    <2> QED
        BY <2>2, <2>3
<1>5. ReqTypes'
    BY <1>1, <1>3, <1>4 DEF ReqTypes
<1> QED
    BY <1>0, <1>2, <1>3, <1>4, <1>5

(* The state in which a request begins. *)
Fresh(pc, kind, repo) == [Idle EXCEPT !.pc = pc, !.kind = kind, !.repo = repo]
FreshAsk(kind, repo, m, role) ==
    [Idle EXCEPT !.pc = "read", !.kind = kind, !.repo = repo, !.who = {m}, !.role = role]

LEMMA FreshIsTyped ==
    ASSUME NEW pc \in Pcs, NEW kind \in {"create", "save", "delete", "add", "remove", "pull"},
           NEW repo \in Repo
    PROVE  /\ Fresh(pc, kind, repo) \in RequestStates
           /\ Fresh(pc, kind, repo).pc = pc
           /\ Fresh(pc, kind, repo).kind = kind
           /\ Fresh(pc, kind, repo).repo = repo
<1> DEFINE t == [Idle EXCEPT !.pc = pc]
           u == [t EXCEPT !.kind = kind]
           v == [u EXCEPT !.repo = repo]
<1>1. t \in RequestStates /\ t.pc = pc
    BY IdleIsTyped, PcUpdate
<1> HIDE DEF t
<1>2. u \in RequestStates /\ u.pc = pc /\ u.kind = kind
    BY <1>1 DEF RequestStates
<1> HIDE DEF u
<1>3. v \in RequestStates /\ v.pc = pc /\ v.kind = kind /\ v.repo = repo
    <2>1. repo \in Repo \cup {NoRow}
        OBVIOUS
    <2> QED
        BY <1>2, <2>1 DEF RequestStates
<1>4. Fresh(pc, kind, repo) = v
    BY DEF Fresh, t, u
<1> QED
    BY <1>3, <1>4

LEMMA AskIsTyped ==
    ASSUME NEW kind \in {"add", "remove"}, NEW repo \in Repo, NEW m \in Members,
           NEW role \in Roles
    PROVE  /\ FreshAsk(kind, repo, m, role) \in RequestStates
           /\ FreshAsk(kind, repo, m, role).pc = "read"
           /\ FreshAsk(kind, repo, m, role).kind = kind
<1> DEFINE t == Fresh("read", kind, repo)
           Who == {{}} \cup {{n} : n \in Members}
           w == {m}
<1>1. t \in RequestStates /\ t.pc = "read" /\ t.kind = kind
    <2>1. "read" \in Pcs /\ kind \in {"create", "save", "delete", "add", "remove", "pull"}
        BY DEF Pcs
    <2> QED
        BY <2>1, FreshIsTyped
<1>2. w \in Who
    OBVIOUS
<1> HIDE DEF t, w
<1>3. [t EXCEPT !.who = w] \in RequestStates
    <2>1. t \in [pc : Pcs, kind : {"none", "create", "save", "delete", "add", "remove", "pull"},
                 repo : Repo \cup {NoRow}, who : Who, role : Roles, seen : Rosters,
                 alone : BOOLEAN, again : BOOLEAN]
        BY <1>1 DEF RequestStates, Pcs
    <2> HIDE DEF Who
    <2>2. [t EXCEPT !.who = w] \in
                [pc : Pcs, kind : {"none", "create", "save", "delete", "add", "remove", "pull"},
                 repo : Repo \cup {NoRow}, who : Who, role : Roles, seen : Rosters,
                 alone : BOOLEAN, again : BOOLEAN]
        BY <1>2, <2>1
    <2> QED
        BY <2>2 DEF RequestStates, Pcs, Who
<1> DEFINE u == [t EXCEPT !.who = w]
<1>4. u \in RequestStates /\ u.pc = "read" /\ u.kind = kind
    BY <1>1, <1>3 DEF RequestStates
<1> HIDE DEF u
<1>5. LET s == [u EXCEPT !.role = role] IN s \in RequestStates /\ s.pc = "read" /\ s.kind = kind
    BY <1>4 DEF RequestStates
<1>6. [u EXCEPT !.role = role] = FreshAsk(kind, repo, m, role)
    BY DEF u, t, w, Fresh, FreshAsk
<1> QED
    BY <1>5, <1>6

(* A request begins that leaves the row's id and the directory alone, and   *)
(* neither creates nor deletes.                                             *)
LEMMA BeginsHolds ==
    ASSUME ReposInv, NEW r \in Requests, NEW state \in RequestStates, Begins(r, state),
           Flow(state), state.kind \in {"save", "add", "remove", "pull"},
           LocalTypes', row # NoRow, row' # NoRow, row'.id = row.id,
           UNCHANGED <<dir, pod, torn, mishaps>>, Edit,
           state.kind = "save" => row' = state.repo /\ state.pc # "done",
           state.kind \in {"add", "remove"} => state.pc = "read"
    PROVE  ReposInv'
<1>1. state.kind # "none"
    OBVIOUS
<1>2. /\ ReqTypes' /\ req[r] = Idle
      /\ req'[r].pc = state.pc /\ req'[r].kind = state.kind /\ req'[r].repo = state.repo
      /\ \A q \in Requests \ {r} :
            /\ req'[q].pc = req[q].pc /\ req'[q].kind = req[q].kind
            /\ req'[q].repo = req[q].repo /\ ~req'[q].alone
      /\ req'[r].alone => \A q \in Requests \ {r} : req'[q].pc = "idle"
    BY <1>1, BeginsEffect
<1>3. Counted' /\ PodTypes'
    BY CountedStays, PodStays DEF ReposInv
<1>4. ~torn' => DirInv'
    <2>1. Creating' = Creating /\ Deleting' = Deleting
        BY <1>2, IdleIsTyped DEF Creating, Deleting
    <2>2. \A q \in Requests : At(q, "hook")' => At(q, "hook")
        BY <1>2, IdleIsTyped DEF At, Flow
    <2>3. \A q \in Creating \cup Deleting : /\ req'[q].repo = req[q].repo
                                           /\ req'[q].pc = req[q].pc
        BY <1>2, IdleIsTyped DEF Creating, Deleting
    <2> QED
        BY <2>1, <2>2, <2>3 DEF ReposInv, DirInv, At
<1>5. AllAlone'
    <2>1. ASSUME req'[r].alone PROVE AloneInv(r)'
        BY <1>2, <2>1 DEF AloneInv, At, MembersDone
    <2> QED
        BY <1>2, <2>1 DEF AllAlone, AloneInv
<1> QED
    BY <1>2, <1>3, <1>4, <1>5 DEF ReposInv

LEMMA PatchHolds ==
    ASSUME ReposInv, NEW r \in Requests, NEW v \in Visibilities, Patch(r, v)
    PROVE  ReposInv'
<1>1. /\ row \in Repo \cup {NoRow} /\ row # NoRow /\ row' = [row EXCEPT !.visibility = v]
      /\ LocalTypes /\ UNCHANGED <<created, dir, torn>>
    BY DEF ReposInv, LocalTypes, Patch, Update
<1>2. row \in Repo /\ row' \in Repo /\ row'.id = row.id /\ NoRow.id = 0 /\ row'.id \in 1 .. MaxRepos
    BY <1>1, BoundsAreNatural DEF Repo, NoRow
<1>3. LocalTypes' /\ row' # NoRow
    <2>1. torn' \in BOOLEAN /\ dir' \in {"none", "bare", "whole"} /\ created' \in 0 .. MaxRepos
        BY <1>1 DEF LocalTypes
    <2>2. row'.id <= created' /\ row'.id # 0
        BY <1>1, <1>2, BoundsAreNatural DEF LocalTypes
    <2> QED
        BY <1>2, <2>1, <2>2 DEF LocalTypes
<1> DEFINE state == Fresh("codespaces", "save", row')
<1>4. "codespaces" \in Pcs
    BY DEF Pcs
<1>5. state \in RequestStates /\ state.pc = "codespaces" /\ state.kind = "save" /\ state.repo = row'
    BY <1>2, <1>4, FreshIsTyped
<1>6. Begins(r, state)
    BY DEF Patch, Fresh
<1> HIDE DEF state
<1>7. Flow(state)
    BY <1>5 DEF Flow
<1> QED
    BY <1>1, <1>2, <1>3, <1>5, <1>6, <1>7, BeginsHolds DEF Patch

LEMMA AskHolds ==
    ASSUME ReposInv, NEW r \in Requests,
           \/ OpenPull(r)
           \/ \E kind \in {"add", "remove"}, m \in Members, role \in Roles : Ask(r, kind, m, role)
    PROVE  ReposInv'
<1>1. /\ row \in Repo /\ LocalTypes /\ row # NoRow /\ UNCHANGED <<local, pod, torn, mishaps>> /\ Edit
    BY DEF ReposInv, LocalTypes, OpenPull, Ask
<1>2. LocalTypes' /\ row' = row
    BY <1>1 DEF LocalTypes, local
<1>3. CASE OpenPull(r)
    <2> DEFINE state == Fresh("pulls", "pull", row)
    <2>1. "pulls" \in Pcs /\ "pull" \in {"create", "save", "delete", "add", "remove", "pull"}
        BY DEF Pcs
    <2>2. state \in RequestStates /\ state.pc = "pulls" /\ state.kind = "pull"
          /\ state.repo = row
        BY <1>1, <2>1, FreshIsTyped
    <2>3. Begins(r, state)
        BY <1>3 DEF OpenPull, Fresh
    <2> HIDE DEF state
    <2>4. Flow(state)
        BY <2>2 DEF Flow
    <2> QED
        BY <1>1, <1>2, <2>2, <2>3, <2>4, BeginsHolds DEF local
<1>4. ASSUME NEW kind \in {"add", "remove"}, NEW m \in Members, NEW role \in Roles,
             Ask(r, kind, m, role)
      PROVE  ReposInv'
    <2> DEFINE state == FreshAsk(kind, row, m, role)
    <2>1. row \in Repo /\ kind \in {"add", "remove"} /\ m \in Members /\ role \in Roles
        BY <1>1
    <2>2. state \in RequestStates /\ state.pc = "read" /\ state.kind = kind
        BY <2>1, AskIsTyped
    <2>3. Begins(r, state)
        BY <1>4 DEF Ask, FreshAsk
    <2> HIDE DEF state
    <2>4. Flow(state)
        BY <2>2 DEF Flow
    <2> QED
        BY <1>1, <1>2, <2>2, <2>3, <2>4, BeginsHolds DEF local
<1> QED
    BY <1>3, <1>4

-----------------------------------------------------------------------------
(* A create or a delete begins: nothing was torn if there is none of the    *)
(* other kind.                                                              *)
LEMMA CreateHolds ==
    ASSUME ReposInv, NEW r \in Requests, NEW v \in Visibilities, Create(r, v)
    PROVE  ReposInv'
<1>1. /\ row = NoRow /\ created < MaxRepos /\ row' = [id |-> created + 1, visibility |-> v]
      /\ created' = created + 1 /\ torn' = (torn \/ Deleting # {})
      /\ UNCHANGED <<dir, pod, bounds>> /\ LocalTypes
    BY DEF ReposInv, Create, Insert
<1>2. row' \in Repo /\ row'.id = created + 1 /\ created + 1 \in 1 .. MaxRepos
    BY <1>1, BoundsAreNatural DEF Repo, LocalTypes
<1>3. LocalTypes' /\ row' # NoRow
    <2>1. torn' \in BOOLEAN
        BY <1>1 DEF LocalTypes
    <2>2. created' \in 0 .. MaxRepos /\ row'.id <= created' /\ dir' \in {"none", "bare", "whole"}
        BY <1>1, <1>2, BoundsAreNatural DEF LocalTypes
    <2>3. NoRow.id = 0 /\ row'.id # 0
        BY <1>2, BoundsAreNatural DEF NoRow
    <2> QED
        BY <1>2, <2>1, <2>2, <2>3 DEF LocalTypes
<1> DEFINE state == Fresh("git", "create", row')
<1>4. "git" \in Pcs
    BY DEF Pcs
<1>5. state \in RequestStates /\ state.pc = "git" /\ state.kind = "create" /\ state.repo = row'
    BY <1>2, <1>4, FreshIsTyped
<1>6. Begins(r, state)
    BY DEF Create, Fresh
<1> HIDE DEF state
<1>7. Flow(state)
    BY <1>5 DEF Flow
<1>8. /\ ReqTypes' /\ req[r] = Idle
      /\ req'[r].pc = "git" /\ req'[r].kind = "create" /\ req'[r].repo = row'
      /\ \A q \in Requests \ {r} :
            /\ req'[q].pc = req[q].pc /\ req'[q].kind = req[q].kind
            /\ req'[q].repo = req[q].repo /\ ~req'[q].alone
      /\ req'[r].alone => \A q \in Requests \ {r} : req'[q].pc = "idle"
    BY <1>5, <1>6, <1>7, BeginsEffect
<1>9. Counted' /\ PodTypes'
    BY <1>1, PodStays DEF ReposInv, Counted, bounds
<1>10. ASSUME ~torn' PROVE DirInv'
    <2>1. DirInv /\ Deleting = {} /\ Creating = {}
        BY <1>1, <1>10 DEF ReposInv, DirInv
    <2>2. Creating' = {r} /\ Deleting' = {}
        BY <1>8, <2>1, IdleIsTyped DEF Creating, Deleting
    <2>3. \A q \in Requests : At(q, "hook")' => FALSE
        BY <1>8, <2>1, PlaceOf DEF At, Creating
    <2> QED
        BY <1>3, <1>8, <2>2, <2>3 DEF DirInv
<1>11. AllAlone'
    <2>1. ASSUME req'[r].alone PROVE AloneInv(r)'
        BY <1>8, <2>1 DEF AloneInv, At
    <2> QED
        BY <1>8, <2>1 DEF AllAlone, AloneInv
<1> QED
    BY <1>3, <1>8, <1>9, <1>10, <1>11 DEF ReposInv

LEMMA AskDeleteHolds ==
    ASSUME ReposInv, NEW r \in Requests, AskDelete(r)
    PROVE  ReposInv'
<1>1. /\ row \in Repo /\ row # NoRow /\ torn' = (torn \/ Creating # {})
      /\ UNCHANGED <<local, pod, mishaps>> /\ LocalTypes /\ Edit
    BY DEF ReposInv, LocalTypes, AskDelete
<1>2. LocalTypes' /\ row' = row /\ dir' = dir
    <2>1. torn' \in BOOLEAN
        BY <1>1 DEF LocalTypes
    <2> QED
        BY <1>1, <2>1 DEF LocalTypes, local
<1> DEFINE state == Fresh("body", "delete", row)
<1>3. "body" \in Pcs
    BY DEF Pcs
<1>4. state \in RequestStates /\ state.pc = "body" /\ state.kind = "delete" /\ state.repo = row
    BY <1>1, <1>3, FreshIsTyped
<1>5. Begins(r, state)
    BY DEF AskDelete, Fresh
<1> HIDE DEF state
<1>6. Flow(state)
    BY <1>4 DEF Flow
<1>7. /\ ReqTypes' /\ req[r] = Idle
      /\ req'[r].pc = "body" /\ req'[r].kind = "delete" /\ req'[r].repo = row
      /\ \A q \in Requests \ {r} :
            /\ req'[q].pc = req[q].pc /\ req'[q].kind = req[q].kind
            /\ req'[q].repo = req[q].repo /\ ~req'[q].alone
      /\ req'[r].alone => \A q \in Requests \ {r} : req'[q].pc = "idle"
    BY <1>4, <1>5, <1>6, BeginsEffect
<1>8. Counted' /\ PodTypes'
    BY <1>1, CountedStays, PodStays DEF ReposInv
<1>9. ASSUME ~torn' PROVE DirInv'
    <2>1. DirInv /\ Creating = {}
        BY <1>1, <1>9 DEF ReposInv
    <2>2. Creating' = {} /\ Deleting' = Deleting \cup {r}
        BY <1>7, <2>1, IdleIsTyped DEF Creating, Deleting
    <2>3. \A q \in Requests : At(q, "hook")' => FALSE
        BY <1>7, <2>1, PlaceOf DEF At, Creating
    <2>4. \A q \in Deleting' : At(q, "body")' /\ row'.id = req'[q].repo.id
        BY <1>1, <1>2, <1>7, <2>1, <2>2 DEF DirInv, At, Deleting
    <2>5. dir' = "whole"
        BY <1>1, <1>2, <2>1 DEF DirInv
    <2> QED
        BY <2>2, <2>3, <2>4, <2>5 DEF DirInv
<1>10. AllAlone'
    <2>1. ASSUME req'[r].alone PROVE AloneInv(r)'
        BY <1>7, <2>1 DEF AloneInv, At
    <2> QED
        BY <1>7, <2>1 DEF AllAlone, AloneInv
<1> QED
    BY <1>2, <1>7, <1>8, <1>9, <1>10 DEF ReposInv

(* A create or a delete goes on, and the row or the directory with it. *)
LEMMA OwnMoveHolds ==
    ASSUME ReposInv, NEW r \in Requests, NEW s \in RequestStates, Flow(s), ~At(r, "idle"),
           req' = [req EXCEPT ![r] = s], UNCHANGED <<pod, edits>>,
           (UNCHANGED mishaps) \/ Mishap,
           LocalTypes', ~torn' => DirInv', AloneInv(r)'
    PROVE  ReposInv'
<1>1. Counted' /\ PodTypes'
    BY CountedStays, PodStays DEF ReposInv
<1>2. ReqTypes'
    BY DEF ReposInv, ReqTypes
<1>3. /\ req'[r] = s /\ \A q \in Requests \ {r} : req'[q] = req[q]
    BY DEF ReposInv, ReqTypes
<1>4. ASSUME NEW q \in Requests \ {r} PROVE AloneInv(q)'
    <2>1. ~req[q].alone
        BY DEF ReposInv, AllAlone, AloneInv
    <2> QED
        BY <1>3, <2>1 DEF AloneInv
<1> QED
    BY <1>1, <1>2, <1>4 DEF ReposInv, AllAlone

(* createBareRepo failed: the row is taken back, if it is still the one     *)
(* that was inserted; nothing else creates or deletes if nothing was torn.  *)
LEMMA RollBackHolds ==
    ASSUME ReposInv, NEW r \in Requests, At(r, "git") \/ At(r, "hook"), RollBack(r),
           UNCHANGED <<created, pod, torn, edits>>, (UNCHANGED mishaps) \/ Mishap,
           dir' \in {"none", "bare", "whole"}
    PROVE  ReposInv'
<1>1. /\ req[r].kind = "create" /\ ~At(r, "idle") /\ req \in [Requests -> RequestStates]
      /\ LocalTypes
    BY PlaceOf DEF ReposInv, ReqTypes, At
<1>2. /\ req' = [req EXCEPT ![r] = Idle] /\ req'[r] = Idle
      /\ \A q \in Requests \ {r} : req'[q] = req[q]
    BY <1>1 DEF RollBack, Ends
<1>3. LocalTypes'
    <2>1. NoRow.id = 0 /\ row' \in {row, NoRow}
        BY DEF NoRow, RollBack
    <2>2. torn' \in BOOLEAN /\ created' \in 0 .. MaxRepos
        BY <1>1 DEF LocalTypes
    <2>3. row' \in Repo \cup {NoRow} /\ row'.id <= created'
        BY <1>1, <2>1, BoundsAreNatural DEF LocalTypes
    <2> QED
        BY <2>2, <2>3 DEF LocalTypes
<1>4. ASSUME ~torn' PROVE DirInv'
    <2>1. DirInv /\ r \in Creating
        BY <1>1, <1>4 DEF ReposInv, Creating
    <2>2. Creating = {r} /\ Deleting = {} /\ row.id = req[r].repo.id
        BY <2>1 DEF DirInv
    <2>3. Creating' = {} /\ Deleting' = {} /\ row' = NoRow
        BY <1>2, <2>2, IdleIsTyped DEF Creating, Deleting, RollBack
    <2>4. \A q \in Requests : At(q, "hook")' => FALSE
        BY <1>2, <2>2, PlaceOf, IdleIsTyped DEF At, Creating
    <2> QED
        BY <2>3, <2>4 DEF DirInv
<1> QED
    BY <1>1, <1>2, <1>3, <1>4, IdleIsTyped, OverIsFree, OwnMoveHolds

LEMMA GitInitHolds ==
    ASSUME ReposInv, NEW r \in Requests, GitInit(r)
    PROVE  ReposInv'
<1>1. /\ At(r, "git") /\ ~At(r, "idle") /\ req[r].kind = "create" /\ LocalTypes
      /\ UNCHANGED <<created, pod, torn, edits>> /\ req \in [Requests -> RequestStates]
      /\ dir' = (IF dir = "none" THEN "bare" ELSE dir)
    BY PlaceOf DEF ReposInv, ReqTypes, At, GitInit
<1>2. dir' \in {"none", "bare", "whole"} /\ dir' # "none"
    BY <1>1 DEF LocalTypes
<1>3. CASE Goes(r, "hook") /\ UNCHANGED <<row, mishaps>>
    <2> DEFINE s == [req[r] EXCEPT !.pc = "hook"]
    <2>1. "hook" \in Pcs
        BY DEF Pcs
    <2>2. /\ req'[r] = s /\ s.pc = "hook" /\ s.kind = "create" /\ s.repo = req[r].repo
          /\ s.alone = req[r].alone
        BY <1>1, <1>3, <2>1, GoesIsSeen
    <2>3. s \in RequestStates /\ req' = [req EXCEPT ![r] = s]
        BY <1>1, <1>3, <2>1, RequestIsRecord, PcUpdate DEF Goes
    <2> HIDE DEF s
    <2>4. \A q \in Requests \ {r} : req'[q] = req[q]
        BY <1>1, <2>3
    <2>5. LocalTypes'
        <3>1. torn' \in BOOLEAN
            BY <1>1 DEF LocalTypes
        <3> QED
            BY <1>1, <1>2, <1>3, <3>1 DEF LocalTypes
    <2>6. ASSUME ~torn' PROVE DirInv'
        <3>1. DirInv /\ r \in Creating
            BY <1>1, <2>6 DEF ReposInv, Creating
        <3>2. Creating = {r} /\ Deleting = {} /\ row.id = req[r].repo.id /\ row # NoRow
            BY <3>1 DEF DirInv
        <3>3. Creating' = Creating /\ Deleting' = Deleting
            BY <1>1, <2>2, <2>4 DEF Creating, Deleting
        <3> QED
            BY <1>2, <1>3, <2>2, <3>2, <3>3 DEF DirInv
    <2>7. AloneInv(r)'
        <3>1. AloneInv(r)
            BY DEF ReposInv, AllAlone
        <3> QED
            BY <1>1, <1>3, <2>2, <2>4, <3>1 DEF AloneInv, At
    <2>8. Flow(s)
        BY <2>2 DEF Flow
    <2> QED
        BY <1>1, <1>3, <2>3, <2>5, <2>6, <2>7, <2>8, OwnMoveHolds
<1>4. CASE Mishap /\ RollBack(r)
    BY <1>1, <1>2, <1>4, RollBackHolds
<1> QED
    BY <1>3, <1>4 DEF GitInit

LEMMA InstallHookHolds ==
    ASSUME ReposInv, NEW r \in Requests, InstallHook(r)
    PROVE  ReposInv'
<1>1. /\ At(r, "hook") /\ ~At(r, "idle") /\ req[r].kind = "create" /\ LocalTypes
      /\ UNCHANGED <<created, pod, torn, edits>> /\ req \in [Requests -> RequestStates]
      /\ dir \in {"none", "bare", "whole"}
    BY PlaceOf DEF ReposInv, ReqTypes, LocalTypes, At, InstallHook
<1>2. CASE /\ dir # "none" /\ dir' = "whole" /\ Saves(r, req[r].repo)
           /\ UNCHANGED <<row, mishaps>>
    <2> DEFINE t == [req[r] EXCEPT !.pc = "codespaces"]
               u == [t EXCEPT !.kind = "save"]
               s == [u EXCEPT !.repo = req[r].repo]
    <2>1. "codespaces" \in Pcs /\ req[r] \in RequestStates /\ req[r].repo \in Repo \cup {NoRow}
        BY RequestIsRecord DEF Pcs, ReposInv
    <2>2. req' = [req EXCEPT ![r] = s]
        BY <1>2 DEF Saves
    <2>3. /\ t \in RequestStates /\ t.pc = "codespaces" /\ t.repo = req[r].repo
          /\ t.alone = req[r].alone
        BY <2>1, PcUpdate
    <2> HIDE DEF t
    <2>4. /\ u \in RequestStates /\ u.pc = "codespaces" /\ u.kind = "save"
          /\ u.repo = req[r].repo /\ u.alone = req[r].alone
        BY <2>3 DEF RequestStates
    <2> HIDE DEF u
    <2>5. /\ s \in RequestStates /\ s.pc = "codespaces" /\ s.kind = "save"
          /\ s.repo = req[r].repo /\ s.alone = req[r].alone
        BY <2>1, <2>4 DEF RequestStates
    <2> HIDE DEF s
    <2>6. req'[r] = s /\ \A q \in Requests \ {r} : req'[q] = req[q]
        BY <1>1, <2>2
    <2>7. LocalTypes'
        <3>1. torn' \in BOOLEAN
            BY <1>1 DEF LocalTypes
        <3> QED
            BY <1>1, <1>2, <3>1 DEF LocalTypes
    <2>8. ASSUME ~torn' PROVE DirInv'
        <3>1. DirInv /\ r \in Creating
            BY <1>1, <2>8 DEF ReposInv, Creating
        <3>2. Creating = {r} /\ Deleting = {}
            BY <3>1 DEF DirInv
        <3>3. Creating' = {} /\ Deleting' = {}
            BY <2>5, <2>6, <3>2 DEF Creating, Deleting
        <3> QED
            BY <1>2, <3>3 DEF DirInv
    <2>9. AloneInv(r)'
        <3>1. AloneInv(r)
            BY DEF ReposInv, AllAlone
        <3> QED
            BY <1>1, <1>2, <2>5, <2>6, <3>1 DEF AloneInv, At
    <2>10. Flow(s)
        BY <2>5 DEF Flow
    <2> QED
        BY <1>1, <1>2, <2>2, <2>5, <2>7, <2>8, <2>9, <2>10, OwnMoveHolds
<1>3. CASE RollBack(r) /\ UNCHANGED dir /\ ((UNCHANGED mishaps) \/ Mishap)
    BY <1>1, <1>3, RollBackHolds
<1> QED
    BY <1>2, <1>3 DEF InstallHook

LEMMA DeleteRowHolds ==
    ASSUME ReposInv, NEW r \in Requests, DeleteRow(r)
    PROVE  ReposInv'
<1>1. /\ At(r, "body") /\ ~At(r, "idle") /\ req[r].kind = "delete" /\ LocalTypes
      /\ UNCHANGED <<created, dir, pod, torn, bounds>> /\ req \in [Requests -> RequestStates]
      /\ row' = (IF row.id = req[r].repo.id THEN NoRow ELSE row) /\ Goes(r, "rm")
    BY DEF ReposInv, ReqTypes, At, DeleteRow
<1> DEFINE s == [req[r] EXCEPT !.pc = "rm"]
<1>2. "rm" \in Pcs
    BY DEF Pcs
<1>3. /\ req'[r] = s /\ s.pc = "rm" /\ s.kind = "delete" /\ s.alone = req[r].alone
    BY <1>1, <1>2, GoesIsSeen
<1>4. s \in RequestStates /\ req' = [req EXCEPT ![r] = s]
    BY <1>1, <1>2, RequestIsRecord, PcUpdate DEF Goes, ReposInv
<1> HIDE DEF s
<1>5. \A q \in Requests \ {r} : req'[q] = req[q]
    BY <1>1, <1>4
<1>6. LocalTypes'
    <2>1. NoRow.id = 0 /\ row' \in {row, NoRow}
        BY <1>1 DEF NoRow
    <2>2. torn' \in BOOLEAN /\ created' \in 0 .. MaxRepos
        BY <1>1 DEF LocalTypes
    <2>3. row' \in Repo \cup {NoRow} /\ row'.id <= created'
        BY <1>1, <2>1, BoundsAreNatural DEF LocalTypes
    <2> QED
        BY <1>1, <2>2, <2>3 DEF LocalTypes
<1>7. ASSUME ~torn' PROVE DirInv'
    <2>1. DirInv /\ r \in Deleting
        BY <1>1, <1>7 DEF ReposInv, Deleting
    <2>2. Creating = {} /\ row' = NoRow
        BY <1>1, <2>1 DEF DirInv
    <2>3. Creating' = {}
        BY <1>3, <1>5, <2>2 DEF Creating
    <2>4. \A q \in Requests : At(q, "hook")' => FALSE
        BY <1>3, <1>5, <2>2, PlaceOf DEF At, Creating
    <2> QED
        BY <2>2, <2>3, <2>4 DEF DirInv
<1>8. AloneInv(r)'
    <2>1. AloneInv(r)
        BY DEF ReposInv, AllAlone
    <2> QED
        BY <1>3, <1>5, <2>1 DEF AloneInv, At
<1>9. Flow(s)
    BY <1>3 DEF Flow
<1> QED
    BY <1>1, <1>4, <1>6, <1>7, <1>8, <1>9, OwnMoveHolds DEF bounds

LEMMA RemoveDirHolds ==
    ASSUME ReposInv, NEW r \in Requests, RemoveDir(r)
    PROVE  ReposInv'
<1>1. /\ At(r, "rm") /\ ~At(r, "idle") /\ req[r].kind = "delete" /\ LocalTypes
      /\ UNCHANGED <<row, created, pod, torn, edits>> /\ req \in [Requests -> RequestStates]
      /\ (UNCHANGED mishaps) \/ Mishap
      /\ dir' \in {"none", dir}
    BY PlaceOf DEF ReposInv, ReqTypes, At, RemoveDir
<1>2. /\ req' = [req EXCEPT ![r] = Idle] /\ req'[r] = Idle
      /\ \A q \in Requests \ {r} : req'[q] = req[q]
    BY <1>1 DEF RemoveDir, Ends
<1>3. LocalTypes'
    <2>1. torn' \in BOOLEAN
        BY <1>1 DEF LocalTypes
    <2> QED
        BY <1>1, <2>1 DEF LocalTypes
<1>4. ASSUME ~torn' PROVE DirInv'
    <2>1. DirInv /\ r \in Deleting
        BY <1>1, <1>4 DEF ReposInv, Deleting
    <2>2. Creating = {} /\ row' = NoRow
        BY <1>1, <2>1 DEF DirInv, At
    <2>3. Creating' = {}
        BY <1>2, <2>2, IdleIsTyped DEF Creating
    <2>4. \A q \in Requests : At(q, "hook")' => FALSE
        BY <1>2, <2>2, PlaceOf, IdleIsTyped DEF At, Creating
    <2> QED
        BY <2>2, <2>3, <2>4 DEF DirInv
<1> QED
    BY <1>1, <1>2, <1>3, <1>4, IdleIsTyped, OverIsFree, OwnMoveHolds

LEMMA RestartHolds == ReposInv /\ Restart => ReposInv'
<1> SUFFICES ASSUME ReposInv, Restart PROVE ReposInv'
    OBVIOUS
<1>1. /\ LocalTypes /\ Mishap /\ req' = [r \in Requests |-> Idle]
      /\ torn' = (torn \/ \E r \in Requests : At(r, "git"))
      /\ dir' = (IF dir = "none" THEN "none" ELSE "whole")
      /\ UNCHANGED <<row, created, pod, edits>>
    BY DEF ReposInv, Restart
<1>2. LocalTypes'
    <2>1. torn' \in BOOLEAN
        BY <1>1 DEF LocalTypes
    <2> QED
        BY <1>1, <2>1 DEF LocalTypes
<1>3. Counted' /\ PodTypes'
    BY <1>1, CountedStays, PodStays DEF ReposInv
<1>4. ReqTypes' /\ AllAlone'
    BY <1>1, IdleIsTyped DEF ReqTypes, AllAlone, AloneInv
<1>5. ASSUME ~torn' PROVE DirInv'
    <2>1. DirInv /\ \A r \in Requests : ~At(r, "git")
        BY <1>1, <1>5 DEF ReposInv
    <2>2. Creating' = {} /\ Deleting' = {} /\ \A q \in Requests : ~At(q, "hook")'
        BY <1>1, IdleIsTyped DEF Creating, Deleting, At
    <2>3. ASSUME row # NoRow PROVE dir # "none"
        <3>1. CASE Creating = {}
            BY <2>1, <2>3, <3>1 DEF DirInv
        <3>2. ASSUME NEW r \in Creating PROVE dir # "none"
            <4>1. Flow(req[r]) /\ req[r].kind = "create" /\ r \in Requests
                BY <3>2 DEF Creating, ReposInv, ReqTypes
            <4>2. At(r, "hook")
                BY <2>1, <4>1, IdleIsTyped DEF Flow, At
            <4> QED
                BY <2>1, <4>1, <4>2 DEF DirInv
        <3> QED
            BY <3>1, <3>2
    <2> QED
        BY <1>1, <2>2, <2>3 DEF DirInv
<1> QED
    BY <1>2, <1>3, <1>4, <1>5 DEF ReposInv

-----------------------------------------------------------------------------
LEMMA NextHolds == ReposInv /\ [Next]_vars => ReposInv'
<1> SUFFICES ASSUME ReposInv, [Next]_vars PROVE ReposInv'
    OBVIOUS
<1>1. CASE UNCHANGED vars
    BY <1>1 DEF vars, local, pod, bounds, ReposInv, LocalTypes, Counted, PodTypes, ReqTypes,
                DirInv, AllAlone, AloneInv, MembersDone, AsAsked, Creating, Deleting, At
<1>2. ASSUME NEW r \in Requests, NEW v \in Visibilities, Create(r, v) \/ Patch(r, v)
      PROVE  ReposInv'
    BY <1>2, CreateHolds, PatchHolds
<1>3. ASSUME NEW r \in Requests, GitInit(r) \/ InstallHook(r)
      PROVE  ReposInv'
    BY <1>3, GitInitHolds, InstallHookHolds
<1>4. ASSUME NEW r \in Requests, AskDelete(r) \/ DeleteRow(r) \/ RemoveDir(r)
      PROVE  ReposInv'
    BY <1>4, AskDeleteHolds, DeleteRowHolds, RemoveDirHolds
<1>5. ASSUME NEW r \in Requests, NEW m \in Members,
             (\E role \in Roles : AskAdd(r, m, role)) \/ AskRemove(r, m)
      PROVE  ReposInv'
    BY <1>5, RolesAssumption, AskHolds DEF AskAdd, AskRemove
<1>6. ASSUME NEW r \in Requests, OpenPull(r) \/ ReadRoster(r) \/ PutRoster(r) \/ Answer(r)
      PROVE  ReposInv'
    BY <1>6, AskHolds, ReadRosterHolds, PutRosterHolds, AnswerHolds
<1>7. ASSUME NEW r \in Requests,
             \/ EnsureCodespaces(r) \/ SetPublicReadAcl(r) \/ EnsureInbox(r) \/ SetInboxAcl(r)
             \/ EnsureMembers(r) \/ PutEmptyRoster(r) \/ PutIndex(r)
      PROVE  ReposInv'
    BY <1>7, SaveStepHolds, PutRosterHolds
<1>8. ASSUME NEW r \in Requests, EnsurePulls(r) \/ SetPullsAcl(r) \/ SetMembersAcl(r)
      PROVE  ReposInv'
    BY <1>8, AclStepHolds
<1>9. CASE Restart
    BY <1>9, RestartHolds
<1> QED
    BY <1>1, <1>2, <1>3, <1>4, <1>5, <1>6, <1>7, <1>8, <1>9 DEF Next

(* The inductive invariant holds in every state. *)
THEOREM ReposInvariant == Spec => []ReposInv
BY InitHolds, NextHolds, PTL DEF Spec

(* The row, the directory, the pod and every request stay what they are     *)
(* said to be, and no row has an id that was not given out yet.             *)
THEOREM ReposTypes == Spec => []TypeOK
<1>1. ReposInv => TypeOK
    BY DEF ReposInv, LocalTypes, Counted, PodTypes, ReqTypes, TypeOK
<1> QED
    BY <1>1, ReposInvariant, PTL

(* A repository in the registry has its directory with the hook, whatever   *)
(* fails and whenever the bridge restarts, unless a create has overlapped   *)
(* a delete of the name or a restart has come before git init.              *)
THEOREM RowKeepsItsDirectory == Spec => []RowHasDir
<1>1. ReposInv => RowHasDir
    BY DEF ReposInv, DirInv, RowHasDir
<1> QED
    BY <1>1, ReposInvariant, PTL

(* An answered request that nothing overlapped has done what it was asked,  *)
(* in the roster, in both ACLs and in the index.                            *)
THEOREM AckIsKept == Spec => []AckedIsDone
<1>1. ReposInv => AckedIsDone
    <2> SUFFICES ASSUME ReposInv, NEW r \in Requests, At(r, "done"), req[r].alone
                 PROVE  /\ req[r].kind = "add" =>
                              \A m \in req[r].who : m \in DOMAIN roster /\ roster[m] = req[r].role
                        /\ req[r].kind = "remove" => DOMAIN roster \cap req[r].who = {}
                        /\ (req[r].kind \in {"add", "remove"}
                               /\ req[r].repo.visibility = "private") =>
                              /\ acl["pulls"] = OwnerAnd(DOMAIN roster)
                              /\ acl["members"] = acl["pulls"]
                        /\ req[r].kind = "save" => index = row.visibility
        BY DEF AckedIsDone
    <2>1. AloneInv(r) /\ req[r].pc = "done"
        BY DEF ReposInv, AllAlone, At
    <2>2. req[r].kind = "save" => index = row.visibility
        BY <2>1 DEF AloneInv, At
    <2>3. ASSUME req[r].kind \in {"add", "remove"}
          PROVE  /\ roster = req[r].seen /\ AsAsked(req[r])
                 /\ req[r].repo.visibility = "private" =>
                       /\ acl["pulls"] = OwnerAnd(DOMAIN roster)
                       /\ acl["members"] = acl["pulls"]
        BY <2>1, <2>3 DEF AloneInv, MembersDone
    <2> QED
        BY <2>2, <2>3 DEF AsAsked
<1> QED
    BY <1>1, ReposInvariant, PTL
=============================================================================
