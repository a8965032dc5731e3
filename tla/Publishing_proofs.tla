-------------------------- MODULE Publishing_proofs --------------------------
(***************************************************************************)
(* What fills the containers of a pod: the invariants of the package       *)
(* registry, of the uploads and of the previews, and the three of          *)
(* MCPublishing together.                                                  *)
(*                                                                         *)
(* Upload: publishDirectory for every set of uploaders, containers, names  *)
(* and trees and any number of failures, under the promise of its callers  *)
(* that uploads to one container take turns.  ExactPublish speaks of the   *)
(* end of an upload only; CallOK says what there is at every step before:  *)
(* that `kept` and `todo` together are the tree while it is PUT, and that  *)
(* afterwards `todo` has every name that is in the container and not among *)
(* the plain names kept.                                                   *)
(*                                                                         *)
(* Packages.  PackagesInv ties each request to what it relies on: a        *)
(* session has what was acknowledged of it, a write that is closing one    *)
(* begins with that, and one about to be indexed has its blob in the store.*)
(* The other requests only need that sessions are not taken twice and      *)
(* that blobs stay: Steady.                                                *)
(*                                                                         *)
(* Previews.  Nothing keeps two builds apart, so the invariant is about    *)
(* what has not been disturbed: then there is one build or teardown at a   *)
(* time, and Calm says, phase by phase, what row, container and card are.  *)
(***************************************************************************)
EXTENDS MCPublishing, SequenceTheorems, FiniteSetTheorems, TLAPS

-----------------------------------------------------------------------------
(* Upload. *)
Sites == [Paths -> Trees \cup {Absent}]

(* A call in state u and the files of its container. *)
CallOK(u, found) ==
    /\ u.pc \in {"idle", "ensure"} => u.kept = {} /\ u.todo = {}
    /\ u.pc \in {"ensure", "put", "prune"} => u.ending = "ran"
    /\ u.pc = "put" =>
          /\ u.kept \cup u.todo \subseteq Files[u.tree]
          /\ u.clean => u.kept \cup u.todo = Files[u.tree]
    /\ \A p \in u.kept : u.pc = "put" \/ p \notin Escaped => found[p] = u.tree
    /\ u.pc = "prune" => u.todo \cap (u.kept \ Escaped) = {}
    /\ u.pc \in {"prune", "logout"} /\ u.ending = "ran" /\ u.clean =>
          /\ u.kept = Files[u.tree]
          /\ \A p \in Paths \ (u.kept \ Escaped) : p \in u.todo \/ found[p] = Absent
    /\ u.pc = "logout" /\ u.ending = "ran" => u.todo = {}

(* No two calls are at work on one container. *)
Apart ==
    \A c, d \in Uploaders :
        c # d /\ upload[c].target # None => upload[c].target # upload[d].target

CallsOK == \A c \in Uploaders : CallOK(upload[c], pod[upload[c].target])

UploadInv == TypeOK /\ Apart /\ CallsOK

-----------------------------------------------------------------------------
LEMMA IdleIsOK ==
    ASSUME NEW found
    PROVE  Idle \in UploadStates /\ CallOK(Idle, found)
BY DEF Idle, UploadStates, CallOK

LEMMA InitHolds == Init => UploadInv
<1> SUFFICES ASSUME Init PROVE UploadInv
    OBVIOUS
<1>1. TypeOK
    <2>1. Idle \in UploadStates
        BY IdleIsOK
    <2>2. /\ pod \in [Targets -> [Paths -> Trees \cup {Absent}]]
          /\ upload \in [Uploaders -> UploadStates]
        BY <2>1 DEF Init
    <2>3. \A c \in Uploaders : upload[c] = Idle /\ upload[c].pc = "idle"
        BY DEF Init, Idle
    <2>4. faults \in 0 .. MaxFaults
        BY MaxFaultsAssumption DEF Init
    <2> QED
        BY <2>2, <2>3, <2>4 DEF TypeOK
<1>2. Apart
    BY DEF Init, Apart, Idle
<1>3. CallsOK
    BY IdleIsOK DEF Init, CallsOK
<1> QED
    BY <1>1, <1>2, <1>3 DEF UploadInv

(* What is known of a call that is not idle. *)
LEMMA Busy ==
    ASSUME UploadInv, NEW c \in Uploaders, upload[c].pc # "idle"
    PROVE  /\ upload[c] \in UploadStates
           /\ upload[c].tree \in Trees /\ upload[c].target \in Targets
           /\ Files[upload[c].tree] \subseteq Paths
           /\ pod[upload[c].target] \in Sites
           /\ CallOK(upload[c], pod[upload[c].target])
           /\ \A d \in Uploaders \ {c} : upload[d].target # upload[c].target
<1>1. /\ upload[c] \in UploadStates
      /\ upload[c].tree \in Trees /\ upload[c].target \in Targets
    BY DEF UploadInv, TypeOK
<1>2. Files[upload[c].tree] \subseteq Paths /\ pod[upload[c].target] \in Sites
    BY <1>1, TreesAssumption DEF UploadInv, TypeOK, Sites
<1>3. CallOK(upload[c], pod[upload[c].target])
    BY DEF UploadInv, CallsOK
<1>4. \A d \in Uploaders \ {c} : upload[d].target # upload[c].target
    BY <1>1, NoneAssumption DEF UploadInv, Apart
<1> QED
    BY <1>1, <1>2, <1>3, <1>4

(* A step in which one call goes to state u and only the files of its own  *)
(* container change disturbs no other call.                                *)
LEMMA OneCallMoves ==
    ASSUME UploadInv,
           NEW c \in Uploaders, NEW u \in UploadStates, NEW found \in Sites,
           u.pc # "idle", u.tree \in Trees, u.target \in Targets,
           \A d \in Uploaders \ {c} : upload[d].target # u.target,
           upload' = [upload EXCEPT ![c] = u],
           pod' = [pod EXCEPT ![u.target] = found],
           faults' \in 0 .. MaxFaults,
           CallOK(u, found)
    PROVE  UploadInv'
<1>1. /\ upload \in [Uploaders -> UploadStates]
      /\ pod \in [Targets -> Sites]
    BY DEF UploadInv, TypeOK, Sites
<1>2. /\ upload'[c] = u
      /\ \A d \in Uploaders \ {c} : upload'[d] = upload[d]
    BY <1>1
<1>3. TypeOK'
    <2>1. upload' \in [Uploaders -> UploadStates] /\ pod' \in [Targets -> Sites]
        BY <1>1
    <2>2. \A d \in Uploaders :
             IF upload'[d].pc = "idle" THEN upload'[d] = Idle
             ELSE upload'[d].tree \in Trees /\ upload'[d].target \in Targets
        BY <1>2 DEF UploadInv, TypeOK
    <2> QED
        BY <2>1, <2>2 DEF TypeOK, Sites
<1>4. Apart'
    BY <1>2, NoneAssumption DEF UploadInv, Apart
<1>5. CallsOK'
    <2> SUFFICES ASSUME NEW d \in Uploaders
                 PROVE  CallOK(upload'[d], pod'[upload'[d].target])
        BY DEF CallsOK
    <2>1. CASE d = c
        <3>1. pod'[u.target] = found
            BY <1>1
        <3> QED
            BY <2>1, <1>2, <3>1
    <2>2. CASE d # c
        <3>1. upload'[d] = upload[d] /\ upload[d].target # u.target
            BY <2>2, <1>2
        <3>2. CallOK(upload[d], pod[upload[d].target])
            BY DEF UploadInv, CallsOK
        <3>3. CASE upload[d].target \in Targets
            <4>1. pod'[upload[d].target] = pod[upload[d].target]
                BY <1>1, <3>1, <3>3
            <4> QED
                BY <3>1, <3>2, <4>1
        <3>4. CASE upload[d].target \notin Targets
            <4>1. upload[d] = Idle
                BY <3>4 DEF UploadInv, TypeOK
            <4> QED
                BY <3>1, <4>1, IdleIsOK
        <3> QED
            BY <3>3, <3>4
    <2> QED
        BY <2>1, <2>2
<1> QED
    BY <1>3, <1>4, <1>5 DEF UploadInv

(* A fault leaves its counter within its bound. *)
LEMMA FaultCounts ==
    ASSUME TypeOK, UNCHANGED faults \/ Fault
    PROVE  faults' \in 0 .. MaxFaults
BY MaxFaultsAssumption DEF TypeOK, Fault

(* Writing back what is there changes nothing. *)
LEMMA SamePod ==
    ASSUME TypeOK, NEW t \in Targets, UNCHANGED pod
    PROVE  pod' = [pod EXCEPT ![t] = pod[t]]
BY DEF TypeOK

-----------------------------------------------------------------------------
(* A call that is not idle goes on: to state u, with `found` in its         *)
(* container.                                                               *)
LEMMA CallGoesOn ==
    ASSUME UploadInv,
           NEW c \in Uploaders, upload[c].pc # "idle",
           NEW u \in UploadStates, u.pc # "idle",
           u.tree = upload[c].tree, u.target = upload[c].target,
           NEW found \in Sites, CallOK(u, found),
           upload' = [upload EXCEPT ![c] = u],
           pod' = [pod EXCEPT ![upload[c].target] = found],
           UNCHANGED faults \/ Fault
    PROVE  UploadInv'
BY Busy, OneCallMoves, FaultCounts DEF UploadInv

(* ... and its container stays as it is. *)
LEMMA CallGoesOnQuietly ==
    ASSUME UploadInv,
           NEW c \in Uploaders, upload[c].pc # "idle",
           NEW u \in UploadStates, u.pc # "idle",
           u.tree = upload[c].tree, u.target = upload[c].target,
           CallOK(u, pod[upload[c].target]),
           upload' = [upload EXCEPT ![c] = u],
           UNCHANGED pod,
           UNCHANGED faults \/ Fault
    PROVE  UploadInv'
BY Busy, SamePod, CallGoesOn DEF UploadInv

(* getOwnerFetch answers: nothing is put yet, and nobody else is there. *)
LEMMA StartsHolds ==
    ASSUME UploadInv, NEW c \in Uploaders, NEW tree \in Trees, NEW target \in Targets,
           Alone(target), Begin(c, tree, target) \/ Refuse(c, tree, target)
    PROVE  UploadInv'
<1>1. PICK pc \in {"ensure", "logout"}, ending \in {"ran", "threw"} :
         /\ pc = "ensure" <=> ending = "ran"
         /\ Starts(c, tree, target, pc, ending)
         /\ UNCHANGED pod
         /\ UNCHANGED faults \/ Fault
    BY DEF Begin, Refuse
<1> DEFINE u == [Idle EXCEPT !.pc = pc, !.tree = tree, !.target = target, !.ending = ending]
<1>2. /\ u \in UploadStates /\ u.pc # "idle" /\ u.tree \in Trees /\ u.target \in Targets
      /\ CallOK(u, pod[target])
    <2>1. /\ u \in UploadStates /\ u.pc = pc /\ u.tree = tree /\ u.target = target
          /\ u.kept = {} /\ u.todo = {} /\ u.ending = ending
        BY DEF Idle, UploadStates
    <2> HIDE DEF u
    <2> QED
        BY <1>1, <2>1 DEF CallOK
<1>3. upload' = [upload EXCEPT ![c] = u]
    BY <1>1 DEF Starts
<1>4. pod[target] \in Sites /\ pod' = [pod EXCEPT ![target] = pod[target]]
    BY <1>1, SamePod DEF UploadInv, TypeOK, Sites
<1>5. u.target = target
    BY DEF Idle
<1>6. \A d \in Uploaders \ {c} : upload[d].target # u.target
    BY <1>5 DEF Alone
<1>7. faults' \in 0 .. MaxFaults
    BY <1>1, FaultCounts DEF UploadInv
<1> HIDE DEF u
<1> QED
    BY <1>2, <1>3, <1>4, <1>5, <1>6, <1>7, OneCallMoves

(* An exception leaves the rest of the call undone, and the container alone. *)
LEMMA ThrowsHolds ==
    ASSUME UploadInv, NEW c \in Uploaders, upload[c].pc \in {"ensure", "put"},
           Throws(c), Fault, UNCHANGED pod
    PROVE  UploadInv'
<1> DEFINE now == upload[c]
           u == [now EXCEPT !.pc = "logout", !.ending = "threw"]
<1>1. now \in UploadStates /\ CallOK(now, pod[now.target])
    BY Busy
<1>2. /\ u \in UploadStates /\ u.pc # "idle"
      /\ u.tree = now.tree /\ u.target = now.target
    BY <1>1 DEF UploadStates
<1>3. CallOK(u, pod[now.target])
    BY <1>1 DEF CallOK, UploadStates
<1>4. upload' = [upload EXCEPT ![c] = u]
    BY <1>1 DEF Throws, UploadInv, TypeOK, UploadStates
<1> HIDE DEF u
<1> QED
    BY <1>2, <1>3, <1>4, CallGoesOnQuietly

LEMMA EnsureContainerHolds ==
    ASSUME UploadInv, NEW c \in Uploaders, EnsureContainer(c)
    PROVE  UploadInv'
<1> DEFINE now == upload[c]
           u == [now EXCEPT !.pc = "put", !.todo = Files[now.tree]]
<1>1. now.pc = "ensure"
    BY DEF EnsureContainer, At
<1>2. CASE /\ upload' = [upload EXCEPT ![c].pc = "put", ![c].todo = Files[upload[c].tree]]
           /\ UNCHANGED faults
    <2>1. /\ now \in UploadStates /\ Files[now.tree] \subseteq Paths
          /\ CallOK(now, pod[now.target])
        BY <1>1, Busy
    <2>2. /\ u \in UploadStates /\ u.pc # "idle"
          /\ u.tree = now.tree /\ u.target = now.target
        BY <2>1 DEF UploadStates
    <2>3. CallOK(u, pod[now.target])
        BY <1>1, <2>1 DEF CallOK, UploadStates
    <2>4. upload' = [upload EXCEPT ![c] = u]
        BY <1>2, <2>1 DEF UploadInv, TypeOK, UploadStates
    <2> HIDE DEF u
    <2> QED
        BY <1>1, <1>2, <2>2, <2>3, <2>4, CallGoesOnQuietly DEF EnsureContainer
<1>3. CASE Fault /\ Throws(c)
    BY <1>1, <1>3, ThrowsHolds DEF EnsureContainer
<1> QED
    BY <1>2, <1>3 DEF EnsureContainer

LEMMA PutFileHolds ==
    ASSUME UploadInv, NEW c \in Uploaders, PutFile(c)
    PROVE  UploadInv'
<1> DEFINE now == upload[c]
           here == pod[now.target]
<1>1. now.pc = "put"
    BY DEF PutFile, At
<1>2. /\ now \in UploadStates /\ now.tree \in Trees /\ now.target \in Targets
      /\ here \in Sites /\ CallOK(now, here)
    BY <1>1, Busy
<1>3. PICK p \in now.todo :
         \/ /\ pod' = [pod EXCEPT ![now.target][p] = now.tree]
            /\ upload' = [upload EXCEPT ![c].todo = @ \ {p}, ![c].kept = @ \cup {p}]
            /\ UNCHANGED faults
         \/ /\ Fault
            /\ upload' = [upload EXCEPT ![c].todo = @ \ {p}, ![c].clean = FALSE]
            /\ UNCHANGED pod
         \/ /\ Fault
            /\ Throws(c)
            /\ UNCHANGED pod
    BY DEF PutFile
<1>4. p \in Paths
    BY <1>2 DEF UploadStates
<1>5. CASE /\ pod' = [pod EXCEPT ![now.target][p] = now.tree]
           /\ upload' = [upload EXCEPT ![c].todo = @ \ {p}, ![c].kept = @ \cup {p}]
           /\ UNCHANGED faults
    <2> DEFINE u == [now EXCEPT !.todo = @ \ {p}, !.kept = @ \cup {p}]
               found == [here EXCEPT ![p] = now.tree]
    <2>1. /\ u \in UploadStates /\ u.pc # "idle"
          /\ u.tree = now.tree /\ u.target = now.target
        BY <1>1, <1>2, <1>4 DEF UploadStates
    <2>2. found \in Sites
        BY <1>2, <1>4 DEF Sites
    <2>3. /\ u.kept \cup u.todo = now.kept \cup now.todo
          /\ \A q \in u.kept : found[q] = now.tree
        BY <1>1, <1>2, <1>4 DEF CallOK, UploadStates, Sites
    <2>4. u.pc = "put" /\ u.ending = now.ending /\ u.clean = now.clean
        BY <1>1, <1>2 DEF UploadStates
    <2>5. CallOK(u, found)
        BY <1>1, <1>2, <2>1, <2>3, <2>4 DEF CallOK
    <2>6. upload' = [upload EXCEPT ![c] = u]
        BY <1>2, <1>5 DEF UploadInv, TypeOK, UploadStates
    <2>7. pod' = [pod EXCEPT ![now.target] = found]
        BY <1>2, <1>5 DEF UploadInv, TypeOK, Sites
    <2> HIDE DEF u, found
    <2> QED
        BY <1>1, <1>5, <2>1, <2>2, <2>5, <2>6, <2>7, CallGoesOn
<1>6. CASE /\ Fault
           /\ upload' = [upload EXCEPT ![c].todo = @ \ {p}, ![c].clean = FALSE]
           /\ UNCHANGED pod
    <2> DEFINE u == [now EXCEPT !.todo = @ \ {p}, !.clean = FALSE]
    <2>1. /\ u \in UploadStates /\ u.pc # "idle"
          /\ u.tree = now.tree /\ u.target = now.target
        BY <1>1, <1>2 DEF UploadStates
    <2>2. CallOK(u, here)
        BY <1>1, <1>2 DEF CallOK, UploadStates
    <2>3. upload' = [upload EXCEPT ![c] = u]
        BY <1>2, <1>6 DEF UploadInv, TypeOK, UploadStates
    <2> HIDE DEF u
    <2> QED
        BY <1>1, <1>6, <2>1, <2>2, <2>3, CallGoesOnQuietly
<1>7. CASE Fault /\ Throws(c) /\ UNCHANGED pod
    BY <1>1, <1>7, ThrowsHolds
<1> QED
    BY <1>3, <1>5, <1>6, <1>7

LEMMA ListContainerHolds ==
    ASSUME UploadInv, NEW c \in Uploaders, ListContainer(c)
    PROVE  UploadInv'
<1> DEFINE now == upload[c]
           here == pod[now.target]
           stale == Stale(c)
           u == [now EXCEPT !.todo = stale, !.pc = IF stale = {} THEN "logout" ELSE "prune"]
<1>1. now.pc = "put" /\ now.todo = {}
    BY DEF ListContainer, At
<1>2. now \in UploadStates /\ here \in Sites /\ CallOK(now, here)
    BY <1>1, Busy
<1>3. CASE StartPrune(c, stale) /\ UNCHANGED faults
    <2>1. /\ stale \subseteq Paths /\ stale \cap (now.kept \ Escaped) = {}
          /\ \A p \in Paths \ (now.kept \ Escaped) : p \in stale \/ here[p] = Absent
        BY DEF Stale
    <2> HIDE DEF stale
    <2>2. stale \in SUBSET Paths
        BY <2>1
    <2>3. /\ u \in UploadStates /\ u.pc # "idle"
          /\ u.tree = now.tree /\ u.target = now.target
          /\ u.kept = now.kept /\ u.clean = now.clean /\ u.ending = now.ending
          /\ u.todo = stale
          /\ u.pc = "prune" \/ (u.pc = "logout" /\ stale = {})
        <3> DEFINE pc == IF stale = {} THEN "logout" ELSE "prune"
        <3>1. u = [now EXCEPT !.todo = stale, !.pc = pc]
            OBVIOUS
        <3>2. pc \in {"prune", "logout"} /\ (pc = "logout" => stale = {})
            OBVIOUS
        <3> HIDE DEF pc, u
        <3> QED
            BY <1>2, <2>2, <3>1, <3>2 DEF UploadStates
    <2>4. CallOK(u, here)
        <3>1. now.clean => now.kept = Files[now.tree]
            BY <1>1, <1>2 DEF CallOK
        <3>2. \A p \in now.kept : here[p] = now.tree
            BY <1>1, <1>2 DEF CallOK
        <3>3. now.ending = "ran"
            BY <1>1, <1>2 DEF CallOK
        <3> HIDE DEF u
        <3> QED
            BY <2>1, <2>3, <3>1, <3>2, <3>3 DEF CallOK
    <2>5. upload' = [upload EXCEPT ![c] = u]
        BY <1>2, <1>3 DEF StartPrune, UploadInv, TypeOK, UploadStates
    <2> HIDE DEF u
    <2> QED
        BY <1>1, <1>3, <2>3, <2>4, <2>5, CallGoesOnQuietly DEF ListContainer
<1>4. CASE Fault /\ Throws(c)
    BY <1>1, <1>4, ThrowsHolds DEF ListContainer
<1> QED
    BY <1>3, <1>4 DEF ListContainer

LEMMA DeleteFileHolds ==
    ASSUME UploadInv, NEW c \in Uploaders, DeleteFile(c)
    PROVE  UploadInv'
<1> DEFINE now == upload[c]
           here == pod[now.target]
<1>1. now.pc = "prune"
    BY DEF DeleteFile, At
<1>2. /\ now \in UploadStates /\ now.tree \in Trees /\ now.target \in Targets
      /\ here \in Sites /\ CallOK(now, here)
    BY <1>1, Busy
<1> DEFINE left(p) == now.todo \ {p}
           next(p) == [now EXCEPT !.todo = left(p),
                                  !.pc = IF left(p) = {} THEN "logout" ELSE "prune"]
<1>3. PICK p \in now.todo :
         \/ /\ pod' = [pod EXCEPT ![now.target][p] = Absent]
            /\ upload' = [upload EXCEPT ![c] = next(p)]
            /\ UNCHANGED faults
         \/ /\ Fault
            /\ upload' = [upload EXCEPT ![c] = [next(p) EXCEPT !.clean = FALSE]]
            /\ UNCHANGED pod
    BY DEF DeleteFile
<1>4. p \in Paths /\ p \notin now.kept \ Escaped /\ now.ending = "ran"
    BY <1>1, <1>2 DEF UploadStates, CallOK
<1>5. left(p) \in SUBSET Paths
    BY <1>2 DEF UploadStates
<1>6. /\ next(p) \in UploadStates /\ next(p).pc # "idle"
      /\ next(p).tree = now.tree /\ next(p).target = now.target
      /\ next(p).kept = now.kept /\ next(p).clean = now.clean
      /\ next(p).ending = now.ending /\ next(p).todo = now.todo \ {p}
      /\ next(p).pc = "prune" \/ (next(p).pc = "logout" /\ next(p).todo = {})
    <2> DEFINE pc == IF left(p) = {} THEN "logout" ELSE "prune"
    <2>1. next(p) = [now EXCEPT !.todo = left(p), !.pc = pc]
        OBVIOUS
    <2>2. pc \in {"prune", "logout"} /\ (pc = "logout" => left(p) = {})
        OBVIOUS
    <2>3. left(p) = now.todo \ {p}
        OBVIOUS
    <2> HIDE DEF pc, next, left
    <2> QED
        BY <1>2, <1>5, <2>1, <2>2, <2>3 DEF UploadStates
<1>7. CASE /\ pod' = [pod EXCEPT ![now.target][p] = Absent]
           /\ upload' = [upload EXCEPT ![c] = next(p)]
           /\ UNCHANGED faults
    <2> DEFINE found == [here EXCEPT ![p] = Absent]
    <2>1. found \in Sites
        BY <1>2, <1>4 DEF Sites
    <2>2. /\ found[p] = Absent
          /\ \A q \in Paths \ {p} : found[q] = here[q]
        BY <1>2, <1>4 DEF Sites
    <2>3. CallOK(next(p), found)
        <3>1. \A q \in now.kept : q \notin Escaped => found[q] = now.tree
            BY <1>1, <1>2, <1>4, <2>2 DEF CallOK, UploadStates
        <3>2. now.clean =>
                 /\ now.kept = Files[now.tree]
                 /\ \A q \in Paths \ (now.kept \ Escaped) :
                       q \in now.todo \ {p} \/ found[q] = Absent
            BY <1>1, <1>2, <1>4, <2>2 DEF CallOK
        <3>3. now.todo \cap (now.kept \ Escaped) = {}
            BY <1>1, <1>2 DEF CallOK
        <3> HIDE DEF next, found
        <3> QED
            BY <1>4, <1>6, <3>1, <3>2, <3>3 DEF CallOK
    <2>4. pod' = [pod EXCEPT ![now.target] = found]
        BY <1>2, <1>7 DEF UploadInv, TypeOK, Sites
    <2> HIDE DEF next, found
    <2> QED
        BY <1>1, <1>6, <1>7, <2>1, <2>3, <2>4, CallGoesOn
<1>8. CASE /\ Fault
           /\ upload' = [upload EXCEPT ![c] = [next(p) EXCEPT !.clean = FALSE]]
           /\ UNCHANGED pod
    <2> DEFINE u == [next(p) EXCEPT !.clean = FALSE]
    <2> HIDE DEF next
    <2>1. /\ u \in UploadStates /\ u.pc = next(p).pc /\ u.tree = now.tree
          /\ u.target = now.target /\ u.todo = next(p).todo /\ u.kept = now.kept
          /\ u.clean = FALSE /\ u.ending = now.ending
        BY <1>6 DEF UploadStates
    <2> HIDE DEF u
    <2>2. \A q \in now.kept : q \notin Escaped => here[q] = now.tree
        BY <1>1, <1>2 DEF CallOK
    <2>3. now.todo \cap (now.kept \ Escaped) = {}
        BY <1>1, <1>2 DEF CallOK
    <2>4. CallOK(u, here)
        BY <1>4, <1>6, <2>1, <2>2, <2>3 DEF CallOK
    <2> QED
        BY <1>1, <1>6, <1>8, <2>1, <2>4, CallGoesOnQuietly DEF u
<1> QED
    BY <1>3, <1>7, <1>8

(* Calls that end disturb nobody: an idle call is at no container. *)
LEMMA GoneHolds ==
    ASSUME UploadInv, NEW gone \in SUBSET Uploaders, UNCHANGED <<pod, faults>>,
           upload' = [c \in Uploaders |-> IF c \in gone THEN Idle ELSE upload[c]]
    PROVE  UploadInv'
<1>1. Idle \in UploadStates /\ Idle.pc = "idle" /\ Idle.target = None
    BY IdleIsOK DEF Idle
<1>2. \A c \in Uploaders : upload'[c] = IF c \in gone THEN Idle ELSE upload[c]
    OBVIOUS
<1>3. TypeOK'
    <2>1. upload' \in [Uploaders -> UploadStates]
        BY <1>1 DEF UploadInv, TypeOK
    <2>2. \A c \in Uploaders :
             IF upload'[c].pc = "idle" THEN upload'[c] = Idle
             ELSE upload'[c].tree \in Trees /\ upload'[c].target \in Targets
        BY <1>1, <1>2 DEF UploadInv, TypeOK
    <2> QED
        BY <2>1, <2>2 DEF UploadInv, TypeOK
<1>4. Apart'
    BY <1>1, <1>2 DEF UploadInv, Apart
<1>5. CallsOK'
    BY <1>2, IdleIsOK DEF UploadInv, CallsOK
<1> QED
    BY <1>3, <1>4, <1>5 DEF UploadInv

LEMMA StepHolds == UploadInv /\ [Next]_vars => UploadInv'
<1> SUFFICES ASSUME UploadInv, [Next]_vars PROVE UploadInv'
    OBVIOUS
<1>1. ASSUME NEW c \in Uploaders, NEW tree \in Trees, NEW target \in Targets,
             Alone(target), Begin(c, tree, target) \/ Refuse(c, tree, target)
      PROVE  UploadInv'
    BY <1>1, StartsHolds
<1>2. ASSUME NEW c \in Uploaders, Step(c)
      PROVE  UploadInv'
    BY <1>2, EnsureContainerHolds, PutFileHolds, ListContainerHolds, DeleteFileHolds
    DEF Step
<1>3. ASSUME NEW c \in Uploaders, End(c)
      PROVE  UploadInv'
    <2>1. upload' = [d \in Uploaders |-> IF d \in {c} THEN Idle ELSE upload[d]]
        BY <1>3 DEF End, UploadInv, TypeOK
    <2> QED
        BY <1>3, <2>1, GoneHolds DEF End
<1>4. CASE Abandon
    <2>1. upload' = [d \in Uploaders |-> IF d \in Uploaders THEN Idle ELSE upload[d]]
        BY <1>4 DEF Abandon
    <2> QED
        BY <1>4, <2>1, GoneHolds DEF Abandon
<1>5. CASE UNCHANGED vars
    BY <1>5 DEF vars, UploadInv, TypeOK, Apart, CallsOK, CallOK, Alone
<1> QED
    BY <1>1, <1>2, <1>3, <1>4, <1>5 DEF Next

-----------------------------------------------------------------------------
(* Types, that calls are apart, and what each of them has done so far. *)
THEOREM UploadInvariant == Spec => []UploadInv
<1> QED
    BY InitHolds, StepHolds, PTL DEF Spec

(* Type correctness, for all constants. *)
THEOREM UploadTypes == Spec => []TypeOK
<1>1. UploadInv => TypeOK
    BY DEF UploadInv
<1> QED
    BY <1>1, UploadInvariant, PTL

(* What publishDirectory has PUT is there until it prunes, and what has a   *)
(* plain name until it ends.                                                *)
THEOREM KeptStays == Spec => []UploadedStays
<1>1. UploadInv => UploadedStays
    BY DEF UploadInv, CallsOK, CallOK, UploadedStays, At
<1> QED
    BY <1>1, UploadInvariant, PTL

(* A clean publishDirectory leaves exactly the plainly named files of its   *)
(* directory, whatever the container had before.                            *)
THEOREM CleanIsExact == Spec => []ExactPublish
<1>1. ASSUME UploadInv, NEW c \in Uploaders,
             upload[c].pc = "logout", upload[c].ending = "ran", upload[c].clean,
             NEW p \in Paths \ Escaped
      PROVE  pod[upload[c].target][p] =
                 IF p \in Files[upload[c].tree] THEN upload[c].tree ELSE Absent
    <2>1. CallOK(upload[c], pod[upload[c].target])
        BY <1>1 DEF UploadInv, CallsOK
    <2> QED
        BY <1>1, <2>1 DEF CallOK
<1>2. UploadInv => ExactPublish
    BY <1>1 DEF ExactPublish, At
<1> QED
    BY <1>2, UploadInvariant, PTL

-----------------------------------------------------------------------------
(* Packages.  A request about to be recorded has its blob in the store; a   *)
(* session that is there has exactly what was acknowledged, and once it is  *)
(* closed nothing more is, so the blob begins with it.                      *)
Begins(s, t) == Len(s) <= Len(t) /\ \A i \in 1 .. Len(s) : t[i] = s[i]

SessionTypes ==
    /\ minted \subseteq Uploads /\ acked \in [Uploads -> Blobs]
    /\ DOMAIN sessions \subseteq minted /\ \A u \in DOMAIN sessions : sessions[u] \in Blobs
    /\ DOMAIN closed \subseteq minted /\ \A u \in DOMAIN closed : closed[u] \in Blobs
StoreTypes ==
    /\ DOMAIN store \subseteq Blobs /\ \A d \in DOMAIN store : store[d] \in Blobs
    /\ DOMAIN index \subseteq Keys /\ \A k \in DOMAIN index : index[k] \in Blobs
    /\ touched \subseteq Blobs /\ failures \in 0 .. MaxFailures

Writing  == {"owner", "has", "path", "put", "stored"}
Recorded == {"manifest", "npm", "file"}

UploadsInv ==
    /\ SessionTypes
    /\ \A u \in DOMAIN sessions : acked[u] = sessions[u]
    /\ \A u \in Uploads \ minted : acked[u] = <<>>
    /\ \A u \in DOMAIN closed : u \notin DOMAIN sessions /\ Begins(acked[u], closed[u])
StoreInv ==
    /\ StoreTypes
    /\ \A k \in DOMAIN index : index[k] \in DOMAIN store
    /\ \A d \in DOMAIN store : d \notin touched => store[d] = d
CallInv(s) ==
    /\ s.pc \in Writing => s.blob \in Blobs
    /\ s.kind \in Recorded => s.key \in Keys
    /\ s.kind \in {"patch", "close"} => s.upload \in minted
    /\ s.kind = "close" /\ s.pc \in Writing =>
          s.upload \notin DOMAIN sessions /\ Begins(acked[s.upload], s.blob)
    /\ s.pc = "stored" => s.blob \in DOMAIN store
    /\ s.pc = "served" => s.blob = s.claim
CallsInv == call \in [Calls -> CallStates] /\ \A c \in Calls : CallInv(call[c])

PackagesInv == UploadsInv /\ StoreInv /\ CallsInv

LEMMA BlobsAreSeqs ==
    /\ \A n \in Nat : \A f \in [1 .. n -> Chunks] : f \in Seq(Chunks) /\ Len(f) = n
    /\ \A b \in Blobs : b \in Seq(Chunks) /\ Len(b) \in Nat /\ Len(b) <= MaxBlob
    /\ \A s \in Seq(Chunks) : Len(s) <= MaxBlob => s \in Blobs
    /\ \A s \in Seq(Chunks) : Len(s) \in Nat
    /\ <<>> \in Blobs /\ MaxBlob \in Nat
<1>1. MaxBlob \in Nat
    BY PackageBoundsAssumption
<1>2. \A n \in Nat : \A f \in [1 .. n -> Chunks] : f \in Seq(Chunks) /\ Len(f) = n
    OBVIOUS
<1>3. ASSUME NEW b \in Blobs
      PROVE  b \in Seq(Chunks) /\ Len(b) \in Nat /\ Len(b) <= MaxBlob
    <2>1. PICK n \in 0 .. MaxBlob : b \in [1 .. n -> Chunks]
        BY DEF Blobs
    <2>2. n \in Nat /\ n <= MaxBlob
        BY <1>1, <2>1
    <2> QED
        BY <1>2, <2>1, <2>2
<1>4. ASSUME NEW s \in Seq(Chunks), Len(s) <= MaxBlob
      PROVE  s \in Blobs
    <2>1. PICK n \in 0 .. MaxBlob : n = Len(s)
        BY <1>1, <1>4
    <2>2. s \in [1 .. n -> Chunks]
        BY <2>1
    <2> QED
        BY <2>1, <2>2 DEF Blobs
<1>5. \A s \in Seq(Chunks) : Len(s) \in Nat
    OBVIOUS
<1>6. <<>> \in Seq(Chunks) /\ Len(<<>>) <= MaxBlob
    BY <1>1
<1> QED
    BY <1>1, <1>2, <1>3, <1>4, <1>5, <1>6

LEMMA BodiesAreSeqs ==
    /\ \A b \in Bodies \cup Artifacts \cup Blobs : b \in Seq(Chunks) /\ Len(b) \in Nat
    /\ Claims \subseteq Blobs
BY BodiesAssumption, ClaimsAssumption, BlobsAreSeqs

LEMMA ChunksJoin ==
    ASSUME NEW s \in Seq(Chunks), NEW t \in Seq(Chunks)
    PROVE  s \o t \in Seq(Chunks) /\ Begins(s, s \o t) /\ Begins(s, s)
<1>1. /\ s \o t \in Seq(Chunks) /\ Len(s \o t) = Len(s) + Len(t)
      /\ \A i \in 1 .. Len(s) + Len(t) : (s \o t)[i] = IF i <= Len(s) THEN s[i] ELSE t[i - Len(s)]
    BY ConcatProperties
<1>2. Len(s) \in Nat /\ Len(t) \in Nat
    OBVIOUS
<1> QED
    BY <1>1, <1>2 DEF Begins

LEMMA BeginsIsPrefix ==
    ASSUME NEW s \in Seq(Chunks), NEW t \in Seq(Chunks), Begins(s, t)
    PROVE  Len(s) <= Len(t) /\ SubSeq(t, 1, Len(s)) = s
<1>1. Len(s) \in Nat /\ Len(s) <= Len(t) /\ \A i \in 1 .. Len(s) : t[i] = s[i] /\ s[i] \in Chunks
    BY DEF Begins
<1>2. PICK n \in Nat : n = Len(s)
    BY <1>1
<1>3. /\ SubSeq(t, 1, n) \in Seq(Chunks) /\ Len(SubSeq(t, 1, n)) = n
      /\ \A i \in 1 .. n : SubSeq(t, 1, n)[i] = t[i]
    BY <1>1, <1>2
<1>4. \A i \in 1 .. n : SubSeq(t, 1, n)[i] = s[i]
    BY <1>1, <1>2, <1>3
<1>5. SubSeq(t, 1, n) = s
    BY <1>2, <1>3, <1>4, SeqEqual
<1> QED
    BY <1>1, <1>2, <1>5

(* A place of a Map is taken out. *)
LEMMA DropIs ==
    ASSUME NEW f, NEW x
    PROVE  /\ DOMAIN Drop(f, x) = DOMAIN f \ {x}
           /\ \A y \in DOMAIN f \ {x} : Drop(f, x)[y] = f[y]
BY DEF Drop, Restrict

LEMMA FailureIs ==
    ASSUME StoreInv, PodFailure \/ UNCHANGED failures
    PROVE  failures' \in 0 .. MaxFailures
BY PackageBoundsAssumption DEF PodFailure, StoreInv, StoreTypes

LEMMA CallFacts ==
    ASSUME CallsInv, NEW c \in Calls
    PROVE  /\ call[c] \in CallStates /\ CallInv(call[c]) /\ call \in [Calls -> CallStates]
           /\ call[c].upload \in Uploads \cup {NoUpload} /\ call[c].blob \in Bodies \cup Blobs
           /\ call[c].claim \in Blobs /\ call[c].key \in Keys \cup {NoKey}
           /\ call[c].kind \in Kinds
BY DEF CallsInv, CallStates

LEMMA NoCallIs ==
    /\ NoCall \in CallStates /\ NoCall.kind = "none" /\ NoCall.pc = "idle"
    /\ CallInv(NoCall) /\ CallInv(NoCall)'
<1>1. NoCall \in CallStates /\ NoCall.kind = "none" /\ NoCall.pc = "idle"
    BY BlobsAreSeqs DEF NoCall, CallStates, Kinds
<1> QED
    BY <1>1 DEF CallInv, Writing, Recorded

(* What the other requests rely on when one moves. *)
Steady ==
    /\ minted \subseteq minted' /\ DOMAIN store \subseteq DOMAIN store'
    /\ \A u \in minted \ DOMAIN sessions : u \notin DOMAIN sessions' /\ acked'[u] = acked[u]

LEMMA CallMoves ==
    ASSUME CallsInv, Steady, NEW c \in Calls, NEW k \in CallStates, call' = [call EXCEPT ![c] = k],
           CallInv(k)'
    PROVE  CallsInv'
<1>1. call' \in [Calls -> CallStates] /\ call'[c] = k
      /\ \A b \in Calls \ {c} : call'[b] = call[b]
    BY DEF CallsInv
<1>2. ASSUME NEW b \in Calls PROVE CallInv(call[b])'
    <2>1. CASE b = c
        BY <1>1, <2>1
    <2>2. CASE b # c
        <3>1. PICK s \in CallStates : s = call[b] /\ s = call'[b]
            BY <1>1, <2>2, CallFacts
        <3>2. CallInv(s)
            BY <3>1, CallFacts
        <3>3. CallInv(s)'
            BY <3>2 DEF CallInv, Steady
        <3> QED
            BY <3>1, <3>3
    <2> QED
        BY <2>1, <2>2
<1> QED
    BY <1>1, <1>2 DEF CallsInv

LEMMA CallEnded ==
    ASSUME CallsInv, Steady, NEW c \in Calls, CallEnds(c)
    PROVE  CallsInv'
BY NoCallIs, CallMoves DEF CallEnds

LEMMA UploadsRest ==
    ASSUME UploadsInv, UNCHANGED <<memory, acked, closed>>
    PROVE  UploadsInv'
BY DEF UploadsInv, SessionTypes, memory

LEMMA StoreRests ==
    ASSUME StoreInv, UNCHANGED <<store, index, touched>>, PodFailure \/ UNCHANGED failures
    PROVE  StoreInv'
BY FailureIs DEF StoreInv, StoreTypes

LEMMA SteadyRests ==
    ASSUME UNCHANGED <<memory, acked>>, DOMAIN store \subseteq DOMAIN store'
    PROVE  Steady
BY DEF Steady, memory

(* A request that begins: it has no blob of its own yet, or one that fits.  *)
LEMMA CallBegins ==
    ASSUME PackagesInv, NEW c \in Calls, NEW k \in CallStates, call' = [call EXCEPT ![c] = k],
           UNCHANGED <<memory, store, index, history, failures>>, CallInv(k)
    PROVE  PackagesInv'
<1>1. UploadsInv' /\ StoreInv' /\ Steady
    BY UploadsRest, StoreRests, SteadyRests DEF PackagesInv, history
<1>2. CallInv(k)'
    BY DEF CallInv, memory, history
<1> QED
    BY <1>1, <1>2, CallMoves DEF PackagesInv

(* A write that goes on: only its pc changes. *)
LEMMA WriteGoesOn ==
    ASSUME CallsInv, Steady, NEW c \in Calls, NEW p \in Writing, CallGoes(c, p),
           call[c].pc \in Writing, p = "stored" => call[c].blob \in DOMAIN store'
    PROVE  CallsInv'
<1>1. call[c] \in CallStates /\ CallInv(call[c]) /\ call \in [Calls -> CallStates]
    BY CallFacts
<1>2. PICK s \in CallStates : s = call[c]
    BY <1>1
<1> DEFINE k == [s EXCEPT !.pc = p]
<1>3. /\ k \in CallStates /\ k.pc = p /\ k.kind = s.kind /\ k.upload = s.upload
      /\ k.blob = s.blob /\ k.claim = s.claim /\ k.key = s.key
    BY DEF CallStates, Writing
<1>4. call' = [call EXCEPT ![c] = k]
    BY <1>1, <1>2 DEF CallGoes
<1> HIDE DEF k
<1>5. /\ CallInv(s) /\ s.pc \in Writing /\ (p = "stored" => s.blob \in DOMAIN store')
      /\ p # "served"
    BY <1>1, <1>2 DEF Writing
<1>6. CallInv(k)'
    BY <1>3, <1>5 DEF CallInv, Steady
<1> QED
    BY <1>3, <1>4, <1>6, CallMoves

(* A step that only moves a write on, or ends the request. *)
LEMMA CallRests ==
    ASSUME PackagesInv, NEW c \in Calls,
           UNCHANGED <<memory, store, index, history>>, PodFailure \/ UNCHANGED failures
    PROVE  /\ UploadsInv' /\ StoreInv' /\ Steady
           /\ (CallsInv' => PackagesInv') /\ (CallEnds(c) => PackagesInv')
<1>1. UNCHANGED <<acked, closed, touched>>
    BY DEF history
<1>2. UploadsInv' /\ StoreInv' /\ Steady
    BY <1>1, UploadsRest, StoreRests, SteadyRests DEF PackagesInv
<1> QED
    BY <1>2, CallEnded DEF PackagesInv

LEMMA StartUploadKeeps ==
    ASSUME PackagesInv, NEW u \in Uploads, StartUpload(u)
    PROVE  PackagesInv'
<1>1. /\ u \notin minted /\ minted' = minted \cup {u} /\ sessions' = PutAt(sessions, u, <<>>)
      /\ UNCHANGED <<store, index, call, acked, closed, touched, failures>>
    BY DEF StartUpload, NewSession, history
<1>2. /\ DOMAIN sessions' = DOMAIN sessions \cup {u} /\ sessions'[u] = <<>>
      /\ \A y \in DOMAIN sessions \ {u} : sessions'[y] = sessions[y]
    <2>1. /\ DOMAIN PutAt(sessions, u, <<>>) = DOMAIN sessions \cup {u}
          /\ PutAt(sessions, u, <<>>)[u] = <<>>
          /\ \A y \in DOMAIN sessions \ {u} : PutAt(sessions, u, <<>>)[y] = sessions[y]
        BY DEF PutAt
    <2> QED
        BY <1>1, <2>1, Zenon
<1>3. UploadsInv'
    <2>1. acked[u] = <<>> /\ u \notin DOMAIN closed /\ u \notin DOMAIN sessions
        BY <1>1 DEF PackagesInv, UploadsInv, SessionTypes
    <2> QED
        BY <1>1, <1>2, <2>1, BlobsAreSeqs DEF PackagesInv, UploadsInv, SessionTypes
<1>4. StoreInv' /\ Steady
    BY <1>1, <1>2, StoreRests DEF PackagesInv, Steady
<1>5. \A c \in Calls : CallInv(call[c])'
    BY <1>1, <1>2, <1>4, CallFacts DEF PackagesInv, CallInv, Steady
<1> QED
    BY <1>1, <1>3, <1>4, <1>5 DEF PackagesInv, CallsInv

(* A session is dropped. *)
LEMMA AbortKeeps ==
    ASSUME PackagesInv, NEW u, Abort(u), UNCHANGED <<minted, store, index, history, failures>>
    PROVE  UploadsInv' /\ StoreInv' /\ Steady
<1>1. /\ DOMAIN sessions' = DOMAIN sessions \ {u}
      /\ \A y \in DOMAIN sessions \ {u} : sessions'[y] = sessions[y]
    BY DropIs DEF Abort
<1>2. UNCHANGED <<acked, closed, touched>>
    BY DEF history
<1>3. UploadsInv'
    BY <1>1, <1>2 DEF PackagesInv, UploadsInv, SessionTypes
<1>4. StoreInv'
    BY <1>2, StoreRests DEF PackagesInv
<1> QED
    BY <1>1, <1>2, <1>3, <1>4 DEF Steady

LEMMA CallsRest ==
    ASSUME CallsInv, Steady, UNCHANGED call
    PROVE  CallsInv'
BY CallFacts DEF CallsInv, CallInv, Steady

LEMMA ArriveAtSessionKeeps ==
    ASSUME PackagesInv, NEW c \in Calls, NEW u \in Uploads, NEW b \in Bodies,
           NEW d \in Blobs, NEW kind \in {"patch", "close"},
           ArriveAtSession(c, kind, u, b, d)
    PROVE  PackagesInv'
<1>1. CASE Abort(u) /\ UNCHANGED call
    <2>1. UNCHANGED <<minted, store, index, history, failures>>
        BY DEF ArriveAtSession
    <2> QED
        BY <1>1, <2>1, AbortKeeps, CallsRest DEF PackagesInv
<1>2. CASE ~(Abort(u) /\ UNCHANGED call)
    <2> DEFINE k == [NoCall EXCEPT !.pc = "body", !.kind = kind, !.upload = u,
                         !.blob = b, !.claim = d]
    <2>1. /\ k \in CallStates /\ k.pc = "body" /\ k.kind = kind /\ k.upload = u
        BY DEF NoCall, CallStates, Kinds
    <2>2. /\ u \in minted /\ call' = [call EXCEPT ![c] = k]
          /\ UNCHANGED <<memory, store, index, history, failures>>
        BY <1>2 DEF ArriveAtSession, memory
    <2> HIDE DEF k
    <2>3. CallInv(k)
        BY <2>1, <2>2 DEF CallInv, Writing, Recorded
    <2> QED
        BY <2>1, <2>2, <2>3, CallBegins
<1> QED
    BY <1>1, <1>2

LEMMA PostBlobKeeps ==
    ASSUME PackagesInv, NEW c \in Calls, NEW b \in Bodies, NEW d \in Claims, PostBlob(c, b, d)
    PROVE  PackagesInv'
<1>1. CASE UNCHANGED call
    <2>1. UNCHANGED <<memory, store, index, history, failures>>
        BY DEF PostBlob
    <2> QED
        BY <1>1, <2>1, CallRests, CallsRest DEF PackagesInv
<1>2. CASE ~ UNCHANGED call
    <2> DEFINE k == [NoCall EXCEPT !.pc = "body", !.kind = "blob", !.blob = b, !.claim = d]
    <2>1. k \in CallStates /\ k.pc = "body" /\ k.kind = "blob"
        BY BodiesAreSeqs DEF NoCall, CallStates, Kinds
    <2>2. /\ call' = [call EXCEPT ![c] = k]
          /\ UNCHANGED <<memory, store, index, history, failures>>
        BY <1>2 DEF PostBlob
    <2> HIDE DEF k
    <2>3. CallInv(k)
        BY <2>1, <2>2 DEF CallInv, Writing, Recorded
    <2> QED
        BY <2>1, <2>2, <2>3, CallBegins
<1> QED
    BY <1>1, <1>2

LEMMA PublishesKeeps ==
    ASSUME PackagesInv, NEW c \in Calls, NEW kind \in Recorded, NEW key \in Keys,
           NEW b \in Artifacts, Publishes(c, kind, key, b)
    PROVE  PackagesInv'
<1> DEFINE k == [NoCall EXCEPT !.pc = "owner", !.kind = kind, !.blob = b, !.key = key]
<1>1. Len(b) <= MaxBlob
    BY DEF Publishes, CanStore
<1>2. b \in Blobs
    BY <1>1, BlobsAreSeqs, BodiesAreSeqs
<1>3. k \in CallStates /\ k.pc = "owner" /\ k.kind = kind /\ k.key = key /\ k.blob = b
    BY <1>2, BlobsAreSeqs DEF NoCall, CallStates, Kinds, Recorded
<1>4. /\ call' = [call EXCEPT ![c] = k]
      /\ UNCHANGED <<memory, store, index, history, failures>>
    BY DEF Publishes
<1> HIDE DEF k
<1>5. CallInv(k)
    BY <1>2, <1>3 DEF CallInv, Writing, Recorded
<1> QED
    BY <1>3, <1>4, <1>5, CallBegins

(* The blob of a request that has been let through fits. *)
LEMMA AcceptsKeeps ==
    ASSUME CallsInv, Steady, NEW c \in Calls, NEW b \in Seq(Chunks), Accepts(c, b),
           call[c].kind \in {"close", "blob"},
           call[c].kind = "close" =>
               call[c].upload \notin DOMAIN sessions' /\ Begins(acked'[call[c].upload], b)
    PROVE  CallsInv'
<1>1. CASE CallEnds(c)
    BY <1>1, CallEnded
<1>2. CASE ~ CallEnds(c)
    <2>1. call[c] \in CallStates /\ CallInv(call[c]) /\ call \in [Calls -> CallStates]
        BY CallFacts
    <2>2. PICK s \in CallStates : s = call[c]
        BY <2>1
    <2>3. Len(b) <= MaxBlob
        BY <1>2 DEF Accepts, CanStore
    <2>4. b \in Blobs /\ <<>> \in Blobs
        BY <2>3, BlobsAreSeqs
    <2> DEFINE k == [s EXCEPT !.pc = "owner", !.blob = b, !.claim = <<>>]
    <2>5. /\ k \in CallStates /\ k.pc = "owner" /\ k.kind = s.kind /\ k.upload = s.upload
          /\ k.blob = b
        BY <2>4 DEF CallStates
    <2>6. call' = [call EXCEPT ![c] = k]
        BY <1>2, <2>1, <2>2 DEF Accepts
    <2> HIDE DEF k
    <2>7. /\ s.kind \in {"close", "blob"} /\ CallInv(s)
          /\ s.kind = "close" => s.upload \notin DOMAIN sessions' /\ Begins(acked'[s.upload], b)
        BY <2>1, <2>2
    <2>8. CallInv(k)'
        BY <2>4, <2>5, <2>7 DEF CallInv, Writing, Recorded, Steady
    <2> QED
        BY <2>5, <2>6, <2>8, CallMoves
<1> QED
    BY <1>1, <1>2

LEMMA ReadBlobKeeps ==
    ASSUME PackagesInv, NEW c \in Calls, ReadBlob(c)
    PROVE  PackagesInv'
<1>1. UNCHANGED <<memory, store, index, history, failures>> /\ call[c].kind = "blob"
      /\ Accepts(c, call[c].blob)
    BY DEF ReadBlob
<1>2. call[c].blob \in Seq(Chunks)
    BY CallFacts, BodiesAreSeqs DEF PackagesInv
<1>3. Steady /\ CallsInv /\ (CallsInv' => PackagesInv')
    BY <1>1, CallRests DEF PackagesInv
<1>4. CallsInv'
    BY <1>1, <1>2, <1>3, AcceptsKeeps
<1> QED
    BY <1>3, <1>4

(* A session that is there has what was acknowledged, and the chunks after  *)
(* it are chunks.                                                           *)
LEMMA SessionIs ==
    ASSUME PackagesInv, NEW c \in Calls, NEW u \in DOMAIN sessions
    PROVE  /\ u \in Uploads /\ u \in minted /\ u \notin DOMAIN closed /\ acked[u] = sessions[u]
           /\ Chunked(u, call[c].blob) = acked[u] \o call[c].blob
           /\ Chunked(u, call[c].blob) \in Seq(Chunks)
           /\ Begins(acked[u], Chunked(u, call[c].blob))
<1>1. /\ u \in Uploads /\ u \in minted /\ u \notin DOMAIN closed /\ acked[u] = sessions[u]
      /\ sessions[u] \in Blobs
    BY DEF PackagesInv, UploadsInv, SessionTypes
<1>2. PICK s \in Seq(Chunks) : s = sessions[u] /\ s = acked[u]
    BY <1>1, BlobsAreSeqs
<1>3. PICK b \in Seq(Chunks) : b = call[c].blob
    BY CallFacts, BodiesAreSeqs DEF PackagesInv
<1>4. s \o b \in Seq(Chunks) /\ Begins(s, s \o b)
    BY ChunksJoin
<1>5. Chunked(u, call[c].blob) = s \o b
    BY <1>2, <1>3 DEF Chunked
<1> QED
    BY <1>1, <1>2, <1>3, <1>4, <1>5

LEMMA CloseUploadKeeps ==
    ASSUME PackagesInv, NEW c \in Calls, CloseUpload(c)
    PROVE  PackagesInv'
<1> DEFINE u == call[c].upload
<1>1. UNCHANGED <<minted, store, index, history, failures>> /\ call[c].kind = "close"
    BY DEF CloseUpload
<1>2. CASE CallEnds(c) /\ UNCHANGED sessions
    BY <1>1, <1>2, CallRests DEF memory
<1>3. CASE ~(CallEnds(c) /\ UNCHANGED sessions)
    <2>1. u \in DOMAIN sessions /\ Abort(u) /\ Accepts(c, Chunked(u, call[c].blob))
        BY <1>3 DEF CloseUpload
    <2>2. UploadsInv' /\ StoreInv' /\ Steady /\ CallsInv
        BY <1>1, <2>1, AbortKeeps DEF PackagesInv
    <2>3. /\ Chunked(u, call[c].blob) \in Seq(Chunks)
          /\ Begins(acked[u], Chunked(u, call[c].blob))
        BY <2>1, SessionIs
    <2>4. u \notin DOMAIN sessions' /\ acked' = acked
        <3>1. DOMAIN sessions' = DOMAIN sessions \ {u}
            BY <2>1, DropIs DEF Abort
        <3> QED
            BY <1>1, <3>1 DEF history
    <2>5. CallsInv'
        BY <1>1, <2>1, <2>2, <2>3, <2>4, AcceptsKeeps
    <2> QED
        BY <2>2, <2>5 DEF PackagesInv
<1> QED
    BY <1>2, <1>3

LEMMA AppendChunkKeeps ==
    ASSUME PackagesInv, NEW c \in Calls, AppendChunk(c)
    PROVE  PackagesInv'
<1> DEFINE u   == call[c].upload
           all == Chunked(u, call[c].blob)
<1>1. /\ UNCHANGED <<minted, store, index, closed, touched, failures>>
      /\ CallEnds(c) /\ CallsInv
    BY DEF AppendChunk, PackagesInv
<1>2. CASE UNCHANGED <<sessions, acked>>
    BY <1>1, <1>2, CallRests DEF memory, history
<1>3. CASE Abort(u) /\ UNCHANGED acked
    <2>1. UploadsInv' /\ StoreInv' /\ Steady
        BY <1>1, <1>3, AbortKeeps DEF history
    <2> QED
        BY <1>1, <2>1, CallEnded DEF PackagesInv
<1>4. CASE /\ u \in DOMAIN sessions /\ Len(all) <= MaxBlob
           /\ sessions' = PutAt(sessions, u, all)
           /\ acked' = [acked EXCEPT ![u] = @ \o call[c].blob]
    <2>1. /\ u \in Uploads /\ u \in minted /\ u \notin DOMAIN closed
          /\ all = acked[u] \o call[c].blob /\ all \in Seq(Chunks)
        BY <1>4, SessionIs
    <2>2. PICK b \in Blobs : b = all
        BY <1>4, <2>1, BlobsAreSeqs
    <2>3. acked \in [Uploads -> Blobs]
        BY DEF PackagesInv, UploadsInv, SessionTypes
    <2>4. acked' = [acked EXCEPT ![u] = b] /\ sessions' = PutAt(sessions, u, b)
        BY <1>4, <2>1, <2>2, <2>3
    <2>5. u \in DOMAIN sessions
        BY <1>4
    <2> HIDE DEF all
    <2>6. PICK v \in Uploads : v = u
        BY <2>1
    <2>7. /\ acked' \in [Uploads -> Blobs] /\ acked'[v] = b
          /\ \A w \in Uploads \ {v} : acked'[w] = acked[w]
        BY <2>3, <2>4, <2>6
    <2>8. /\ DOMAIN sessions' = DOMAIN sessions /\ sessions'[v] = b
          /\ \A w \in DOMAIN sessions \ {v} : sessions'[w] = sessions[w]
        <3>1. /\ DOMAIN PutAt(sessions, v, b) = DOMAIN sessions \cup {v}
              /\ PutAt(sessions, v, b)[v] = b
              /\ \A w \in DOMAIN sessions \ {v} : PutAt(sessions, v, b)[w] = sessions[w]
            BY DEF PutAt
        <3>2. sessions' = PutAt(sessions, v, b) /\ DOMAIN sessions \cup {v} = DOMAIN sessions
            BY <2>4, <2>5, <2>6
        <3> QED
            BY <3>1, <3>2, Zenon
    <2>9. v \in minted /\ v \in DOMAIN sessions /\ v \notin DOMAIN closed
        BY <2>1, <2>5, <2>6
    <2>10. UploadsInv'
        BY <1>1, <2>7, <2>8, <2>9 DEF PackagesInv, UploadsInv, SessionTypes
    <2>11. StoreInv'
        BY <1>1, StoreRests DEF PackagesInv
    <2>12. Steady
        BY <1>1, <2>7, <2>8, <2>9 DEF Steady, PackagesInv, UploadsInv, SessionTypes
    <2> QED
        BY <1>1, <2>10, <2>11, <2>12, CallEnded DEF PackagesInv
<1> QED
    BY <1>2, <1>3, <1>4 DEF AppendChunk

(* The waits of a write: the owner, the HEAD, the containers, the PUT.      *)
LEMMA OwnerFetchKeeps ==
    ASSUME PackagesInv, NEW c \in Calls, OwnerFetch(c)
    PROVE  PackagesInv'
<1>1. /\ UNCHANGED <<memory, store, index, history>> /\ call[c].pc = "owner"
      /\ PodFailure \/ UNCHANGED failures
      /\ CallGoes(c, "has") \/ CallEnds(c)
    BY DEF OwnerFetch, CallAt
<1>2. CallGoes(c, "has") => CallsInv'
    BY <1>1, CallRests, WriteGoesOn DEF PackagesInv, Writing
<1> QED
    BY <1>1, <1>2, CallRests

LEMMA HasKeeps ==
    ASSUME PackagesInv, NEW c \in Calls, Has(c)
    PROVE  PackagesInv'
<1>1. /\ UNCHANGED <<memory, store, index, history>> /\ call[c].pc = "has"
      /\ PodFailure \/ UNCHANGED failures
      /\ \/ CallGoes(c, "stored") /\ call[c].blob \in DOMAIN store
         \/ CallGoes(c, "path") \/ CallEnds(c)
    BY DEF Has, CallAt
<1>2. Steady /\ CallsInv /\ DOMAIN store' = DOMAIN store
    BY <1>1, CallRests DEF PackagesInv
<1>3. CallGoes(c, "path") => CallsInv'
    BY <1>1, <1>2, WriteGoesOn DEF Writing
<1>4. CallGoes(c, "stored") /\ call[c].blob \in DOMAIN store => CallsInv'
    BY <1>1, <1>2, WriteGoesOn DEF Writing
<1> QED
    BY <1>1, <1>3, <1>4, CallRests

LEMMA EnsureBlobPathKeeps ==
    ASSUME PackagesInv, NEW c \in Calls, EnsureBlobPath(c)
    PROVE  PackagesInv'
<1>1. /\ UNCHANGED <<memory, store, index, history>> /\ call[c].pc = "path"
      /\ PodFailure \/ UNCHANGED failures
      /\ CallGoes(c, "put") \/ CallEnds(c)
    BY DEF EnsureBlobPath, CallAt
<1>2. CallGoes(c, "put") => CallsInv'
    BY <1>1, CallRests, WriteGoesOn DEF PackagesInv, Writing
<1> QED
    BY <1>1, <1>2, CallRests

LEMMA SaveKeeps ==
    ASSUME PackagesInv, NEW c \in Calls, Save(c)
    PROVE  PackagesInv'
<1> DEFINE b == call[c].blob
<1>1. /\ UNCHANGED <<memory, index, history>> /\ call[c].pc = "put"
      /\ PodFailure \/ UNCHANGED failures
      /\ store' = PutAt(store, b, b) \/ UNCHANGED store
      /\ \/ CallEnds(c)
         \/ CallGoes(c, "stored") /\ b \in DOMAIN store
         \/ CallGoes(c, "stored") /\ store' = PutAt(store, b, b)
    BY DEF Save, CallAt
<1>2. b \in Blobs
    BY <1>1, CallFacts DEF PackagesInv, CallInv, Writing
<1>3. UNCHANGED <<minted, sessions, acked, closed, touched>>
    BY <1>1 DEF memory, history
<1>4. PICK d \in Blobs : d = b
    BY <1>2
<1>5. store' = PutAt(store, b, b) =>
          /\ DOMAIN store' = DOMAIN store \cup {d} /\ store'[d] = d
          /\ \A e \in DOMAIN store \ {d} : store'[e] = store[e]
    <2>1. /\ DOMAIN PutAt(store, d, d) = DOMAIN store \cup {d} /\ PutAt(store, d, d)[d] = d
          /\ \A e \in DOMAIN store \ {d} : PutAt(store, d, d)[e] = store[e]
        BY DEF PutAt
    <2> QED
        BY <1>4, <2>1, Zenon
<1> HIDE DEF b
<1>6. UploadsInv' /\ failures' \in 0 .. MaxFailures
    BY <1>1, <1>3, UploadsRest, FailureIs DEF PackagesInv
<1>7. DOMAIN store \subseteq DOMAIN store' /\ StoreInv'
    BY <1>1, <1>3, <1>5, <1>6 DEF PackagesInv, StoreInv, StoreTypes
<1>8. Steady /\ CallsInv
    BY <1>1, <1>3, <1>7, SteadyRests DEF PackagesInv
<1>9. CallEnds(c) \/ (CallGoes(c, "stored") /\ b \in DOMAIN store')
    BY <1>1, <1>4, <1>5, <1>7
<1>10. CallsInv'
    BY <1>1, <1>8, <1>9, CallEnded, WriteGoesOn DEF Writing, b
<1> QED
    BY <1>6, <1>7, <1>10 DEF PackagesInv

LEMMA RowsAre ==
    ASSUME CallsInv, NEW c \in Calls, call[c].pc = "stored"
    PROVE  /\ DOMAIN Rows(c) \subseteq Keys /\ \A k \in DOMAIN Rows(c) : Rows(c)[k] = call[c].blob
           /\ call[c].blob \in Blobs /\ call[c].blob \in DOMAIN store
<1>1. /\ call[c].blob \in Blobs /\ call[c].blob \in DOMAIN store
      /\ call[c].kind \in Recorded => call[c].key \in Keys
    BY CallFacts DEF CallInv, Writing
<1>2. <<"oci", call[c].blob>> \in Keys
    BY <1>1 DEF Keys
<1>3. call[c].kind \in Recorded \/ call[c].kind \notin Recorded
    OBVIOUS
<1> QED
    BY <1>1, <1>2, <1>3 DEF Rows, Recorded

LEMMA RecordKeeps ==
    ASSUME PackagesInv, NEW c \in Calls, Record(c)
    PROVE  PackagesInv'
<1> DEFINE b == call[c].blob
           u == call[c].upload
<1>1. /\ UNCHANGED <<memory, store, acked, touched, failures>> /\ call[c].pc = "stored"
      /\ index' = [k \in DOMAIN Rows(c) \cup DOMAIN index |->
                    IF k \in DOMAIN Rows(c) THEN Rows(c)[k] ELSE index[k]]
      /\ closed' = IF call[c].kind = "close" THEN PutAt(closed, u, b) ELSE closed
      /\ CallEnds(c) /\ CallsInv
    BY DEF Record, CallAt, PackagesInv
<1>2. /\ DOMAIN Rows(c) \subseteq Keys /\ b \in Blobs /\ b \in DOMAIN store
      /\ \A k \in DOMAIN Rows(c) : Rows(c)[k] = b
    BY <1>1, RowsAre
<1>3. UNCHANGED <<minted, sessions>>
    BY <1>1 DEF memory
<1>4. PICK d \in Blobs : d = b
    BY <1>2
<1>5. PICK w \in Uploads \cup {NoUpload} : w = u
    BY <1>1, CallFacts
<1>6. /\ DOMAIN PutAt(closed, w, d) = DOMAIN closed \cup {w} /\ PutAt(closed, w, d)[w] = d
      /\ \A v \in DOMAIN closed \ {w} : PutAt(closed, w, d)[v] = closed[v]
    BY DEF PutAt
<1>7. call[c].kind = "close" =>
          w \in minted /\ w \notin DOMAIN sessions /\ Begins(acked[w], d)
    BY <1>1, <1>4, <1>5, CallFacts DEF CallInv, Writing
<1>8. /\ DOMAIN index' \subseteq DOMAIN Rows(c) \cup DOMAIN index
      /\ \A k \in DOMAIN index' :
            \/ index'[k] = d
            \/ k \in DOMAIN index /\ index'[k] = index[k]
    <2> DEFINE R == Rows(c)
    <2>1. /\ \A k \in DOMAIN R : R[k] = d
          /\ index' = [k \in DOMAIN R \cup DOMAIN index |-> IF k \in DOMAIN R THEN R[k] ELSE index[k]]
        BY <1>1, <1>2, <1>4
    <2> HIDE DEF R
    <2>2. DOMAIN index' = DOMAIN R \cup DOMAIN index
          /\ \A k \in DOMAIN R \cup DOMAIN index :
                index'[k] = IF k \in DOMAIN R THEN R[k] ELSE index[k]
        BY <2>1
    <2> QED
        BY <2>1, <2>2 DEF R
<1>9. /\ d \in DOMAIN store
      /\ closed' = IF call[c].kind = "close" THEN PutAt(closed, w, d) ELSE closed
    BY <1>1, <1>2, <1>4, <1>5
<1> HIDE DEF b, u
<1>10. UploadsInv'
    <2>1. CASE call[c].kind = "close"
        <3>1. /\ DOMAIN closed' = DOMAIN closed \cup {w} /\ closed'[w] = d
              /\ \A v \in DOMAIN closed \ {w} : closed'[v] = closed[v]
            BY <1>6, <1>9, <2>1
        <3> QED
            BY <1>1, <1>3, <1>7, <2>1, <3>1 DEF PackagesInv, UploadsInv, SessionTypes
    <2>2. CASE call[c].kind # "close"
        BY <1>1, <1>9, <2>2, UploadsRest DEF PackagesInv
    <2> QED
        BY <2>1, <2>2
<1>11. StoreInv'
    BY <1>1, <1>2, <1>8, <1>9 DEF PackagesInv, StoreInv, StoreTypes
<1>12. Steady
    BY <1>1, SteadyRests
<1> QED
    BY <1>1, <1>10, <1>11, <1>12, CallEnded DEF PackagesInv

(* A request that reads: the digest to open is in the row, or named.        *)
LEMMA OpensKeeps ==
    ASSUME PackagesInv, NEW c \in Calls, NEW d \in Blobs,
           call' = [call EXCEPT ![c] = [NoCall EXCEPT !.pc = "open", !.kind = "read", !.claim = d]],
           UNCHANGED <<memory, store, index, history, failures>>
    PROVE  PackagesInv'
<1> DEFINE k == [NoCall EXCEPT !.pc = "open", !.kind = "read", !.claim = d]
<1>1. k \in CallStates /\ k.pc = "open" /\ k.kind = "read"
    BY BlobsAreSeqs DEF NoCall, CallStates, Kinds
<1>2. call' = [call EXCEPT ![c] = k]
    OBVIOUS
<1> HIDE DEF k
<1>3. CallInv(k)
    BY <1>1 DEF CallInv, Writing, Recorded
<1> QED
    BY <1>1, <1>2, <1>3, CallBegins

LEMMA ReadRowKeeps ==
    ASSUME PackagesInv, NEW c \in Calls, NEW k, ReadRow(c, k)
    PROVE  PackagesInv'
<1>1. k \in DOMAIN index /\ index[k] \in Blobs
    BY DEF ReadRow, PackagesInv, StoreInv, StoreTypes
<1>2. PICK d \in Blobs : d = index[k]
    BY <1>1
<1>3. /\ call' = [call EXCEPT ![c] = [NoCall EXCEPT !.pc = "open", !.kind = "read", !.claim = d]]
      /\ UNCHANGED <<memory, store, index, history, failures>>
    BY <1>2 DEF ReadRow
<1> QED
    BY <1>3, OpensKeeps

LEMMA GetBlobKeeps ==
    ASSUME PackagesInv, NEW c \in Calls, NEW d \in Claims, GetBlob(c, d)
    PROVE  PackagesInv'
BY OpensKeeps, BodiesAreSeqs DEF GetBlob

LEMMA OpenKeeps ==
    ASSUME PackagesInv, NEW c \in Calls, Open(c)
    PROVE  PackagesInv'
<1>1. UNCHANGED <<memory, store, index, history, failures>>
    BY DEF Open
<1>2. CASE CallEnds(c)
    BY <1>1, <1>2, CallRests
<1>3. CASE ~ CallEnds(c)
    <2>1. call[c] \in CallStates /\ CallInv(call[c]) /\ call \in [Calls -> CallStates]
        BY CallFacts DEF PackagesInv
    <2>2. PICK s \in CallStates : s = call[c]
        BY <2>1
    <2>3. /\ s.pc = "open" /\ s.claim \in DOMAIN store
          /\ call' = [call EXCEPT ![c].pc = "served", ![c].blob = s.claim]
        BY <1>3, <2>2 DEF Open, CallAt
    <2>4. s.claim \in Blobs
        BY <2>3 DEF PackagesInv, StoreInv, StoreTypes
    <2> DEFINE k == [s EXCEPT !.pc = "served", !.blob = s.claim]
    <2>5. /\ k \in CallStates /\ k.pc = "served" /\ k.blob = k.claim /\ k.kind = s.kind
          /\ k.upload = s.upload /\ k.key = s.key
        BY <2>4 DEF CallStates
    <2>6. call' = [call EXCEPT ![c] = k]
        BY <2>1, <2>2, <2>3
    <2> HIDE DEF k
    <2>7. CallInv(k)
        BY <2>1, <2>2, <2>5 DEF CallInv, Writing
    <2> QED
        BY <1>1, <2>5, <2>6, <2>7, CallBegins
<1> QED
    BY <1>2, <1>3

LEMMA AnswerKeeps ==
    ASSUME PackagesInv, NEW c \in Calls, Answer(c)
    PROVE  PackagesInv'
BY CallRests DEF Answer

LEMMA TamperKeeps ==
    ASSUME PackagesInv, NEW d \in DOMAIN store, NEW b \in Claims, Tamper(d, b)
    PROVE  PackagesInv'
<1>1. /\ store' = [store EXCEPT ![d] = b] /\ touched' = touched \cup {d}
      /\ UNCHANGED <<memory, index, call, acked, closed>> /\ PodFailure
    BY DEF Tamper
<1>2. UploadsInv' /\ failures' \in 0 .. MaxFailures /\ b \in Blobs /\ CallsInv
    BY <1>1, UploadsRest, FailureIs, BodiesAreSeqs DEF PackagesInv
<1>3. /\ DOMAIN store' = DOMAIN store /\ store'[d] = b
      /\ \A e \in DOMAIN store \ {d} : store'[e] = store[e]
    BY <1>1
<1>4. StoreInv'
    BY <1>1, <1>2, <1>3 DEF PackagesInv, StoreInv, StoreTypes
<1>5. Steady
    BY <1>1, <1>3, SteadyRests
<1> QED
    BY <1>1, <1>2, <1>4, <1>5, CallsRest DEF PackagesInv

LEMMA CrashKeeps ==
    ASSUME PackagesInv, Crash
    PROVE  PackagesInv'
<1>1. /\ sessions' = Empty /\ call' = [c \in Calls |-> NoCall] /\ PodFailure
      /\ UNCHANGED <<minted, store, index, acked, closed, touched>>
    BY DEF Crash, history
<1>2. DOMAIN sessions' = {}
    BY <1>1 DEF Empty
<1>3. UploadsInv'
    BY <1>1, <1>2 DEF PackagesInv, UploadsInv, SessionTypes
<1>4. StoreInv'
    BY <1>1, StoreRests DEF PackagesInv
<1>5. CallsInv'
    <2>1. call' \in [Calls -> CallStates] /\ \A c \in Calls : call'[c] = NoCall
        BY <1>1, NoCallIs
    <2>2. ASSUME NEW c \in Calls PROVE CallInv(call[c])'
        BY <2>1, NoCallIs DEF CallInv
    <2> QED
        BY <2>1, <2>2 DEF CallsInv
<1> QED
    BY <1>3, <1>4, <1>5 DEF PackagesInv

LEMMA PackagesInitHolds == PackagesInit => PackagesInv
<1> SUFFICES ASSUME PackagesInit PROVE PackagesInv
    OBVIOUS
<1>1. /\ sessions = Empty /\ minted = {} /\ store = Empty /\ index = Empty
      /\ call = [c \in Calls |-> NoCall] /\ acked = [u \in Uploads |-> <<>>]
      /\ closed = Empty /\ touched = {} /\ failures = 0 /\ DOMAIN Empty = {}
    BY DEF PackagesInit, Empty
<1>2. UploadsInv
    BY <1>1, BlobsAreSeqs DEF UploadsInv, SessionTypes
<1>3. StoreInv
    BY <1>1, PackageBoundsAssumption DEF StoreInv, StoreTypes
<1>4. CallsInv
    BY <1>1, NoCallIs DEF CallsInv
<1> QED
    BY <1>2, <1>3, <1>4 DEF PackagesInv

LEMMA PackagesNextHolds == PackagesInv /\ [PackagesNext]_packageVars => PackagesInv'
<1> SUFFICES ASSUME PackagesInv, [PackagesNext]_packageVars PROVE PackagesInv'
    OBVIOUS
<1>1. ASSUME NEW u \in Uploads, StartUpload(u) PROVE PackagesInv'
    BY <1>1, StartUploadKeeps
<1>2. ASSUME NEW c \in Calls, NEW u \in Uploads, NEW b \in Bodies,
             ArriveAtSession(c, "patch", u, b, <<>>)
      PROVE  PackagesInv'
    BY <1>2, ArriveAtSessionKeeps, BlobsAreSeqs
<1>3. ASSUME NEW c \in Calls, NEW u \in Uploads, NEW b \in Bodies, NEW d \in Claims,
             ArriveAtSession(c, "close", u, b, d)
      PROVE  PackagesInv'
    BY <1>3, ArriveAtSessionKeeps, BodiesAreSeqs
<1>4. ASSUME NEW c \in Calls, NEW b \in Artifacts,
             \/ \E r \in References : PublishManifest(c, r, b)
             \/ \E v \in Versions : PublishNpm(c, v, b) \/ PublishFile(c, v, b)
      PROVE  PackagesInv'
    <2>1. ASSUME NEW r \in References, PublishManifest(c, r, b) PROVE PackagesInv'
        <3>1. <<"oci", r>> \in Keys /\ "manifest" \in Recorded
            BY BodiesAreSeqs DEF Keys, References, Recorded
        <3> QED
            BY <2>1, <3>1, PublishesKeeps DEF PublishManifest
    <2>2. ASSUME NEW v \in Versions, PublishNpm(c, v, b) \/ PublishFile(c, v, b) PROVE PackagesInv'
        <3>1. <<"npm", v>> \in Keys /\ <<"file", v>> \in Keys /\ {"npm", "file"} \subseteq Recorded
            BY DEF Keys, Recorded
        <3> QED
            BY <2>2, <3>1, PublishesKeeps DEF PublishNpm, PublishFile
    <2> QED
        BY <1>4, <2>1, <2>2
<1>5. ASSUME NEW c \in Calls, GetManifest(c) \/ GetTarball(c) \/ GetFile(c) PROVE PackagesInv'
    <2>1. PICK k : ReadRow(c, k)
        BY <1>5 DEF GetManifest, GetTarball, GetFile
    <2> QED
        BY <2>1, ReadRowKeeps
<1>6. ASSUME NEW c \in Calls,
             \/ AppendChunk(c) \/ CloseUpload(c) \/ ReadBlob(c) \/ OwnerFetch(c) \/ Has(c)
             \/ EnsureBlobPath(c) \/ Save(c) \/ Record(c) \/ Open(c) \/ Answer(c)
      PROVE  PackagesInv'
    BY <1>6, AppendChunkKeeps, CloseUploadKeeps, ReadBlobKeeps, OwnerFetchKeeps, HasKeeps,
       EnsureBlobPathKeeps, SaveKeeps, RecordKeeps, OpenKeeps, AnswerKeeps
<1>7. CASE UNCHANGED packageVars
    <2>1. UNCHANGED <<memory, store, index, history, failures>> /\ UNCHANGED call
        BY <1>7 DEF packageVars
    <2>2. UploadsInv' /\ StoreInv' /\ Steady /\ (CallsInv' => PackagesInv')
        BY <2>1, UploadsRest, StoreRests, SteadyRests DEF PackagesInv, history
    <2> QED
        BY <2>1, <2>2, CallsRest DEF PackagesInv
<1> QED
    BY <1>1, <1>2, <1>3, <1>4, <1>5, <1>6, <1>7, PostBlobKeeps, GetBlobKeeps, TamperKeeps,
       CrashKeeps DEF PackagesNext

LEMMA PackagesTyped == PackagesInv => PackagesTypeOK
BY DEF PackagesInv, UploadsInv, SessionTypes, StoreInv, StoreTypes, CallsInv, PackagesTypeOK

LEMMA PackagesKeepTheirWord == PackagesInv => RegistryKeepsItsWord
<1> SUFFICES ASSUME PackagesInv PROVE RegistryKeepsItsWord
    OBVIOUS
<1>1. ASSUME NEW u \in DOMAIN closed
      PROVE  /\ Len(acked[u]) <= Len(closed[u])
             /\ SubSeq(closed[u], 1, Len(acked[u])) = acked[u]
    <2>1. u \in Uploads /\ acked[u] \in Blobs /\ closed[u] \in Blobs /\ Begins(acked[u], closed[u])
        BY DEF PackagesInv, UploadsInv, SessionTypes
    <2> QED
        BY <2>1, BlobsAreSeqs, BeginsIsPrefix
<1>2. IndexedIsStored
    BY DEF PackagesInv, StoreInv, StoreTypes, IndexedIsStored
<1>3. PulledIsNamed
    BY CallFacts DEF PackagesInv, PulledIsNamed, CallAt, CallInv
<1> QED
    BY <1>1, <1>2, <1>3 DEF RegistryKeepsItsWord, AckedIsInBlob

(* PackagesInv holds throughout: what every request, session and row of the *)
(* registry relies on while others move, the pod fails, another application *)
(* writes to it and the bridge restarts.                                    *)
THEOREM PackagesInvariant == PackagesSpec => []PackagesInv
BY PackagesInitHolds, PackagesNextHolds, PTL DEF PackagesSpec

(* For any number of requests and uploads, and blobs of any size up to the  *)
(* limit: the types of the registry's sessions, rows, blobs and requests,   *)
(* and that nothing which waits in memory is larger than an artifact.       *)
THEOREM PackagesTypes == PackagesSpec => []PackagesTypeOK
BY PackagesInitHolds, PackagesNextHolds, PackagesTyped, PTL DEF PackagesSpec

(* What the registry has taken is there and is what it serves: a chunk that *)
(* PATCH has answered 202 for is in the blob of its upload's 201, a row     *)
(* names a blob that is on the pod, and what is pulled is what was named.   *)
THEOREM RegistryKeeps == PackagesSpec => []RegistryKeepsItsWord
BY PackagesInitHolds, PackagesNextHolds, PackagesKeepTheirWord, PTL DEF PackagesSpec

-----------------------------------------------------------------------------
(* Previews.  While nothing overlaps and only requests of the browser fail, *)
(* there is one build or teardown at a time, and whatever it is up to, the  *)
(* row, the container and the card are in step with it.                     *)
JobStates ==
    [pc : {"idle", "head", "log", "checkout", "build", "auth", "put", "prune"},
     kind : {"build", "teardown"}, was : [status : Statuses, sha : Commits \cup {0}],
     live : Commits \cup {0}, tree : Commits \cup {0},
     todo : SUBSET PreviewFiles, kept : SUBSET PreviewFiles]
CardStates ==
    [status : Statuses, shown : Commits \cup {0}, asked : Commits \cup {0}, landed : BOOLEAN,
     post : [1 .. MaxAsks -> PostStates], slipped : BOOLEAN,
     poll : {NoPoll} \cup [status : Statuses, sha : Commits \cup {0}]]

Gone     == \A f \in PreviewFiles : container[f] = 0
Shows(c) == /\ container = [f \in PreviewFiles |-> IF f \in FilesOf[c] THEN c ELSE 0]
            /\ row.url = LinkTo(c)
Good     == \E c \in row.sha .. tip : Shows(c)

(* The row has been marked for the build that this card waits for. *)
Awaits(s) ==
    /\ ~s.slipped
    /\ \/ \E n \in 1 .. MaxAsks : s.post[n] = "done"
       \/ s.status = "building" /\ s.landed /\ \A n \in 1 .. MaxAsks : s.post[n] # "read"

Resting ==
    /\ row.status # "building"
    /\ row.status = "null" => Gone
    /\ row.status = "ready" => Good
    /\ status # "open" => row.status \in {"null", "failed"}

BuildInv(s) ==
    /\ status = "open" /\ merge = "none"
    /\ s.pc = "head" /\ s.was.status = "ready" => s.was.sha = row.sha /\ Good
    /\ s.pc # "head" => s.live \in 1 .. tip /\ (Awaits(card) => s.live >= card.asked)
    /\ s.pc \in {"build", "auth", "put", "prune"} => s.tree \in s.live .. tip
    /\ s.pc \notin {"put", "prune"} => s.kept = {}
    /\ s.pc = "put" => /\ s.todo \cup s.kept = FilesOf[s.tree]
                       /\ \A f \in s.kept : container[f] = s.tree
    /\ s.pc = "prune" =>
          \A f \in PreviewFiles :
              IF f \in FilesOf[s.tree] THEN container[f] = s.tree /\ f \notin s.todo
                                       ELSE container[f] = 0 \/ f \in s.todo
TeardownInv(s) ==
    /\ status # "open" /\ s.pc \in {"auth", "put", "prune"}
    /\ s.pc # "prune" => s.todo = {} /\ s.kept = {}
    /\ s.pc = "prune" => \A f \in PreviewFiles : container[f] = 0 \/ f \in s.todo
JobInv(s) == IF s.kind = "build" THEN BuildInv(s) ELSE TeardownInv(s)

(* As long as no poll has slipped in: one request is under way at most, and  *)
(* neither a poll nor another press before its answer is read.               *)
CardInv(s) ==
    /\ s.asked <= tip
    /\ \/ s.slipped
       \/ /\ \A m, n \in 1 .. MaxAsks : s.post[m] # "none" /\ s.post[n] # "none" => m = n
          /\ \A n \in 1 .. MaxAsks :
                /\ s.post[n] # "none" => s.status = "building" /\ s.poll = NoPoll
                /\ s.post[n] # "none" => (s.landed <=> s.post[n] = "read")
          /\ s.poll # NoPoll => s.status = "building" /\ s.landed
          /\ Awaits(s) /\ row.status = "ready" => row.sha >= s.asked
          /\ s.poll.status = "ready" => s.poll.sha >= s.asked
          /\ s.status = "ready" => s.shown >= s.asked

OneJob == \A i, j \in Jobs : JobAt(i, "idle") \/ JobAt(j, "idle") \/ i = j
Calm ==
    /\ OneJob
    /\ \A j \in Jobs : JobAt(j, "idle") \/ JobInv(job[j])
    /\ Quiet => Resting
    /\ merge # "none" /\ status = "open" => Quiet /\ merge = row.status
    /\ CardInv(card)

(* A build has read the head before it opens its log, and knows its tree    *)
(* before it looks at it.                                                   *)
Begun(s) ==
    /\ s.pc \in {"idle", "head"} \/ s.kind = "teardown" \/ s.live # 0
    /\ s.pc \in {"build", "auth", "put", "prune"} => s.kind = "teardown" \/ s.tree # 0
JobTypes == job \in [Jobs -> JobStates] /\ \A j \in Jobs : Begun(job[j])
RowTypes ==
    /\ tip \in Commits /\ status \in {"open", "merged", "closed"} /\ row \in Row
    /\ site \in {"published", "failed"} /\ container \in [PreviewFiles -> Commits \cup {0}]
    /\ merge \in Statuses \cup {"none"}
BoundTypes ==
    /\ asks \in 0 .. MaxAsks /\ overlapped \in BOOLEAN
    /\ mishaps \subseteq {"request", "content", "row"} /\ Cardinality(mishaps) <= MaxMishaps
PrevTypes == JobTypes /\ RowTypes /\ BoundTypes /\ card \in CardStates

PreviewsInv == PrevTypes /\ (Undisturbed => Calm)

LEMMA CommitsAre ==
    /\ MaxCommit \in Nat \ {0} /\ MaxAsks \in Nat /\ MaxMishaps \in Nat
    /\ FilesOf \in [Commits -> SUBSET PreviewFiles]
    /\ \A c \in Commits : c \in Int /\ 1 <= c /\ c <= MaxCommit
    /\ \A c \in Commits : \A d \in 1 .. c : d \in Commits
BY CommitsAssumption DEF Commits

LEMMA NoJobIs ==
    /\ NoJob \in JobStates /\ NoJob.pc = "idle" /\ NoJob.was = [status |-> "null", sha |-> 0]
    /\ NoJob.todo = {} /\ NoJob.kept = {} /\ NoJob.kind = "build" /\ NoJob.live = 0 /\ NoJob.tree = 0
    /\ Begun(NoJob)
BY DEF NoJob, JobStates, Statuses, Begun

LEMMA JobFacts ==
    ASSUME PrevTypes, NEW j \in Jobs
    PROVE  /\ job[j] \in JobStates /\ job \in [Jobs -> JobStates]
           /\ Begun(job[j])
           /\ job[j].kind \in {"build", "teardown"}
           /\ job[j].live \in Commits \cup {0} /\ job[j].tree \in Commits \cup {0}
           /\ job[j].todo \subseteq PreviewFiles /\ job[j].kept \subseteq PreviewFiles
           /\ job[j].was.status \in Statuses /\ job[j].was.sha \in Commits \cup {0}
BY DEF PrevTypes, JobTypes, JobStates

(* A build or a teardown moves, or its slot is taken or left. *)
LEMMA JobMoves ==
    ASSUME PrevTypes, NEW j \in Jobs, NEW k \in JobStates, job' = [job EXCEPT ![j] = k],
           Begun(k)
    PROVE  /\ JobTypes' /\ job'[j] = k /\ \A i \in Jobs \ {j} : job'[i] = job[i]
BY JobFacts DEF PrevTypes, JobTypes

(* One more thing goes wrong. *)
LEMMA MishapIs ==
    ASSUME BoundTypes, NEW sort \in {"request", "content", "row"}, Mishap(sort),
           asks' \in 0 .. MaxAsks, overlapped' \in BOOLEAN
    PROVE  BoundTypes' /\ (Undisturbed' => sort = "request")
<1>1. IsFiniteSet({"request", "content", "row"})
    <2>1. IsFiniteSet({}) /\ {"request", "content", "row"} = (({} \cup {"request"}) \cup {"content"}) \cup {"row"}
        BY FS_EmptySet
    <2>2. IsFiniteSet({} \cup {"request"})
        BY <2>1, FS_AddElement
    <2>3. IsFiniteSet(({} \cup {"request"}) \cup {"content"})
        BY <2>2, FS_AddElement
    <2>4. IsFiniteSet((({} \cup {"request"}) \cup {"content"}) \cup {"row"})
        BY <2>3, FS_AddElement
    <2> QED
        BY <2>1, <2>4
<1>2. /\ sort \notin mishaps /\ Cardinality(mishaps) < MaxMishaps /\ mishaps' = mishaps \cup {sort}
      /\ mishaps \subseteq {"request", "content", "row"}
    BY DEF Mishap, BoundTypes
<1>3. PICK m \in SUBSET {"request", "content", "row"} : m = mishaps
    BY <1>2
<1>4. IsFiniteSet(m)
    BY <1>1, FS_Subset
<1>5. Cardinality(m) \in Nat /\ Cardinality(m \cup {sort}) = Cardinality(m) + 1
    BY <1>2, <1>3, <1>4, FS_CardinalityType, FS_AddElement
<1>6. Cardinality(mishaps') <= MaxMishaps
    BY <1>2, <1>3, <1>5, CommitsAre
<1> QED
    BY <1>2, <1>6 DEF BoundTypes, Undisturbed

(* The one that is at work moves on. *)
LEMMA WorkGoesOn ==
    ASSUME PrevTypes, Calm, NEW j \in Jobs, NEW k \in JobStates, job' = [job EXCEPT ![j] = k],
           Begun(k),
           ~JobAt(j, "idle"), k.pc # "idle", JobInv(k)', CardInv(card)', UNCHANGED <<status, merge>>
    PROVE  Calm'
<1>1. job'[j] = k /\ \A i \in Jobs \ {j} : job'[i] = job[i]
    BY JobMoves
<1>2. \A i \in Jobs \ {j} : JobAt(i, "idle") /\ JobAt(i, "idle")'
    BY <1>1 DEF Calm, OneJob, JobAt
<1>3. OneJob'
    BY <1>2 DEF OneJob
<1>4. ASSUME NEW i \in Jobs PROVE (JobAt(i, "idle") \/ JobInv(job[i]))'
    <2>1. CASE i = j
        <3>1. PICK q \in JobStates : q = k /\ q = job'[i]
            BY <1>1, <2>1
        <3>2. JobInv(q)'
            BY <3>1
        <3> QED
            BY <3>1, <3>2
    <2>2. CASE i # j
        BY <1>2, <2>2
    <2> QED
        BY <2>1, <2>2
<1>5. ~Quiet' /\ ~Quiet
    BY <1>1 DEF Quiet, JobAt
<1> QED
    BY <1>3, <1>4, <1>5 DEF Calm

(* The one that is at work ends. *)
LEMMA WorkEnds ==
    ASSUME PrevTypes, Calm, NEW j \in Jobs, JobEnds(j), ~JobAt(j, "idle"),
           Resting', CardInv(card)', UNCHANGED <<status, merge>>
    PROVE  Calm'
<1>1. job'[j] = NoJob /\ \A i \in Jobs \ {j} : job'[i] = job[i]
    BY JobMoves, NoJobIs DEF JobEnds
<1>2. \A i \in Jobs : JobAt(i, "idle")'
    BY <1>1, NoJobIs DEF Calm, OneJob, JobAt
<1>3. ~Quiet
    BY DEF Quiet
<1> QED
    BY <1>2, <1>3 DEF Calm, OneJob

(* A build or a teardown starts where none is at work. *)
LEMMA WorkStarts ==
    ASSUME PrevTypes, Quiet, NEW j \in Jobs, NEW k \in JobStates, job' = [job EXCEPT ![j] = k],
           Begun(k),
           k.pc # "idle", JobInv(k)', CardInv(card)', merge' = "none" \/ status' # "open"
    PROVE  Calm'
<1>1. job'[j] = k /\ \A i \in Jobs \ {j} : job'[i] = job[i]
    BY JobMoves
<1>2. \A i \in Jobs \ {j} : JobAt(i, "idle")'
    BY <1>1 DEF Quiet, JobAt
<1>3. OneJob'
    BY <1>2 DEF OneJob
<1>4. ASSUME NEW i \in Jobs PROVE (JobAt(i, "idle") \/ JobInv(job[i]))'
    <2>1. CASE i = j
        <3>1. PICK q \in JobStates : q = k /\ q = job'[i]
            BY <1>1, <2>1
        <3>2. JobInv(q)'
            BY <3>1
        <3> QED
            BY <3>1, <3>2
    <2>2. CASE i # j
        BY <1>2, <2>2
    <2> QED
        BY <2>1, <2>2
<1>5. ~Quiet'
    BY <1>1 DEF Quiet, JobAt
<1> QED
    BY <1>3, <1>4, <1>5 DEF Calm

(* Start takes a free slot, with the row as it is. *)
LEMMA StartIs ==
    ASSUME PrevTypes, NEW kind \in {"build", "teardown"}, NEW pc \in {"head", "auth"}, Start(kind, pc)
    PROVE  \E j \in Jobs, k \in JobStates :
               /\ job' = [job EXCEPT ![j] = k] /\ k.pc = pc /\ k.kind = kind
               /\ k.was = [status |-> row.status, sha |-> row.sha]
               /\ k.todo = {} /\ k.kept = {}
               /\ (pc = "head" \/ kind = "teardown" => Begun(k))
<1>1. PICK j \in Jobs :
          job' = [job EXCEPT ![j] = [NoJob EXCEPT !.pc = pc, !.kind = kind,
                          !.was = [status |-> row.status, sha |-> row.sha]]]
    BY DEF Start
<1>2. PICK w \in [status : Statuses, sha : Commits \cup {0}] :
          w = [status |-> row.status, sha |-> row.sha]
    BY DEF PrevTypes, RowTypes, Row
<1> DEFINE k == [NoJob EXCEPT !.pc = pc, !.kind = kind, !.was = w]
<1>3. k \in JobStates /\ k.pc = pc /\ k.kind = kind /\ k.was = w /\ k.todo = {} /\ k.kept = {}
    BY NoJobIs DEF JobStates
<1>4. job' = [job EXCEPT ![j] = k]
    BY <1>1, <1>2
<1> HIDE DEF k
<1>5. pc = "head" \/ kind = "teardown" => Begun(k)
    BY <1>3 DEF Begun
<1> QED
    BY <1>2, <1>3, <1>4, <1>5

-----------------------------------------------------------------------------
(* The browser.  Only its card changes: the card is in step with the row,   *)
(* and waits for no build it did not wait for, or asked for nothing.        *)
LEMMA CardMoves ==
    ASSUME PreviewsInv, UNCHANGED <<tip, pull, site, container, job, merge>>,
           NEW k \in CardStates, card' = k, BoundTypes', Undisturbed' => Undisturbed,
           Undisturbed =>
               /\ CardInv(k)
               /\ Awaits(k) => (Awaits(card) /\ k.asked = card.asked) \/ k.asked = 0
    PROVE  PreviewsInv'
<1>1. UNCHANGED <<tip, status, row, site, container, job, merge>>
    BY DEF pull
<1>2. PrevTypes'
    BY <1>1 DEF PreviewsInv, PrevTypes, JobTypes, RowTypes
<1>3. ASSUME Undisturbed' PROVE Calm'
    <2>1. /\ Calm /\ CardInv(k)
          /\ Awaits(k) => (Awaits(card) /\ k.asked = card.asked) \/ k.asked = 0
        BY <1>3 DEF PreviewsInv
    <2>2. CardInv(card)'
        BY <1>1, <2>1 DEF CardInv, Awaits
    <2>3. OneJob' /\ (Quiet' => Resting')
        BY <1>1, <2>1 DEF Calm, OneJob, JobAt, Quiet, Resting, Good, Shows, Gone
    <2>4. ASSUME NEW j \in Jobs PROVE (JobAt(j, "idle") \/ JobInv(job[j]))'
        <3>1. PICK s \in JobStates : s = job[j] /\ s = job'[j]
            BY <1>1, JobFacts DEF PreviewsInv
        <3>2. CASE s.pc = "idle"
            BY <3>1, <3>2 DEF JobAt
        <3>3. CASE s.pc # "idle"
            <4>1. JobInv(s)
                BY <2>1, <3>1, <3>3 DEF Calm, JobAt
            <4>2. TeardownInv(s) => TeardownInv(s)'
                BY <1>1 DEF TeardownInv
            <4>3. ASSUME BuildInv(s) PROVE BuildInv(s)'
                <5>1. s.pc # "head" => s.live \in 1 .. tip /\ (Awaits(k) => s.live >= k.asked)
                    <6>1. s.pc # "head" => s.live \in 1 .. tip /\ (Awaits(card) => s.live >= card.asked)
                        BY <4>3 DEF BuildInv
                    <6>2. tip \in Int
                        BY CommitsAre DEF PreviewsInv, PrevTypes, RowTypes
                    <6> QED
                        BY <2>1, <6>1, <6>2
                <5>2. Good => Good'
                    BY <1>1 DEF Good, Shows
                <5> QED
                    BY <1>1, <4>3, <5>1, <5>2 DEF BuildInv
            <4>4. JobInv(s)'
                BY <4>1, <4>2, <4>3 DEF JobInv
            <4> QED
                BY <3>1, <4>4
        <3> QED
            BY <3>2, <3>3
    <2>5. (merge # "none" /\ status = "open" => Quiet /\ merge = row.status)'
        BY <1>1, <2>1 DEF Calm, Quiet, JobAt
    <2> QED
        BY <2>2, <2>3, <2>4, <2>5 DEF Calm
<1> QED
    BY <1>2, <1>3 DEF PreviewsInv

LEMMA CardFacts ==
    ASSUME PreviewsInv
    PROVE  /\ card \in CardStates /\ tip \in Commits /\ tip \in Int /\ tip >= 1
           /\ row.status \in Statuses /\ row.sha \in Commits \cup {0} /\ row.sha \in Int
           /\ NoPoll.status = "none" /\ card.poll \in {NoPoll} \cup [status : Statuses, sha : Commits \cup {0}]
           /\ Statuses = {"null", "building", "ready", "failed"}
           /\ BoundTypes /\ \A n \in Commits \cup {0} : n \in Int /\ n >= 0
           /\ (Undisturbed => CardInv(card) /\ Calm)
BY CommitsAre DEF PreviewsInv, PrevTypes, RowTypes, NoPoll, CardStates, Statuses, Row, Calm

LEMMA AskIs ==
    ASSUME BoundTypes, Ask, UNCHANGED <<mishaps, overlapped>>
    PROVE  BoundTypes' /\ (Undisturbed' => Undisturbed)
BY CommitsAre DEF BoundTypes, Ask, Undisturbed

LEMMA BoundsRest ==
    ASSUME BoundTypes, UNCHANGED <<bounds, overlapped>>
    PROVE  BoundTypes' /\ (Undisturbed' => Undisturbed)
BY DEF BoundTypes, bounds, Undisturbed

(* A request of the browser fails, and nothing else does. *)
LEMMA RequestLost ==
    ASSUME BoundTypes, Mishap("request"), UNCHANGED <<asks, overlapped>>
    PROVE  BoundTypes' /\ (Undisturbed' => Undisturbed)
<1>1. BoundTypes'
    BY MishapIs DEF BoundTypes
<1> QED
    BY <1>1 DEF BoundTypes, Undisturbed, Mishap

(* What is not the browser's goes wrong. *)
LEMMA Disturbs ==
    ASSUME BoundTypes, NEW sort \in {"content", "row"}, Mishap(sort), UNCHANGED <<asks, overlapped>>
    PROVE  BoundTypes' /\ ~Undisturbed'
<1>1. BoundTypes' /\ (Undisturbed' => sort = "request")
    BY MishapIs DEF BoundTypes
<1> QED
    BY <1>1

(* The request of one press goes on. *)
LEMMA PostMoves ==
    ASSUME NEW s \in CardStates, NEW n \in 1 .. MaxAsks, NEW q \in PostStates
    PROVE  \E p \in [1 .. MaxAsks -> PostStates] :
               /\ p = [s.post EXCEPT ![n] = q] /\ p[n] = q
               /\ \A m \in 1 .. MaxAsks \ {n} : p[m] = s.post[m]
<1> DEFINE p == [s.post EXCEPT ![n] = q]
<1>1. s.post \in [1 .. MaxAsks -> PostStates]
    BY DEF CardStates
<1>2. /\ p \in [1 .. MaxAsks -> PostStates] /\ p[n] = q
      /\ \A m \in 1 .. MaxAsks \ {n} : p[m] = s.post[m]
    BY <1>1
<1> QED
    BY <1>2

LEMMA PostStatesAre == {"none", "sent", "done", "refused", "read"} \subseteq PostStates
BY DEF PostStates

LEMMA PressKeeps ==
    ASSUME PreviewsInv, Press
    PROVE  PreviewsInv'
<1>1. PICK s \in CardStates : s = card
    BY CardFacts
<1>2. BoundTypes' /\ (Undisturbed' => Undisturbed) /\ asks' \in 1 .. MaxAsks
    BY CardFacts, AskIs, CommitsAre DEF Press, Ask, BoundTypes
<1>3. PICK p \in [1 .. MaxAsks -> PostStates] :
          /\ p = [s.post EXCEPT ![asks'] = "sent"] /\ p[asks'] = "sent"
          /\ \A m \in 1 .. MaxAsks \ {asks'} : p[m] = s.post[m]
    <2>1. asks' \in 1 .. MaxAsks /\ "sent" \in PostStates
        BY <1>2, PostStatesAre
    <2> QED
        BY <2>1, PostMoves
<1> DEFINE k == [s EXCEPT !.status = "building", !.landed = FALSE, !.post = p,
                            !.asked = tip, !.shown = 0]
<1>4. /\ UNCHANGED <<tip, pull, site, container, job, merge>> /\ card' = k
      /\ s.status # "building"
    BY <1>1, <1>3 DEF Press, CardStates
<1>5. /\ k \in CardStates /\ k.status = "building" /\ k.landed = FALSE /\ k.post = p
      /\ k.asked = tip /\ k.poll = s.poll /\ k.slipped = s.slipped
    BY CardFacts DEF CardStates
<1> HIDE DEF k
<1>6. Undisturbed => CardInv(s)
    BY <1>1, CardFacts
<1>7. Undisturbed /\ ~s.slipped => s.poll = NoPoll /\ \A m \in 1 .. MaxAsks : s.post[m] = "none"
    BY <1>4, <1>6 DEF CardInv
<1>8. Undisturbed => ~Awaits(k)
    BY <1>2, <1>3, <1>5, <1>7 DEF Awaits
<1>9. Undisturbed => CardInv(k)
    BY <1>2, <1>3, <1>5, <1>7, <1>8, CardFacts DEF CardInv
<1> QED
    BY <1>1, <1>2, <1>4, <1>5, <1>8, <1>9, CardMoves

LEMMA PostAnsweredKeeps ==
    ASSUME PreviewsInv, NEW n \in 1 .. MaxAsks, PostAnswered(n)
    PROVE  PreviewsInv'
<1>1. PICK s \in CardStates : s = card
    BY CardFacts
<1>2. PICK q \in PostStates : q = IF s.post[n] = "refused" THEN "read" ELSE "none"
    BY DEF PostStates
<1>3. PICK p \in [1 .. MaxAsks -> PostStates] :
          /\ p = [s.post EXCEPT ![n] = q] /\ p[n] = q
          /\ \A m \in 1 .. MaxAsks \ {n} : p[m] = s.post[m]
    BY PostMoves
<1> DEFINE k == [s EXCEPT !.landed = TRUE, !.post = p]
<1>4. /\ UNCHANGED <<tip, pull, site, container, job, merge>> /\ card' = k
      /\ s.post[n] \in {"done", "refused"}
    BY <1>1, <1>2, <1>3 DEF PostAnswered, CardStates
<1>5. BoundTypes' /\ (Undisturbed' => Undisturbed)
    BY CardFacts, BoundsRest DEF PostAnswered
<1>6. /\ k \in CardStates /\ k.landed = TRUE /\ k.post = p /\ k.asked = s.asked
      /\ k.status = s.status /\ k.poll = s.poll /\ k.shown = s.shown /\ k.slipped = s.slipped
    BY DEF CardStates
<1> HIDE DEF k
<1>7. Undisturbed => CardInv(s)
    BY <1>1, CardFacts
<1>8. Undisturbed /\ ~s.slipped =>
          /\ s.status = "building" /\ ~s.landed /\ s.poll = NoPoll
          /\ \A m \in 1 .. MaxAsks \ {n} : s.post[m] = "none"
    BY <1>4, <1>7 DEF CardInv
<1>9. Undisturbed => (Awaits(k) => Awaits(s))
    <2> SUFFICES ASSUME Undisturbed, Awaits(k) PROVE Awaits(s)
        OBVIOUS
    <2>1. ~s.slipped /\ q # "read"
        BY <1>3, <1>6, <1>8, <1>2 DEF Awaits
    <2>2. s.post[n] = "done"
        BY <1>2, <1>4, <2>1
    <2> QED
        BY <2>1, <2>2 DEF Awaits
<1>10. Undisturbed => CardInv(k)
    BY <1>2, <1>3, <1>6, <1>7, <1>8, <1>9, CardFacts DEF CardInv
<1> QED
    BY <1>1, <1>4, <1>5, <1>6, <1>9, <1>10, CardMoves

LEMMA RefusalReadKeeps ==
    ASSUME PreviewsInv, NEW n \in 1 .. MaxAsks, RefusalRead(n)
    PROVE  PreviewsInv'
<1>1. PICK s \in CardStates : s = card
    BY CardFacts
<1>2. PICK p \in [1 .. MaxAsks -> PostStates] :
          /\ p = [s.post EXCEPT ![n] = "none"] /\ p[n] = "none"
          /\ \A m \in 1 .. MaxAsks \ {n} : p[m] = s.post[m]
    <2>1. "none" \in PostStates
        BY PostStatesAre
    <2> QED
        BY <2>1, PostMoves
<1> DEFINE k == [s EXCEPT !.status = "failed", !.post = p, !.poll = NoPoll]
<1>3. /\ UNCHANGED <<tip, pull, site, container, job, merge>> /\ card' = k
      /\ s.post[n] = "read"
    BY <1>1, <1>2 DEF RefusalRead, CardStates
<1>4. BoundTypes' /\ (Undisturbed' => Undisturbed)
    BY CardFacts, BoundsRest DEF RefusalRead
<1>5. /\ k \in CardStates /\ k.landed = s.landed /\ k.post = p /\ k.asked = s.asked
      /\ k.status = "failed" /\ k.poll = NoPoll /\ k.slipped = s.slipped
    BY CardFacts DEF CardStates, Statuses
<1> HIDE DEF k
<1>6. Undisturbed => CardInv(s)
    BY <1>1, CardFacts
<1>7. Undisturbed /\ ~s.slipped => \A m \in 1 .. MaxAsks : p[m] = "none"
    BY <1>2, <1>3, <1>6 DEF CardInv
<1>8. Undisturbed => ~Awaits(k)
    BY <1>5, <1>7 DEF Awaits
<1>9. Undisturbed => CardInv(k)
    BY <1>5, <1>6, <1>7, <1>8, CardFacts DEF CardInv
<1> QED
    BY <1>1, <1>3, <1>4, <1>5, <1>8, <1>9, CardMoves

(* Requests that are lost leave the card failed, and with none under way if  *)
(* they were all that were.                                                  *)
LEMMA LosePostsIs ==
    ASSUME PreviewsInv, NEW lost \in SUBSET Outstanding, lost # {}
    PROVE  /\ LosePosts(lost) \in CardStates
           /\ Undisturbed => ~Awaits(LosePosts(lost)) /\ CardInv(LosePosts(lost))
<1>1. PICK s \in CardStates : s = card
    BY CardFacts
<1>2. PICK p \in [1 .. MaxAsks -> PostStates] :
          p = [n \in 1 .. MaxAsks |-> IF n \in lost THEN "none" ELSE s.post[n]]
    BY DEF CardStates, PostStates
<1> DEFINE k == [s EXCEPT !.status = "failed", !.poll = NoPoll, !.post = p]
<1>3. LosePosts(lost) = k
    BY <1>1, <1>2 DEF LosePosts, CardStates
<1>4. /\ k \in CardStates /\ k.status = "failed" /\ k.post = p /\ k.poll = NoPoll
      /\ k.asked = s.asked /\ k.slipped = s.slipped
    BY CardFacts DEF CardStates, Statuses
<1> HIDE DEF k
<1>5. PICK n \in 1 .. MaxAsks : n \in lost /\ s.post[n] # "none"
    BY <1>1 DEF Outstanding
<1>6. Undisturbed => CardInv(s)
    BY <1>1, CardFacts
<1>7. Undisturbed /\ ~s.slipped => \A m \in 1 .. MaxAsks : p[m] = "none"
    BY <1>2, <1>5, <1>6 DEF CardInv
<1>8. Undisturbed => ~Awaits(k)
    BY <1>4, <1>7 DEF Awaits
<1>9. Undisturbed => CardInv(k)
    BY <1>4, <1>6, <1>7, <1>8, CardFacts DEF CardInv
<1> QED
    BY <1>3, <1>4, <1>8, <1>9

LEMMA PostLostKeeps ==
    ASSUME PreviewsInv, NEW n \in 1 .. MaxAsks, PostLost(n)
    PROVE  PreviewsInv'
<1>1. BoundTypes' /\ (Undisturbed' => Undisturbed)
    BY CardFacts, RequestLost DEF PostLost
<1>2. UNCHANGED <<tip, pull, site, container, job, merge>> /\ card' = LosePosts({n})
    BY DEF PostLost
<1>3. {n} \in SUBSET Outstanding /\ {n} # {}
    BY DEF PostLost
<1>4. PICK k \in CardStates : k = LosePosts({n})
    BY <1>3, LosePostsIs
<1>5. Undisturbed => ~Awaits(k) /\ CardInv(k)
    BY <1>3, <1>4, LosePostsIs
<1> QED
    BY <1>1, <1>2, <1>4, <1>5, CardMoves

LEMMA ShownIs ==
    ASSUME PreviewsInv
    PROVE  /\ Shown \in [status : Statuses, sha : Commits \cup {0}]
           /\ Shown.status = row.status /\ (row.status = "ready" => Shown.sha = row.sha)
           /\ Shown.sha \in Commits \cup {0}
BY CardFacts DEF Shown

LEMMA PollKeeps ==
    ASSUME PreviewsInv, Poll
    PROVE  PreviewsInv'
<1>1. PICK s \in CardStates : s = card
    BY CardFacts
<1>2. PICK p \in [status : Statuses, sha : Commits \cup {0}] : p = Shown
    BY ShownIs
<1>3. PICK slip \in BOOLEAN :
          slip = (s.slipped \/ \E n \in 1 .. MaxAsks : s.post[n] = "read")
    BY Zenon DEF CardStates
<1> DEFINE k == [s EXCEPT !.poll = p, !.slipped = slip]
<1>4. /\ UNCHANGED <<tip, pull, site, container, job, merge>> /\ card' = k
      /\ s.status = "building" /\ s.landed
    BY <1>1, <1>2, <1>3 DEF Poll, CardStates
<1>5. BoundTypes' /\ (Undisturbed' => Undisturbed)
    BY CardFacts, BoundsRest DEF Poll
<1>6. /\ k \in CardStates /\ k.landed = s.landed /\ k.post = s.post /\ k.asked = s.asked
      /\ k.status = s.status /\ k.poll = p /\ k.shown = s.shown /\ k.slipped = slip
    BY DEF CardStates
<1> HIDE DEF k
<1>7. Awaits(k) => Awaits(s)
    BY <1>3, <1>4, <1>6 DEF Awaits
<1>8. p.status = row.status /\ (row.status = "ready" => p.sha = row.sha)
    BY <1>2, ShownIs
<1>9. Undisturbed => CardInv(s)
    BY <1>1, CardFacts
<1>10. Undisturbed => CardInv(k)
    <2> SUFFICES ASSUME Undisturbed PROVE CardInv(k)
        OBVIOUS
    <2>1. k.asked <= tip
        BY <1>6, <1>9 DEF CardInv
    <2>2. CASE slip
        BY <1>6, <2>1, <2>2 DEF CardInv
    <2>3. CASE ~slip
        <3>1. ~s.slipped /\ \A n \in 1 .. MaxAsks : s.post[n] # "read"
            BY <1>3, <2>3
        <3>2. \A n \in 1 .. MaxAsks : s.post[n] = "none"
            BY <1>4, <1>9, <3>1 DEF CardInv
        <3>3. Awaits(s)
            BY <1>4, <3>1 DEF Awaits
        <3> QED
            BY <1>4, <1>6, <1>7, <1>8, <1>9, <2>1, <3>1, <3>2, <3>3, CardFacts DEF CardInv
    <2> QED
        BY <2>2, <2>3
<1> QED
    BY <1>1, <1>4, <1>5, <1>6, <1>7, <1>10, CardMoves

LEMMA PollAnsweredKeeps ==
    ASSUME PreviewsInv, PollAnswered
    PROVE  PreviewsInv'
<1>1. PICK s \in CardStates : s = card
    BY CardFacts
<1>2. /\ UNCHANGED <<tip, pull, site, container, job, merge>> /\ s.poll # NoPoll
      /\ BoundTypes' /\ (Undisturbed' => Undisturbed) /\ (Undisturbed => CardInv(s))
    BY <1>1, CardFacts, BoundsRest DEF PollAnswered
<1>3. CASE s.poll.status = "null" \/ s.status # "building"
    <2> DEFINE k == [s EXCEPT !.poll = NoPoll]
    <2>1. card' = k
        BY <1>1, <1>3 DEF PollAnswered
    <2>2. /\ k \in CardStates /\ k.landed = s.landed /\ k.post = s.post /\ k.asked = s.asked
          /\ k.status = s.status /\ k.poll = NoPoll /\ k.shown = s.shown
          /\ k.slipped = s.slipped
        BY CardFacts DEF CardStates
    <2> HIDE DEF k
    <2>3. Awaits(k) => Awaits(s)
        BY <2>2 DEF Awaits
    <2>4. Undisturbed => CardInv(k)
        BY <1>2, <2>2, <2>3, CardFacts DEF CardInv
    <2> QED
        BY <1>1, <1>2, <2>1, <2>2, <2>3, <2>4, CardMoves
<1>4. CASE ~(s.poll.status = "null" \/ s.status # "building") 
    <2>0. s.poll \in [status : Statuses, sha : Commits \cup {0}]
        BY <1>1, <1>2, CardFacts
    <2> DEFINE k == [s EXCEPT !.poll = NoPoll, !.status = s.poll.status, !.shown = s.poll.sha]
    <2>1. card' = k
        BY <1>1, <1>4 DEF PollAnswered
    <2>2. /\ k \in CardStates /\ k.landed = s.landed /\ k.post = s.post /\ k.asked = s.asked
          /\ k.status = s.poll.status /\ k.poll = NoPoll /\ k.shown = s.poll.sha
          /\ k.slipped = s.slipped
        BY <2>0 DEF CardStates
    <2> HIDE DEF k
    <2>3. Undisturbed /\ ~s.slipped =>
              s.landed /\ \A n \in 1 .. MaxAsks : s.post[n] = "none"
        BY <1>2 DEF CardInv
    <2>4. Undisturbed => (Awaits(k) => Awaits(s))
        BY <1>4, <2>2, <2>3 DEF Awaits
    <2>5. Undisturbed => CardInv(k)
        BY <1>2, <2>2, <2>3, <2>4, CardFacts DEF CardInv
    <2> QED
        BY <1>1, <1>2, <2>1, <2>2, <2>4, <2>5, CardMoves
<1> QED
    BY <1>3, <1>4

LEMMA ReloadKeeps ==
    ASSUME PreviewsInv, Reload
    PROVE  PreviewsInv'
<1>1. UNCHANGED <<tip, pull, site, container, job, merge>> /\ card' = NewCard
    BY DEF Reload
<1>2. BoundTypes' /\ (Undisturbed' => Undisturbed)
    BY CardFacts, AskIs DEF Reload
<1>3. PICK k : k = NewCard
    OBVIOUS
<1>4. Shown.sha \in Commits \cup {0}
    BY ShownIs
<1>5. /\ k \in CardStates /\ k.landed = TRUE /\ k.post = NoPost /\ k.asked = 0 /\ k.slipped = FALSE
      /\ k.status = row.status /\ k.poll = NoPoll /\ k.shown = Shown.sha
    BY <1>3, <1>4, CardFacts DEF NewCard, CardStates, NoPost, PostStates
<1>6. Undisturbed => CardInv(k)
    BY <1>4, <1>5, CardFacts DEF CardInv, NoPost
<1> QED
    BY <1>1, <1>2, <1>3, <1>5, <1>6, CardMoves

LEMMA PostRefusedKeeps ==
    ASSUME PreviewsInv, NEW n \in 1 .. MaxAsks, PostRefused(n)
    PROVE  PreviewsInv'
<1>1. BoundTypes' /\ (Undisturbed' => Undisturbed)
    BY CardFacts, RequestLost DEF PostRefused
<1>2. PICK s \in CardStates : s = card
    BY CardFacts
<1>3. PICK p \in [1 .. MaxAsks -> PostStates] :
          /\ p = [s.post EXCEPT ![n] = "refused"] /\ p[n] = "refused"
          /\ \A m \in 1 .. MaxAsks \ {n} : p[m] = s.post[m]
    <2>1. "refused" \in PostStates
        BY PostStatesAre
    <2> QED
        BY <2>1, PostMoves
<1> DEFINE k == [s EXCEPT !.post = p]
<1>4. UNCHANGED <<tip, pull, site, container, job, merge>> /\ card' = k /\ s.post[n] = "sent"
    BY <1>2, <1>3 DEF PostRefused, CardStates
<1>5. /\ k \in CardStates /\ k.landed = s.landed /\ k.post = p /\ k.asked = s.asked
      /\ k.status = s.status /\ k.poll = s.poll /\ k.shown = s.shown /\ k.slipped = s.slipped
    BY DEF CardStates
<1> HIDE DEF k
<1>6. Awaits(k) => Awaits(s)
    BY <1>3, <1>4, <1>5 DEF Awaits
<1>7. Undisturbed => CardInv(s)
    BY <1>2, CardFacts
<1>8. Undisturbed => CardInv(k)
    BY <1>3, <1>4, <1>5, <1>6, <1>7 DEF CardInv
<1> QED
    BY <1>1, <1>2, <1>4, <1>5, <1>6, <1>8, CardMoves

-----------------------------------------------------------------------------
(* The routes.  A build begins, for the card or for an agent: when nothing  *)
(* overlaps it is alone, and a row that is ready shows what it says.        *)
LEMMA BuildStarts ==
    ASSUME PreviewsInv, Start("build", "head"), Overlaps,
           UNCHANGED <<tip, status, site, container, merge>>, BoundTypes', mishaps' = mishaps,
           row' = row \/ (row' \in Row /\ row'.status = "building" /\ row'.sha = row.sha /\ row'.url = row.url),
           card' \in CardStates, Undisturbed => CardInv(card)'
    PROVE  PreviewsInv'
<1>1. PICK j \in Jobs, k \in JobStates :
          /\ job' = [job EXCEPT ![j] = k] /\ k.pc = "head" /\ k.kind = "build"
          /\ k.was = [status |-> row.status, sha |-> row.sha] /\ k.kept = {} /\ Begun(k)
    BY StartIs DEF PreviewsInv
<1>2. JobTypes'
    BY <1>1, JobMoves DEF PreviewsInv
<1>3. row' \in Row
    BY DEF PreviewsInv, PrevTypes, RowTypes
<1>4. PrevTypes'
    BY <1>2, <1>3 DEF PreviewsInv, PrevTypes, RowTypes
<1>5. ASSUME Undisturbed' PROVE Calm'
    <2>1. Undisturbed /\ Quiet /\ status = "open" /\ merge = "none"
        BY <1>5 DEF Overlaps, Undisturbed, PreviewsInv, PrevTypes, BoundTypes
    <2>2. Calm /\ Resting /\ CardInv(card)'
        BY <2>1 DEF PreviewsInv, Calm
    <2>3. row'.sha = row.sha /\ row'.url = row.url
        OBVIOUS
    <2>4. Good => Good'
        BY <2>3 DEF Good, Shows
    <2>5. BuildInv(k)'
        BY <1>1, <2>1, <2>2, <2>3, <2>4 DEF BuildInv, Resting
    <2>6. JobInv(k)'
        BY <1>1, <2>5 DEF JobInv
    <2> QED
        BY <1>1, <2>1, <2>2, <2>6, WorkStarts DEF PreviewsInv
<1> QED
    BY <1>4, <1>5 DEF PreviewsInv

LEMMA StatusSet ==
    ASSUME PreviewsInv, NEW s \in Statuses, SetStatus(s)
    PROVE  row' \in Row /\ row'.status = s /\ row'.sha = row.sha /\ row'.url = row.url
<1>1. PICK r \in Row : r = row
    BY DEF PreviewsInv, PrevTypes, RowTypes
<1>2. row' = [r EXCEPT !.status = s]
    BY <1>1 DEF SetStatus
<1> QED
    BY <1>1, <1>2 DEF Row

LEMMA PostKeeps ==
    ASSUME PreviewsInv, NEW n \in 1 .. MaxAsks, Post(n)
    PROVE  PreviewsInv'
<1>1. PICK s \in CardStates : s = card
    BY CardFacts
<1>2. PICK p \in [1 .. MaxAsks -> PostStates] :
          /\ p = [s.post EXCEPT ![n] = "done"] /\ p[n] = "done"
          /\ \A m \in 1 .. MaxAsks \ {n} : p[m] = s.post[m]
    <2>1. "done" \in PostStates
        BY PostStatesAre
    <2> QED
        BY <2>1, PostMoves
<1> DEFINE k == [s EXCEPT !.post = p]
<1>3. /\ UNCHANGED <<tip, status, site, container, merge, asks, mishaps>> /\ card' = k
      /\ s.post[n] = "sent" /\ SetStatus("building") /\ Start("build", "head") /\ Overlaps
    BY <1>1, <1>2 DEF Post, bounds, CardStates
<1>4. /\ k \in CardStates /\ k.landed = s.landed /\ k.post = p /\ k.asked = s.asked
      /\ k.status = s.status /\ k.poll = s.poll /\ k.shown = s.shown /\ k.slipped = s.slipped
    BY DEF CardStates
<1> HIDE DEF k
<1>5. /\ row' \in Row /\ row'.status = "building" /\ row'.sha = row.sha /\ row'.url = row.url
    BY <1>3, StatusSet DEF Statuses
<1>6. Undisturbed => CardInv(s)
    BY <1>1, CardFacts
<1>7. Undisturbed => CardInv(k)'
    BY <1>2, <1>3, <1>4, <1>5, <1>6 DEF CardInv
<1>8. BoundTypes'
    BY <1>3 DEF Overlaps, PreviewsInv, PrevTypes, BoundTypes
<1>9. Undisturbed => CardInv(card)'
    BY <1>3, <1>7
<1> QED
    BY <1>3, <1>4, <1>5, <1>8, <1>9, BuildStarts

LEMMA AgentAsksKeeps ==
    ASSUME PreviewsInv, AgentAsks
    PROVE  PreviewsInv'
<1>1. /\ UNCHANGED <<tip, status, row, site, container, merge, card, mishaps>>
      /\ Start("build", "head") /\ Overlaps /\ Ask
    BY DEF AgentAsks, pull
<1>2. BoundTypes'
    BY <1>1, CommitsAre DEF Overlaps, Ask, PreviewsInv, PrevTypes, BoundTypes
<1>3. card' \in CardStates /\ (Undisturbed => CardInv(card)')
    BY <1>1, CardFacts DEF CardInv, Awaits
<1> QED
    BY <1>1, <1>2, <1>3, BuildStarts

LEMMA PushKeeps ==
    ASSUME PreviewsInv, Push
    PROVE  PreviewsInv'
<1>1. /\ UNCHANGED <<status, row, site, container, job, merge, card, asks, mishaps, overlapped>>
      /\ tip' = tip + 1 /\ tip < MaxCommit
    BY DEF Push, pull, bounds
<1>2. tip' \in Commits /\ tip \in Int
    BY <1>1, CardFacts, CommitsAre DEF Commits
<1>3. PrevTypes'
    BY <1>1, <1>2 DEF PreviewsInv, PrevTypes, JobTypes, RowTypes, BoundTypes
<1>4. ASSUME Undisturbed' PROVE Calm'
    <2>1. Calm
        BY <1>1, <1>4 DEF PreviewsInv, Undisturbed
    <2>2. Good => Good'
        <3>1. \A c \in row.sha .. tip : c \in row.sha .. tip' /\ (Shows(c) => Shows(c)')
            BY <1>1, <1>2, CardFacts DEF Shows
        <3> QED
            BY <1>1, <3>1 DEF Good
    <2>3. OneJob' /\ (Quiet' => Resting')
        BY <1>1, <2>1, <2>2 DEF Calm, OneJob, JobAt, Quiet, Resting, Gone
    <2>4. ASSUME NEW j \in Jobs PROVE (JobAt(j, "idle") \/ JobInv(job[j]))'
        <3>1. PICK s \in JobStates : s = job[j] /\ s = job'[j]
            BY <1>1, JobFacts DEF PreviewsInv
        <3>2. CASE s.pc = "idle"
            BY <3>1, <3>2 DEF JobAt
        <3>3. CASE s.pc # "idle"
            <4>1. JobInv(s)
                BY <2>1, <3>1, <3>3 DEF Calm, JobAt
            <4>2. TeardownInv(s) => TeardownInv(s)'
                BY <1>1 DEF TeardownInv
            <4>3. ASSUME BuildInv(s) PROVE BuildInv(s)'
                <5>1. /\ s.live \in 1 .. tip => s.live \in 1 .. tip'
                      /\ s.tree \in s.live .. tip => s.tree \in s.live .. tip'
                    <6>1. s.live \in Int /\ s.tree \in Int
                        BY CommitsAre DEF JobStates
                    <6> QED
                        BY <1>1, <1>2, <6>1
                <5> QED
                    BY <1>1, <2>2, <4>3, <5>1 DEF BuildInv
            <4> QED
                BY <3>1, <4>1, <4>2, <4>3 DEF JobInv
        <3> QED
            BY <3>2, <3>3
    <2>5. (merge # "none" /\ status = "open" => Quiet /\ merge = row.status)'
        BY <1>1, <2>1 DEF Calm, Quiet, JobAt
    <2>6. CardInv(card)'
        <3>1. card.asked \in Int
            BY CardFacts, CommitsAre DEF CardStates
        <3> QED
            BY <1>1, <1>2, <2>1, <3>1 DEF Calm, CardInv
    <2> QED
        BY <2>3, <2>4, <2>5, <2>6 DEF Calm
<1> QED
    BY <1>3, <1>4 DEF PreviewsInv

(* The request leaves the open ones; the row was read when nothing was at   *)
(* work, and is taken down when it was ready.                               *)
LEMMA PullEnds ==
    ASSUME PreviewsInv, NEW read \in Statuses, TearDown(read), status' \in {"merged", "closed"},
           merge' \in Statuses \cup {"none"},
           UNCHANGED <<tip, row, site, container, card, bounds>>,
           Undisturbed /\ Quiet => read = row.status
    PROVE  PreviewsInv'
<1>1. /\ overlapped' = (overlapped \/ ~Quiet) /\ UNCHANGED <<asks, mishaps>>
      /\ IF read = "ready" THEN Start("teardown", "auth") ELSE UNCHANGED job
    BY DEF TearDown, bounds
<1>2. BoundTypes' /\ RowTypes' /\ card' \in CardStates
    BY <1>1 DEF PreviewsInv, PrevTypes, BoundTypes, RowTypes
<1>3. Undisturbed' => Undisturbed /\ Quiet /\ Calm /\ read = row.status
    BY <1>1 DEF Undisturbed, PreviewsInv, PrevTypes, BoundTypes
<1>4. Undisturbed' => CardInv(card)'
    BY <1>3 DEF Calm, CardInv, Awaits
<1>5. CASE read = "ready"
    <2>1. PICK j \in Jobs, k \in JobStates :
              /\ job' = [job EXCEPT ![j] = k] /\ k.pc = "auth" /\ k.kind = "teardown"
              /\ k.todo = {} /\ k.kept = {} /\ Begun(k)
        BY <1>1, <1>5, StartIs DEF PreviewsInv
    <2>2. JobTypes'
        BY <2>1, JobMoves DEF PreviewsInv
    <2>3. JobInv(k)'
        BY <2>1 DEF JobInv, TeardownInv
    <2>4. Undisturbed' => Calm'
        BY <1>3, <1>4, <2>1, <2>3, WorkStarts DEF PreviewsInv
    <2> QED
        BY <1>2, <2>2, <2>4 DEF PreviewsInv, PrevTypes
<1>6. CASE read # "ready"
    <2>1. job' = job
        BY <1>1, <1>6
    <2>2. JobTypes'
        BY <2>1 DEF PreviewsInv, PrevTypes, JobTypes
    <2>3. ASSUME Undisturbed' PROVE Calm'
        <3>1. Quiet' /\ OneJob'
            BY <1>3, <2>1, <2>3 DEF Quiet, JobAt, OneJob
        <3>2. Resting /\ row.status \in Statuses /\ row.status # "ready"
            BY <1>3, <1>6, <2>3, CardFacts DEF Calm
        <3>3. Resting'
            BY <3>2 DEF Resting, Gone, Statuses
        <3> QED
            BY <1>4, <2>3, <3>1, <3>3 DEF Calm, Quiet
    <2> QED
        BY <1>2, <2>2, <2>3 DEF PreviewsInv, PrevTypes
<1> QED
    BY <1>5, <1>6

LEMMA CloseKeeps ==
    ASSUME PreviewsInv, Close
    PROVE  PreviewsInv'
<1>1. merge' \in Statuses \cup {"none"} /\ row.status \in Statuses
    BY CardFacts DEF Close, PreviewsInv, PrevTypes, RowTypes
<1> QED
    BY <1>1, PullEnds DEF Close

(* The merge begins, or ends without a change of the request. *)
LEMMA MergeMoves ==
    ASSUME PreviewsInv, UNCHANGED <<tip, status, row, site, container, job, card, bounds>>,
           merge' \in Statuses \cup {"none"}, overlapped' \in BOOLEAN,
           Undisturbed' => Undisturbed /\ (merge' = "none" \/ (Quiet /\ merge' = row.status))
    PROVE  PreviewsInv'
<1>1. PrevTypes'
    BY DEF PreviewsInv, PrevTypes, JobTypes, RowTypes, BoundTypes, bounds
<1>2. ASSUME Undisturbed' PROVE Calm'
    <2>1. Calm /\ (merge' = "none" \/ (Quiet /\ merge' = row.status))
        BY <1>2 DEF PreviewsInv
    <2>2. (Quiet' <=> Quiet) /\ OneJob' /\ CardInv(card)' /\ (Resting => Resting')
        BY <2>1 DEF Calm, OneJob, JobAt, Quiet, Resting, Good, Shows, Gone, CardInv, Awaits
    <2>3. ASSUME NEW j \in Jobs PROVE (JobAt(j, "idle") \/ JobInv(job[j]))'
        <3>1. PICK s \in JobStates : s = job[j] /\ s = job'[j]
            BY JobFacts DEF PreviewsInv
        <3>2. CASE s.pc = "idle"
            BY <3>1, <3>2 DEF JobAt
        <3>3. CASE s.pc # "idle"
            <4>1. JobInv(s) /\ merge' = "none"
                BY <2>1, <3>1, <3>3 DEF Calm, JobAt, Quiet
            <4>2. Good => Good'
                BY DEF Good, Shows
            <4>3. JobInv(s)'
                BY <4>1, <4>2 DEF JobInv, BuildInv, TeardownInv, Awaits
            <4> QED
                BY <3>1, <4>3
        <3> QED
            BY <3>2, <3>3
    <2> QED
        BY <2>1, <2>2, <2>3 DEF Calm
<1> QED
    BY <1>1, <1>2 DEF PreviewsInv

LEMMA BeginMergeKeeps ==
    ASSUME PreviewsInv, BeginMerge
    PROVE  PreviewsInv'
<1>1. /\ UNCHANGED <<tip, status, row, site, container, job, card, bounds>>
      /\ merge' = row.status /\ overlapped' = (overlapped \/ ~Quiet)
    BY DEF BeginMerge, pull
<1>2. Undisturbed' => Undisturbed /\ Quiet
    BY <1>1 DEF Undisturbed, bounds, PreviewsInv, PrevTypes, BoundTypes
<1> QED
    BY <1>1, <1>2, CardFacts, MergeMoves DEF BoundTypes

LEMMA MergeConflictsKeeps ==
    ASSUME PreviewsInv, MergeConflicts
    PROVE  PreviewsInv'
<1>1. /\ UNCHANGED <<tip, status, row, site, container, job, card, bounds, overlapped>>
      /\ merge' = "none"
    BY DEF MergeConflicts, pull
<1>2. Undisturbed' => Undisturbed
    BY <1>1 DEF Undisturbed, bounds
<1> QED
    BY <1>1, <1>2, CardFacts, MergeMoves DEF BoundTypes

LEMMA MarkMergedKeeps ==
    ASSUME PreviewsInv, MarkMerged
    PROVE  PreviewsInv'
<1>1. merge # "none" /\ merge' = "none" /\ UNCHANGED <<tip, row, site, container, card, bounds>>
    BY DEF MarkMerged
<1>2. CASE status = "open"
    <2>1. status' = "merged" /\ TearDown(merge)
        BY <1>2 DEF MarkMerged
    <2>2. merge \in Statuses
        BY <1>1 DEF PreviewsInv, PrevTypes, RowTypes
    <2>3. Undisturbed => merge = row.status
        BY <1>1, <1>2 DEF PreviewsInv, Calm
    <2> QED
        BY <1>1, <2>1, <2>2, <2>3, PullEnds
<1>3. CASE status # "open"
    <2>1. UNCHANGED <<status, job, overlapped>>
        BY <1>3 DEF MarkMerged
    <2>2. Undisturbed' => Undisturbed
        BY <1>1, <2>1 DEF Undisturbed, bounds
    <2> QED
        BY <1>1, <2>1, <2>2, CardFacts, MergeMoves DEF BoundTypes
<1> QED
    BY <1>2, <1>3

-----------------------------------------------------------------------------
(* buildAndPublishPreview and deletePreview: whatever one of them does, the *)
(* types hold, and while nothing is disturbed it is alone.                  *)
LEMMA JobActs ==
    ASSUME PreviewsInv, NEW j \in Jobs, NEW k \in JobStates, job' = [job EXCEPT ![j] = k],
           Begun(k),
           UNCHANGED <<tip, status, merge, card>>, site' \in {"published", "failed"},
           row' \in Row, container' \in [PreviewFiles -> Commits \cup {0}], BoundTypes',
           Undisturbed' => Calm'
    PROVE  PreviewsInv'
<1>1. JobTypes'
    BY JobMoves DEF PreviewsInv
<1>2. PrevTypes'
    BY <1>1 DEF PreviewsInv, PrevTypes, RowTypes
<1> QED
    BY <1>2 DEF PreviewsInv

(* What holds of the one at work. *)
LEMMA AtWork ==
    ASSUME PreviewsInv, NEW j \in Jobs
    PROVE  /\ job[j] \in JobStates /\ job \in [Jobs -> JobStates]
           /\ row \in Row /\ site \in {"published", "failed"} /\ tip \in Commits
           /\ container \in [PreviewFiles -> Commits \cup {0}] /\ BoundTypes
           /\ Begun(job[j])
           /\ Undisturbed => Calm /\ (JobAt(j, "idle") \/ JobInv(job[j])) /\ CardInv(card)
BY JobFacts DEF PreviewsInv, PrevTypes, RowTypes, Calm

(* A mishap that is not the browser's: the types are all that is left. *)
LEMMA JobFails ==
    ASSUME PreviewsInv, NEW j \in Jobs, NEW k \in JobStates, job' = [job EXCEPT ![j] = k],
           Begun(k),
           NEW sort \in {"content", "row"}, Mishap(sort), UNCHANGED <<asks, overlapped>>,
           UNCHANGED <<tip, status, merge, card>>, site' \in {"published", "failed"},
           row' \in Row, container' \in [PreviewFiles -> Commits \cup {0}]
    PROVE  PreviewsInv'
<1>1. BoundTypes' /\ ~Undisturbed'
    BY AtWork, Disturbs
<1> QED
    BY <1>1, JobActs

LEMMA NotZero ==
    /\ \A c \in Commits : c # 0 /\ c \in Int
    /\ \A c \in Commits : c \in Commits \cup {0}
BY CommitsAre

(* The guard sees the row and a head: it is over, or the log is opened. *)
LEMMA GuardedIs ==
    ASSUME PreviewsInv, NEW j \in Jobs, NEW live \in Commits, Guarded(j, live)
    PROVE  \/ JobEnds(j) /\ SetStatus("ready") /\ job[j].was = [status |-> "ready", sha |-> live]
           \/ /\ UNCHANGED row
              /\ \E k \in JobStates :
                    /\ job' = [job EXCEPT ![j] = k] /\ k.pc = "log" /\ k.live = live
                    /\ k.kind = job[j].kind /\ k.kept = job[j].kept /\ Begun(k)
<1>1. CASE job[j].was = [status |-> "ready", sha |-> live]
    BY <1>1 DEF Guarded
<1>2. CASE job[j].was # [status |-> "ready", sha |-> live]
    <2>1. PICK s \in JobStates : s = job[j]
        BY AtWork
    <2> DEFINE k == [s EXCEPT !.pc = "log", !.live = live, !.was = NoJob.was]
    <2>2. k \in JobStates /\ k.pc = "log" /\ k.live = live /\ k.kind = s.kind /\ k.kept = s.kept
        BY NoJobIs DEF JobStates
    <2>3. job' = [job EXCEPT ![j] = k] /\ UNCHANGED row
        BY <1>2, <2>1, AtWork DEF Guarded
    <2> HIDE DEF k
    <2>4. Begun(k)
        BY <2>2, NotZero DEF Begun
    <2> QED
        BY <2>1, <2>2, <2>3, <2>4
<1> QED
    BY <1>1, <1>2

LEMMA ReadHeadKeeps ==
    ASSUME PreviewsInv, NEW j \in Jobs, ReadHead(j)
    PROVE  PreviewsInv'
<1>1. /\ UNCHANGED <<tip, status, site, container, merge, card, bounds, overlapped>>
      /\ Guarded(j, tip) /\ JobAt(j, "head") /\ ~JobAt(j, "idle") /\ job[j].pc = "head"
    BY DEF ReadHead, Guarded, JobAt
<1>2. BoundTypes' /\ (Undisturbed' => Undisturbed)
    BY <1>1, AtWork, BoundsRest
<1>3. CASE JobEnds(j) /\ SetStatus("ready") /\ job[j].was = [status |-> "ready", sha |-> tip]
    <2>1. row' \in Row /\ row'.status = "ready" /\ row'.sha = row.sha /\ row'.url = row.url
        BY <1>3, StatusSet DEF Statuses
    <2>2. ASSUME Undisturbed' PROVE Calm'
        <3>1. Calm /\ JobInv(job[j]) /\ CardInv(card)
            BY <1>1, <1>2, <2>2, AtWork
        <3>2. CASE job[j].kind = "build"
            <4>1. BuildInv(job[j])
                BY <3>1, <3>2 DEF JobInv
            <4>2. job[j].was.status = "ready" /\ job[j].was.sha = tip
                BY <1>3
            <4>3. Good /\ row.sha = tip /\ status = "open"
                BY <1>1, <4>1, <4>2 DEF BuildInv
            <4>4. Good'
                BY <1>1, <2>1, <4>3 DEF Good, Shows
            <4>5. Resting'
                BY <1>1, <2>1, <4>3, <4>4 DEF Resting
            <4>6. CardInv(card)'
                BY <1>1, <2>1, <3>1, <4>3 DEF CardInv, Awaits
            <4> QED
                BY <1>1, <1>3, <3>1, <4>5, <4>6, WorkEnds DEF PreviewsInv
        <3>3. CASE job[j].kind # "build"
            BY <1>1, <3>1, <3>3 DEF JobInv, TeardownInv
        <3> QED
            BY <3>2, <3>3
    <2> QED
        BY <1>1, <1>2, <1>3, <2>1, <2>2, AtWork, NoJobIs, JobActs DEF JobEnds
<1>4. ASSUME NEW k \in JobStates, UNCHANGED row,
             job' = [job EXCEPT ![j] = k], k.pc = "log", k.live = tip,
             k.kind = job[j].kind, k.kept = job[j].kept, Begun(k)
      PROVE  PreviewsInv'
    <2>1. tip \in Commits /\ tip \in Int /\ tip >= 1 /\ tip # 0
        BY CardFacts, NotZero
    <2>2. ASSUME Undisturbed' PROVE Calm'
        <3>1. Calm /\ JobInv(job[j]) /\ CardInv(card)
            BY <1>1, <1>2, <2>2, AtWork
        <3>2. k.kind = "build"
            BY <1>1, <1>4, <3>1 DEF JobInv, TeardownInv
        <3>3. status = "open" /\ merge = "none" /\ k.kept = {}
            BY <1>1, <1>4, <3>1, <3>2 DEF JobInv, BuildInv
        <3>4. CardInv(card)'
            BY <1>1, <1>4, <3>1 DEF CardInv, Awaits
        <3>5. card.asked <= tip
            BY <3>1 DEF CardInv
        <3>6. BuildInv(k)'
            <4>1. k.live \in 1 .. tip /\ k.live >= card.asked
                BY <1>4, <2>1, <3>5, CardFacts DEF CardStates
            <4> QED
                BY <1>1, <1>4, <3>3, <4>1 DEF BuildInv
        <3>7. JobInv(k)'
            BY <3>2, <3>6 DEF JobInv
        <3> QED
            BY <1>1, <1>4, <2>1, <3>1, <3>4, <3>7, WorkGoesOn DEF PreviewsInv
    <2> QED
        BY <1>1, <1>2, <1>4, <2>1, <2>2, AtWork, JobActs
<1> QED
    BY <1>1, <1>3, <1>4, CardFacts, GuardedIs

LEMMA ReadNoHeadKeeps ==
    ASSUME PreviewsInv, NEW j \in Jobs, ReadNoHead(j)
    PROVE  PreviewsInv'
<1>1. /\ UNCHANGED <<tip, status, site, container, merge, card, asks, overlapped>>
      /\ Guarded(j, 1) /\ Mishap("content") /\ 1 \in Commits
    BY CommitsAre DEF ReadNoHead, Commits
<1>2. CASE JobEnds(j) /\ SetStatus("ready")
    <2>1. row' \in Row
        BY <1>2, StatusSet DEF Statuses
    <2> QED
        BY <1>1, <1>2, <2>1, AtWork, NoJobIs, JobFails DEF JobEnds
<1>3. ASSUME NEW k \in JobStates, UNCHANGED row,
             job' = [job EXCEPT ![j] = k], k.pc = "log", k.live = 1, Begun(k)
      PROVE  PreviewsInv'
    <2>1. Begun(k)
        BY <1>3
    <2>2. /\ row' \in Row /\ site' \in {"published", "failed"}
          /\ container' \in [PreviewFiles -> Commits \cup {0}]
          /\ UNCHANGED <<tip, status, merge, card>> /\ UNCHANGED <<asks, overlapped>>
        BY <1>1, <1>3, AtWork
    <2> QED
        BY <1>1, <1>3, <2>1, <2>2, JobFails
<1> QED
    BY <1>1, <1>2, <1>3, GuardedIs

(* Its pc changes and nothing else of it. *)
LEMMA GoesIs ==
    ASSUME PreviewsInv, NEW j \in Jobs, NEW pc \in {"checkout", "auth"}, JobGoes(j, pc),
           job[j].pc = IF pc = "auth" THEN "build" ELSE "log"
    PROVE  \E k \in JobStates :
               /\ job' = [job EXCEPT ![j] = k] /\ k.pc = pc /\ k.kind = job[j].kind
               /\ k.live = job[j].live /\ k.tree = job[j].tree
               /\ k.todo = job[j].todo /\ k.kept = job[j].kept
               /\ Begun(k)
<1>1. PICK s \in JobStates : s = job[j]
    BY AtWork
<1> DEFINE k == [s EXCEPT !.pc = pc]
<1>2. /\ k \in JobStates /\ k.pc = pc /\ k.kind = s.kind /\ k.live = s.live /\ k.tree = s.tree
      /\ k.todo = s.todo /\ k.kept = s.kept
    BY DEF JobStates
<1>3. job' = [job EXCEPT ![j] = k]
    BY <1>1, AtWork DEF JobGoes
<1> HIDE DEF k
<1>4. Begun(k)
    BY <1>1, <1>2, AtWork DEF Begun
<1> QED
    BY <1>1, <1>2, <1>3, <1>4

LEMMA OpenLogKeeps ==
    ASSUME PreviewsInv, NEW j \in Jobs, OpenLog(j)
    PROVE  PreviewsInv'
<1>1. /\ UNCHANGED <<tip, status, site, container, merge, card, bounds, overlapped>>
      /\ job[j].pc = "log" /\ ~JobAt(j, "idle") /\ JobGoes(j, "checkout")
      /\ SetStatus("building")
    BY DEF OpenLog, JobAt
<1>2. BoundTypes' /\ (Undisturbed' => Undisturbed)
    BY <1>1, AtWork, BoundsRest
<1>3. row' \in Row /\ row'.status = "building"
    BY <1>1, StatusSet DEF Statuses
<1>4. PICK k \in JobStates :
          /\ job' = [job EXCEPT ![j] = k] /\ k.pc = "checkout" /\ k.kind = job[j].kind
          /\ k.live = job[j].live /\ k.kept = job[j].kept /\ Begun(k)
    BY <1>1, GoesIs
<1>5. ASSUME Undisturbed' PROVE Calm'
    <2>1. Calm /\ JobInv(job[j]) /\ CardInv(card)
        BY <1>1, <1>2, <1>5, AtWork
    <2>2. k.kind = "build" /\ BuildInv(job[j])
        BY <1>1, <1>4, <2>1 DEF JobInv, TeardownInv
    <2>3. BuildInv(k)'
        BY <1>1, <1>4, <2>2 DEF BuildInv, Awaits
    <2>4. JobInv(k)' /\ CardInv(card)'
        BY <1>1, <1>3, <2>1, <2>2, <2>3 DEF JobInv, CardInv, Awaits
    <2> QED
        BY <1>1, <1>4, <2>1, <2>4, WorkGoesOn DEF PreviewsInv
<1> QED
    BY <1>1, <1>2, <1>3, <1>4, <1>5, AtWork, JobActs

LEMMA OpenLogFailsKeeps ==
    ASSUME PreviewsInv, NEW j \in Jobs, OpenLogFails(j)
    PROVE  PreviewsInv'
<1>1. /\ UNCHANGED <<tip, status, row, site, container, merge, card, asks, overlapped>>
      /\ JobEnds(j) /\ Mishap("row")
    BY DEF OpenLogFails, pull
<1> QED
    BY <1>1, AtWork, NoJobIs, JobFails DEF JobEnds

LEMMA CheckoutKeeps ==
    ASSUME PreviewsInv, NEW j \in Jobs, Checkout(j)
    PROVE  PreviewsInv'
<1>1. PICK s \in JobStates : s = job[j]
    BY AtWork
<1>2. PICK pc \in {"auth", "build"} : pc = IF OutcomeOf[tip] = "static" THEN "auth" ELSE "build"
    OBVIOUS
<1>3. PICK t \in Commits : t = tip
    BY AtWork
<1> DEFINE k == [s EXCEPT !.pc = pc, !.tree = t]
<1>4. /\ UNCHANGED <<tip, status, row, site, container, merge, card, bounds, overlapped>>
      /\ s.pc = "checkout" /\ ~JobAt(j, "idle") /\ job' = [job EXCEPT ![j] = k]
    BY <1>1, <1>2, <1>3, AtWork DEF Checkout, JobAt, pull
<1>5. /\ k \in JobStates /\ k.pc = pc /\ k.tree = t /\ k.kind = s.kind /\ k.live = s.live
      /\ k.kept = s.kept
    BY CardFacts DEF JobStates
<1> HIDE DEF k
<1>6. BoundTypes' /\ (Undisturbed' => Undisturbed)
    BY <1>4, AtWork, BoundsRest
<1>7. Begun(k)
    BY <1>1, <1>4, <1>5, <1>3, AtWork, NotZero DEF Begun
<1>8. /\ pc \notin {"head", "put", "prune", "idle"}
      /\ UNCHANGED <<tip, status, merge>> /\ row' = row /\ container' = container /\ card' = card
    BY <1>2, <1>4
<1>9. ASSUME Undisturbed' PROVE Calm'
    <2>1. Calm /\ JobInv(s) /\ CardInv(card)
        BY <1>1, <1>4, <1>6, <1>9, AtWork
    <2>2. k.kind = "build" /\ BuildInv(s)
        BY <1>4, <1>5, <2>1 DEF JobInv, TeardownInv, JobStates
    <2>3. k.tree \in k.live .. tip
        BY <1>4, <1>5, <1>3, <2>2, CardFacts DEF BuildInv
    <2>4. BuildInv(k)'
        <3>1. s.live \in 1 .. tip /\ (Awaits(card) => s.live >= card.asked) /\ s.kept = {}
              /\ status = "open" /\ merge = "none"
            BY <1>4, <2>2 DEF BuildInv
        <3>2. k.pc \notin {"head", "put", "prune"} /\ k.live = s.live /\ k.kept = {}
            BY <1>5, <1>8, <3>1
        <3> QED
            BY <1>8, <2>3, <3>1, <3>2 DEF BuildInv, Awaits
    <2>5. JobInv(k)' /\ CardInv(card)'
        BY <1>8, <2>1, <2>2, <2>4 DEF JobInv, CardInv, Awaits
    <2> QED
        BY <1>4, <1>5, <1>7, <1>8, <2>1, <2>5, WorkGoesOn DEF PreviewsInv
<1> QED
    BY <1>4, <1>5, <1>6, <1>7, <1>9, AtWork, JobActs

LEMMA BuildKeeps ==
    ASSUME PreviewsInv, NEW j \in Jobs, Build(j)
    PROVE  PreviewsInv'
<1>1. /\ UNCHANGED <<tip, status, site, container, merge, card, bounds, overlapped>>
      /\ job[j].pc = "build" /\ ~JobAt(j, "idle")
    BY DEF Build, JobAt
<1>2. BoundTypes' /\ (Undisturbed' => Undisturbed)
    BY <1>1, AtWork, BoundsRest
<1>3. ASSUME Undisturbed'
      PROVE  Calm /\ JobInv(job[j]) /\ CardInv(card) /\ BuildInv(job[j]) /\ job[j].kind = "build"
    <2>1. Calm /\ JobInv(job[j]) /\ CardInv(card)
        BY <1>1, <1>2, <1>3, AtWork
    <2> QED
        BY <1>1, <2>1 DEF JobInv, TeardownInv
<1>4. CASE JobGoes(j, "auth") /\ UNCHANGED row
    <2>1. PICK k \in JobStates :
              /\ job' = [job EXCEPT ![j] = k] /\ k.pc = "auth" /\ k.kind = job[j].kind
              /\ k.live = job[j].live /\ k.tree = job[j].tree /\ k.kept = job[j].kept
              /\ Begun(k)
        BY <1>1, <1>4, GoesIs
    <2>2. ASSUME Undisturbed' PROVE Calm'
        <3>1. BuildInv(k)'
            BY <1>1, <1>3, <2>1, <2>2 DEF BuildInv, Awaits
        <3>2. JobInv(k)' /\ CardInv(card)'
            BY <1>1, <1>3, <1>4, <2>1, <2>2, <3>1 DEF JobInv, CardInv, Awaits
        <3> QED
            BY <1>1, <1>3, <2>1, <2>2, <3>2, WorkGoesOn DEF PreviewsInv
    <2> QED
        BY <1>1, <1>2, <1>4, <2>1, <2>2, AtWork, JobActs
<1>5. CASE SetStatus("failed") /\ JobEnds(j)
    <2>1. row' \in Row /\ row'.status = "failed"
        BY <1>5, StatusSet DEF Statuses
    <2>2. ASSUME Undisturbed' PROVE Calm'
        <3>1. Resting' /\ CardInv(card)'
            BY <1>1, <1>3, <2>1, <2>2 DEF Resting, CardInv, Awaits
        <3> QED
            BY <1>1, <1>3, <1>5, <2>2, <3>1, WorkEnds DEF PreviewsInv
    <2> QED
        BY <1>1, <1>2, <1>5, <2>1, <2>2, AtWork, NoJobIs, JobActs DEF JobEnds
<1> QED
    BY <1>4, <1>5 DEF Build

LEMMA FilesAre ==
    /\ \A c \in Commits : FilesOf[c] \subseteq PreviewFiles
    /\ \A s \in JobStates : s.live \in Int /\ s.tree \in Int
    /\ \A t \in Commits, c, d \in Int : c >= 1 /\ d \in c .. t => d \in Commits
BY CommitsAre DEF JobStates, Commits

LEMMA GetOwnerFetchKeeps ==
    ASSUME PreviewsInv, NEW j \in Jobs, GetOwnerFetch(j)
    PROVE  PreviewsInv'
<1>1. PICK s \in JobStates : s = job[j]
    BY AtWork
<1>2. CASE s.kind = "teardown" \/ s.tree \in Commits
    <2>1. PICK t \in SUBSET PreviewFiles :
              t = IF s.kind = "build" THEN FilesOf[s.tree] ELSE {}
        BY <1>2, FilesAre DEF JobStates
    <2> DEFINE k == [s EXCEPT !.pc = "put", !.todo = t]
    <2>2. /\ UNCHANGED <<tip, status, row, site, container, merge, card, bounds, overlapped>>
          /\ s.pc = "auth" /\ ~JobAt(j, "idle") /\ job' = [job EXCEPT ![j] = k]
        BY <1>1, <2>1, AtWork DEF GetOwnerFetch, JobAt, pull
    <2>3. /\ k \in JobStates /\ k.pc = "put" /\ k.tree = s.tree /\ k.kind = s.kind
          /\ k.live = s.live /\ k.kept = s.kept /\ k.todo = t
        BY DEF JobStates
    <2> HIDE DEF k
    <2>4. BoundTypes' /\ (Undisturbed' => Undisturbed)
        BY <2>2, AtWork, BoundsRest
    <2>5. Begun(k)
        BY <1>1, <2>2, <2>3, AtWork DEF Begun
    <2>6. ASSUME Undisturbed' PROVE Calm'
        <3>1. Calm /\ JobInv(s) /\ CardInv(card)
            BY <1>1, <2>2, <2>4, <2>6, AtWork
        <3>2. ASSUME s.kind = "build" PROVE BuildInv(k)'
            BY <2>1, <2>2, <2>3, <3>1, <3>2 DEF JobInv, BuildInv, Awaits
        <3>3. ASSUME s.kind # "build" PROVE TeardownInv(k)'
            BY <2>1, <2>2, <2>3, <3>1, <3>3 DEF JobInv, TeardownInv
        <3>4. JobInv(k)' /\ CardInv(card)'
            BY <2>2, <2>3, <3>1, <3>2, <3>3 DEF JobInv, CardInv, Awaits
        <3> QED
            BY <2>2, <2>3, <2>5, <3>1, <3>4, WorkGoesOn DEF PreviewsInv
    <2> QED
        BY <2>2, <2>3, <2>4, <2>5, <2>6, AtWork, JobActs
<1>3. s.pc = "auth" /\ Begun(s)
    BY <1>1, AtWork DEF GetOwnerFetch, JobAt
<1> QED
    BY <1>2, <1>3 DEF Begun, JobStates

(* The one at work in a phase of the publication: what holds of it. *)
LEMMA PhaseIs ==
    ASSUME PreviewsInv, NEW j \in Jobs, NEW s \in JobStates, s = job[j], s.pc \in {"put", "prune"},
           Undisturbed
    PROVE  /\ Calm /\ JobInv(s) /\ CardInv(card)
           /\ s.kind = "build" => BuildInv(s) /\ s.tree \in Commits
           /\ s.kind # "build" => TeardownInv(s)
<1>1. Calm /\ JobInv(s) /\ CardInv(card)
    BY AtWork DEF JobAt
<1>2. ASSUME s.kind = "build" PROVE BuildInv(s) /\ s.tree \in Commits
    <2>1. BuildInv(s)
        BY <1>1, <1>2 DEF JobInv
    <2>2. s.live \in 1 .. tip /\ s.tree \in s.live .. tip
        BY <2>1 DEF BuildInv
    <2> QED
        BY <2>1, <2>2, FilesAre, CardFacts
<1>3. s.kind # "build" => TeardownInv(s)
    BY <1>1 DEF JobInv
<1> QED
    BY <1>1, <1>2, <1>3

LEMMA PutKeeps ==
    ASSUME PreviewsInv, NEW j \in Jobs, NEW f \in PreviewFiles, Put(j, f)
    PROVE  PreviewsInv'
<1>1. PICK s \in JobStates : s = job[j]
    BY AtWork
<1> DEFINE k == [s EXCEPT !.todo = s.todo \ {f}, !.kept = s.kept \cup {f}]
<1>2. /\ UNCHANGED <<tip, status, row, site, merge, card, bounds, overlapped>>
      /\ s.pc = "put" /\ f \in s.todo /\ ~JobAt(j, "idle") /\ job' = [job EXCEPT ![j] = k]
      /\ container' = [container EXCEPT ![f] = s.tree]
    BY <1>1, AtWork DEF Put, JobAt, pull
<1>3. /\ k \in JobStates /\ k.pc = "put" /\ k.tree = s.tree /\ k.kind = s.kind /\ k.live = s.live
      /\ k.kept = s.kept \cup {f} /\ k.todo = s.todo \ {f}
    BY <1>2 DEF JobStates
<1> HIDE DEF k
<1>4. BoundTypes' /\ (Undisturbed' => Undisturbed)
    BY <1>2, AtWork, BoundsRest
<1>5. Begun(k)
    BY <1>1, <1>2, <1>3, AtWork DEF Begun
<1>6. container' \in [PreviewFiles -> Commits \cup {0}] /\ container'[f] = s.tree
      /\ \A g \in PreviewFiles \ {f} : container'[g] = container[g]
    BY <1>2, AtWork DEF JobStates
<1>7. ASSUME Undisturbed' PROVE Calm'
    <2>1. Calm /\ JobInv(s) /\ CardInv(card)
          /\ (s.kind = "build" => BuildInv(s)) /\ (s.kind # "build" => TeardownInv(s))
        BY <1>1, <1>2, <1>4, <1>7, PhaseIs
    <2>2. s.kind = "build"
        BY <1>2, <2>1 DEF TeardownInv
    <2>3. /\ s.todo \cup s.kept = FilesOf[s.tree] /\ \A g \in s.kept : container[g] = s.tree
          /\ status = "open" /\ merge = "none" /\ s.live \in 1 .. tip
          /\ Awaits(card) => s.live >= card.asked
          /\ s.tree \in s.live .. tip /\ s.kept \subseteq PreviewFiles
        BY <1>2, <2>1, <2>2 DEF BuildInv, JobStates
    <2>4. k.todo \cup k.kept = FilesOf[k.tree] /\ \A g \in k.kept : container'[g] = k.tree
        BY <1>2, <1>3, <1>6, <2>3
    <2>5. BuildInv(k)'
        BY <1>2, <1>3, <2>3, <2>4 DEF BuildInv, Awaits
    <2>6. JobInv(k)' /\ CardInv(card)'
        BY <1>2, <1>3, <2>1, <2>2, <2>5 DEF JobInv, CardInv, Awaits
    <2> QED
        BY <1>2, <1>3, <1>5, <2>1, <2>6, WorkGoesOn DEF PreviewsInv
<1> QED
    BY <1>2, <1>3, <1>4, <1>5, <1>6, <1>7, AtWork, JobActs

(* A file that is refused, to be written or to be deleted. *)
LEMMA RefusedKeeps ==
    ASSUME PreviewsInv, NEW j \in Jobs, NEW f \in PreviewFiles,
           PutRefused(j, f) \/ PruneRefused(j, f)
    PROVE  PreviewsInv'
<1>1. PICK s \in JobStates : s = job[j]
    BY AtWork
<1> DEFINE k == [s EXCEPT !.todo = s.todo \ {f}]
<1>2. /\ UNCHANGED <<tip, status, row, site, container, merge, card, asks, overlapped>>
      /\ Mishap("content") /\ job' = [job EXCEPT ![j] = k]
    BY <1>1, AtWork DEF PutRefused, PruneRefused, pull
<1>3. k \in JobStates /\ k.pc = s.pc /\ k.tree = s.tree /\ k.kind = s.kind /\ k.live = s.live
    BY DEF JobStates
<1> HIDE DEF k
<1>4. Begun(k)
    BY <1>1, <1>3, AtWork DEF Begun
<1> QED
    BY <1>2, <1>3, <1>4, AtWork, JobFails

LEMMA ListKeeps ==
    ASSUME PreviewsInv, NEW j \in Jobs, List(j)
    PROVE  PreviewsInv'
<1>1. PICK s \in JobStates : s = job[j]
    BY AtWork
<1>2. PICK t \in SUBSET PreviewFiles : t = {f \in PreviewFiles \ s.kept : container[f] # 0}
    OBVIOUS
<1> DEFINE k == [s EXCEPT !.pc = "prune", !.kept = {}, !.todo = t]
<1>3. /\ UNCHANGED <<tip, status, row, site, container, merge, card, bounds, overlapped>>
      /\ s.pc = "put" /\ s.todo = {} /\ ~JobAt(j, "idle") /\ job' = [job EXCEPT ![j] = k]
    BY <1>1, <1>2, AtWork DEF List, JobAt, pull
<1>4. /\ k \in JobStates /\ k.pc = "prune" /\ k.tree = s.tree /\ k.kind = s.kind
      /\ k.live = s.live /\ k.todo = t
    BY DEF JobStates
<1> HIDE DEF k
<1>5. BoundTypes' /\ (Undisturbed' => Undisturbed)
    BY <1>3, AtWork, BoundsRest
<1>6. Begun(k)
    BY <1>1, <1>3, <1>4, AtWork DEF Begun
<1>7. ASSUME Undisturbed' PROVE Calm'
    <2>1. Calm /\ JobInv(s) /\ CardInv(card)
          /\ (s.kind = "build" => BuildInv(s)) /\ (s.kind # "build" => TeardownInv(s))
        BY <1>1, <1>3, <1>5, <1>7, PhaseIs
    <2>2. ASSUME s.kind = "build" PROVE BuildInv(k)'
        <3>1. /\ s.kept = FilesOf[s.tree] /\ \A g \in s.kept : container[g] = s.tree
              /\ status = "open" /\ merge = "none" /\ s.live \in 1 .. tip
              /\ Awaits(card) => s.live >= card.asked
              /\ s.tree \in s.live .. tip
            BY <1>3, <2>1, <2>2 DEF BuildInv
        <3>2. \A f \in PreviewFiles :
                  IF f \in FilesOf[k.tree] THEN container'[f] = k.tree /\ f \notin k.todo
                                           ELSE container'[f] = 0 \/ f \in k.todo
            BY <1>2, <1>3, <1>4, <3>1
        <3> QED
            BY <1>3, <1>4, <3>1, <3>2 DEF BuildInv, Awaits
    <2>3. ASSUME s.kind # "build" PROVE TeardownInv(k)'
        <3>1. status # "open" /\ s.kept = {}
            BY <1>3, <2>1, <2>3 DEF TeardownInv
        <3>2. \A f \in PreviewFiles : container'[f] = 0 \/ f \in k.todo
            BY <1>2, <1>3, <1>4, <3>1
        <3> QED
            BY <1>3, <1>4, <3>1, <3>2 DEF TeardownInv
    <2>4. JobInv(k)' /\ CardInv(card)'
        BY <1>3, <1>4, <2>1, <2>2, <2>3 DEF JobInv, CardInv, Awaits
    <2> QED
        BY <1>3, <1>4, <1>6, <2>1, <2>4, WorkGoesOn DEF PreviewsInv
<1> QED
    BY <1>3, <1>4, <1>5, <1>6, <1>7, AtWork, JobActs

LEMMA PruneKeeps ==
    ASSUME PreviewsInv, NEW j \in Jobs, NEW f \in PreviewFiles, Prune(j, f)
    PROVE  PreviewsInv'
<1>1. PICK s \in JobStates : s = job[j]
    BY AtWork
<1> DEFINE k == [s EXCEPT !.todo = s.todo \ {f}]
<1>2. /\ UNCHANGED <<tip, status, row, site, merge, card, bounds, overlapped>>
      /\ s.pc = "prune" /\ f \in s.todo /\ ~JobAt(j, "idle") /\ job' = [job EXCEPT ![j] = k]
      /\ container' = [container EXCEPT ![f] = 0]
    BY <1>1, AtWork DEF Prune, JobAt, pull
<1>3. /\ k \in JobStates /\ k.pc = "prune" /\ k.tree = s.tree /\ k.kind = s.kind
      /\ k.live = s.live /\ k.todo = s.todo \ {f}
    BY <1>2 DEF JobStates
<1> HIDE DEF k
<1>4. BoundTypes' /\ (Undisturbed' => Undisturbed)
    BY <1>2, AtWork, BoundsRest
<1>5. Begun(k)
    BY <1>1, <1>2, <1>3, AtWork DEF Begun
<1>6. container' \in [PreviewFiles -> Commits \cup {0}] /\ container'[f] = 0
      /\ \A g \in PreviewFiles \ {f} : container'[g] = container[g]
    BY <1>2, AtWork
<1>7. ASSUME Undisturbed' PROVE Calm'
    <2>1. Calm /\ JobInv(s) /\ CardInv(card)
          /\ (s.kind = "build" => BuildInv(s)) /\ (s.kind # "build" => TeardownInv(s))
        BY <1>1, <1>2, <1>4, <1>7, PhaseIs
    <2>2. ASSUME s.kind = "build" PROVE BuildInv(k)'
        <3>1. /\ \A g \in PreviewFiles :
                    IF g \in FilesOf[s.tree] THEN container[g] = s.tree /\ g \notin s.todo
                                             ELSE container[g] = 0 \/ g \in s.todo
              /\ status = "open" /\ merge = "none" /\ s.live \in 1 .. tip
              /\ Awaits(card) => s.live >= card.asked
              /\ s.tree \in s.live .. tip
            BY <1>2, <2>1, <2>2 DEF BuildInv
        <3>2. \A g \in PreviewFiles :
                  IF g \in FilesOf[k.tree] THEN container'[g] = k.tree /\ g \notin k.todo
                                           ELSE container'[g] = 0 \/ g \in k.todo
            BY <1>2, <1>3, <1>6, <3>1
        <3> QED
            BY <1>2, <1>3, <3>1, <3>2 DEF BuildInv, Awaits
    <2>3. ASSUME s.kind # "build" PROVE TeardownInv(k)'
        <3>1. status # "open" /\ \A g \in PreviewFiles : container[g] = 0 \/ g \in s.todo
            BY <1>2, <2>1, <2>3 DEF TeardownInv
        <3>2. \A g \in PreviewFiles : container'[g] = 0 \/ g \in k.todo
            BY <1>3, <1>6, <3>1
        <3> QED
            BY <1>2, <1>3, <3>1, <3>2 DEF TeardownInv
    <2>4. JobInv(k)' /\ CardInv(card)'
        BY <1>2, <1>3, <2>1, <2>2, <2>3 DEF JobInv, CardInv, Awaits
    <2> QED
        BY <1>2, <1>3, <1>5, <2>1, <2>4, WorkGoesOn DEF PreviewsInv
<1> QED
    BY <1>2, <1>3, <1>4, <1>5, <1>6, <1>7, AtWork, JobActs

(* A build or a teardown is over, and says so in the row. *)
LEMMA MarkKeeps ==
    ASSUME PreviewsInv, NEW j \in Jobs, JobEnds(j), ~JobAt(j, "idle"), row' \in Row,
           UNCHANGED <<tip, status, site, container, merge, card, bounds, overlapped>>,
           Undisturbed' => Resting' /\ CardInv(card)'
    PROVE  PreviewsInv'
<1>1. BoundTypes' /\ (Undisturbed' => Undisturbed)
    BY AtWork, BoundsRest
<1>2. Undisturbed' => Calm'
    BY <1>1, AtWork, WorkEnds DEF PreviewsInv
<1> QED
    BY <1>1, <1>2, AtWork, NoJobIs, JobActs DEF JobEnds

LEMMA MarkReadyKeeps ==
    ASSUME PreviewsInv, NEW j \in Jobs, MarkReady(j)
    PROVE  PreviewsInv'
<1>1. PICK s \in JobStates : s = job[j]
    BY AtWork
<1>2. /\ UNCHANGED <<tip, status, site, container, merge, card, bounds, overlapped>>
      /\ s.pc = "prune" /\ s.todo = {} /\ s.kind = "build" /\ ~JobAt(j, "idle") /\ JobEnds(j)
      /\ row' = [status |-> "ready", sha |-> s.live, url |-> LinkTo(s.tree)]
    BY <1>1 DEF MarkReady, Published, JobAt, Row3
<1>3. /\ row' \in Row /\ row'.status = "ready" /\ row'.sha = s.live /\ row'.url = LinkTo(s.tree)
    <2>1. LinkTo(s.tree) \in {"index", "folder"} /\ s.live \in Commits \cup {0}
        BY DEF LinkTo, JobStates
    <2> QED
        BY <1>2, <2>1 DEF Row, Statuses
<1>4. BoundTypes' /\ (Undisturbed' => Undisturbed)
    BY <1>2, AtWork, BoundsRest
<1>5. ASSUME Undisturbed' PROVE Resting' /\ CardInv(card)'
    <2>1. BuildInv(s) /\ CardInv(card)
        BY <1>1, <1>2, <1>4, <1>5, PhaseIs
    <2>2. /\ s.tree \in s.live .. tip /\ status = "open"
          /\ Awaits(card) => s.live >= card.asked
          /\ \A f \in PreviewFiles :
                 IF f \in FilesOf[s.tree] THEN container[f] = s.tree ELSE container[f] = 0
        BY <1>2, <2>1 DEF BuildInv
    <2>3. container = [f \in PreviewFiles |-> IF f \in FilesOf[s.tree] THEN s.tree ELSE 0]
        BY <2>2, AtWork
    <2>4. Shows(s.tree)' /\ Good'
        BY <1>2, <1>3, <2>2, <2>3 DEF Shows, Good
    <2>5. Resting'
        BY <1>2, <1>3, <2>2, <2>4 DEF Resting
    <2>6. CardInv(card)'
        BY <1>2, <1>3, <2>1, <2>2 DEF CardInv, Awaits
    <2> QED
        BY <2>5, <2>6
<1> QED
    BY <1>2, <1>3, <1>5, MarkKeeps

LEMMA MarkGoneKeeps ==
    ASSUME PreviewsInv, NEW j \in Jobs, MarkGone(j)
    PROVE  PreviewsInv'
<1>1. PICK s \in JobStates : s = job[j]
    BY AtWork
<1>2. /\ UNCHANGED <<tip, status, site, container, merge, card, bounds, overlapped>>
      /\ s.pc = "prune" /\ s.todo = {} /\ s.kind = "teardown" /\ ~JobAt(j, "idle") /\ JobEnds(j)
      /\ row' = [status |-> "null", sha |-> 0, url |-> "null"]
    BY <1>1 DEF MarkGone, Published, JobAt, Row3
<1>3. row' \in Row /\ row'.status = "null"
    BY <1>2 DEF Row, Statuses
<1>4. BoundTypes' /\ (Undisturbed' => Undisturbed)
    BY <1>2, AtWork, BoundsRest
<1>5. ASSUME Undisturbed' PROVE Resting' /\ CardInv(card)'
    <2>1. TeardownInv(s) /\ CardInv(card)
        BY <1>1, <1>2, <1>4, <1>5, PhaseIs
    <2>2. status # "open" /\ \A f \in PreviewFiles : container[f] = 0
        BY <1>2, <2>1 DEF TeardownInv
    <2>3. Resting' /\ CardInv(card)'
        BY <1>2, <1>3, <2>1, <2>2 DEF Resting, Gone, CardInv, Awaits
    <2> QED
        BY <2>3
<1> QED
    BY <1>2, <1>3, <1>5, MarkKeeps

LEMMA JobThrowsKeeps ==
    ASSUME PreviewsInv, NEW j \in Jobs, JobThrows(j)
    PROVE  PreviewsInv'
<1>1. /\ UNCHANGED <<tip, status, container, merge, card>> /\ UNCHANGED <<asks, overlapped>>
      /\ JobEnds(j) /\ Mishap("content") /\ site' \in {site, "failed"}
      /\ SetStatus("failed") \/ Row3("null", 0, "null")
    BY DEF JobThrows
<1>2. SetStatus("failed") => row' \in Row
    BY StatusSet DEF Statuses
<1>3. Row3("null", 0, "null") => row' \in Row
    BY DEF Row3, Row, Statuses
<1> QED
    BY <1>1, <1>2, <1>3, AtWork, NoJobIs, JobFails DEF JobEnds

LEMMA RestartKeeps ==
    ASSUME PreviewsInv, Restart
    PROVE  PreviewsInv'
<1>1. /\ UNCHANGED <<tip, status, row, site, container, asks, overlapped>> /\ Mishap("row")
      /\ job' = [j \in Jobs |-> NoJob] /\ merge' = "none"
      /\ card' = IF Outstanding = {} THEN [card EXCEPT !.poll = NoPoll]
                                    ELSE LosePosts(Outstanding)
    BY DEF Restart, pull
<1>2. BoundTypes' /\ ~Undisturbed'
    BY <1>1, AtWork, Disturbs, CardFacts
<1>3. card' \in CardStates
    <2>1. [card EXCEPT !.poll = NoPoll] \in CardStates
        BY CardFacts DEF CardStates
    <2> QED
        BY <1>1, <2>1, LosePostsIs
<1>4. JobTypes'
    BY <1>1, NoJobIs DEF JobTypes, Begun
<1> QED
    BY <1>1, <1>2, <1>3, <1>4 DEF PreviewsInv, PrevTypes, RowTypes

LEMMA PreviewsInitHolds == PreviewsInit => PreviewsInv
<1> SUFFICES ASSUME PreviewsInit PROVE PreviewsInv
    OBVIOUS
<1>1. /\ tip = 1 /\ status = "open" /\ row = [status |-> "null", sha |-> 0, url |-> "null"]
      /\ site = "published" /\ container = [f \in PreviewFiles |-> 0] /\ merge = "none"
      /\ job = [j \in Jobs |-> NoJob] /\ card = NewCard
      /\ asks = 0 /\ mishaps = {} /\ overlapped = FALSE
    BY DEF PreviewsInit
<1>2. /\ row.status = "null" /\ row \in Row /\ Shown = [status |-> "null", sha |-> 0]
    BY <1>1 DEF Row, Statuses, Shown
<1>3. /\ card \in CardStates /\ card.status = "null" /\ card.post = NoPost /\ card.poll = NoPoll
      /\ card.asked = 0 /\ card.slipped = FALSE /\ NoPoll.status = "none"
    BY <1>1, <1>2 DEF NewCard, CardStates, NoPoll, NoPost, PostStates, Statuses
<1>4. JobTypes
    BY <1>1, NoJobIs DEF JobTypes
<1>5. RowTypes
    BY <1>1, <1>2, CommitsAre DEF RowTypes, Commits
<1>6. BoundTypes
    <2>1. Cardinality({}) = 0
        BY FS_EmptySet
    <2>2. MaxAsks \in Nat /\ MaxMishaps \in Nat
        BY CommitsAre
    <2>3. asks \in 0 .. MaxAsks /\ 0 <= MaxMishaps
        BY <1>1, <2>2
    <2>4. Cardinality(mishaps) <= MaxMishaps
        BY <1>1, <2>1, <2>3
    <2>5. overlapped \in BOOLEAN /\ mishaps \subseteq {"request", "content", "row"}
        BY <1>1
    <2> QED
        BY <2>3, <2>4, <2>5 DEF BoundTypes
<1>7. \A j \in Jobs : JobAt(j, "idle")
    BY <1>1, NoJobIs DEF JobAt
<1>8. Resting
    BY <1>1, <1>2 DEF Resting, Gone
<1>9. CardInv(card)
    BY <1>1, <1>2, <1>3 DEF CardInv, Awaits, NoPost
<1>10. Calm
    BY <1>1, <1>7, <1>8, <1>9 DEF Calm, OneJob
<1> QED
    BY <1>3, <1>4, <1>5, <1>6, <1>10 DEF PreviewsInv, PrevTypes

LEMMA PreviewsNextHolds == PreviewsInv /\ [PreviewsNext]_previewVars => PreviewsInv'
<1> SUFFICES ASSUME PreviewsInv, [PreviewsNext]_previewVars PROVE PreviewsInv'
    OBVIOUS
<1>1. CASE UNCHANGED previewVars
    <2>1. /\ UNCHANGED <<tip, pull, site, container, job, merge>> /\ UNCHANGED <<bounds, overlapped>>
          /\ card' = card
        BY <1>1 DEF previewVars
    <2>2. BoundTypes' /\ (Undisturbed' => Undisturbed)
        BY <2>1, CardFacts, BoundsRest
    <2>3. PICK k \in CardStates : k = card
        BY CardFacts
    <2>4. Undisturbed => CardInv(k)
        BY <2>3, CardFacts
    <2> QED
        BY <2>1, <2>2, <2>3, <2>4, CardMoves
<1>2. ASSUME NEW j \in Jobs, JobStep(j) PROVE PreviewsInv'
    BY <1>2, ReadHeadKeeps, OpenLogKeeps, CheckoutKeeps, BuildKeeps, GetOwnerFetchKeeps,
       PutKeeps, PruneKeeps, ListKeeps, MarkReadyKeeps, MarkGoneKeeps DEF JobStep
<1>3. ASSUME NEW j \in Jobs, Failure(j) PROVE PreviewsInv'
    BY <1>3, ReadNoHeadKeeps, OpenLogFailsKeeps, JobThrowsKeeps, RefusedKeeps DEF Failure
<1> QED
    BY <1>1, <1>2, <1>3, PressKeeps, PostAnsweredKeeps, RefusalReadKeeps, PostLostKeeps,
       PollKeeps, PollAnsweredKeeps, ReloadKeeps, PostKeeps, PostRefusedKeeps, AgentAsksKeeps,
       PushKeeps,
       CloseKeeps, BeginMergeKeeps, MergeConflictsKeeps, MarkMergedKeeps, RestartKeeps
    DEF PreviewsNext

LEMMA PreviewsTyped == PreviewsInv => PreviewsTypeOK
<1> SUFFICES ASSUME PreviewsInv PROVE PreviewsTypeOK
    OBVIOUS
<1>1. \A j \in Jobs : job[j].pc \in {"idle", "head"} \/ job[j].kind = "teardown" \/ job[j].live # 0
    BY DEF PreviewsInv, PrevTypes, JobTypes, Begun
<1>2. job \in [Jobs -> JobStates]
    BY DEF PreviewsInv, PrevTypes, JobTypes
<1>3. card \in [status : Statuses, shown : Commits \cup {0}, asked : Commits \cup {0},
                 landed : BOOLEAN, slipped : BOOLEAN, post : [1 .. MaxAsks -> PostStates],
                 poll : [status : Statuses \cup {"none"}, sha : Commits \cup {0}]]
    <2>1. {NoPoll} \cup [status : Statuses, sha : Commits \cup {0}]
              \subseteq [status : Statuses \cup {"none"}, sha : Commits \cup {0}]
        BY DEF NoPoll
    <2>2. card \in CardStates
        BY DEF PreviewsInv, PrevTypes
    <2> QED
        BY <2>1, <2>2 DEF CardStates
<1> QED
    BY <1>1, <1>2, <1>3 DEF PreviewsInv, PrevTypes, RowTypes, BoundTypes, JobStates, PreviewsTypeOK

LEMMA PreviewsInStep == PreviewsInv => PreviewsAgree
<1> SUFFICES ASSUME PreviewsInv PROVE PreviewsAgree
    OBVIOUS
<1>1. ReadyIsServed
    BY DEF PreviewsInv, Calm, Finished, Resting, Good, Shows, ReadyIsServed
<1>2. PreviewIsGone
    BY DEF PreviewsInv, Calm, Finished, Resting, Gone, PreviewIsGone
<1>3. CardIsCurrent
    BY DEF PreviewsInv, Calm, CardInv, CardIsCurrent
<1> QED
    BY <1>1, <1>2, <1>3 DEF PreviewsAgree

(* Whatever runs at once and goes wrong, the types of the preview's row,    *)
(* its files, its builds and the card in the browser, and that a build      *)
(* has a head before it opens its log.                                      *)
THEOREM PreviewsTypes == PreviewsSpec => []PreviewsTypeOK
BY PreviewsInitHolds, PreviewsNextHolds, PreviewsTyped, PTL DEF PreviewsSpec

(* The row, the container and the card agree: for any number of commits,    *)
(* files and builds, a preview that is ready shows one whole commit, that   *)
(* one or a newer, it is gone once the request is merged or closed, and the *)
(* card takes no row of before for the answer, as long as no two builds     *)
(* meet and only requests of the browser fail.                              *)
THEOREM PreviewsStayInStep == PreviewsSpec => []PreviewsAgree
BY PreviewsInitHolds, PreviewsNextHolds, PreviewsInStep, PTL DEF PreviewsSpec

-----------------------------------------------------------------------------
(* The three side by side.  A step of one leaves the variables of the       *)
(* others, so all the invariants are kept by every step.                    *)
PublishingInv ==
    /\ part \in {"upload", "packages", "previews"}
    /\ UploadInv /\ PackagesInv /\ PreviewsInv

LEMMA PublishingInitHolds == PublishingInit => PublishingInv
BY InitHolds, PackagesInitHolds, PreviewsInitHolds DEF PublishingInit, PublishingInv

LEMMA PublishingStep ==
    ASSUME [PublishingNext]_<<vars, packageVars, previewVars, part>>
    PROVE  /\ [Next]_vars /\ [PackagesNext]_packageVars /\ [PreviewsNext]_previewVars
           /\ UNCHANGED part
BY DEF PublishingNext

LEMMA PublishingNextHolds ==
    PublishingInv /\ [PublishingNext]_<<vars, packageVars, previewVars, part>> => PublishingInv'
BY PublishingStep, StepHolds, PackagesNextHolds, PreviewsNextHolds DEF PublishingInv

(* Whichever of the three is at work, its state stays typed. *)
THEOREM PublishingTypes == PublishingSpec => []PublishingTypeOK
<1>1. PublishingInv => PublishingTypeOK
    BY PackagesTyped, PreviewsTyped DEF PublishingInv, PublishingTypeOK, UploadInv
<1> QED
    BY <1>1, PublishingInitHolds, PublishingNextHolds, PTL DEF PublishingSpec

(* And what the registry and the previews promise alone they promise here. *)
THEOREM PublishingPromises ==
    PublishingSpec => [](RegistryKeepsItsWord /\ PreviewsAgree)
<1>1. PublishingInv => RegistryKeepsItsWord /\ PreviewsAgree
    BY PackagesKeepTheirWord, PreviewsInStep DEF PublishingInv
<1> QED
    BY <1>1, PublishingInitHolds, PublishingNextHolds, PTL DEF PublishingSpec
=============================================================================
