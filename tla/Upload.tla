------------------------------- MODULE Upload -------------------------------
(***************************************************************************)
(* publishDirectory of src/src/lib/pages/publisher.ts: upload a directory  *)
(* to a container of the owner's pod, then delete from the container what  *)
(* the directory does not have.                                            *)
(*                                                                         *)
(* An uploader is one call; a step is what it does up to the next answer   *)
(* of the pod server.  A tree is what a directory holds: Files says which  *)
(* names, and a container remembers which tree each of its files is from.  *)
(* The actions say nothing of other uploaders; Spec is publishDirectory    *)
(* used as its callers promise to: one upload at a time per container.     *)
(***************************************************************************)
EXTENDS Integers

CONSTANTS
    Uploaders,
    Targets,    \* containers
    Paths,      \* file names, relative to the directory or the container
    Escaped,    \* the names that a URL spells otherwise ("my file.html")
    Trees,
    Files,      \* the names in each tree
    Absent,     \* no such file in the container
    None,       \* no tree, no container
    MaxFaults   \* bound: failures

ASSUME TreesAssumption ==
    /\ Files \in [Trees -> SUBSET Paths]
    /\ Escaped \subseteq Paths
    /\ Absent \notin Trees
ASSUME NoneAssumption == None \notin Trees /\ None \notin Targets
ASSUME MaxFaultsAssumption == MaxFaults \in Nat

VARIABLES
    pod,      \* the files of each container, with the tree they come from
    upload,   \* the local state of each call
    faults    \* used-up bound

vars == <<pod, upload, faults>>

(* kept: what has been PUT.  todo: the files still to PUT, then the files   *)
(* still to DELETE.  clean: no PUT was refused and no DELETE failed.        *)
Idle == [pc |-> "idle", tree |-> None, target |-> None, todo |-> {}, kept |-> {},
         clean |-> TRUE, ending |-> "ran"]

UploadStates ==
    [pc : {"idle", "ensure", "put", "prune", "logout"},
     tree : Trees \cup {None}, target : Targets \cup {None},
     todo : SUBSET Paths, kept : SUBSET Paths,
     clean : BOOLEAN, ending : {"ran", "threw"}]

TypeOK ==
    /\ pod \in [Targets -> [Paths -> Trees \cup {Absent}]]
    /\ upload \in [Uploaders -> UploadStates]
    /\ \A c \in Uploaders :
          IF upload[c].pc = "idle" THEN upload[c] = Idle
          ELSE upload[c].tree \in Trees /\ upload[c].target \in Targets
    /\ faults \in 0 .. MaxFaults

Init ==
    /\ pod = [t \in Targets |-> [p \in Paths |-> Absent]]
    /\ upload = [c \in Uploaders |-> Idle]
    /\ faults = 0

At(c, pc) == upload[c].pc = pc

Fault == faults < MaxFaults /\ faults' = faults + 1

(* An exception: whatever is left is skipped and the caller sees it. *)
Throws(c) == upload' = [upload EXCEPT ![c].pc = "logout", ![c].ending = "threw"]

Starts(c, tree, target, pc, ending) ==
    /\ At(c, "idle")
    /\ upload' = [upload EXCEPT ![c] = [Idle EXCEPT !.pc = pc, !.tree = tree,
                                                    !.target = target, !.ending = ending]]

-----------------------------------------------------------------------------
(* getOwnerFetch gives the call a fetch with the owner's authority ... *)
Begin(c, tree, target) ==
    /\ Starts(c, tree, target, "ensure", "ran")
    /\ UNCHANGED <<pod, faults>>

(* ... or throws.  The row that records it is the caller's. *)
Refuse(c, tree, target) ==
    /\ Fault
    /\ Starts(c, tree, target, "logout", "threw")
    /\ UNCHANGED pod

(* ensureContainerPath, then the walk over the directory starts. *)
EnsureContainer(c) ==
    /\ At(c, "ensure")
    /\ \/ /\ upload' = [upload EXCEPT ![c].pc = "put",
                                      ![c].todo = Files[upload[c].tree]]
          /\ UNCHANGED faults
       \/ /\ Fault
          /\ Throws(c)
    /\ UNCHANGED pod

(* PUT one file.  A refused PUT is only counted as skipped: the file is not *)
(* in `kept`, so the prune will delete the version that is there.           *)
PutFile(c) ==
    /\ At(c, "put")
    /\ \E p \in upload[c].todo :
          \/ /\ pod' = [pod EXCEPT ![upload[c].target][p] = upload[c].tree]
             /\ upload' = [upload EXCEPT ![c].todo = @ \ {p}, ![c].kept = @ \cup {p}]
             /\ UNCHANGED faults
          \/ /\ Fault
             /\ upload' = [upload EXCEPT ![c].todo = @ \ {p}, ![c].clean = FALSE]
             /\ UNCHANGED pod
          \/ /\ Fault
             /\ Throws(c)
             /\ UNCHANGED pod

(* What the prune goes over: all that the container lists and `kept` does   *)
(* not have.  `kept` has a file by its name and the listing by its URL, so  *)
(* an escaped name is never found.                                          *)
Stale(c) ==
    {p \in Paths : pod[upload[c].target][p] # Absent} \ (upload[c].kept \ Escaped)

StartPrune(c, stale) ==
    upload' = [upload EXCEPT ![c].pc = IF stale = {} THEN "logout" ELSE "prune",
                             ![c].todo = stale]

(* Slip (one the code had, see its comment): no name in the listing is ever *)
(* found in `kept`, so the prune deletes what was just uploaded.            *)
ListMatchesNothing(c) ==
    /\ At(c, "put")
    /\ upload[c].todo = {}
    /\ StartPrune(c, {p \in Paths : pod[upload[c].target][p] # Absent})
    /\ UNCHANGED <<pod, faults>>

(* Slip: the container is listed and pruned before every file is PUT. *)
ListEarly(c) ==
    /\ At(c, "put")
    /\ StartPrune(c, Stale(c))
    /\ UNCHANGED <<pod, faults>>

(* pruneStale, first half: list the container. *)
ListContainer(c) ==
    /\ At(c, "put")
    /\ upload[c].todo = {}
    /\ \/ /\ StartPrune(c, Stale(c))
          /\ UNCHANGED faults
       \/ /\ Fault
          /\ Throws(c)
    /\ UNCHANGED pod

(* pruneStale, second half: DELETE one file.  A failure is only logged. *)
DeleteFile(c) ==
    /\ At(c, "prune")
    /\ \E p \in upload[c].todo :
          LET left == upload[c].todo \ {p}
              next == [upload[c] EXCEPT !.todo = left,
                                        !.pc = IF left = {} THEN "logout" ELSE "prune"] IN
          \/ /\ pod' = [pod EXCEPT ![upload[c].target][p] = Absent]
             /\ upload' = [upload EXCEPT ![c] = next]
             /\ UNCHANGED faults
          \/ /\ Fault
             /\ upload' = [upload EXCEPT ![c] = [next EXCEPT !.clean = FALSE]]
             /\ UNCHANGED pod

(* Slip: `kept` is not the call's own but outlives it. *)
EndKeepsKept(c) ==
    /\ At(c, "logout")
    /\ upload' = [upload EXCEPT ![c] = [Idle EXCEPT !.kept = @ \cup upload[c].kept]]
    /\ UNCHANGED <<pod, faults>>

(* logout, and publishDirectory returns or throws. *)
End(c) ==
    /\ At(c, "logout")
    /\ upload' = [upload EXCEPT ![c] = Idle]
    /\ UNCHANGED <<pod, faults>>

(* The process dies: every call is gone, the container stays as it is. *)
Abandon ==
    /\ upload' = [c \in Uploaders |-> Idle]
    /\ UNCHANGED <<pod, faults>>

Step(c) == EnsureContainer(c) \/ PutFile(c) \/ ListContainer(c) \/ DeleteFile(c)

(* The promise of the callers: nobody is at work on the container. *)
Alone(target) == \A c \in Uploaders : upload[c].target # target

Next ==
    \/ \E c \in Uploaders :
          \/ \E tree \in Trees, target \in Targets :
                Alone(target) /\ (Begin(c, tree, target) \/ Refuse(c, tree, target))
          \/ Step(c)
          \/ End(c)
    \/ Abandon

Spec == Init /\ [][Next]_vars

-----------------------------------------------------------------------------
(* What an upload has PUT is there until it prunes, and what has a plain    *)
(* name is there until it ends: nothing else deletes or overwrites it.      *)
UploadedStays ==
    \A c \in Uploaders :
        \A p \in upload[c].kept :
            At(c, "put") \/ p \notin Escaped
                => pod[upload[c].target][p] = upload[c].tree

(* An upload in which no PUT was refused and no DELETE failed leaves the    *)
(* container with exactly the plainly named files of its tree, whatever was *)
(* there before: another tree, or what an upload that threw or died left.   *)
ExactPublish ==
    \A c \in Uploaders :
        At(c, "logout") /\ upload[c].ending = "ran" /\ upload[c].clean
            => \A p \in Paths \ Escaped :
                  pod[upload[c].target][p] =
                      IF p \in Files[upload[c].tree] THEN upload[c].tree ELSE Absent

(* "so the prune step afterwards can DELETE anything the source no longer   *)
(* contains": what the source does contain is not deleted.                  *)
SourceSurvives ==
    \A c \in Uploaders :
        At(c, "logout") /\ upload[c].ending = "ran" /\ upload[c].clean
            => \A p \in Files[upload[c].tree] :
                  pod[upload[c].target][p] = upload[c].tree
=============================================================================
