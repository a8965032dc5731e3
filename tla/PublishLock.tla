---------------------------- MODULE PublishLock ----------------------------
(***************************************************************************)
(* withPublishLock of src/src/lib/pages/publish-lock.ts: the per-repo lock *)
(* around an upload to the owner's pod, with "latest wins" coalescing.     *)
(*                                                                         *)
(* A caller is one call of withPublishLock, RepoOf its repoId.  The entry  *)
(* of the module-level Map `locks` for a repo is spread over three         *)
(* variables; a repo whose initial[r] is NoCaller has no entry.  A step is *)
(* what JavaScript runs between two awaits, so everything that happens in  *)
(* one turn of the event loop (ending a task, settling its promise, taking *)
(* the pending slot, starting its task) is one action.                     *)
(***************************************************************************)
EXTENDS Integers, Sequences

CONSTANTS Repos, Callers, RepoOf, NoCaller

ASSUME RepoOfAssumption == RepoOf \in [Callers -> Repos]
ASSUME NoCallerAssumption == NoCaller \notin Callers

VARIABLES
    initial,   \* the caller that created the entry, whose call drains it
    current,   \* the caller whose task the entry is running
    pending,   \* the caller in the entry's one pending slot
    phase,     \* what each caller is waiting for
    result,    \* what its task did, or "coalesced"
    settled    \* callers whose promise has settled, in the order their
               \* continuations will run (the microtask queue)

vars == <<initial, current, pending, phase, result, settled>>

MaybeCaller == Callers \cup {NoCaller}
Phases  == {"idle", "running", "pending", "draining", "settled"}
Results == {"none", "ran", "threw", "coalesced"}
Endings == {"ran", "threw"}

TypeOK ==
    /\ initial \in [Repos -> MaybeCaller]
    /\ current \in [Repos -> MaybeCaller]
    /\ pending \in [Repos -> MaybeCaller]
    /\ phase \in [Callers -> Phases]
    /\ result \in [Callers -> Results]
    /\ settled \in Seq(Callers)

Init ==
    /\ initial = [r \in Repos |-> NoCaller]
    /\ current = [r \in Repos |-> NoCaller]
    /\ pending = [r \in Repos |-> NoCaller]
    /\ phase = [c \in Callers |-> "idle"]
    /\ result = [c \in Callers |-> "none"]
    /\ settled = <<>>

-----------------------------------------------------------------------------
(* Ways the code could go wrong, each named for the slip.  The properties  *)
(* below must tell every one of them from the action it stands in for.     *)

(* `if (existing)` dropped: every call opens an entry of its own. *)
AcquireAlways(c) ==
    LET r == RepoOf[c] IN
    /\ phase[c] = "idle"
    /\ initial' = [initial EXCEPT ![r] = c]
    /\ current' = [current EXCEPT ![r] = c]
    /\ phase' = [phase EXCEPT ![c] = "running"]
    /\ UNCHANGED <<pending, result, settled>>

(* `if (existing.pending)` dropped: the slot is resolved even when empty. *)
EnqueueUnchecked(c) ==
    LET d == pending[RepoOf[c]] IN
    /\ phase[c] = "idle"
    /\ initial[RepoOf[c]] # NoCaller
    /\ pending' = [pending EXCEPT ![RepoOf[c]] = c]
    /\ phase' = [e \in Callers |-> IF e = c THEN "pending"
                                   ELSE IF e = d THEN "settled" ELSE phase[e]]
    /\ result' = [e \in Callers |-> IF e = d THEN "coalesced" ELSE result[e]]
    /\ settled' = Append(settled, d)
    /\ UNCHANGED <<initial, current>>

(* Oldest wins: a taken slot keeps its caller, the new call is coalesced. *)
EnqueueOldestWins(c) ==
    LET r == RepoOf[c] IN
    /\ phase[c] = "idle"
    /\ initial[r] # NoCaller
    /\ \/ /\ pending[r] = NoCaller
          /\ pending' = [pending EXCEPT ![r] = c]
          /\ phase' = [phase EXCEPT ![c] = "pending"]
          /\ UNCHANGED <<result, settled>>
       \/ /\ pending[r] # NoCaller
          /\ phase' = [phase EXCEPT ![c] = "settled"]
          /\ result' = [result EXCEPT ![c] = "coalesced"]
          /\ settled' = Append(settled, c)
          /\ UNCHANGED pending
    /\ UNCHANGED <<initial, current>>

(* The drain coalesces the waiting call away instead of running it. *)
DrainDrops(c, ending) ==
    LET r == RepoOf[c]
        d == pending[r] IN
    /\ current[r] = c
    /\ d # NoCaller
    /\ pending' = [pending EXCEPT ![r] = NoCaller]
    /\ phase' = [phase EXCEPT ![d] = "settled"]
    /\ result' = [result EXCEPT ![d] = "coalesced"]
    /\ settled' = Append(settled, d)
    /\ UNCHANGED <<initial, current>>

(* The drain loop dropped: the entry goes although a call waits. *)
ReleaseEarly(c, ending) ==
    LET r == RepoOf[c]
        i == initial[r] IN
    /\ current[r] = c
    /\ initial' = [initial EXCEPT ![r] = NoCaller]
    /\ current' = [current EXCEPT ![r] = NoCaller]
    /\ phase' = [phase EXCEPT ![c] = "settled", ![i] = "settled"]
    /\ result' = [result EXCEPT ![c] = ending]
    /\ settled' = IF c = i THEN Append(settled, c)
                           ELSE Append(Append(settled, c), i)
    /\ UNCHANGED pending

-----------------------------------------------------------------------------
(* The repo has no entry: create one and start the task. *)
Acquire(c) ==
    LET r == RepoOf[c] IN
    /\ phase[c] = "idle"
    /\ initial[r] = NoCaller
    /\ initial' = [initial EXCEPT ![r] = c]
    /\ current' = [current EXCEPT ![r] = c]
    /\ phase' = [phase EXCEPT ![c] = "running"]
    /\ UNCHANGED <<pending, result, settled>>

(* The repo has an entry: take its pending slot.  The caller that had the  *)
(* slot is resolved with "coalesced".                                      *)
Enqueue(c) ==
    LET r == RepoOf[c]
        d == pending[r] IN
    /\ phase[c] = "idle"
    /\ initial[r] # NoCaller
    /\ pending' = [pending EXCEPT ![r] = c]
    /\ \/ /\ d = NoCaller
          /\ phase' = [phase EXCEPT ![c] = "pending"]
          /\ UNCHANGED <<result, settled>>
       \/ /\ d # NoCaller
          /\ phase' = [phase EXCEPT ![c] = "pending", ![d] = "settled"]
          /\ result' = [result EXCEPT ![d] = "coalesced"]
          /\ settled' = Append(settled, d)
    /\ UNCHANGED <<initial, current>>

(* A task ends and a call waits in the slot: the drain loop settles the    *)
(* call whose task ended, unless it is the one that drains, empties the    *)
(* slot and starts the next task.                                          *)
DrainNext(c, ending) ==
    LET r == RepoOf[c]
        d == pending[r]
        own == c = initial[r] IN
    /\ current[r] = c
    /\ d # NoCaller
    /\ current' = [current EXCEPT ![r] = d]
    /\ pending' = [pending EXCEPT ![r] = NoCaller]
    /\ phase' = [phase EXCEPT ![c] = IF own THEN "draining" ELSE "settled",
                              ![d] = "running"]
    /\ result' = [result EXCEPT ![c] = ending]
    /\ settled' = IF own THEN settled ELSE Append(settled, c)
    /\ UNCHANGED initial

(* A task ends and the slot is empty: the entry is deleted.  The call that *)
(* drained it settles last, after the call whose task just ended.          *)
Release(c, ending) ==
    LET r == RepoOf[c]
        i == initial[r] IN
    /\ current[r] = c
    /\ pending[r] = NoCaller
    /\ initial' = [initial EXCEPT ![r] = NoCaller]
    /\ current' = [current EXCEPT ![r] = NoCaller]
    /\ phase' = [phase EXCEPT ![c] = "settled", ![i] = "settled"]
    /\ result' = [result EXCEPT ![c] = ending]
    /\ settled' = IF c = i THEN Append(settled, c)
                           ELSE Append(Append(settled, c), i)
    /\ UNCHANGED pending

(* The caller's continuation runs with its result. *)
Resume(c) ==
    /\ settled # <<>>
    /\ c = Head(settled)
    /\ settled' = Tail(settled)
    /\ phase' = [phase EXCEPT ![c] = "idle"]
    /\ result' = [result EXCEPT ![c] = "none"]
    /\ UNCHANGED <<initial, current, pending>>

(* The process restarts: the Map and every promise are gone.  Not a step of  *)
(* this module; Pages, which models the crash, takes it.                     *)
Restart ==
    /\ initial' = [r \in Repos |-> NoCaller]
    /\ current' = [r \in Repos |-> NoCaller]
    /\ pending' = [r \in Repos |-> NoCaller]
    /\ phase' = [c \in Callers |-> "idle"]
    /\ result' = [c \in Callers |-> "none"]
    /\ settled' = <<>>

Request(c) == Acquire(c) \/ Enqueue(c)
TaskEnds(c) == \E ending \in Endings : DrainNext(c, ending) \/ Release(c, ending)

Next == \E c \in Callers : Request(c) \/ TaskEnds(c) \/ Resume(c)

(* Every task ends (each request it makes to the pod is answered or fails) *)
(* and the event loop runs the continuations; nobody has to call.          *)
Fairness == \A c \in Callers : WF_vars(TaskEnds(c)) /\ WF_vars(Resume(c))

Spec == Init /\ [][Next]_vars /\ Fairness

-----------------------------------------------------------------------------
(* P0-R1: two uploads for one repo never overlap.  A caller is running from *)
(* the step that starts its task to the step in which the task ends.        *)
OneTaskPerRepo ==
    \A c, d \in Callers :
        /\ phase[c] = "running"
        /\ phase[d] = "running"
        /\ RepoOf[c] = RepoOf[d]
        => c = d

(* The entry of a repo and what its callers wait for agree: a caller that   *)
(* waits is in the slot of an entry that has a task to end, and the caller  *)
(* that drains is the one the entry was created by.                         *)
EntryMatchesCallers ==
    \A c \in Callers :
        LET r == RepoOf[c] IN
        /\ phase[c] = "running" <=> current[r] = c
        /\ phase[c] = "pending" <=> pending[r] = c
        /\ phase[c] = "draining" <=> initial[r] = c /\ current[r] # c
        /\ pending[r] # NoCaller => current[r] # NoCaller
        /\ initial[r] = NoCaller <=> current[r] = NoCaller

(* The sequence q lists the elements of S, each once. *)
Enumerates(q, S) ==
    /\ \A c \in S : \E n \in 1 .. Len(q) : q[n] = c
    /\ \A n \in 1 .. Len(q) : q[n] \in S
    /\ \A m, n \in 1 .. Len(q) : q[m] = q[n] => m = n

(* The continuation of every settled caller is queued to run, once. *)
SettledAreQueued == Enumerates(settled, {c \in Callers : phase[c] = "settled"})

(* No caller of withPublishLock is left hanging ("resolve THAT prior caller *)
(* so it doesn't hang"): whoever waits is either in a slot that a running   *)
(* task will drain, or draining behind a running task, or has settled.      *)
NoCallerForgotten == EntryMatchesCallers /\ SettledAreQueued

(* Latest wins: a waiting caller loses its turn only to a newer call for    *)
(* the same repo, which takes its place in the same step.                   *)
CoalesceOnlyForNewer ==
    [][\A c \in Callers :
          phase[c] = "pending" /\ phase'[c] = "settled"
              => \E d \in Callers : /\ RepoOf[d] = RepoOf[c]
                                    /\ phase[d] = "idle"
                                    /\ phase'[d] = "pending"]_vars

(* The caller that opened the entry is answered after every caller whose    *)
(* task it drained: it settles only when its entry goes.                    *)
InitialSettlesLast ==
    [][\A r \in Repos :
          initial[r] # NoCaller /\ phase'[initial[r]] = "settled"
              => initial'[r] = NoCaller]_vars

(* A caller that waits is answered, however many calls follow it. *)
WaiterIsAnswered ==
    \A c \in Callers : phase[c] = "pending" ~> phase[c] = "idle"

(* The lock implements one-at-a-time tasks with a single, newest waiter. *)
StageOf(p) ==
    CASE p = "idle"    -> "idle"
      [] p = "pending" -> "waiting"
      [] p = "running" -> "working"
      [] OTHER         -> "over"

Serial == INSTANCE SerialTasks WITH stage <- [c \in Callers |-> StageOf(phase[c])]

ImplementsSerialTasks == Serial!Spec

(* Who is answered when: a waiting caller when a newer one takes its place  *)
(* or its own task has run, the one that opened the entry last.             *)
CallersSettleInOrder == CoalesceOnlyForNewer /\ InitialSettlesLast
=============================================================================
