---------------------------- MODULE Pages_proofs ----------------------------
(***************************************************************************)
(* Proofs about Pages: the chains that publish one repository, with the    *)
(* lock they share, the pod they write and the rows they leave, for any    *)
(* number of hooks, commits, edits, failures and restarts.                 *)
(*                                                                         *)
(* Each step of a chain is a step of the lock, of an upload, or of neither.*)
(* So the invariants of PublishLock and of Upload hold here too, once the  *)
(* chain is known to stand where the step takes it up; PagesInv adds       *)
(*   RunsMatchChains    whose run a row is and how far that chain is,      *)
(*   LockMatchesChains  that a chain is in the lock's hands exactly while  *)
(*                      it waits for withPublishLock, and at work on the   *)
(*                      pod only while its task runs.                      *)
(* The second and the exclusion of the lock give Upload what it asks of    *)
(* its callers: uploads to one container take turns.                       *)
(*                                                                         *)
(* The lemmas on `Lock!` and `Up!` are those of PublishLock_proofs and of  *)
(* Publishing_proofs, about the instances that Pages has of the modules.   *)
(***************************************************************************)
EXTENDS Pages, TLAPS

-----------------------------------------------------------------------------
(* The lock.  A caller is in an entry of its repo in at most one place, and  *)
(* no continuation is queued twice.                                          *)
LEMMA NoChainAssumption == NoChain \notin Chains
BY ChainsAssumption DEF Chains

EntryInv == Lock!TypeOK /\ Lock!EntryMatchesCallers

LockInv == EntryInv /\ Lock!SettledAreQueued

LEMMA EntryInvInit == Lock!Init => EntryInv
<1> SUFFICES ASSUME Lock!Init PROVE EntryInv
    OBVIOUS
<1>1. Lock!TypeOK
    BY NoChainAssumption
    DEF Lock!Init, Lock!TypeOK, Lock!MaybeCaller, Lock!Phases, Lock!Results
<1>2. Lock!EntryMatchesCallers
    BY NoChainAssumption DEF Lock!Init, Lock!EntryMatchesCallers
<1> QED
    BY <1>1, <1>2 DEF EntryInv

LEMMA AcquireKeepsEntry ==
    ASSUME EntryInv, NEW c \in Chains, Lock!Acquire(c)
    PROVE  EntryInv'
<1> USE NoChainAssumption
<1> DEFINE r == "repo"
<1>1. r \in {"repo"}
    OBVIOUS
<1>2. Lock!TypeOK'
    BY <1>1 DEF EntryInv, Lock!TypeOK, Lock!Acquire, Lock!MaybeCaller, Lock!Phases
<1>4. Lock!EntryMatchesCallers'
    BY <1>1 DEF EntryInv, Lock!TypeOK, Lock!EntryMatchesCallers, Lock!Acquire
<1> QED
    BY <1>2, <1>4 DEF EntryInv

LEMMA EnqueueKeepsEntry ==
    ASSUME EntryInv, NEW c \in Chains, Lock!Enqueue(c)
    PROVE  EntryInv'
<1> USE NoChainAssumption
<1> DEFINE r == "repo"
           d == pending[r]
<1>1. r \in {"repo"} /\ d \in Lock!MaybeCaller
    BY DEF EntryInv, Lock!TypeOK
<1>2. Lock!TypeOK'
    <2>1. CASE d = NoChain
        BY <1>1, <2>1 DEF EntryInv, Lock!TypeOK, Lock!Enqueue, Lock!MaybeCaller, Lock!Phases
    <2>2. CASE d # NoChain
        <3>1. d \in Chains /\ settled \in Seq(Chains) /\ settled' = Append(settled, d)
            BY <1>1, <2>2 DEF EntryInv, Lock!TypeOK, Lock!Enqueue, Lock!MaybeCaller
        <3>2. settled' \in Seq(Chains)
            BY <3>1
        <3>3. phase' \in [Chains -> Lock!Phases] /\ result' \in [Chains -> Lock!Results]
            BY <2>2, <3>1 DEF EntryInv, Lock!TypeOK, Lock!Enqueue, Lock!Phases, Lock!Results
        <3>4. /\ initial' \in [{"repo"} -> Lock!MaybeCaller]
              /\ current' \in [{"repo"} -> Lock!MaybeCaller]
              /\ pending' \in [{"repo"} -> Lock!MaybeCaller]
            BY <1>1 DEF EntryInv, Lock!TypeOK, Lock!Enqueue, Lock!MaybeCaller
        <3> QED
            BY <3>2, <3>3, <3>4 DEF Lock!TypeOK
    <2> QED
        BY <2>1, <2>2
<1>4. Lock!EntryMatchesCallers'
    <2>1. CASE d = NoChain
        BY <1>1, <2>1 DEF EntryInv, Lock!TypeOK, Lock!EntryMatchesCallers, Lock!Enqueue
    <2>2. CASE d # NoChain
        BY <1>1, <2>2
        DEF EntryInv, Lock!TypeOK, Lock!EntryMatchesCallers, Lock!Enqueue, Lock!MaybeCaller
    <2> QED
        BY <2>1, <2>2
<1> QED
    BY <1>2, <1>4 DEF EntryInv

(* Who is who when a task ends and another one waits. *)
LEMMA DrainNextFacts ==
    ASSUME EntryInv, NEW c \in Chains, NEW ending \in Lock!Endings, Lock!DrainNext(c, ending)
    PROVE  LET r == "repo"
               d == pending[r]
           IN  /\ r \in {"repo"} /\ current[r] = c /\ phase[c] = "running"
               /\ d \in Chains /\ "repo" = r /\ phase[d] = "pending" /\ d # c
<1> USE NoChainAssumption
<1> DEFINE r == "repo"
           d == pending[r]
<1>1. r \in {"repo"} /\ current[r] = c /\ d \in Chains
    BY DEF EntryInv, Lock!TypeOK, Lock!DrainNext, Lock!MaybeCaller
<1>2. phase[c] = "running" /\ "repo" = r
    BY <1>1 DEF EntryInv, Lock!EntryMatchesCallers
<1>3. phase[d] = "pending"
    BY <1>1, <1>2 DEF EntryInv, Lock!EntryMatchesCallers
<1> QED
    BY <1>1, <1>2, <1>3

(* Who is who when a task ends and nobody waits. *)
LEMMA ReleaseFacts ==
    ASSUME EntryInv, NEW c \in Chains, NEW ending \in Lock!Endings, Lock!Release(c, ending)
    PROVE  LET r == "repo"
               i == initial[r]
           IN  /\ r \in {"repo"} /\ current[r] = c /\ phase[c] = "running"
               /\ pending[r] = NoChain
               /\ i \in Chains /\ "repo" = r
               /\ phase[i] \in {"running", "draining"}
<1> USE NoChainAssumption
<1> DEFINE r == "repo"
           i == initial[r]
<1>1. r \in {"repo"} /\ current[r] = c /\ pending[r] = NoChain
    BY DEF EntryInv, Lock!TypeOK, Lock!Release
<1>2. i \in Chains /\ "repo" = r /\ phase[c] = "running"
    BY <1>1 DEF EntryInv, Lock!TypeOK, Lock!EntryMatchesCallers, Lock!MaybeCaller
<1>3. phase[i] \in {"running", "draining"}
    BY <1>1, <1>2 DEF EntryInv, Lock!EntryMatchesCallers
<1> QED
    BY <1>1, <1>2, <1>3

LEMMA DrainNextKeepsEntry ==
    ASSUME EntryInv, NEW c \in Chains, NEW ending \in Lock!Endings, Lock!DrainNext(c, ending)
    PROVE  EntryInv'
<1> USE NoChainAssumption
<1> DEFINE r == "repo"
           d == pending[r]
<1>1. r \in {"repo"} /\ current[r] = c /\ d \in Chains
    BY DrainNextFacts
<1>2. "repo" = r /\ d # c
    BY DrainNextFacts
<1>3. Lock!TypeOK'
    <2>1. settled' \in Seq(Chains)
        <3>1. settled' = settled \/ settled' = Append(settled, c)
            BY DEF Lock!DrainNext
        <3> QED
            BY <3>1 DEF EntryInv, Lock!TypeOK
    <2>2. /\ initial' \in [{"repo"} -> Lock!MaybeCaller]
          /\ current' \in [{"repo"} -> Lock!MaybeCaller]
          /\ pending' \in [{"repo"} -> Lock!MaybeCaller]
        BY <1>1 DEF EntryInv, Lock!TypeOK, Lock!DrainNext, Lock!MaybeCaller
    <2>3. phase' \in [Chains -> Lock!Phases] /\ result' \in [Chains -> Lock!Results]
        BY <1>1 DEF EntryInv, Lock!TypeOK, Lock!DrainNext, Lock!Phases, Lock!Results, Lock!Endings
    <2> QED
        BY <2>1, <2>2, <2>3 DEF Lock!TypeOK
<1>5. Lock!EntryMatchesCallers'
    BY <1>1, <1>2
    DEF EntryInv, Lock!TypeOK, Lock!EntryMatchesCallers, Lock!DrainNext, Lock!MaybeCaller
<1> QED
    BY <1>3, <1>5 DEF EntryInv

LEMMA ReleaseKeepsEntry ==
    ASSUME EntryInv, NEW c \in Chains, NEW ending \in Lock!Endings, Lock!Release(c, ending)
    PROVE  EntryInv'
<1> USE NoChainAssumption
<1> DEFINE r == "repo"
           i == initial[r]
<1>1. r \in {"repo"} /\ current[r] = c /\ pending[r] = NoChain
    BY ReleaseFacts
<1>2. i \in Chains /\ "repo" = r
    BY ReleaseFacts
<1>3. Lock!TypeOK'
    <2>1. settled' \in Seq(Chains)
        <3>1. \/ settled' = Append(settled, c)
              \/ settled' = Append(Append(settled, c), i)
            BY DEF Lock!Release
        <3> DEFINE q == Append(settled, c)
        <3>2. q \in Seq(Chains)
            BY DEF EntryInv, Lock!TypeOK
        <3>3. settled' = q \/ settled' = Append(q, i)
            BY <3>1
        <3> HIDE DEF q
        <3>4. Append(q, i) \in Seq(Chains)
            BY <1>2, <3>2
        <3> QED
            BY <3>2, <3>3, <3>4
    <2>2. /\ initial' \in [{"repo"} -> Lock!MaybeCaller]
          /\ current' \in [{"repo"} -> Lock!MaybeCaller]
          /\ pending' \in [{"repo"} -> Lock!MaybeCaller]
        BY <1>1 DEF EntryInv, Lock!TypeOK, Lock!Release, Lock!MaybeCaller
    <2>3. phase' \in [Chains -> Lock!Phases] /\ result' \in [Chains -> Lock!Results]
        BY <1>2 DEF EntryInv, Lock!TypeOK, Lock!Release, Lock!Phases, Lock!Results, Lock!Endings
    <2> QED
        BY <2>1, <2>2, <2>3 DEF Lock!TypeOK
<1>5. Lock!EntryMatchesCallers'
    BY <1>1, <1>2
    DEF EntryInv, Lock!TypeOK, Lock!EntryMatchesCallers, Lock!Release, Lock!MaybeCaller
<1> QED
    BY <1>3, <1>5 DEF EntryInv

-----------------------------------------------------------------------------
(* Adding to a queue a caller that it does not list. *)
LEMMA EnumeratesAppend ==
    ASSUME NEW S, NEW q \in Seq(S), NEW T, Lock!Enumerates(q, T), NEW d \in S, d \notin T
    PROVE  Append(q, d) \in Seq(S) /\ Lock!Enumerates(Append(q, d), T \cup {d})
<1> DEFINE p == Append(q, d)
<1>1. /\ p \in Seq(S)
      /\ Len(q) \in Nat
      /\ Len(p) = Len(q) + 1
      /\ \A n \in 1 .. Len(q) : p[n] = q[n]
      /\ p[Len(p)] = d
    OBVIOUS
<1> HIDE DEF p
<1>2. \A c \in T \cup {d} : \E n \in 1 .. Len(p) : p[n] = c
    BY <1>1 DEF Lock!Enumerates
<1>3. \A n \in 1 .. Len(p) : p[n] \in T \cup {d}
    BY <1>1 DEF Lock!Enumerates
<1>4. \A m, n \in 1 .. Len(p) : p[m] = p[n] => m = n
    <2> TAKE m, n \in 1 .. Len(p)
    <2>1. CASE m \in 1 .. Len(q) /\ n \in 1 .. Len(q)
        BY <1>1, <2>1 DEF Lock!Enumerates
    <2>2. CASE m = Len(p) \/ n = Len(p)
        BY <1>1, <2>2 DEF Lock!Enumerates
    <2> QED
        BY <1>1, <2>1, <2>2
<1> QED
    BY <1>1, <1>2, <1>3, <1>4 DEF Lock!Enumerates, p

(* Taking the first caller out of a queue. *)
LEMMA EnumeratesTail ==
    ASSUME NEW S, NEW q \in Seq(S), NEW T, Lock!Enumerates(q, T), q # <<>>
    PROVE  /\ Head(q) \in S \cap T
           /\ Tail(q) \in Seq(S)
           /\ Lock!Enumerates(Tail(q), T \ {Head(q)})
<1> DEFINE h == Head(q)
           p == Tail(q)
<1>1. /\ p \in Seq(S)
      /\ Len(q) \in Nat /\ Len(q) > 0
      /\ Len(p) = Len(q) - 1
      /\ \A n \in 1 .. Len(p) : p[n] = q[n + 1]
      /\ h = q[1] /\ h \in S
    OBVIOUS
<1> HIDE DEF p, h
<1>2. h \in T
    BY <1>1 DEF Lock!Enumerates
<1>3. \A c \in T \ {h} : \E n \in 1 .. Len(p) : p[n] = c
    <2> TAKE c \in T \ {h}
    <2>1. PICK n \in 1 .. Len(q) : q[n] = c
        BY DEF Lock!Enumerates
    <2>2. n # 1 /\ n - 1 \in 1 .. Len(p) /\ p[n - 1] = q[n]
        BY <1>1, <2>1
    <2> QED
        BY <2>1, <2>2
<1>4. \A n \in 1 .. Len(p) : p[n] \in T \ {h}
    BY <1>1 DEF Lock!Enumerates
<1>5. \A m, n \in 1 .. Len(p) : p[m] = p[n] => m = n
    <2> TAKE m, n \in 1 .. Len(p)
    <2>1. m + 1 \in 1 .. Len(q) /\ n + 1 \in 1 .. Len(q)
        BY <1>1
    <2>2. HAVE p[m] = p[n]
    <2>3. q[m + 1] = q[n + 1]
        BY <1>1, <2>2
    <2>4. m + 1 = n + 1
        BY <2>1, <2>3 DEF Lock!Enumerates
    <2> QED
        BY <2>4
<1> QED
    BY <1>1, <1>2, <1>3, <1>4, <1>5 DEF Lock!Enumerates, p, h

-----------------------------------------------------------------------------
SettledCallers == {c \in Chains : phase[c] = "settled"}

LEMMA AcquireKeepsQueue ==
    ASSUME LockInv, NEW c \in Chains, Lock!Acquire(c)
    PROVE  Lock!SettledAreQueued'
<1>1. SettledCallers' = SettledCallers /\ settled' = settled
    BY DEF LockInv, EntryInv, Lock!TypeOK, Lock!Acquire, SettledCallers
<1> QED
    BY <1>1 DEF LockInv, Lock!SettledAreQueued, SettledCallers

LEMMA EnqueueKeepsQueue ==
    ASSUME LockInv, NEW c \in Chains, Lock!Enqueue(c)
    PROVE  Lock!SettledAreQueued'
<1> USE NoChainAssumption
<1> DEFINE d == pending["repo"]
<1>1. CASE d = NoChain
    <2>1. SettledCallers' = SettledCallers /\ settled' = settled
        BY <1>1 DEF LockInv, EntryInv, Lock!TypeOK, Lock!Enqueue, SettledCallers
    <2> QED
        BY <2>1 DEF LockInv, Lock!SettledAreQueued, SettledCallers
<1>2. CASE d # NoChain
    <2>1. d \in Chains /\ d \notin SettledCallers /\ d # c
        BY <1>2 DEF LockInv, EntryInv, Lock!TypeOK, Lock!EntryMatchesCallers,
                    Lock!Enqueue, SettledCallers, Lock!MaybeCaller
    <2>2. SettledCallers' = SettledCallers \cup {d} /\ settled' = Append(settled, d)
        BY <1>2, <2>1 DEF LockInv, EntryInv, Lock!TypeOK, Lock!Enqueue, SettledCallers
    <2>3. settled \in Seq(Chains) /\ Lock!Enumerates(settled, SettledCallers)
        BY DEF LockInv, EntryInv, Lock!TypeOK, Lock!SettledAreQueued, SettledCallers
    <2>4. Lock!Enumerates(settled', SettledCallers')
        BY <2>1, <2>2, <2>3, EnumeratesAppend
    <2> QED
        BY <2>4 DEF Lock!SettledAreQueued, SettledCallers
<1> QED
    BY <1>1, <1>2

LEMMA DrainNextKeepsQueue ==
    ASSUME LockInv, NEW c \in Chains, NEW ending \in Lock!Endings, Lock!DrainNext(c, ending)
    PROVE  Lock!SettledAreQueued'
<1> USE NoChainAssumption
<1> DEFINE r == "repo"
           d == pending[r]
<1>1. /\ d \in Chains /\ "repo" = r /\ phase[d] = "pending"
      /\ phase[c] = "running" /\ c # d /\ c \notin SettledCallers
    BY DrainNextFacts DEF LockInv, SettledCallers
<1>2. settled \in Seq(Chains) /\ Lock!Enumerates(settled, SettledCallers)
    BY DEF LockInv, EntryInv, Lock!TypeOK, Lock!SettledAreQueued, SettledCallers
<1>3. CASE c = initial[r]
    <2>1. SettledCallers' = SettledCallers /\ settled' = settled
        BY <1>1, <1>3 DEF LockInv, EntryInv, Lock!TypeOK, Lock!DrainNext, SettledCallers
    <2> QED
        BY <1>2, <2>1 DEF Lock!SettledAreQueued, SettledCallers
<1>4. CASE c # initial[r]
    <2>1. SettledCallers' = SettledCallers \cup {c} /\ settled' = Append(settled, c)
        BY <1>1, <1>4 DEF LockInv, EntryInv, Lock!TypeOK, Lock!DrainNext, SettledCallers
    <2>2. Lock!Enumerates(settled', SettledCallers')
        BY <1>1, <1>2, <2>1, EnumeratesAppend
    <2> QED
        BY <2>2 DEF Lock!SettledAreQueued, SettledCallers
<1> QED
    BY <1>3, <1>4

LEMMA ReleaseKeepsQueue ==
    ASSUME LockInv, NEW c \in Chains, NEW ending \in Lock!Endings, Lock!Release(c, ending)
    PROVE  Lock!SettledAreQueued'
<1> USE NoChainAssumption
<1> DEFINE r == "repo"
           i == initial[r]
<1>1. /\ i \in Chains /\ "repo" = r /\ phase[c] = "running"
      /\ c \notin SettledCallers /\ i \notin SettledCallers
    BY ReleaseFacts DEF LockInv, SettledCallers
<1>2. settled \in Seq(Chains) /\ Lock!Enumerates(settled, SettledCallers)
    BY DEF LockInv, EntryInv, Lock!TypeOK, Lock!SettledAreQueued, SettledCallers
<1> DEFINE q == Append(settled, c)
           T == SettledCallers \cup {c}
<1>3. q \in Seq(Chains) /\ Lock!Enumerates(q, T)
    BY <1>1, <1>2, EnumeratesAppend
<1>4. CASE c = i
    <2>1. SettledCallers' = T /\ settled' = q
        BY <1>1, <1>4 DEF LockInv, EntryInv, Lock!TypeOK, Lock!Release, SettledCallers
    <2> QED
        BY <1>3, <2>1 DEF Lock!SettledAreQueued, SettledCallers
<1>5. CASE c # i
    <2>1. SettledCallers' = T \cup {i} /\ settled' = Append(q, i)
        BY <1>1, <1>5 DEF LockInv, EntryInv, Lock!TypeOK, Lock!Release, SettledCallers
    <2>2. i \notin T
        BY <1>1, <1>5
    <2> HIDE DEF q, T
    <2>3. Lock!Enumerates(settled', SettledCallers')
        BY <1>1, <1>3, <2>1, <2>2, EnumeratesAppend
    <2> QED
        BY <2>3 DEF Lock!SettledAreQueued, SettledCallers
<1> QED
    BY <1>4, <1>5

(* Only a caller whose turn it is resumes: the head of the queue is settled, *)
(* so no entry names it.                                                     *)
LEMMA ResumeKeepsLock ==
    ASSUME LockInv, NEW c \in Chains, Lock!Resume(c)
    PROVE  LockInv'
<1> USE NoChainAssumption
<1>1. settled \in Seq(Chains) /\ Lock!Enumerates(settled, SettledCallers)
    BY DEF LockInv, EntryInv, Lock!TypeOK, Lock!SettledAreQueued, SettledCallers
<1>2. /\ c \in SettledCallers
      /\ settled' \in Seq(Chains)
      /\ Lock!Enumerates(settled', SettledCallers \ {c})
    BY <1>1, EnumeratesTail DEF Lock!Resume
<1>3. SettledCallers' = SettledCallers \ {c}
    BY <1>2 DEF LockInv, EntryInv, Lock!TypeOK, Lock!Resume, SettledCallers
<1>4. Lock!TypeOK'
    BY <1>2 DEF LockInv, EntryInv, Lock!TypeOK, Lock!Resume, Lock!Phases, Lock!Results
<1>6. Lock!EntryMatchesCallers'
    BY <1>2 DEF LockInv, EntryInv, Lock!TypeOK, Lock!EntryMatchesCallers, Lock!Resume, SettledCallers
<1>7. Lock!SettledAreQueued'
    BY <1>2, <1>3 DEF Lock!SettledAreQueued, SettledCallers
<1> QED
    BY <1>4, <1>6, <1>7 DEF LockInv, EntryInv

LEMMA LockInvInit == Lock!Init => LockInv
<1> SUFFICES ASSUME Lock!Init PROVE LockInv
    OBVIOUS
<1>1. EntryInv
    BY EntryInvInit
<1>2. Lock!SettledAreQueued
    BY DEF Lock!Init, Lock!SettledAreQueued, Lock!Enumerates
<1> QED
    BY <1>1, <1>2 DEF LockInv

LEMMA LockInvStep == LockInv /\ [Lock!Next]_(Lock!vars) => LockInv'
<1> SUFFICES ASSUME LockInv, [Lock!Next]_(Lock!vars) PROVE LockInv'
    OBVIOUS
<1>1. ASSUME NEW c \in Chains, Lock!Acquire(c) PROVE LockInv'
    BY <1>1, AcquireKeepsEntry, AcquireKeepsQueue DEF LockInv
<1>2. ASSUME NEW c \in Chains, Lock!Enqueue(c) PROVE LockInv'
    BY <1>2, EnqueueKeepsEntry, EnqueueKeepsQueue DEF LockInv
<1>3. ASSUME NEW c \in Chains, NEW ending \in Lock!Endings, Lock!DrainNext(c, ending)
      PROVE  LockInv'
    BY <1>3, DrainNextKeepsEntry, DrainNextKeepsQueue DEF LockInv
<1>4. ASSUME NEW c \in Chains, NEW ending \in Lock!Endings, Lock!Release(c, ending)
      PROVE  LockInv'
    BY <1>4, ReleaseKeepsEntry, ReleaseKeepsQueue DEF LockInv
<1>5. ASSUME NEW c \in Chains, Lock!Resume(c) PROVE LockInv'
    BY <1>5, ResumeKeepsLock
<1>6. CASE UNCHANGED Lock!vars
    BY <1>6 DEF LockInv, EntryInv, Lock!TypeOK, Lock!EntryMatchesCallers,
                Lock!SettledAreQueued, Lock!Enumerates, Lock!vars
<1> QED
    BY <1>1, <1>2, <1>3, <1>4, <1>5, <1>6 DEF Lock!Next, Lock!Request, Lock!TaskEnds

-----------------------------------------------------------------------------
Sites == [Paths -> Trees \cup {Absent}]

(* A call in state u and the files of its container. *)
CallOK(u, site) ==
    /\ u.pc \in {"idle", "ensure"} => u.kept = {} /\ u.todo = {}
    /\ u.pc \in {"ensure", "put", "prune"} => u.ending = "ran"
    /\ u.pc = "put" =>
          /\ u.kept \cup u.todo \subseteq Files[u.tree]
          /\ u.clean => u.kept \cup u.todo = Files[u.tree]
    /\ \A p \in u.kept : u.pc = "put" \/ p \notin Escaped => site[p] = u.tree
    /\ u.pc = "prune" => u.todo \cap (u.kept \ Escaped) = {}
    /\ u.pc \in {"prune", "logout"} /\ u.ending = "ran" /\ u.clean =>
          /\ u.kept = Files[u.tree]
          /\ \A p \in Paths \ (u.kept \ Escaped) : p \in u.todo \/ site[p] = Absent
    /\ u.pc = "logout" /\ u.ending = "ran" => u.todo = {}

(* No two calls are at work on one container. *)
Apart ==
    \A c, d \in Chains :
        c # d /\ upload[c].target # None => upload[c].target # upload[d].target

CallsOK == \A c \in Chains : CallOK(upload[c], pod[upload[c].target])

UploadInv == Up!TypeOK /\ Apart /\ CallsOK

-----------------------------------------------------------------------------
LEMMA IdleIsOK ==
    ASSUME NEW site
    PROVE  Up!Idle \in Up!UploadStates /\ CallOK(Up!Idle, site)
BY DEF Up!Idle, Up!UploadStates, CallOK

LEMMA UploadInitHolds == Up!Init => UploadInv
<1> SUFFICES ASSUME Up!Init PROVE UploadInv
    OBVIOUS
<1>1. Up!TypeOK
    <2>1. Up!Idle \in Up!UploadStates
        BY IdleIsOK
    <2>2. /\ pod \in [Targets -> [Paths -> Trees \cup {Absent}]]
          /\ upload \in [Chains -> Up!UploadStates]
        BY <2>1 DEF Up!Init
    <2>3. \A c \in Chains : upload[c] = Up!Idle /\ upload[c].pc = "idle"
        BY DEF Up!Init, Up!Idle
    <2>4. faults \in 0 .. MaxFaults
        BY BoundsAssumption DEF Up!Init
    <2> QED
        BY <2>2, <2>3, <2>4 DEF Up!TypeOK
<1>2. Apart
    BY DEF Up!Init, Apart, Up!Idle
<1>3. CallsOK
    BY IdleIsOK DEF Up!Init, CallsOK
<1> QED
    BY <1>1, <1>2, <1>3 DEF UploadInv

(* What is known of a call that is not idle. *)
LEMMA Busy ==
    ASSUME UploadInv, NEW c \in Chains, upload[c].pc # "idle"
    PROVE  /\ upload[c] \in Up!UploadStates
           /\ upload[c].tree \in Trees /\ upload[c].target \in Targets
           /\ Files[upload[c].tree] \subseteq Paths
           /\ pod[upload[c].target] \in Sites
           /\ CallOK(upload[c], pod[upload[c].target])
           /\ \A d \in Chains \ {c} : upload[d].target # upload[c].target
<1>1. /\ upload[c] \in Up!UploadStates
      /\ upload[c].tree \in Trees /\ upload[c].target \in Targets
    BY DEF UploadInv, Up!TypeOK
<1>2. Files[upload[c].tree] \subseteq Paths /\ pod[upload[c].target] \in Sites
    BY <1>1, TreesAssumption DEF UploadInv, Up!TypeOK, Sites
<1>3. CallOK(upload[c], pod[upload[c].target])
    BY DEF UploadInv, CallsOK
<1>4. \A d \in Chains \ {c} : upload[d].target # upload[c].target
    BY <1>1, TreesAssumption DEF UploadInv, Apart
<1> QED
    BY <1>1, <1>2, <1>3, <1>4

(* A step in which one call goes to state u and only the files of its own  *)
(* container change disturbs no other call.                                *)
LEMMA OneCallMoves ==
    ASSUME UploadInv,
           NEW c \in Chains, NEW u \in Up!UploadStates, NEW site \in Sites,
           u.pc # "idle", u.tree \in Trees, u.target \in Targets,
           \A d \in Chains \ {c} : upload[d].target # u.target,
           upload' = [upload EXCEPT ![c] = u],
           pod' = [pod EXCEPT ![u.target] = site],
           faults' \in 0 .. MaxFaults,
           CallOK(u, site)
    PROVE  UploadInv'
<1>1. /\ upload \in [Chains -> Up!UploadStates]
      /\ pod \in [Targets -> Sites]
    BY DEF UploadInv, Up!TypeOK, Sites
<1>2. /\ upload'[c] = u
      /\ \A d \in Chains \ {c} : upload'[d] = upload[d]
    BY <1>1
<1>3. Up!TypeOK'
    <2>1. upload' \in [Chains -> Up!UploadStates] /\ pod' \in [Targets -> Sites]
        BY <1>1
    <2>2. \A d \in Chains :
             IF upload'[d].pc = "idle" THEN upload'[d] = Up!Idle
             ELSE upload'[d].tree \in Trees /\ upload'[d].target \in Targets
        BY <1>2 DEF UploadInv, Up!TypeOK
    <2> QED
        BY <2>1, <2>2 DEF Up!TypeOK, Sites
<1>4. Apart'
    BY <1>2, TreesAssumption DEF UploadInv, Apart
<1>5. CallsOK'
    <2> SUFFICES ASSUME NEW d \in Chains
                 PROVE  CallOK(upload'[d], pod'[upload'[d].target])
        BY DEF CallsOK
    <2>1. CASE d = c
        <3>1. pod'[u.target] = site
            BY <1>1
        <3> QED
            BY <2>1, <1>2, <3>1
    <2>2. CASE d # c
        <3>1. upload'[d] = upload[d] /\ upload[d].target # u.target
            BY <2>2, <1>2
        <3>2. CallOK(upload[d], pod[upload[d].target])
            BY DEF UploadInv, CallsOK
        <3>3. CASE upload[d].target \in Targets
            <4>1. pod'[upload[d].target] = pod[upload[d].target]
                BY <1>1, <3>1, <3>3
            <4> QED
                BY <3>1, <3>2, <4>1
        <3>4. CASE upload[d].target \notin Targets
            <4>1. upload[d] = Up!Idle
                BY <3>4 DEF UploadInv, Up!TypeOK
            <4> QED
                BY <3>1, <4>1, IdleIsOK
        <3> QED
            BY <3>3, <3>4
    <2> QED
        BY <2>1, <2>2
<1> QED
    BY <1>3, <1>4, <1>5 DEF UploadInv

(* A fault leaves its counter within its bound. *)
LEMMA FaultCounts ==
    ASSUME Up!TypeOK, UNCHANGED faults \/ Up!Fault
    PROVE  faults' \in 0 .. MaxFaults
BY BoundsAssumption DEF Up!TypeOK, Up!Fault

(* Writing back what is there changes nothing. *)
LEMMA SamePod ==
    ASSUME Up!TypeOK, NEW t \in Targets, UNCHANGED pod
    PROVE  pod' = [pod EXCEPT ![t] = pod[t]]
BY DEF Up!TypeOK

-----------------------------------------------------------------------------
(* A call that is not idle goes on: to state u, with `site` in its          *)
(* container.                                                               *)
LEMMA CallGoesOn ==
    ASSUME UploadInv,
           NEW c \in Chains, upload[c].pc # "idle",
           NEW u \in Up!UploadStates, u.pc # "idle",
           u.tree = upload[c].tree, u.target = upload[c].target,
           NEW site \in Sites, CallOK(u, site),
           upload' = [upload EXCEPT ![c] = u],
           pod' = [pod EXCEPT ![upload[c].target] = site],
           UNCHANGED faults \/ Up!Fault
    PROVE  UploadInv'
BY Busy, OneCallMoves, FaultCounts DEF UploadInv

(* ... and its container stays as it is. *)
LEMMA CallGoesOnQuietly ==
    ASSUME UploadInv,
           NEW c \in Chains, upload[c].pc # "idle",
           NEW u \in Up!UploadStates, u.pc # "idle",
           u.tree = upload[c].tree, u.target = upload[c].target,
           CallOK(u, pod[upload[c].target]),
           upload' = [upload EXCEPT ![c] = u],
           UNCHANGED pod,
           UNCHANGED faults \/ Up!Fault
    PROVE  UploadInv'
BY Busy, SamePod, CallGoesOn DEF UploadInv

(* getOwnerFetch answers: nothing is put yet, and nobody else is there. *)
LEMMA StartsHolds ==
    ASSUME UploadInv, NEW c \in Chains, NEW tree \in Trees, NEW target \in Targets,
           Up!Alone(target), Up!Begin(c, tree, target) \/ Up!Refuse(c, tree, target)
    PROVE  UploadInv'
<1>1. PICK pc \in {"ensure", "logout"}, ending \in {"ran", "threw"} :
         /\ pc = "ensure" <=> ending = "ran"
         /\ Up!Starts(c, tree, target, pc, ending)
         /\ UNCHANGED pod
         /\ UNCHANGED faults \/ Up!Fault
    BY DEF Up!Begin, Up!Refuse
<1> DEFINE u == [Up!Idle EXCEPT !.pc = pc, !.tree = tree, !.target = target, !.ending = ending]
<1>2. /\ u \in Up!UploadStates /\ u.pc # "idle" /\ u.tree \in Trees /\ u.target \in Targets
      /\ CallOK(u, pod[target])
    <2>1. /\ u \in Up!UploadStates /\ u.pc = pc /\ u.tree = tree /\ u.target = target
          /\ u.kept = {} /\ u.todo = {} /\ u.ending = ending
        BY DEF Up!Idle, Up!UploadStates
    <2> HIDE DEF u
    <2> QED
        BY <1>1, <2>1 DEF CallOK
<1>3. upload' = [upload EXCEPT ![c] = u]
    BY <1>1 DEF Up!Starts
<1>4. pod[target] \in Sites /\ pod' = [pod EXCEPT ![target] = pod[target]]
    BY <1>1, SamePod DEF UploadInv, Up!TypeOK, Sites
<1>5. u.target = target
    BY DEF Up!Idle
<1>6. \A d \in Chains \ {c} : upload[d].target # u.target
    BY <1>5 DEF Up!Alone
<1>7. faults' \in 0 .. MaxFaults
    BY <1>1, FaultCounts DEF UploadInv
<1> HIDE DEF u
<1> QED
    BY <1>2, <1>3, <1>4, <1>5, <1>6, <1>7, OneCallMoves

(* An exception leaves the rest of the call undone, and the container alone. *)
LEMMA ThrowsHolds ==
    ASSUME UploadInv, NEW c \in Chains, upload[c].pc \in {"ensure", "put"},
           Up!Throws(c), Up!Fault, UNCHANGED pod
    PROVE  UploadInv'
<1> DEFINE old == upload[c]
           u == [old EXCEPT !.pc = "logout", !.ending = "threw"]
<1>1. old \in Up!UploadStates /\ CallOK(old, pod[old.target])
    BY Busy
<1>2. /\ u \in Up!UploadStates /\ u.pc # "idle"
      /\ u.tree = old.tree /\ u.target = old.target
    BY <1>1 DEF Up!UploadStates
<1>3. CallOK(u, pod[old.target])
    BY <1>1 DEF CallOK, Up!UploadStates
<1>4. upload' = [upload EXCEPT ![c] = u]
    BY <1>1 DEF Up!Throws, UploadInv, Up!TypeOK, Up!UploadStates
<1> HIDE DEF u
<1> QED
    BY <1>2, <1>3, <1>4, CallGoesOnQuietly

LEMMA EnsureContainerHolds ==
    ASSUME UploadInv, NEW c \in Chains, Up!EnsureContainer(c)
    PROVE  UploadInv'
<1> DEFINE old == upload[c]
           u == [old EXCEPT !.pc = "put", !.todo = Files[old.tree]]
<1>1. old.pc = "ensure"
    BY DEF Up!EnsureContainer, Up!At
<1>2. CASE /\ upload' = [upload EXCEPT ![c].pc = "put", ![c].todo = Files[upload[c].tree]]
           /\ UNCHANGED faults
    <2>1. /\ old \in Up!UploadStates /\ Files[old.tree] \subseteq Paths
          /\ CallOK(old, pod[old.target])
        BY <1>1, Busy
    <2>2. /\ u \in Up!UploadStates /\ u.pc # "idle"
          /\ u.tree = old.tree /\ u.target = old.target
        BY <2>1 DEF Up!UploadStates
    <2>3. CallOK(u, pod[old.target])
        BY <1>1, <2>1 DEF CallOK, Up!UploadStates
    <2>4. upload' = [upload EXCEPT ![c] = u]
        BY <1>2, <2>1 DEF UploadInv, Up!TypeOK, Up!UploadStates
    <2> HIDE DEF u
    <2> QED
        BY <1>1, <1>2, <2>2, <2>3, <2>4, CallGoesOnQuietly DEF Up!EnsureContainer
<1>3. CASE Up!Fault /\ Up!Throws(c)
    BY <1>1, <1>3, ThrowsHolds DEF Up!EnsureContainer
<1> QED
    BY <1>2, <1>3 DEF Up!EnsureContainer

LEMMA PutFileHolds ==
    ASSUME UploadInv, NEW c \in Chains, Up!PutFile(c)
    PROVE  UploadInv'
<1> DEFINE old == upload[c]
           here == pod[old.target]
<1>1. old.pc = "put"
    BY DEF Up!PutFile, Up!At
<1>2. /\ old \in Up!UploadStates /\ old.tree \in Trees /\ old.target \in Targets
      /\ here \in Sites /\ CallOK(old, here)
    BY <1>1, Busy
<1>3. PICK p \in old.todo :
         \/ /\ pod' = [pod EXCEPT ![old.target][p] = old.tree]
            /\ upload' = [upload EXCEPT ![c].todo = @ \ {p}, ![c].kept = @ \cup {p}]
            /\ UNCHANGED faults
         \/ /\ Up!Fault
            /\ upload' = [upload EXCEPT ![c].todo = @ \ {p}, ![c].clean = FALSE]
            /\ UNCHANGED pod
         \/ /\ Up!Fault
            /\ Up!Throws(c)
            /\ UNCHANGED pod
    BY DEF Up!PutFile
<1>4. p \in Paths
    BY <1>2 DEF Up!UploadStates
<1>5. CASE /\ pod' = [pod EXCEPT ![old.target][p] = old.tree]
           /\ upload' = [upload EXCEPT ![c].todo = @ \ {p}, ![c].kept = @ \cup {p}]
           /\ UNCHANGED faults
    <2> DEFINE u == [old EXCEPT !.todo = @ \ {p}, !.kept = @ \cup {p}]
               site == [here EXCEPT ![p] = old.tree]
    <2>1. /\ u \in Up!UploadStates /\ u.pc # "idle"
          /\ u.tree = old.tree /\ u.target = old.target
        BY <1>1, <1>2, <1>4 DEF Up!UploadStates
    <2>2. site \in Sites
        BY <1>2, <1>4 DEF Sites
    <2>3. /\ u.kept \cup u.todo = old.kept \cup old.todo
          /\ \A q \in u.kept : site[q] = old.tree
        BY <1>1, <1>2, <1>4 DEF CallOK, Up!UploadStates, Sites
    <2>4. u.pc = "put" /\ u.ending = old.ending /\ u.clean = old.clean
        BY <1>1, <1>2 DEF Up!UploadStates
    <2>5. CallOK(u, site)
        BY <1>1, <1>2, <2>1, <2>3, <2>4 DEF CallOK
    <2>6. upload' = [upload EXCEPT ![c] = u]
        BY <1>2, <1>5 DEF UploadInv, Up!TypeOK, Up!UploadStates
    <2>7. pod' = [pod EXCEPT ![old.target] = site]
        BY <1>2, <1>5 DEF UploadInv, Up!TypeOK, Sites
    <2> HIDE DEF u, site
    <2> QED
        BY <1>1, <1>5, <2>1, <2>2, <2>5, <2>6, <2>7, CallGoesOn
<1>6. CASE /\ Up!Fault
           /\ upload' = [upload EXCEPT ![c].todo = @ \ {p}, ![c].clean = FALSE]
           /\ UNCHANGED pod
    <2> DEFINE u == [old EXCEPT !.todo = @ \ {p}, !.clean = FALSE]
    <2>1. /\ u \in Up!UploadStates /\ u.pc # "idle"
          /\ u.tree = old.tree /\ u.target = old.target
        BY <1>1, <1>2 DEF Up!UploadStates
    <2>2. CallOK(u, here)
        BY <1>1, <1>2 DEF CallOK, Up!UploadStates
    <2>3. upload' = [upload EXCEPT ![c] = u]
        BY <1>2, <1>6 DEF UploadInv, Up!TypeOK, Up!UploadStates
    <2> HIDE DEF u
    <2> QED
        BY <1>1, <1>6, <2>1, <2>2, <2>3, CallGoesOnQuietly
<1>7. CASE Up!Fault /\ Up!Throws(c) /\ UNCHANGED pod
    BY <1>1, <1>7, ThrowsHolds
<1> QED
    BY <1>3, <1>5, <1>6, <1>7

LEMMA ListContainerHolds ==
    ASSUME UploadInv, NEW c \in Chains, Up!ListContainer(c)
    PROVE  UploadInv'
<1> DEFINE old == upload[c]
           here == pod[old.target]
           stale == Up!Stale(c)
           u == [old EXCEPT !.todo = stale, !.pc = IF stale = {} THEN "logout" ELSE "prune"]
<1>1. old.pc = "put" /\ old.todo = {}
    BY DEF Up!ListContainer, Up!At
<1>2. old \in Up!UploadStates /\ here \in Sites /\ CallOK(old, here)
    BY <1>1, Busy
<1>3. CASE Up!StartPrune(c, stale) /\ UNCHANGED faults
    <2>1. /\ stale \subseteq Paths /\ stale \cap (old.kept \ Escaped) = {}
          /\ \A p \in Paths \ (old.kept \ Escaped) : p \in stale \/ here[p] = Absent
        BY DEF Up!Stale
    <2> HIDE DEF stale
    <2>2. stale \in SUBSET Paths
        BY <2>1
    <2>3. /\ u \in Up!UploadStates /\ u.pc # "idle"
          /\ u.tree = old.tree /\ u.target = old.target
          /\ u.kept = old.kept /\ u.clean = old.clean /\ u.ending = old.ending
          /\ u.todo = stale
          /\ u.pc = "prune" \/ (u.pc = "logout" /\ stale = {})
        <3> DEFINE pc == IF stale = {} THEN "logout" ELSE "prune"
        <3>1. u = [old EXCEPT !.todo = stale, !.pc = pc]
            OBVIOUS
        <3>2. pc \in {"prune", "logout"} /\ (pc = "logout" => stale = {})
            OBVIOUS
        <3> HIDE DEF pc, u
        <3> QED
            BY <1>2, <2>2, <3>1, <3>2 DEF Up!UploadStates
    <2>4. CallOK(u, here)
        <3>1. old.clean => old.kept = Files[old.tree]
            BY <1>1, <1>2 DEF CallOK
        <3>2. \A p \in old.kept : here[p] = old.tree
            BY <1>1, <1>2 DEF CallOK
        <3>3. old.ending = "ran"
            BY <1>1, <1>2 DEF CallOK
        <3> HIDE DEF u
        <3> QED
            BY <2>1, <2>3, <3>1, <3>2, <3>3 DEF CallOK
    <2>5. upload' = [upload EXCEPT ![c] = u]
        BY <1>2, <1>3 DEF Up!StartPrune, UploadInv, Up!TypeOK, Up!UploadStates
    <2> HIDE DEF u
    <2> QED
        BY <1>1, <1>3, <2>3, <2>4, <2>5, CallGoesOnQuietly DEF Up!ListContainer
<1>4. CASE Up!Fault /\ Up!Throws(c)
    BY <1>1, <1>4, ThrowsHolds DEF Up!ListContainer
<1> QED
    BY <1>3, <1>4 DEF Up!ListContainer

LEMMA DeleteFileHolds ==
    ASSUME UploadInv, NEW c \in Chains, Up!DeleteFile(c)
    PROVE  UploadInv'
<1> DEFINE old == upload[c]
           here == pod[old.target]
<1>1. old.pc = "prune"
    BY DEF Up!DeleteFile, Up!At
<1>2. /\ old \in Up!UploadStates /\ old.tree \in Trees /\ old.target \in Targets
      /\ here \in Sites /\ CallOK(old, here)
    BY <1>1, Busy
<1> DEFINE left(p) == old.todo \ {p}
           next(p) == [old EXCEPT !.todo = left(p),
                                  !.pc = IF left(p) = {} THEN "logout" ELSE "prune"]
<1>3. PICK p \in old.todo :
         \/ /\ pod' = [pod EXCEPT ![old.target][p] = Absent]
            /\ upload' = [upload EXCEPT ![c] = next(p)]
            /\ UNCHANGED faults
         \/ /\ Up!Fault
            /\ upload' = [upload EXCEPT ![c] = [next(p) EXCEPT !.clean = FALSE]]
            /\ UNCHANGED pod
    BY DEF Up!DeleteFile
<1>4. p \in Paths /\ p \notin old.kept \ Escaped /\ old.ending = "ran"
    BY <1>1, <1>2 DEF Up!UploadStates, CallOK
<1>5. left(p) \in SUBSET Paths
    BY <1>2 DEF Up!UploadStates
<1>6. /\ next(p) \in Up!UploadStates /\ next(p).pc # "idle"
      /\ next(p).tree = old.tree /\ next(p).target = old.target
      /\ next(p).kept = old.kept /\ next(p).clean = old.clean
      /\ next(p).ending = old.ending /\ next(p).todo = old.todo \ {p}
      /\ next(p).pc = "prune" \/ (next(p).pc = "logout" /\ next(p).todo = {})
    <2> DEFINE pc == IF left(p) = {} THEN "logout" ELSE "prune"
    <2>1. next(p) = [old EXCEPT !.todo = left(p), !.pc = pc]
        OBVIOUS
    <2>2. pc \in {"prune", "logout"} /\ (pc = "logout" => left(p) = {})
        OBVIOUS
    <2>3. left(p) = old.todo \ {p}
        OBVIOUS
    <2> HIDE DEF pc, next, left
    <2> QED
        BY <1>2, <1>5, <2>1, <2>2, <2>3 DEF Up!UploadStates
<1>7. CASE /\ pod' = [pod EXCEPT ![old.target][p] = Absent]
           /\ upload' = [upload EXCEPT ![c] = next(p)]
           /\ UNCHANGED faults
    <2> DEFINE site == [here EXCEPT ![p] = Absent]
    <2>1. site \in Sites
        BY <1>2, <1>4 DEF Sites
    <2>2. /\ site[p] = Absent
          /\ \A q \in Paths \ {p} : site[q] = here[q]
        BY <1>2, <1>4 DEF Sites
    <2>3. CallOK(next(p), site)
        <3>1. \A q \in old.kept : q \notin Escaped => site[q] = old.tree
            BY <1>1, <1>2, <1>4, <2>2 DEF CallOK, Up!UploadStates
        <3>2. old.clean =>
                 /\ old.kept = Files[old.tree]
                 /\ \A q \in Paths \ (old.kept \ Escaped) :
                       q \in old.todo \ {p} \/ site[q] = Absent
            BY <1>1, <1>2, <1>4, <2>2 DEF CallOK
        <3>3. old.todo \cap (old.kept \ Escaped) = {}
            BY <1>1, <1>2 DEF CallOK
        <3> HIDE DEF next, site
        <3> QED
            BY <1>4, <1>6, <3>1, <3>2, <3>3 DEF CallOK
    <2>4. pod' = [pod EXCEPT ![old.target] = site]
        BY <1>2, <1>7 DEF UploadInv, Up!TypeOK, Sites
    <2> HIDE DEF next, site
    <2> QED
        BY <1>1, <1>6, <1>7, <2>1, <2>3, <2>4, CallGoesOn
<1>8. CASE /\ Up!Fault
           /\ upload' = [upload EXCEPT ![c] = [next(p) EXCEPT !.clean = FALSE]]
           /\ UNCHANGED pod
    <2> DEFINE u == [next(p) EXCEPT !.clean = FALSE]
    <2> HIDE DEF next
    <2>1. /\ u \in Up!UploadStates /\ u.pc = next(p).pc /\ u.tree = old.tree
          /\ u.target = old.target /\ u.todo = next(p).todo /\ u.kept = old.kept
          /\ u.clean = FALSE /\ u.ending = old.ending
        BY <1>6 DEF Up!UploadStates
    <2> HIDE DEF u
    <2>2. \A q \in old.kept : q \notin Escaped => here[q] = old.tree
        BY <1>1, <1>2 DEF CallOK
    <2>3. old.todo \cap (old.kept \ Escaped) = {}
        BY <1>1, <1>2 DEF CallOK
    <2>4. CallOK(u, here)
        BY <1>4, <1>6, <2>1, <2>2, <2>3 DEF CallOK
    <2> QED
        BY <1>1, <1>6, <1>8, <2>1, <2>4, CallGoesOnQuietly DEF u
<1> QED
    BY <1>3, <1>7, <1>8

(* Calls that end disturb nobody: an idle call is at no container. *)
LEMMA GoneHolds ==
    ASSUME UploadInv, NEW gone \in SUBSET Chains, UNCHANGED <<pod, faults>>,
           upload' = [c \in Chains |-> IF c \in gone THEN Up!Idle ELSE upload[c]]
    PROVE  UploadInv'
<1>1. Up!Idle \in Up!UploadStates /\ Up!Idle.pc = "idle" /\ Up!Idle.target = None
    BY IdleIsOK DEF Up!Idle
<1>2. \A c \in Chains : upload'[c] = IF c \in gone THEN Up!Idle ELSE upload[c]
    OBVIOUS
<1>3. Up!TypeOK'
    <2>1. upload' \in [Chains -> Up!UploadStates]
        BY <1>1 DEF UploadInv, Up!TypeOK
    <2>2. \A c \in Chains :
             IF upload'[c].pc = "idle" THEN upload'[c] = Up!Idle
             ELSE upload'[c].tree \in Trees /\ upload'[c].target \in Targets
        BY <1>1, <1>2 DEF UploadInv, Up!TypeOK
    <2> QED
        BY <2>1, <2>2 DEF UploadInv, Up!TypeOK
<1>4. Apart'
    BY <1>1, <1>2 DEF UploadInv, Apart
<1>5. CallsOK'
    BY <1>2, IdleIsOK DEF UploadInv, CallsOK
<1> QED
    BY <1>3, <1>4, <1>5 DEF UploadInv

LEMMA UploadNextHolds == UploadInv /\ [Up!Next]_(Up!vars) => UploadInv'
<1> SUFFICES ASSUME UploadInv, [Up!Next]_(Up!vars) PROVE UploadInv'
    OBVIOUS
<1>1. ASSUME NEW c \in Chains, NEW tree \in Trees, NEW target \in Targets,
             Up!Alone(target), Up!Begin(c, tree, target) \/ Up!Refuse(c, tree, target)
      PROVE  UploadInv'
    BY <1>1, StartsHolds
<1>2. ASSUME NEW c \in Chains, Up!Step(c)
      PROVE  UploadInv'
    BY <1>2, EnsureContainerHolds, PutFileHolds, ListContainerHolds, DeleteFileHolds
    DEF Up!Step
<1>3. ASSUME NEW c \in Chains, Up!End(c)
      PROVE  UploadInv'
    <2>1. upload' = [d \in Chains |-> IF d \in {c} THEN Up!Idle ELSE upload[d]]
        BY <1>3 DEF Up!End, UploadInv, Up!TypeOK
    <2> QED
        BY <1>3, <2>1, GoneHolds DEF Up!End
<1>4. CASE Up!Abandon
    <2>1. upload' = [d \in Chains |-> IF d \in Chains THEN Up!Idle ELSE upload[d]]
        BY <1>4 DEF Up!Abandon
    <2> QED
        BY <1>4, <2>1, GoneHolds DEF Up!Abandon
<1>5. CASE UNCHANGED Up!vars
    BY <1>5 DEF Up!vars, UploadInv, Up!TypeOK, Apart, CallsOK, CallOK, Up!Alone
<1> QED
    BY <1>1, <1>2, <1>3, <1>4, <1>5 DEF Up!Next

-----------------------------------------------------------------------------
(* Types, that calls are apart, and what each of them has done so far. *)

-----------------------------------------------------------------------------
(* What a chain knows at each of its awaits. *)
Shape(s) ==
    /\ s.pc \in {"cloned", "queued", "build", "request", "upload"} => s.tree \in Trees
    /\ s.pc \in {"head", "checkout", "request", "upload"} => s.target \in Targets
    /\ s.pc \in {"queued", "build", "rehead", "mark"} => s.run # 0
    /\ s.pc \in {"idle", "clone", "cloned"} \cup LegacyPcs => s.run = 0

ChainsTyped ==
    chain \in [Chains -> ChainStates] /\ \A c \in Chains : Shape(chain[c])

RowsTyped ==
    /\ head \in 0 .. MaxPush
    /\ notices \in Nat
    /\ config \in [enabled : BOOLEAN, target : Targets \cup {None}]
    /\ row \in [sha : 0 .. MaxPush, status : RowStatuses]
    /\ crashes \in 0 .. MaxCrashes /\ edits \in 0 .. MaxEdits

(* A chain waits for withPublishLock exactly while the lock knows it, and    *)
(* is at work on the pod only while its task runs.                           *)
LockMatchesChains ==
    \A c \in Chains :
        /\ chain[c].pc \in {"upload", "answer"} <=> phase[c] # "idle"
        /\ upload[c].pc # "idle" => phase[c] = "running"

(* A run is one chain's alone, and its row says how far that chain is.       *)
RunsMatchChains ==
    /\ runs \in Seq(RunStatuses)
    /\ \A c \in Chains : chain[c].run # 0 =>
          /\ chain[c].run \in DOMAIN runs
          /\ runs[chain[c].run] = IF chain[c].pc = "queued" THEN "queued" ELSE "running"
    /\ \A c, d \in Chains : chain[c].run = chain[d].run /\ chain[c].run # 0 => c = d
    /\ stranded \subseteq Nat
    /\ RunningRunsAreOwned

PagesInv ==
    /\ RowsTyped
    /\ ChainsTyped
    /\ RunsMatchChains
    /\ LockMatchesChains
    /\ LockInv
    /\ UploadInv

-----------------------------------------------------------------------------
(* What is known of one chain. *)
LEMMA ChainFacts ==
    ASSUME PagesInv, NEW c \in Chains
    PROVE  /\ chain[c] \in ChainStates /\ Shape(chain[c])
           /\ chain \in [Chains -> ChainStates]
           /\ RowsTyped
           /\ chain[c].pc \in {"upload", "answer"} <=> phase[c] # "idle"
BY DEF PagesInv, ChainsTyped, LockMatchesChains

LEMMA IdleChain ==
    Idle \in ChainStates /\ Shape(Idle) /\ Idle.pc = "idle" /\ Idle.run = 0
BY BoundsAssumption DEF Idle, ChainStates, Pcs, Shape, LegacyPcs

(* The pod is left alone, and git may have failed. *)
LEMMA PodRests ==
    ASSUME UploadInv, UNCHANGED upVars, UNCHANGED faults \/ Fault
    PROVE  UploadInv'
<1>1. UNCHANGED <<pod, upload>> /\ faults' \in 0 .. MaxFaults
    BY BoundsAssumption DEF UploadInv, Up!TypeOK, Fault, upVars
<1> QED
    BY <1>1 DEF UploadInv, Up!TypeOK, Apart, CallsOK, CallOK

LEMMA LockRests ==
    ASSUME LockInv, UNCHANGED lockVars
    PROVE  LockInv'
BY LockInvStep DEF lockVars, Lock!vars

LEMMA ChainMoves ==
    ASSUME PagesInv, NEW c \in Chains, NEW s \in ChainStates, Shape(s),
           chain' = [chain EXCEPT ![c] = s]
    PROVE  /\ ChainsTyped'
           /\ chain'[c] = s
           /\ \A d \in Chains \ {c} : chain'[d] = chain[d]
BY DEF PagesInv, ChainsTyped

(* A chain keeps its run, if it has one, and the rows stay. *)
LEMMA RunGoesOn ==
    ASSUME PagesInv, NEW c \in Chains, NEW s \in ChainStates, Shape(s),
           chain' = [chain EXCEPT ![c] = s],
           s.run = chain[c].run,
           s.run # 0 => (s.pc = "queued" <=> chain[c].pc = "queued"),
           UNCHANGED <<runs, stranded>>
    PROVE  RunsMatchChains'
<1>1. /\ chain'[c] = s
      /\ \A d \in Chains \ {c} : chain'[d] = chain[d]
    BY ChainMoves
<1>2. \A d \in Chains : chain'[d].run = chain[d].run
    BY <1>1
<1>3. \A d \in Chains : chain'[d].run # 0 =>
          /\ chain'[d].run \in DOMAIN runs
          /\ runs[chain'[d].run] = IF chain'[d].pc = "queued" THEN "queued" ELSE "running"
    BY <1>1 DEF PagesInv, RunsMatchChains
<1>4. RunningRunsAreOwned'
    <2> SUFFICES ASSUME NEW n \in DOMAIN runs, runs[n] = "running", n \notin stranded
                 PROVE  \E d \in Chains : chain'[d].run = n /\ chain'[d].pc # "idle"
        BY DEF RunningRunsAreOwned, At
    <2>1. PICK d \in Chains : chain[d].run = n /\ chain[d].pc # "idle"
        BY DEF PagesInv, RunsMatchChains, RunningRunsAreOwned, At
    <2>2. n # 0
        BY DEF PagesInv, RunsMatchChains
    <2> QED
        BY <1>1, <1>2, <2>1, <2>2 DEF Shape
<1> QED
    BY <1>2, <1>3, <1>4 DEF PagesInv, RunsMatchChains

(* A chain ends, and its row has a verdict. *)
LEMMA RunEnds ==
    ASSUME PagesInv, NEW c \in Chains, chain[c].run # 0, Ends(c),
           NEW status \in RunStatuses \ {"running"}, FinishRun(c, status),
           UNCHANGED stranded
    PROVE  RunsMatchChains'
<1> DEFINE n == chain[c].run
<1>1. /\ chain' = [chain EXCEPT ![c] = Idle]
      /\ n \in DOMAIN runs /\ runs \in Seq(RunStatuses)
      /\ runs' = [runs EXCEPT ![n] = status]
    BY DEF Ends, FinishRun, PagesInv, RunsMatchChains
<1>2. /\ chain'[c] = Idle /\ Idle.run = 0
      /\ \A d \in Chains \ {c} : chain'[d] = chain[d]
    BY <1>1, IdleChain, ChainMoves
<1>3. /\ runs' \in Seq(RunStatuses) /\ DOMAIN runs' = DOMAIN runs
      /\ runs'[n] = status
      /\ \A m \in DOMAIN runs \ {n} : runs'[m] = runs[m]
    BY <1>1
<1>4. \A d \in Chains \ {c} : chain[d].run # n
    BY DEF PagesInv, RunsMatchChains
<1> HIDE DEF n
<1>5. \A d \in Chains : chain'[d].run # 0 =>
          /\ chain'[d].run \in DOMAIN runs'
          /\ runs'[chain'[d].run] = IF chain'[d].pc = "queued" THEN "queued" ELSE "running"
    BY <1>2, <1>3, <1>4 DEF PagesInv, RunsMatchChains
<1>6. \A d, e \in Chains : chain'[d].run = chain'[e].run /\ chain'[d].run # 0 => d = e
    BY <1>2 DEF PagesInv, RunsMatchChains
<1>7. RunningRunsAreOwned'
    <2> SUFFICES ASSUME NEW m \in DOMAIN runs, runs'[m] = "running", m \notin stranded
                 PROVE  \E d \in Chains : chain'[d].run = m /\ chain'[d].pc # "idle"
        BY <1>3 DEF RunningRunsAreOwned, At
    <2>1. m # n /\ runs[m] = "running"
        BY <1>3
    <2>2. PICK d \in Chains : chain[d].run = m /\ chain[d].pc # "idle"
        BY <2>1 DEF PagesInv, RunsMatchChains, RunningRunsAreOwned, At
    <2>3. d # c
        BY <2>1, <2>2 DEF n
    <2> QED
        BY <1>2, <2>2, <2>3
<1> QED
    BY <1>3, <1>5, <1>6, <1>7 DEF RunsMatchChains, PagesInv

(* A chain moves, on the same side of withPublishLock as it was. *)
LEMMA SameSide ==
    ASSUME PagesInv, NEW c \in Chains, NEW s \in ChainStates, Shape(s),
           chain' = [chain EXCEPT ![c] = s],
           s.pc \in {"upload", "answer"} <=> chain[c].pc \in {"upload", "answer"},
           UNCHANGED <<phase, upload>>
    PROVE  LockMatchesChains'
BY ChainMoves DEF PagesInv, LockMatchesChains

(* A chain moves outside the lock, and only its own state and the rows that  *)
(* are not of a run change.                                                  *)
LEMMA QuietMove ==
    ASSUME PagesInv, NEW c \in Chains, NEW s \in ChainStates, Shape(s),
           chain' = [chain EXCEPT ![c] = s],
           s.run = chain[c].run,
           s.run # 0 => (s.pc = "queued" <=> chain[c].pc = "queued"),
           s.pc \notin {"upload", "answer"}, chain[c].pc \notin {"upload", "answer"},
           UNCHANGED <<runs, stranded, upVars, lockVars>>,
           UNCHANGED faults \/ Fault,
           RowsTyped'
    PROVE  PagesInv'
<1>1. ChainsTyped' /\ RunsMatchChains'
    BY ChainMoves, RunGoesOn
<1>2. LockMatchesChains'
    BY SameSide DEF lockVars, upVars
<1>3. LockInv' /\ UploadInv'
    BY LockRests, PodRests DEF PagesInv
<1> QED
    BY <1>1, <1>2, <1>3 DEF PagesInv

(* No chain moves. *)
LEMMA ChainsRest ==
    ASSUME PagesInv, UNCHANGED <<chain, runs, stranded, upVars, lockVars, faults>>, RowsTyped'
    PROVE  PagesInv'
<1>1. LockInv' /\ UploadInv'
    BY LockRests, PodRests DEF PagesInv
<1>2. ChainsTyped' /\ RunsMatchChains' /\ LockMatchesChains'
    BY DEF PagesInv, ChainsTyped, RunsMatchChains, RunningRunsAreOwned, At,
           LockMatchesChains, lockVars, upVars
<1> QED
    BY <1>1, <1>2 DEF PagesInv

-----------------------------------------------------------------------------
(* One lemma per action. *)
LEMMA PushHolds == ASSUME PagesInv, Push PROVE PagesInv'
BY ChainsRest, BoundsAssumption DEF Push, PagesInv, RowsTyped, dbVars, bounds

LEMMA LoseNoticeHolds == ASSUME PagesInv, LoseNotice PROVE PagesInv'
BY ChainsRest DEF LoseNotice, PagesInv, RowsTyped, dbVars, bounds

LEMMA UpdateConfigHolds == ASSUME PagesInv, UpdateConfig PROVE PagesInv'
<1>1. RowsTyped'
    BY BoundsAssumption DEF UpdateConfig, SetConfig, PagesInv, RowsTyped
<1> QED
    BY <1>1, ChainsRest DEF UpdateConfig

LEMMA RunNowHolds ==
    ASSUME PagesInv, NEW c \in Chains, RunNow(c)
    PROVE  PagesInv'
<1> DEFINE s == [Idle EXCEPT !.pc = "clone"]
<1>1. s \in ChainStates /\ Shape(s) /\ s.pc = "clone" /\ s.run = 0
    BY BoundsAssumption DEF Idle, ChainStates, Pcs, WorkflowPcs, LegacyPcs, Shape
<1>2. chain' = [chain EXCEPT ![c] = s] /\ chain[c].pc = "idle"
    BY DEF RunNow, At
<1>3. RowsTyped'
    BY BoundsAssumption DEF RunNow, PagesInv, RowsTyped, dbVars
<1>4. chain[c].run = 0
    BY <1>2, ChainFacts DEF Shape
<1> HIDE DEF s
<1> QED
    BY <1>1, <1>2, <1>3, <1>4, QuietMove DEF RunNow, dbVars

LEMMA PostReceiveHolds ==
    ASSUME PagesInv, NEW c \in Chains, PostReceive(c)
    PROVE  PagesInv'
<1>1. RowsTyped'
    BY DEF PostReceive, PagesInv, RowsTyped, dbVars, bounds
<1>2. CASE UNCHANGED chain
    BY <1>1, <1>2, ChainsRest DEF PostReceive, dbVars, bounds
<1>3. CASE ~ UNCHANGED chain
    <2>0. PICK t \in Targets \cup {None} : t = config.target
        BY DEF PagesInv, RowsTyped
    <2> DEFINE s == [Idle EXCEPT !.pc = "clone", !.target = t]
    <2>1. s \in ChainStates /\ Shape(s) /\ s.pc = "clone" /\ s.run = 0
        <3>1. s.pc = "clone"
            BY DEF Idle
        <3>2. s.run = 0
            BY DEF Idle
        <3>3. s \in ChainStates
            BY IdleChain DEF Idle, ChainStates, Pcs, WorkflowPcs, LegacyPcs
        <3> QED
            BY <3>1, <3>2, <3>3 DEF Shape, LegacyPcs
    <2>2. chain' = [chain EXCEPT ![c] = s] /\ chain[c].pc = "idle"
        BY <1>3, <2>0 DEF PostReceive, At
    <2>3. chain[c].run = 0
        BY <2>2, ChainFacts DEF Shape
    <2> HIDE DEF s
    <2> QED
        BY <1>1, <2>1, <2>2, <2>3, QuietMove DEF PostReceive, dbVars, bounds
<1> QED
    BY <1>2, <1>3

LEMMA StartPassHolds == ASSUME PagesInv, StartPass PROVE PagesInv'
<1> DEFINE c == Reconciler
           s == [Idle EXCEPT !.pc = "compare", !.sha = row.sha]
<1>1. c \in Chains
    BY DEF Chains
<1>2. s \in ChainStates /\ Shape(s) /\ s.pc = "compare" /\ s.run = 0
    <2>1. row.sha \in 0 .. MaxPush
        BY DEF PagesInv, RowsTyped
    <2> QED
        BY <2>1, BoundsAssumption DEF Idle, ChainStates, Pcs, WorkflowPcs, LegacyPcs, Shape
<1>3. chain' = [chain EXCEPT ![c] = s] /\ chain[c].pc = "idle"
    BY DEF StartPass, At
<1>4. RowsTyped'
    BY DEF StartPass, PagesInv, RowsTyped, dbVars, bounds
<1>5. chain[c].run = 0
    BY <1>1, <1>3, ChainFacts DEF Shape
<1> HIDE DEF s, c
<1> QED
    BY <1>1, <1>2, <1>3, <1>4, <1>5, QuietMove DEF StartPass, dbVars, bounds

(* A chain without a run ends. *)
LEMMA EndsQuietly ==
    ASSUME PagesInv, NEW c \in Chains, Ends(c), chain[c].run = 0,
           chain[c].pc \notin {"upload", "answer"},
           UNCHANGED <<head, notices, dbVars, upVars, crashes, edits, lockVars>>,
           UNCHANGED faults \/ Fault
    PROVE  PagesInv'
<1>1. RowsTyped'
    BY DEF PagesInv, RowsTyped, dbVars
<1>2. chain' = [chain EXCEPT ![c] = Idle]
    BY DEF Ends
<1> QED
    BY <1>1, <1>2, IdleChain, QuietMove DEF dbVars

(* publishPages reads a configuration that can be published, or throws. *)
LEMMA EnterPublishPagesHolds ==
    ASSUME PagesInv, NEW c \in Chains, EnterPublishPages(c), chain[c].run = 0,
           chain[c].pc \notin {"upload", "answer"},
           UNCHANGED <<head, notices, dbVars, upVars, bounds, lockVars>>
    PROVE  PagesInv'
<1>1. CASE Publishable
    <2> DEFINE s == [chain[c] EXCEPT !.pc = "head", !.target = config.target]
    <2>1. config.target \in Targets
        BY <1>1 DEF Publishable, PagesInv, RowsTyped
    <2>2. s \in ChainStates /\ Shape(s) /\ s.pc = "head" /\ s.run = 0
        BY <2>1, ChainFacts DEF ChainStates, Pcs, WorkflowPcs, LegacyPcs, Shape
    <2>3. chain' = [chain EXCEPT ![c] = s]
        BY <1>1, ChainFacts DEF EnterPublishPages, ChainStates
    <2>4. RowsTyped'
        BY DEF PagesInv, RowsTyped, dbVars, bounds
    <2> HIDE DEF s
    <2> QED
        BY <2>2, <2>3, <2>4, QuietMove DEF dbVars, bounds
<1>2. CASE ~ Publishable
    BY <1>2, EndsQuietly DEF EnterPublishPages, bounds
<1> QED
    BY <1>1, <1>2

LEMMA CompareHolds == ASSUME PagesInv, Compare PROVE PagesInv'
<1>1. /\ Reconciler \in Chains /\ chain[Reconciler].pc = "compare"
      /\ chain[Reconciler].run = 0
    BY ChainFacts DEF Chains, Compare, At, Shape, LegacyPcs
<1> QED
    BY <1>1, EndsQuietly, EnterPublishPagesHolds DEF Compare, bounds

LEMMA ReadHeadHolds ==
    ASSUME PagesInv, NEW c \in Chains, ReadHead(c)
    PROVE  PagesInv'
<1>1. PICK sha \in 0 .. MaxPush :
         chain' = [chain EXCEPT ![c].pc = "checkout", ![c].sha = sha]
    <2>1. head \in 0 .. MaxPush /\ 0 \in 0 .. MaxPush
        BY BoundsAssumption DEF PagesInv, RowsTyped
    <2> QED
        BY <2>1 DEF ReadHead
<1> DEFINE s == [chain[c] EXCEPT !.pc = "checkout", !.sha = sha]
<1>2. chain[c].pc = "head" /\ chain[c].run = 0
    BY ChainFacts DEF ReadHead, At, Shape, LegacyPcs
<1>3. s \in ChainStates /\ Shape(s) /\ s.pc = "checkout" /\ s.run = 0
    BY <1>2, ChainFacts DEF ChainStates, Pcs, WorkflowPcs, LegacyPcs, Shape
<1>4. chain' = [chain EXCEPT ![c] = s]
    BY <1>1, ChainFacts DEF ChainStates
<1>5. RowsTyped'
    BY DEF ReadHead, PagesInv, RowsTyped, dbVars
<1> HIDE DEF s
<1> QED
    BY <1>2, <1>3, <1>4, <1>5, QuietMove DEF ReadHead, dbVars

(* git clone gives a commit of the branch. *)
LEMMA HeadIsTree ==
    ASSUME PagesInv, head > 0
    PROVE  <<head, "raw">> \in Trees
BY BoundsAssumption DEF PagesInv, RowsTyped, Trees, Commits

LEMMA CheckoutHolds ==
    ASSUME PagesInv, NEW c \in Chains, Checkout(c)
    PROVE  PagesInv'
<1>1. chain[c].pc = "checkout" /\ chain[c].run = 0
    BY ChainFacts DEF Checkout, At, Shape, LegacyPcs
<1>2. CASE /\ head > 0
           /\ chain' = [chain EXCEPT ![c].pc = "request", ![c].tree = <<head, "raw">>]
           /\ UNCHANGED faults
    <2> DEFINE s == [chain[c] EXCEPT !.pc = "request", !.tree = <<head, "raw">>]
    <2>1. s \in ChainStates /\ Shape(s) /\ s.pc = "request" /\ s.run = 0
        BY <1>1, <1>2, HeadIsTree, ChainFacts
        DEF ChainStates, Pcs, WorkflowPcs, LegacyPcs, Shape
    <2>2. chain' = [chain EXCEPT ![c] = s]
        BY <1>2, ChainFacts DEF ChainStates
    <2>3. RowsTyped'
        BY DEF Checkout, PagesInv, RowsTyped, dbVars
    <2> HIDE DEF s
    <2> QED
        BY <1>1, <1>2, <2>1, <2>2, <2>3, QuietMove DEF Checkout, dbVars
<1>3. CASE Fault /\ Ends(c)
    BY <1>1, <1>3, EndsQuietly DEF Checkout
<1> QED
    BY <1>2, <1>3 DEF Checkout

LEMMA CloneHolds ==
    ASSUME PagesInv, NEW c \in Chains, Clone(c)
    PROVE  PagesInv'
<1>1. chain[c].pc = "clone" /\ chain[c].run = 0
    BY ChainFacts DEF Clone, At, Shape
<1>2. CASE /\ head > 0
           /\ chain' = [chain EXCEPT ![c].pc = "cloned", ![c].tree = <<head, "raw">>]
           /\ UNCHANGED faults
    <2> DEFINE s == [chain[c] EXCEPT !.pc = "cloned", !.tree = <<head, "raw">>]
    <2>1. s \in ChainStates /\ Shape(s) /\ s.pc = "cloned" /\ s.run = 0
        BY <1>1, <1>2, HeadIsTree, ChainFacts
        DEF ChainStates, Pcs, WorkflowPcs, LegacyPcs, Shape
    <2>2. chain' = [chain EXCEPT ![c] = s]
        BY <1>2, ChainFacts DEF ChainStates
    <2>3. RowsTyped'
        BY DEF Clone, PagesInv, RowsTyped, dbVars
    <2> HIDE DEF s
    <2> QED
        BY <1>1, <1>2, <2>1, <2>2, <2>3, QuietMove DEF Clone, dbVars
<1>3. CASE Fault /\ Ends(c)
    BY <1>1, <1>3, EndsQuietly DEF Clone
<1> QED
    BY <1>2, <1>3 DEF Clone

LEMMA NoWorkflowHolds ==
    ASSUME PagesInv, NEW c \in Chains, NoWorkflow(c)
    PROVE  PagesInv'
<1>1. chain[c].pc = "cloned" /\ chain[c].run = 0
    BY ChainFacts DEF NoWorkflow, At, Shape
<1> QED
    BY <1>1, EndsQuietly, EnterPublishPagesHolds DEF NoWorkflow, bounds

(* The row of a chain's run has its verdict, outside the lock. *)
LEMMA FinishHolds ==
    ASSUME PagesInv, NEW c \in Chains, chain[c].run # 0,
           chain[c].pc \notin {"upload", "answer"}, Ends(c),
           NEW status \in RunStatuses \ {"running"}, FinishRun(c, status),
           UNCHANGED <<stranded, upVars, lockVars>>, UNCHANGED faults \/ Fault, RowsTyped'
    PROVE  PagesInv'
<1>1. chain' = [chain EXCEPT ![c] = Idle]
    BY DEF Ends
<1>2. ChainsTyped' /\ RunsMatchChains'
    BY <1>1, IdleChain, ChainMoves, RunEnds
<1>3. LockMatchesChains'
    BY <1>1, IdleChain, SameSide DEF lockVars, upVars
<1>4. LockInv' /\ UploadInv'
    BY LockRests, PodRests DEF PagesInv
<1> QED
    BY <1>2, <1>3, <1>4 DEF PagesInv

LEMMA BuildFailsHolds ==
    ASSUME PagesInv, NEW c \in Chains, BuildFails(c)
    PROVE  PagesInv'
<1>1. chain[c].pc = "build" /\ chain[c].run # 0
    BY ChainFacts DEF BuildFails, At, Shape
<1>2. RowsTyped'
    BY DEF BuildFails, PagesInv, RowsTyped
<1>3. PICK status \in {"error", "failed"} : FinishRun(c, status)
    BY DEF BuildFails
<1>4. UNCHANGED faults \/ Fault
    BY DEF BuildFails
<1> QED
    BY <1>1, <1>2, <1>3, <1>4, FinishHolds DEF BuildFails, RunStatuses

LEMMA BuildOnlyHolds ==
    ASSUME PagesInv, NEW c \in Chains, BuildOnly(c)
    PROVE  PagesInv'
<1>1. chain[c].pc = "build" /\ chain[c].run # 0
    BY ChainFacts DEF BuildOnly, At, Shape
<1>2. RowsTyped'
    BY DEF BuildOnly, PagesInv, RowsTyped, bounds
<1> QED
    BY <1>1, <1>2, FinishHolds DEF BuildOnly, RunStatuses, bounds

LEMMA MarkAndFinishHolds ==
    ASSUME PagesInv, NEW c \in Chains, MarkAndFinish(c)
    PROVE  PagesInv'
<1>1. chain[c].pc = "mark" /\ chain[c].run # 0 /\ chain[c].sha \in 0 .. MaxPush
    BY ChainFacts DEF MarkAndFinish, At, Shape, ChainStates
<1>2. RowsTyped'
    BY <1>1 DEF MarkAndFinish, MarkPublished, PagesInv, RowsTyped, RowStatuses, bounds
<1> QED
    BY <1>1, <1>2, FinishHolds DEF MarkAndFinish, RunStatuses, bounds

LEMMA ReheadHolds ==
    ASSUME PagesInv, NEW c \in Chains, Rehead(c)
    PROVE  PagesInv'
<1>1. PICK sha \in 0 .. MaxPush :
         chain' = [chain EXCEPT ![c].pc = "mark", ![c].sha = sha]
    <2>1. head \in 0 .. MaxPush /\ 0 \in 0 .. MaxPush
        BY BoundsAssumption DEF PagesInv, RowsTyped
    <2> QED
        BY <2>1 DEF Rehead
<1> DEFINE s == [chain[c] EXCEPT !.pc = "mark", !.sha = sha]
<1>2. chain[c].pc = "rehead" /\ chain[c].run # 0
    BY ChainFacts DEF Rehead, At, Shape
<1>3. s \in ChainStates /\ Shape(s) /\ s.pc = "mark" /\ s.run = chain[c].run
    BY <1>2, ChainFacts DEF ChainStates, Pcs, WorkflowPcs, LegacyPcs, Shape
<1>4. chain' = [chain EXCEPT ![c] = s]
    BY <1>1, ChainFacts DEF ChainStates
<1>5. RowsTyped'
    BY DEF Rehead, PagesInv, RowsTyped, dbVars
<1> HIDE DEF s
<1> QED
    BY <1>2, <1>3, <1>4, <1>5, QuietMove DEF Rehead, dbVars

(* createRun: a new row, of a run that nobody else has. *)
LEMMA CreateRunHolds ==
    ASSUME PagesInv, NEW c \in Chains, CreateRun(c)
    PROVE  PagesInv'
<1> DEFINE n == Len(runs) + 1
           s == [chain[c] EXCEPT !.pc = "queued", !.run = n]
<1>1. /\ chain[c].pc = "cloned" /\ chain[c].tree \in Trees
      /\ runs \in Seq(RunStatuses) /\ n \in Nat /\ n # 0 /\ n \notin DOMAIN runs
    BY ChainFacts DEF CreateRun, At, Shape, PagesInv, RunsMatchChains
<1>2. s \in ChainStates /\ Shape(s) /\ s.pc = "queued" /\ s.run = n
    BY <1>1, ChainFacts DEF ChainStates, Pcs, WorkflowPcs, LegacyPcs, Shape
<1>3. chain' = [chain EXCEPT ![c] = s]
    BY ChainFacts DEF CreateRun, ChainStates
<1>4. /\ runs' \in Seq(RunStatuses) /\ DOMAIN runs' = DOMAIN runs \cup {n}
      /\ runs'[n] = "queued" /\ \A m \in DOMAIN runs : runs'[m] = runs[m]
    BY <1>1 DEF CreateRun, RunStatuses
<1> HIDE DEF s, n
<1>5. /\ ChainsTyped' /\ chain'[c] = s
      /\ \A d \in Chains \ {c} : chain'[d] = chain[d]
    BY <1>2, <1>3, ChainMoves
<1>6. \A d \in Chains : chain'[d].run # 0 =>
          /\ chain'[d].run \in DOMAIN runs'
          /\ runs'[chain'[d].run] = IF chain'[d].pc = "queued" THEN "queued" ELSE "running"
    BY <1>1, <1>2, <1>4, <1>5 DEF PagesInv, RunsMatchChains
<1>7. \A d, e \in Chains : chain'[d].run = chain'[e].run /\ chain'[d].run # 0 => d = e
    BY <1>1, <1>2, <1>5 DEF PagesInv, RunsMatchChains
<1>8. RunningRunsAreOwned'
    <2> SUFFICES ASSUME NEW m \in DOMAIN runs', runs'[m] = "running", m \notin stranded
                 PROVE  \E d \in Chains : chain'[d].run = m /\ chain'[d].pc # "idle"
        BY DEF RunningRunsAreOwned, At, CreateRun
    <2>1. m \in DOMAIN runs /\ runs[m] = "running" /\ m # 0
        BY <1>1, <1>4
    <2>2. PICK d \in Chains : chain[d].run = m /\ chain[d].pc # "idle"
        BY <2>1 DEF PagesInv, RunsMatchChains, RunningRunsAreOwned, At
    <2>3. d # c
        BY <1>1, <2>1, <2>2, ChainFacts DEF Shape
    <2> QED
        BY <1>5, <2>2, <2>3
<1>9. RunsMatchChains'
    BY <1>4, <1>6, <1>7, <1>8 DEF RunsMatchChains, PagesInv, CreateRun
<1>10. RowsTyped'
    BY DEF CreateRun, PagesInv, RowsTyped, bounds
<1>11. LockMatchesChains'
    BY <1>1, <1>2, <1>3, SameSide DEF CreateRun, lockVars, upVars
<1>12. LockInv' /\ UploadInv'
    BY LockRests, PodRests DEF PagesInv, CreateRun, bounds
<1> QED
    BY <1>5, <1>9, <1>10, <1>11, <1>12 DEF PagesInv

(* markRunRunning *)
LEMMA StartRunHolds ==
    ASSUME PagesInv, NEW c \in Chains, StartRun(c)
    PROVE  PagesInv'
<1> DEFINE n == chain[c].run
           s == [chain[c] EXCEPT !.pc = "build"]
<1>1. /\ chain[c].pc = "queued" /\ chain[c].tree \in Trees /\ n # 0
      /\ runs \in Seq(RunStatuses) /\ n \in DOMAIN runs
      /\ \A d \in Chains \ {c} : chain[d].run # n
    BY ChainFacts DEF StartRun, At, Shape, PagesInv, RunsMatchChains
<1>2. s \in ChainStates /\ Shape(s) /\ s.pc = "build" /\ s.run = n
    BY <1>1, ChainFacts DEF ChainStates, Pcs, WorkflowPcs, LegacyPcs, Shape
<1>3. chain' = [chain EXCEPT ![c] = s]
    BY ChainFacts DEF StartRun, Goes, ChainStates
<1>4. /\ runs' \in Seq(RunStatuses) /\ DOMAIN runs' = DOMAIN runs
      /\ runs'[n] = "running" /\ \A m \in DOMAIN runs \ {n} : runs'[m] = runs[m]
    BY <1>1 DEF StartRun, FinishRun, RunStatuses
<1> HIDE DEF s, n
<1>5. /\ ChainsTyped' /\ chain'[c] = s
      /\ \A d \in Chains \ {c} : chain'[d] = chain[d]
    BY <1>2, <1>3, ChainMoves
<1>6. \A d \in Chains : chain'[d].run # 0 =>
          /\ chain'[d].run \in DOMAIN runs'
          /\ runs'[chain'[d].run] = IF chain'[d].pc = "queued" THEN "queued" ELSE "running"
    BY <1>1, <1>2, <1>4, <1>5 DEF PagesInv, RunsMatchChains
<1>7. \A d, e \in Chains : chain'[d].run = chain'[e].run /\ chain'[d].run # 0 => d = e
    BY <1>1, <1>2, <1>5 DEF PagesInv, RunsMatchChains, n
<1>8. RunningRunsAreOwned'
    <2> SUFFICES ASSUME NEW m \in DOMAIN runs, runs'[m] = "running", m \notin stranded
                 PROVE  \E d \in Chains : chain'[d].run = m /\ chain'[d].pc # "idle"
        BY <1>4 DEF RunningRunsAreOwned, At, StartRun
    <2>1. CASE m = n
        BY <1>2, <1>5, <2>1
    <2>2. CASE m # n
        <3>1. PICK d \in Chains : chain[d].run = m /\ chain[d].pc # "idle"
            BY <1>4, <2>2 DEF PagesInv, RunsMatchChains, RunningRunsAreOwned, At
        <3> QED
            BY <1>5, <2>2, <3>1 DEF n
    <2> QED
        BY <2>1, <2>2
<1>9. RunsMatchChains'
    BY <1>4, <1>6, <1>7, <1>8 DEF RunsMatchChains, PagesInv, StartRun
<1>10. RowsTyped'
    BY DEF StartRun, PagesInv, RowsTyped, bounds
<1>11. LockMatchesChains'
    BY <1>1, <1>2, <1>3, SameSide DEF StartRun, lockVars, upVars
<1>12. LockInv' /\ UploadInv'
    BY LockRests, PodRests DEF PagesInv, StartRun, bounds
<1> QED
    BY <1>5, <1>9, <1>10, <1>11, <1>12 DEF PagesInv

(* A workflow that publishes "." throws, and leaves its row running: the     *)
(* only way a row loses its chain.                                           *)
LEMMA PublishDirEscapesHolds ==
    ASSUME PagesInv, NEW c \in Chains, PublishDirEscapes(c)
    PROVE  PagesInv'
<1>1. /\ chain[c].pc = "build" /\ chain[c].run \in Nat
      /\ chain' = [chain EXCEPT ![c] = Idle]
      /\ stranded' = stranded \cup {chain[c].run} /\ UNCHANGED runs
    BY ChainFacts DEF PublishDirEscapes, At, Ends, ChainStates
<1>2. /\ ChainsTyped' /\ chain'[c] = Idle
      /\ \A d \in Chains \ {c} : chain'[d] = chain[d]
    BY <1>1, IdleChain, ChainMoves
<1>3. RunningRunsAreOwned'
    <2> SUFFICES ASSUME NEW n \in DOMAIN runs, runs[n] = "running", n \notin stranded'
                 PROVE  \E d \in Chains : chain'[d].run = n /\ chain'[d].pc # "idle"
        BY <1>1 DEF RunningRunsAreOwned, At
    <2>1. PICK d \in Chains : chain[d].run = n /\ chain[d].pc # "idle"
        BY <1>1 DEF PagesInv, RunsMatchChains, RunningRunsAreOwned, At
    <2>2. d # c
        BY <1>1, <2>1
    <2> QED
        BY <1>2, <2>1, <2>2
<1>4. RunsMatchChains'
    <2>1. \A d \in Chains : chain'[d].run # 0 => chain'[d] = chain[d]
        BY <1>2, IdleChain
    <2>2. stranded' \subseteq Nat
        BY <1>1 DEF PagesInv, RunsMatchChains
    <2>3. \A d, e \in Chains : chain'[d].run = chain'[e].run /\ chain'[d].run # 0 => d = e
        BY <2>1 DEF PagesInv, RunsMatchChains
    <2>4. \A d \in Chains : chain'[d].run # 0 =>
             /\ chain'[d].run \in DOMAIN runs
             /\ runs[chain'[d].run] = IF chain'[d].pc = "queued" THEN "queued" ELSE "running"
        BY <2>1 DEF PagesInv, RunsMatchChains
    <2> QED
        BY <1>1, <1>3, <2>2, <2>3, <2>4 DEF PagesInv, RunsMatchChains
<1>5. RowsTyped'
    BY DEF PublishDirEscapes, PagesInv, RowsTyped, dbVars, bounds
<1>6. LockMatchesChains'
    BY <1>1, IdleChain, SameSide DEF PublishDirEscapes, lockVars, upVars
<1>7. LockInv' /\ UploadInv'
    BY LockRests, PodRests DEF PagesInv, PublishDirEscapes, bounds
<1> QED
    BY <1>2, <1>4, <1>5, <1>6, <1>7 DEF PagesInv

-----------------------------------------------------------------------------
(* What withPublishLock does to those who wait for it.                       *)
LEMMA RequestPhases ==
    ASSUME LockInv, NEW c \in Chains, Lock!Request(c)
    PROVE  /\ phase[c] = "idle" /\ phase'[c] \in {"running", "pending"}
           /\ \A d \in Chains \ {c} :
                 phase'[d] = phase[d] \/ (phase[d] = "pending" /\ phase'[d] = "settled")
<1> USE NoChainAssumption
<1>1. phase \in [Chains -> Lock!Phases]
    BY DEF LockInv, EntryInv, Lock!TypeOK
<1>2. CASE Lock!Acquire(c)
    BY <1>1, <1>2 DEF Lock!Acquire
<1>3. CASE Lock!Enqueue(c)
    <2> DEFINE d == pending["repo"]
    <2>1. d \in Chains \cup {NoChain} /\ (d # NoChain => phase[d] = "pending")
        BY DEF LockInv, EntryInv, Lock!TypeOK, Lock!MaybeCaller, Lock!EntryMatchesCallers
    <2> QED
        BY <1>1, <1>3, <2>1 DEF Lock!Enqueue
<1> QED
    BY <1>2, <1>3 DEF Lock!Request

LEMMA EndPhases ==
    ASSUME LockInv, NEW c \in Chains, NEW ending \in Lock!Endings,
           Lock!DrainNext(c, ending) \/ Lock!Release(c, ending)
    PROVE  /\ phase[c] = "running" /\ phase'[c] \in {"draining", "settled"}
           /\ \A d \in Chains \ {c} :
                 \/ phase'[d] = phase[d]
                 \/ phase[d] = "pending" /\ phase'[d] = "running"
                 \/ phase[d] = "draining" /\ phase'[d] = "settled"
<1>1. phase \in [Chains -> Lock!Phases]
    BY DEF LockInv, EntryInv, Lock!TypeOK
<1>2. CASE Lock!DrainNext(c, ending)
    BY <1>1, <1>2, DrainNextFacts DEF LockInv, Lock!DrainNext
<1>3. CASE Lock!Release(c, ending)
    <2> DEFINE i == initial["repo"]
    <2>1. /\ i \in Chains /\ phase[c] = "running" /\ phase[i] \in {"running", "draining"}
          /\ current["repo"] = c
        BY <1>3, ReleaseFacts DEF LockInv
    <2>2. i # c => phase[i] = "draining"
        BY <2>1 DEF LockInv, EntryInv, Lock!EntryMatchesCallers
    <2> QED
        BY <1>1, <1>3, <2>1, <2>2 DEF Lock!Release
<1> QED
    BY <1>2, <1>3

LEMMA ResumePhases ==
    ASSUME LockInv, NEW c \in Chains, Lock!Resume(c)
    PROVE  /\ phase[c] = "settled" /\ phase'[c] = "idle"
           /\ \A d \in Chains \ {c} : phase'[d] = phase[d]
<1>1. phase \in [Chains -> Lock!Phases]
    BY DEF LockInv, EntryInv, Lock!TypeOK
<1>2. settled \in Seq(Chains) /\ Lock!Enumerates(settled, SettledCallers)
    BY DEF LockInv, EntryInv, Lock!TypeOK, Lock!SettledAreQueued, SettledCallers
<1>3. c \in SettledCallers
    BY <1>2, EnumeratesTail DEF Lock!Resume
<1> QED
    BY <1>1, <1>3 DEF Lock!Resume, SettledCallers

(* A chain that can publish asks for the lock. *)
LEMMA AskForLockHolds ==
    ASSUME PagesInv, NEW c \in Chains, NEW tree \in Trees, NEW target \in Targets,
           chain[c].pc \in {"request", "build"}, AskForLock(c, tree, target),
           UNCHANGED <<head, notices, dbVars, upVars, bounds>>
    PROVE  PagesInv'
<1> DEFINE s == [chain[c] EXCEPT !.pc = "upload", !.tree = tree, !.target = target]
<1>1. /\ s \in ChainStates /\ Shape(s) /\ s.pc = "upload" /\ s.run = chain[c].run
      /\ chain' = [chain EXCEPT ![c] = s]
    <2>1. /\ s \in ChainStates /\ s.pc = "upload" /\ s.tree = tree /\ s.target = target
          /\ s.run = chain[c].run
        BY ChainFacts DEF ChainStates, Pcs
    <2>2. chain' = [chain EXCEPT ![c] = s]
        BY ChainFacts DEF AskForLock, ChainStates
    <2> HIDE DEF s
    <2> QED
        BY <2>1, <2>2 DEF Shape, LegacyPcs
<1> HIDE DEF s
<1>2. /\ ChainsTyped' /\ chain'[c] = s
      /\ \A d \in Chains \ {c} : chain'[d] = chain[d]
    BY <1>1, ChainMoves
<1>3. RunsMatchChains'
    BY <1>1, RunGoesOn DEF dbVars
<1>4. RowsTyped'
    BY DEF PagesInv, RowsTyped, dbVars, bounds
<1>5. LockMatchesChains'
    <2>1. /\ phase[c] = "idle" /\ phase'[c] \in {"running", "pending"}
          /\ \A d \in Chains \ {c} :
                phase'[d] = phase[d] \/ (phase[d] = "pending" /\ phase'[d] = "settled")
        BY RequestPhases DEF PagesInv, AskForLock
    <2> QED
        BY <1>1, <1>2, <2>1 DEF PagesInv, LockMatchesChains, upVars
<1>6. LockInv'
    BY LockInvStep DEF PagesInv, AskForLock, Lock!Next
<1>7. UploadInv'
    BY PodRests DEF PagesInv, bounds
<1> QED
    BY <1>2, <1>3, <1>4, <1>5, <1>6, <1>7 DEF PagesInv

LEMMA RequestHolds ==
    ASSUME PagesInv, NEW c \in Chains, Request(c)
    PROVE  PagesInv'
<1>1. chain[c].pc = "request" /\ chain[c].tree \in Trees /\ chain[c].target \in Targets
    BY ChainFacts DEF Request, At, Shape
<1> QED
    BY <1>1, AskForLockHolds DEF Request

LEMMA BuildPublishesHolds ==
    ASSUME PagesInv, NEW c \in Chains, BuildPublishes(c)
    PROVE  PagesInv'
<1>1. chain[c].pc = "build" /\ chain[c].tree \in Trees
    BY ChainFacts DEF BuildPublishes, At, Shape
<1>2. <<chain[c].tree[1], "built">> \in Trees
    BY <1>1 DEF Trees
<1>3. config.target \in Targets
    BY DEF BuildPublishes, Publishable, PagesInv, RowsTyped
<1> QED
    BY <1>1, <1>2, <1>3, AskForLockHolds DEF BuildPublishes

-----------------------------------------------------------------------------
(* The chain that has the lock is alone: nobody else is at work on the pod.  *)
LEMMA OwnerIsAlone ==
    ASSUME PagesInv, NEW c \in Chains, phase[c] = "running"
    PROVE  \A d \in Chains \ {c} : upload[d] = Up!Idle
<1>1. \A d \in Chains \ {c} : phase[d] # "running"
    BY DEF PagesInv, LockInv, EntryInv, Lock!EntryMatchesCallers
<1> QED
    BY <1>1 DEF PagesInv, LockMatchesChains, UploadInv, Up!TypeOK

LEMMA BeginIsAlone ==
    ASSUME PagesInv, NEW c \in Chains, BeginUpload(c)
    PROVE  /\ chain[c].tree \in Trees /\ chain[c].target \in Targets
           /\ phase[c] = "running"
           /\ Up!Alone(chain[c].target)
           /\ \/ Up!Begin(c, chain[c].tree, chain[c].target)
              \/ Up!Refuse(c, chain[c].tree, chain[c].target)
<1>1. /\ chain[c].tree \in Trees /\ chain[c].target \in Targets
      /\ phase[c] = "running"
      /\ \/ Up!Begin(c, chain[c].tree, chain[c].target)
         \/ Up!Refuse(c, chain[c].tree, chain[c].target)
    BY ChainFacts DEF BeginUpload, At, Shape
<1>2. upload[c] = Up!Idle
    BY <1>1 DEF Up!Begin, Up!Refuse, Up!Starts, Up!At, PagesInv, UploadInv, Up!TypeOK
<1>3. \A d \in Chains : upload[d] = Up!Idle
    BY <1>1, <1>2, OwnerIsAlone
<1>4. Up!Idle.target = None
    BY DEF Up!Idle
<1> QED
    BY <1>1, <1>3, <1>4, TreesAssumption DEF Up!Alone

LEMMA BeginUploadHolds ==
    ASSUME PagesInv, NEW c \in Chains, BeginUpload(c)
    PROVE  PagesInv'
<1>1. UploadInv'
    BY BeginIsAlone, StartsHolds DEF PagesInv
<1>2. RowsTyped'
    BY DEF BeginUpload, MarkFailed, PagesInv, RowsTyped, RowStatuses
<1>3. ChainsTyped' /\ RunsMatchChains'
    BY DEF BeginUpload, PagesInv, ChainsTyped, RunsMatchChains, RunningRunsAreOwned, At
<1>4. LockInv'
    BY LockRests DEF BeginUpload, PagesInv
<1>5. LockMatchesChains'
    <2>1. UNCHANGED <<chain, phase>> /\ phase[c] = "running"
        BY BeginIsAlone DEF BeginUpload, lockVars
    <2>2. \A d \in Chains \ {c} : upload'[d] = upload[d]
        BY DEF BeginUpload, Up!Begin, Up!Refuse, Up!Starts, PagesInv, UploadInv, Up!TypeOK
    <2> QED
        BY <2>1, <2>2 DEF PagesInv, LockMatchesChains
<1> QED
    BY <1>1, <1>2, <1>3, <1>4, <1>5 DEF PagesInv

LEMMA UploadStepHolds ==
    ASSUME PagesInv, NEW c \in Chains, UploadStep(c)
    PROVE  PagesInv'
<1>1. UploadInv'
    BY EnsureContainerHolds, PutFileHolds, ListContainerHolds, DeleteFileHolds
    DEF UploadStep, Up!Step, PagesInv
<1>2. RowsTyped'
    BY DEF UploadStep, PagesInv, RowsTyped, dbVars
<1>3. ChainsTyped' /\ RunsMatchChains'
    BY DEF UploadStep, PagesInv, ChainsTyped, RunsMatchChains, RunningRunsAreOwned, At,
           dbVars
<1>4. LockInv'
    BY LockRests DEF UploadStep, PagesInv
<1>5. LockMatchesChains'
    <2>1. upload[c].pc # "idle" /\ \A d \in Chains \ {c} : upload'[d] = upload[d]
        BY DEF UploadStep, Up!Step, Up!EnsureContainer, Up!PutFile, Up!ListContainer,
               Up!DeleteFile, Up!Throws, Up!StartPrune, Up!At, PagesInv, UploadInv, Up!TypeOK
    <2> QED
        BY <2>1 DEF PagesInv, LockMatchesChains, UploadStep, lockVars
<1> QED
    BY <1>1, <1>2, <1>3, <1>4, <1>5 DEF PagesInv

LEMMA EndUploadHolds ==
    ASSUME PagesInv, NEW c \in Chains, EndUpload(c)
    PROVE  PagesInv'
<1> DEFINE s == [chain[c] EXCEPT !.pc = "answer"]
<1>1. /\ upload[c].ending \in Lock!Endings
      /\ upload' = [upload EXCEPT ![c] = Up!Idle] /\ UNCHANGED <<pod, faults>>
      /\ upload \in [Chains -> Up!UploadStates]
    BY DEF EndUpload, Up!End, PagesInv, UploadInv, Up!TypeOK, Up!UploadStates, Lock!Endings
<1>2. /\ phase[c] = "running" /\ phase'[c] \in {"draining", "settled"}
      /\ \A d \in Chains \ {c} :
            \/ phase'[d] = phase[d]
            \/ phase[d] = "pending" /\ phase'[d] = "running"
            \/ phase[d] = "draining" /\ phase'[d] = "settled"
    BY <1>1, EndPhases DEF EndUpload, PagesInv
<1>3. chain[c].pc \in {"upload", "answer"}
    BY <1>2, ChainFacts
<1>4. /\ s \in ChainStates /\ s.pc = "answer" /\ s.run = chain[c].run /\ Shape(s)
      /\ chain' = [chain EXCEPT ![c] = s]
    BY ChainFacts DEF EndUpload, Goes, ChainStates, Pcs, Shape, LegacyPcs
<1> HIDE DEF s
<1>5. /\ ChainsTyped' /\ chain'[c] = s
      /\ \A d \in Chains \ {c} : chain'[d] = chain[d]
    BY <1>4, ChainMoves
<1>6. RunsMatchChains'
    BY <1>3, <1>4, RunGoesOn DEF EndUpload, dbVars
<1>7. RowsTyped'
    BY DEF EndUpload, PagesInv, RowsTyped, dbVars
<1>8. LockMatchesChains'
    <2>1. upload'[c].pc = "idle" /\ \A d \in Chains \ {c} : upload'[d] = upload[d]
        BY <1>1 DEF Up!Idle
    <2> QED
        BY <1>2, <1>4, <1>5, <2>1 DEF PagesInv, LockMatchesChains
<1>9. LockInv'
    BY <1>1, LockInvStep DEF EndUpload, PagesInv, Lock!Next, Lock!TaskEnds
<1>10. UploadInv'
    BY UploadNextHolds DEF EndUpload, PagesInv, Up!Next
<1> QED
    BY <1>5, <1>6, <1>7, <1>8, <1>9, <1>10 DEF PagesInv

(* A chain has its answer, and goes on outside the lock. *)
LEMMA ResumeHolds ==
    ASSUME PagesInv, NEW c \in Chains, Lock!Resume(c),
           NEW s \in ChainStates, Shape(s), chain' = [chain EXCEPT ![c] = s],
           s.pc \notin {"upload", "answer"}, UNCHANGED upVars
    PROVE  ChainsTyped' /\ LockMatchesChains' /\ LockInv'
<1>1. /\ ChainsTyped' /\ chain'[c] = s
      /\ \A d \in Chains \ {c} : chain'[d] = chain[d]
    BY ChainMoves
<1>2. LockInv'
    BY LockInvStep DEF PagesInv, Lock!Next
<1>3. LockMatchesChains'
    <2>1. /\ phase[c] = "settled" /\ phase'[c] = "idle"
          /\ \A d \in Chains \ {c} : phase'[d] = phase[d]
        BY ResumePhases DEF PagesInv
    <2> QED
        BY <1>1, <2>1 DEF PagesInv, LockMatchesChains, upVars
<1> QED
    BY <1>1, <1>2, <1>3

LEMMA AnswerLegacyHolds ==
    ASSUME PagesInv, NEW c \in Chains, AnswerLegacy(c)
    PROVE  PagesInv'
<1>1. chain' = [chain EXCEPT ![c] = Idle] /\ chain[c].run = 0
    BY DEF AnswerLegacy, Ends
<1>2. ChainsTyped' /\ LockMatchesChains' /\ LockInv'
    BY <1>1, IdleChain, ResumeHolds DEF AnswerLegacy
<1>3. RunsMatchChains'
    BY <1>1, IdleChain, RunGoesOn DEF AnswerLegacy
<1>4. RowsTyped'
    <2>1. chain[c].sha \in 0 .. MaxPush
        BY ChainFacts DEF ChainStates
    <2> QED
        BY <2>1 DEF AnswerLegacy, MarkPublished, PagesInv, RowsTyped, RowStatuses, bounds
<1>5. UploadInv'
    BY PodRests DEF AnswerLegacy, PagesInv, bounds
<1> QED
    BY <1>2, <1>3, <1>4, <1>5 DEF PagesInv

LEMMA AnswerWorkflowHolds ==
    ASSUME PagesInv, NEW c \in Chains, AnswerWorkflow(c)
    PROVE  PagesInv'
<1>1. RowsTyped' /\ UploadInv'
    BY PodRests DEF AnswerWorkflow, PagesInv, RowsTyped, bounds
<1>2. chain[c].run # 0 /\ Lock!Resume(c) /\ chain[c].pc \in {"upload", "answer"}
    BY ResumePhases, ChainFacts DEF AnswerWorkflow, PagesInv
<1>3. CASE Goes(c, "rehead") /\ UNCHANGED runs
    <2> DEFINE s == [chain[c] EXCEPT !.pc = "rehead"]
    <2>1. /\ s \in ChainStates /\ Shape(s) /\ s.pc = "rehead" /\ s.run = chain[c].run
          /\ chain' = [chain EXCEPT ![c] = s]
        BY <1>2, <1>3, ChainFacts DEF Goes, ChainStates, Pcs, WorkflowPcs, LegacyPcs, Shape
    <2> HIDE DEF s
    <2>2. ChainsTyped' /\ LockMatchesChains' /\ LockInv'
        BY <1>2, <2>1, ResumeHolds DEF AnswerWorkflow
    <2>3. RunsMatchChains'
        BY <1>2, <1>3, <2>1, RunGoesOn DEF AnswerWorkflow
    <2> QED
        BY <1>1, <2>2, <2>3 DEF PagesInv
<1>4. CASE /\ FinishRun(c, IF result[c] = "threw" THEN "failed" ELSE "success")
           /\ Ends(c)
    <2>1. ChainsTyped' /\ LockMatchesChains' /\ LockInv'
        BY <1>2, <1>4, IdleChain, ResumeHolds DEF AnswerWorkflow, Ends
    <2>2. PICK status \in {"failed", "success"} : FinishRun(c, status)
        BY <1>4
    <2>3. RunsMatchChains'
        BY <1>2, <1>4, <2>2, RunEnds DEF RunStatuses, AnswerWorkflow
    <2> QED
        BY <1>1, <2>1, <2>3 DEF PagesInv
<1> QED
    BY <1>3, <1>4 DEF AnswerWorkflow

(* The bridge dies: every chain is gone, and the reaper ends their rows.     *)
LEMMA CrashHolds ==
    ASSUME PagesInv, Crash
    PROVE  PagesInv'
<1>1. \A c \in Chains : chain'[c] = Idle
    BY DEF Crash, BridgeForgets
<1>2. RowsTyped'
    BY BoundsAssumption DEF Crash, BridgeForgets, PagesInv, RowsTyped
<1>3. ChainsTyped'
    BY <1>1, IdleChain DEF Crash, BridgeForgets, ChainsTyped
<1>4. RunsMatchChains'
    <2>1. /\ runs' \in Seq(RunStatuses)
          /\ \A n \in DOMAIN runs' : runs'[n] # "running"
        <3>1. runs \in Seq(RunStatuses)
            BY DEF PagesInv, RunsMatchChains
        <3>2. /\ runs' = [n \in 1 .. Len(runs) |->
                             IF runs[n] = "running" THEN "failed" ELSE runs[n]]
              /\ Len(runs) \in Nat /\ \A n \in 1 .. Len(runs) : runs[n] \in RunStatuses
            BY <3>1 DEF Crash
        <3>3. \A n \in 1 .. Len(runs) : runs'[n] \in RunStatuses /\ runs'[n] # "running"
            BY <3>2 DEF RunStatuses
        <3> QED
            BY <3>2, <3>3
    <2> QED
        BY <1>1, <2>1, IdleChain DEF RunsMatchChains, RunningRunsAreOwned, Crash
<1>5. LockInv' /\ \A c \in Chains : phase'[c] = "idle"
    <2>1. Lock!Init' /\ \A c \in Chains : phase'[c] = "idle"
        BY DEF Crash, BridgeForgets, Lock!Restart, Lock!Init
    <2>2. Lock!Init' => LockInv'
        BY LockInvInit, PTL
    <2> QED
        BY <2>1, <2>2
<1>6. LockMatchesChains'
    <2>1. \A c \in Chains : upload'[c].pc = "idle"
        BY DEF Crash, BridgeForgets, Up!Abandon, Up!Idle
    <2> QED
        BY <1>1, <1>5, <2>1, IdleChain DEF LockMatchesChains
<1>7. UploadInv'
    BY UploadNextHolds DEF Crash, BridgeForgets, PagesInv, Up!Next
<1> QED
    BY <1>2, <1>3, <1>4, <1>5, <1>6, <1>7 DEF PagesInv

-----------------------------------------------------------------------------
LEMMA PagesInitHolds == Init => PagesInv
<1> SUFFICES ASSUME Init PROVE PagesInv
    OBVIOUS
<1>1. \A c \in Chains : chain[c] = Idle /\ upload[c].pc = "idle" /\ phase[c] = "idle"
    BY DEF Init, Up!Init, Up!Idle, Lock!Init
<1>2. RowsTyped
    <2>1. config \in [enabled : BOOLEAN, target : Targets \cup {None}]
        BY DEF Init
    <2>2. row \in [sha : 0 .. MaxPush, status : RowStatuses]
        BY BoundsAssumption DEF Init, RowStatuses
    <2> QED
        BY <2>1, <2>2, BoundsAssumption DEF Init, RowsTyped
<1>3. ChainsTyped
    BY <1>1, IdleChain DEF Init, ChainsTyped
<1>4. RunsMatchChains
    BY <1>1, IdleChain DEF Init, RunsMatchChains, RunningRunsAreOwned, RunStatuses
<1>5. LockMatchesChains
    BY <1>1, IdleChain DEF LockMatchesChains
<1> QED
    BY <1>2, <1>3, <1>4, <1>5, LockInvInit, UploadInitHolds DEF Init, PagesInv

LEMMA PagesNextHolds == PagesInv /\ [Next]_vars => PagesInv'
<1> SUFFICES ASSUME PagesInv, [Next]_vars PROVE PagesInv'
    OBVIOUS
<1>1. CASE Environment
    <2>1. CASE Push \/ LoseNotice \/ UpdateConfig \/ Crash
        BY <2>1, PushHolds, LoseNoticeHolds, UpdateConfigHolds, CrashHolds
    <2>2. ASSUME NEW c \in Hooks, PostReceive(c) \/ RunNow(c) PROVE PagesInv'
        BY <2>2, PostReceiveHolds, RunNowHolds DEF Chains
    <2> QED
        BY <1>1, <2>1, <2>2 DEF Environment
<1>2. CASE StartPass \/ Compare
    BY <1>2, StartPassHolds, CompareHolds
<1>3. ASSUME NEW c \in Chains, ChainStep(c) PROVE PagesInv'
    <2>1. CASE ReadHead(c) \/ Checkout(c) \/ Request(c)
        BY <2>1, ReadHeadHolds, CheckoutHolds, RequestHolds
    <2>2. CASE Clone(c) \/ NoWorkflow(c) \/ CreateRun(c) \/ StartRun(c)
        BY <2>2, CloneHolds, NoWorkflowHolds, CreateRunHolds, StartRunHolds
    <2>3. CASE BuildFails(c) \/ BuildOnly(c) \/ BuildPublishes(c) \/ PublishDirEscapes(c)
        BY <2>3, BuildFailsHolds, BuildOnlyHolds, BuildPublishesHolds, PublishDirEscapesHolds
    <2>4. CASE BeginUpload(c) \/ UploadStep(c) \/ EndUpload(c)
        BY <2>4, BeginUploadHolds, UploadStepHolds, EndUploadHolds
    <2>5. CASE AnswerLegacy(c) \/ AnswerWorkflow(c) \/ Rehead(c) \/ MarkAndFinish(c)
        BY <2>5, AnswerLegacyHolds, AnswerWorkflowHolds, ReheadHolds, MarkAndFinishHolds
    <2> QED
        BY <1>3, <2>1, <2>2, <2>3, <2>4, <2>5 DEF ChainStep
<1>4. CASE UNCHANGED vars
    BY <1>4, ChainsRest DEF vars, dbVars, upVars, bounds, lockVars, PagesInv, RowsTyped
<1> QED
    BY <1>1, <1>2, <1>3, <1>4 DEF Next

(* What every chain, run and upload relies on, whatever the others do.       *)
THEOREM PagesInvariant == Spec => []PagesInv
<1> QED
    BY PagesInitHolds, PagesNextHolds, PTL DEF Spec

(* Types of the rows, the chains, the pod and the lock. *)
THEOREM PagesTypes == Spec => []TypeOK
<1>1. PagesInv => TypeOK
    <2> SUFFICES ASSUME PagesInv PROVE TypeOK
        OBVIOUS
    <2>1. Lock!TypeOK /\ Up!TypeOK
        BY DEF PagesInv, LockInv, EntryInv, UploadInv
    <2>2. runs \in Seq(RunStatuses) /\ stranded \subseteq Nat
        BY DEF PagesInv, RunsMatchChains
    <2> QED
        BY <2>1, <2>2 DEF PagesInv, RowsTyped, ChainsTyped, Shape, TypeOK
<1> QED
    BY <1>1, PagesInvariant, PTL

(* No workflow_runs row says "running" without a chain that will finish it,  *)
(* but for those whose chain ended by resolvePublishDir's exception since    *)
(* the last start: whatever the workflows of the commits say.                *)
THEOREM RunsAreOwned == Spec => []RunningRunsAreOwned
<1>1. PagesInv => RunningRunsAreOwned
    BY DEF PagesInv, RunsMatchChains
<1> QED
    BY <1>1, PagesInvariant, PTL

(* P0-R1 for any number of chains: what the steps of all chains, and a       *)
(* crash, do to the pod are uploads that take turns, and a verdict stays.    *)
LEMMA PodStepsTakeTurns == PagesInv /\ [Next]_vars => [Up!Next]_upVars
<1> SUFFICES ASSUME PagesInv, [Next]_vars, ~ UNCHANGED upVars PROVE Up!Next
    OBVIOUS
<1>1. CASE Crash
    BY <1>1 DEF Crash, BridgeForgets, Up!Next
<1>2. ASSUME NEW c \in Chains, BeginUpload(c) PROVE Up!Next
    BY <1>2, BeginIsAlone DEF Up!Next
<1>3. ASSUME NEW c \in Chains, UploadStep(c) \/ EndUpload(c) PROVE Up!Next
    BY <1>3 DEF UploadStep, EndUpload, Up!Next
<1>4. CASE \/ Push \/ LoseNotice \/ UpdateConfig \/ StartPass \/ Compare
           \/ \E c \in Hooks : PostReceive(c) \/ RunNow(c)
    BY <1>4 DEF Push, LoseNotice, UpdateConfig, StartPass, Compare, PostReceive, RunNow, upVars
<1>5. ASSUME NEW c \in Chains,
             \/ ReadHead(c) \/ Checkout(c) \/ Request(c)
             \/ Clone(c) \/ NoWorkflow(c) \/ CreateRun(c) \/ StartRun(c)
             \/ BuildFails(c) \/ BuildOnly(c) \/ BuildPublishes(c) \/ PublishDirEscapes(c)
             \/ AnswerLegacy(c) \/ AnswerWorkflow(c) \/ Rehead(c) \/ MarkAndFinish(c)
      PROVE  Up!Next
    BY <1>5 DEF ReadHead, Checkout, Request, Clone, NoWorkflow, CreateRun, StartRun,
                BuildFails, BuildOnly, BuildPublishes, PublishDirEscapes,
                AnswerLegacy, AnswerWorkflow, Rehead, MarkAndFinish, upVars
<1>6. CASE UNCHANGED vars
    BY <1>6 DEF vars
<1> QED
    BY <1>1, <1>2, <1>3, <1>4, <1>5, <1>6 DEF Next, Environment, ChainStep

VerdictStays ==
    \A n \in DOMAIN runs :
        runs[n] \in {"success", "failed", "error"} => runs'[n] = runs[n]

(* A chain finishes no run but its own, which has no verdict yet. *)
LEMMA FinishesItsOwn ==
    ASSUME PagesInv, NEW c \in Chains, chain[c].run # 0, NEW status,
           FinishRun(c, status)
    PROVE  VerdictStays
<1>1. /\ runs \in Seq(RunStatuses)
      /\ chain[c].run \in DOMAIN runs
      /\ runs[chain[c].run] \in {"queued", "running"}
    BY DEF PagesInv, RunsMatchChains
<1> QED
    BY <1>1 DEF FinishRun, VerdictStays

LEMMA VerdictsStay == PagesInv /\ [Next]_vars => VerdictStays
<1> SUFFICES ASSUME PagesInv, [Next]_vars PROVE VerdictStays
    OBVIOUS
<1>1. CASE Crash
    BY <1>1 DEF Crash, VerdictStays
<1>2. ASSUME NEW c \in Chains, CreateRun(c) PROVE VerdictStays
    <2>1. runs \in Seq(RunStatuses)
        BY DEF PagesInv, RunsMatchChains
    <2> QED
        BY <1>2, <2>1 DEF CreateRun, VerdictStays, RunStatuses
<1>3. ASSUME NEW c \in Chains,
             StartRun(c) \/ BuildFails(c) \/ BuildOnly(c) \/ MarkAndFinish(c)
      PROVE  VerdictStays
    <2>1. chain[c].run # 0
        BY <1>3, ChainFacts DEF StartRun, BuildFails, BuildOnly, MarkAndFinish, At, Shape
    <2>2. PICK status \in RunStatuses : FinishRun(c, status)
        BY <1>3 DEF StartRun, BuildFails, BuildOnly, MarkAndFinish, RunStatuses
    <2> QED
        BY <2>1, <2>2, FinishesItsOwn
<1>4. ASSUME NEW c \in Chains, AnswerWorkflow(c) PROVE VerdictStays
    <2>1. CASE UNCHANGED runs
        BY <2>1 DEF VerdictStays
    <2>2. CASE FinishRun(c, IF result[c] = "threw" THEN "failed" ELSE "success")
        BY <1>4, <2>2, FinishesItsOwn DEF AnswerWorkflow
    <2> QED
        BY <1>4, <2>1, <2>2 DEF AnswerWorkflow
<1>5. CASE UNCHANGED runs
    BY <1>5 DEF VerdictStays
<1>6. \/ Crash
      \/ \E c \in Chains : \/ CreateRun(c) \/ StartRun(c) \/ BuildFails(c) \/ BuildOnly(c)
                           \/ MarkAndFinish(c) \/ AnswerWorkflow(c)
      \/ UNCHANGED runs
    <2>1. CASE \/ Push \/ LoseNotice \/ UpdateConfig \/ StartPass \/ Compare
               \/ \E c \in Hooks : PostReceive(c) \/ RunNow(c)
        BY <2>1 DEF Push, LoseNotice, UpdateConfig, StartPass, Compare, PostReceive, RunNow,
                    dbVars
    <2>2. ASSUME NEW c \in Chains,
                 \/ ReadHead(c) \/ Checkout(c) \/ Request(c) \/ Clone(c) \/ NoWorkflow(c)
                 \/ BuildPublishes(c) \/ PublishDirEscapes(c)
                 \/ BeginUpload(c) \/ UploadStep(c) \/ EndUpload(c)
                 \/ AnswerLegacy(c) \/ Rehead(c)
          PROVE  UNCHANGED runs
        BY <2>2 DEF ReadHead, Checkout, Request, Clone, NoWorkflow, BuildPublishes,
                    PublishDirEscapes, BeginUpload, UploadStep, EndUpload, AnswerLegacy,
                    Rehead, dbVars
    <2>3. CASE UNCHANGED vars
        BY <2>3 DEF vars, dbVars
    <2> QED
        BY <2>1, <2>2, <2>3 DEF Next, Environment, ChainStep
<1> QED
    BY <1>1, <1>2, <1>3, <1>4, <1>5, <1>6

(* Uploads of one repo never overlap, and a run that has ended keeps its     *)
(* verdict, for every number of chains, commits, failures and crashes.       *)
THEOREM ChainsStayApart == Spec => ChainsKeepApart
<1>1. Spec => UploadsTakeTurns
    BY PagesInvariant, PodStepsTakeTurns, PTL DEF Spec, UploadsTakeTurns
<1>2. Spec => VerdictsAreFinal
    <2>1. PagesInv /\ [Next]_vars =>
             [\A n \in DOMAIN runs :
                 runs[n] \in {"success", "failed", "error"} => runs'[n] = runs[n]]_vars
        BY VerdictsStay DEF VerdictStays
    <2> QED
        BY <2>1, PagesInvariant, PTL DEF Spec, VerdictsAreFinal
<1> QED
    BY <1>1, <1>2 DEF ChainsKeepApart

(* What Upload promises of a single upload holds of the site, whoever        *)
(* publishes it and whenever the bridge dies: what has been PUT stays, and a *)
(* clean upload leaves exactly the plainly named files of its tree.          *)
THEOREM SiteIsPublished == Spec => []Up!UploadedStays /\ []Up!ExactPublish
<1>1. PagesInv => Up!UploadedStays
    BY DEF PagesInv, UploadInv, CallsOK, CallOK, Up!UploadedStays, Up!At
<1>2. PagesInv => Up!ExactPublish
    <2> SUFFICES ASSUME PagesInv, NEW c \in Chains,
                        upload[c].pc = "logout", upload[c].ending = "ran", upload[c].clean,
                        NEW p \in Paths \ Escaped
                 PROVE  pod[upload[c].target][p] =
                            IF p \in Files[upload[c].tree] THEN upload[c].tree ELSE Absent
        BY DEF Up!ExactPublish, Up!At
    <2>1. CallOK(upload[c], pod[upload[c].target])
        BY DEF PagesInv, UploadInv, CallsOK
    <2> QED
        BY <2>1 DEF CallOK
<1> QED
    BY <1>1, <1>2, PagesInvariant, PTL

=============================================================================
