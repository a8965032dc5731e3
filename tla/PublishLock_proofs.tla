------------------------ MODULE PublishLock_proofs -------------------------
(***************************************************************************)
(* Proofs about withPublishLock for every set of repos and callers: the    *)
(* type invariant, one task per repo, no caller forgotten, latest wins,    *)
(* and that the lock implements SerialTasks.                               *)
(*                                                                         *)
(* EntryMatchesCallers is not inductive alone: that a caller in a slot of  *)
(* repo r really calls for r (SlotsOfRepo) is needed to know that the      *)
(* callers two entries name are different ones.                            *)
(***************************************************************************)
EXTENDS PublishLock, TLAPS

(* The callers an entry names are callers for its repo. *)
SlotsOfRepo ==
    \A r \in Repos :
        /\ initial[r] # NoCaller => RepoOf[initial[r]] = r
        /\ current[r] # NoCaller => RepoOf[current[r]] = r
        /\ pending[r] # NoCaller => RepoOf[pending[r]] = r

EntryInv == TypeOK /\ SlotsOfRepo /\ EntryMatchesCallers

LockInv == EntryInv /\ SettledAreQueued

LEMMA EntryInvInit == Init => EntryInv
<1> SUFFICES ASSUME Init PROVE EntryInv
    OBVIOUS
<1>1. TypeOK
    BY NoCallerAssumption, RepoOfAssumption
    DEF Init, TypeOK, MaybeCaller, Phases, Results
<1>2. SlotsOfRepo /\ EntryMatchesCallers
    BY NoCallerAssumption, RepoOfAssumption DEF Init, SlotsOfRepo, EntryMatchesCallers
<1> QED
    BY <1>1, <1>2 DEF EntryInv

LEMMA AcquireKeepsEntry ==
    ASSUME EntryInv, NEW c \in Callers, Acquire(c)
    PROVE  EntryInv'
<1> USE NoCallerAssumption, RepoOfAssumption
<1> DEFINE r == RepoOf[c]
<1>1. r \in Repos
    OBVIOUS
<1>2. TypeOK'
    BY <1>1 DEF EntryInv, TypeOK, Acquire, MaybeCaller, Phases
<1>3. SlotsOfRepo'
    BY <1>1 DEF EntryInv, TypeOK, SlotsOfRepo, Acquire
<1>4. EntryMatchesCallers'
    BY <1>1 DEF EntryInv, TypeOK, SlotsOfRepo, EntryMatchesCallers, Acquire
<1> QED
    BY <1>2, <1>3, <1>4 DEF EntryInv

LEMMA EnqueueKeepsEntry ==
    ASSUME EntryInv, NEW c \in Callers, Enqueue(c)
    PROVE  EntryInv'
<1> USE NoCallerAssumption, RepoOfAssumption
<1> DEFINE r == RepoOf[c]
           d == pending[r]
<1>1. r \in Repos /\ d \in MaybeCaller
    BY DEF EntryInv, TypeOK
<1>2. TypeOK'
    <2>1. CASE d = NoCaller
        BY <1>1, <2>1 DEF EntryInv, TypeOK, Enqueue, MaybeCaller, Phases
    <2>2. CASE d # NoCaller
        <3>1. d \in Callers /\ settled \in Seq(Callers) /\ settled' = Append(settled, d)
            BY <1>1, <2>2 DEF EntryInv, TypeOK, Enqueue, MaybeCaller
        <3>2. settled' \in Seq(Callers)
            BY <3>1
        <3>3. phase' \in [Callers -> Phases] /\ result' \in [Callers -> Results]
            BY <2>2, <3>1 DEF EntryInv, TypeOK, Enqueue, Phases, Results
        <3>4. /\ initial' \in [Repos -> MaybeCaller]
              /\ current' \in [Repos -> MaybeCaller]
              /\ pending' \in [Repos -> MaybeCaller]
            BY <1>1 DEF EntryInv, TypeOK, Enqueue, MaybeCaller
        <3> QED
            BY <3>2, <3>3, <3>4 DEF TypeOK
    <2> QED
        BY <2>1, <2>2
<1>3. SlotsOfRepo'
    BY <1>1 DEF EntryInv, TypeOK, SlotsOfRepo, Enqueue
<1>4. EntryMatchesCallers'
    <2>1. CASE d = NoCaller
        BY <1>1, <2>1 DEF EntryInv, TypeOK, SlotsOfRepo, EntryMatchesCallers, Enqueue
    <2>2. CASE d # NoCaller
        BY <1>1, <2>2
        DEF EntryInv, TypeOK, SlotsOfRepo, EntryMatchesCallers, Enqueue, MaybeCaller
    <2> QED
        BY <2>1, <2>2
<1> QED
    BY <1>2, <1>3, <1>4 DEF EntryInv

(* Who is who when a task ends and another one waits. *)
LEMMA DrainNextFacts ==
    ASSUME EntryInv, NEW c \in Callers, NEW ending \in Endings, DrainNext(c, ending)
    PROVE  LET r == RepoOf[c]
               d == pending[r]
           IN  /\ r \in Repos /\ current[r] = c /\ phase[c] = "running"
               /\ d \in Callers /\ RepoOf[d] = r /\ phase[d] = "pending" /\ d # c
<1> USE NoCallerAssumption, RepoOfAssumption
<1> DEFINE r == RepoOf[c]
           d == pending[r]
<1>1. r \in Repos /\ current[r] = c /\ d \in Callers
    BY DEF EntryInv, TypeOK, DrainNext, MaybeCaller
<1>2. phase[c] = "running" /\ RepoOf[d] = r
    BY <1>1 DEF EntryInv, SlotsOfRepo, EntryMatchesCallers
<1>3. phase[d] = "pending"
    BY <1>1, <1>2 DEF EntryInv, EntryMatchesCallers
<1> QED
    BY <1>1, <1>2, <1>3

(* Who is who when a task ends and nobody waits. *)
LEMMA ReleaseFacts ==
    ASSUME EntryInv, NEW c \in Callers, NEW ending \in Endings, Release(c, ending)
    PROVE  LET r == RepoOf[c]
               i == initial[r]
           IN  /\ r \in Repos /\ current[r] = c /\ phase[c] = "running"
               /\ pending[r] = NoCaller
               /\ i \in Callers /\ RepoOf[i] = r
               /\ phase[i] \in {"running", "draining"}
<1> USE NoCallerAssumption, RepoOfAssumption
<1> DEFINE r == RepoOf[c]
           i == initial[r]
<1>1. r \in Repos /\ current[r] = c /\ pending[r] = NoCaller
    BY DEF EntryInv, TypeOK, Release
<1>2. i \in Callers /\ RepoOf[i] = r /\ phase[c] = "running"
    BY <1>1 DEF EntryInv, TypeOK, SlotsOfRepo, EntryMatchesCallers, MaybeCaller
<1>3. phase[i] \in {"running", "draining"}
    BY <1>1, <1>2 DEF EntryInv, EntryMatchesCallers
<1> QED
    BY <1>1, <1>2, <1>3

LEMMA DrainNextKeepsEntry ==
    ASSUME EntryInv, NEW c \in Callers, NEW ending \in Endings, DrainNext(c, ending)
    PROVE  EntryInv'
<1> USE NoCallerAssumption, RepoOfAssumption
<1> DEFINE r == RepoOf[c]
           d == pending[r]
<1>1. r \in Repos /\ current[r] = c /\ d \in Callers
    BY DrainNextFacts
<1>2. RepoOf[d] = r /\ d # c
    BY DrainNextFacts
<1>3. TypeOK'
    <2>1. settled' \in Seq(Callers)
        <3>1. settled' = settled \/ settled' = Append(settled, c)
            BY DEF DrainNext
        <3> QED
            BY <3>1 DEF EntryInv, TypeOK
    <2>2. /\ initial' \in [Repos -> MaybeCaller]
          /\ current' \in [Repos -> MaybeCaller]
          /\ pending' \in [Repos -> MaybeCaller]
        BY <1>1 DEF EntryInv, TypeOK, DrainNext, MaybeCaller
    <2>3. phase' \in [Callers -> Phases] /\ result' \in [Callers -> Results]
        BY <1>1 DEF EntryInv, TypeOK, DrainNext, Phases, Results, Endings
    <2> QED
        BY <2>1, <2>2, <2>3 DEF TypeOK
<1>4. SlotsOfRepo'
    BY <1>1, <1>2 DEF EntryInv, TypeOK, SlotsOfRepo, DrainNext
<1>5. EntryMatchesCallers'
    BY <1>1, <1>2
    DEF EntryInv, TypeOK, SlotsOfRepo, EntryMatchesCallers, DrainNext, MaybeCaller
<1> QED
    BY <1>3, <1>4, <1>5 DEF EntryInv

LEMMA ReleaseKeepsEntry ==
    ASSUME EntryInv, NEW c \in Callers, NEW ending \in Endings, Release(c, ending)
    PROVE  EntryInv'
<1> USE NoCallerAssumption, RepoOfAssumption
<1> DEFINE r == RepoOf[c]
           i == initial[r]
<1>1. r \in Repos /\ current[r] = c /\ pending[r] = NoCaller
    BY ReleaseFacts
<1>2. i \in Callers /\ RepoOf[i] = r
    BY ReleaseFacts
<1>3. TypeOK'
    <2>1. settled' \in Seq(Callers)
        <3>1. \/ settled' = Append(settled, c)
              \/ settled' = Append(Append(settled, c), i)
            BY DEF Release
        <3> DEFINE q == Append(settled, c)
        <3>2. q \in Seq(Callers)
            BY DEF EntryInv, TypeOK
        <3>3. settled' = q \/ settled' = Append(q, i)
            BY <3>1
        <3> HIDE DEF q
        <3>4. Append(q, i) \in Seq(Callers)
            BY <1>2, <3>2
        <3> QED
            BY <3>2, <3>3, <3>4
    <2>2. /\ initial' \in [Repos -> MaybeCaller]
          /\ current' \in [Repos -> MaybeCaller]
          /\ pending' \in [Repos -> MaybeCaller]
        BY <1>1 DEF EntryInv, TypeOK, Release, MaybeCaller
    <2>3. phase' \in [Callers -> Phases] /\ result' \in [Callers -> Results]
        BY <1>2 DEF EntryInv, TypeOK, Release, Phases, Results, Endings
    <2> QED
        BY <2>1, <2>2, <2>3 DEF TypeOK
<1>4. SlotsOfRepo'
    BY <1>1, <1>2 DEF EntryInv, TypeOK, SlotsOfRepo, Release
<1>5. EntryMatchesCallers'
    BY <1>1, <1>2
    DEF EntryInv, TypeOK, SlotsOfRepo, EntryMatchesCallers, Release, MaybeCaller
<1> QED
    BY <1>3, <1>4, <1>5 DEF EntryInv

-----------------------------------------------------------------------------
(* Adding to a queue a caller that it does not list. *)
LEMMA EnumeratesAppend ==
    ASSUME NEW S, NEW q \in Seq(S), NEW T, Enumerates(q, T), NEW d \in S, d \notin T
    PROVE  Append(q, d) \in Seq(S) /\ Enumerates(Append(q, d), T \cup {d})
<1> DEFINE p == Append(q, d)
<1>1. /\ p \in Seq(S)
      /\ Len(q) \in Nat
      /\ Len(p) = Len(q) + 1
      /\ \A n \in 1 .. Len(q) : p[n] = q[n]
      /\ p[Len(p)] = d
    OBVIOUS
<1> HIDE DEF p
<1>2. \A c \in T \cup {d} : \E n \in 1 .. Len(p) : p[n] = c
    BY <1>1 DEF Enumerates
<1>3. \A n \in 1 .. Len(p) : p[n] \in T \cup {d}
    BY <1>1 DEF Enumerates
<1>4. \A m, n \in 1 .. Len(p) : p[m] = p[n] => m = n
    <2> TAKE m, n \in 1 .. Len(p)
    <2>1. CASE m \in 1 .. Len(q) /\ n \in 1 .. Len(q)
        BY <1>1, <2>1 DEF Enumerates
    <2>2. CASE m = Len(p) \/ n = Len(p)
        BY <1>1, <2>2 DEF Enumerates
    <2> QED
        BY <1>1, <2>1, <2>2
<1> QED
    BY <1>1, <1>2, <1>3, <1>4 DEF Enumerates, p

(* Taking the first caller out of a queue. *)
LEMMA EnumeratesTail ==
    ASSUME NEW S, NEW q \in Seq(S), NEW T, Enumerates(q, T), q # <<>>
    PROVE  /\ Head(q) \in S \cap T
           /\ Tail(q) \in Seq(S)
           /\ Enumerates(Tail(q), T \ {Head(q)})
<1> DEFINE h == Head(q)
           p == Tail(q)
<1>1. /\ p \in Seq(S)
      /\ Len(q) \in Nat /\ Len(q) > 0
      /\ Len(p) = Len(q) - 1
      /\ \A n \in 1 .. Len(p) : p[n] = q[n + 1]
      /\ h = q[1] /\ h \in S
    OBVIOUS
<1> HIDE DEF p, h
<1>2. h \in T
    BY <1>1 DEF Enumerates
<1>3. \A c \in T \ {h} : \E n \in 1 .. Len(p) : p[n] = c
    <2> TAKE c \in T \ {h}
    <2>1. PICK n \in 1 .. Len(q) : q[n] = c
        BY DEF Enumerates
    <2>2. n # 1 /\ n - 1 \in 1 .. Len(p) /\ p[n - 1] = q[n]
        BY <1>1, <2>1
    <2> QED
        BY <2>1, <2>2
<1>4. \A n \in 1 .. Len(p) : p[n] \in T \ {h}
    BY <1>1 DEF Enumerates
<1>5. \A m, n \in 1 .. Len(p) : p[m] = p[n] => m = n
    <2> TAKE m, n \in 1 .. Len(p)
    <2>1. m + 1 \in 1 .. Len(q) /\ n + 1 \in 1 .. Len(q)
        BY <1>1
    <2>2. HAVE p[m] = p[n]
    <2>3. q[m + 1] = q[n + 1]
        BY <1>1, <2>2
    <2>4. m + 1 = n + 1
        BY <2>1, <2>3 DEF Enumerates
    <2> QED
        BY <2>4
<1> QED
    BY <1>1, <1>2, <1>3, <1>4, <1>5 DEF Enumerates, p, h

-----------------------------------------------------------------------------
SettledCallers == {c \in Callers : phase[c] = "settled"}

LEMMA AcquireKeepsQueue ==
    ASSUME LockInv, NEW c \in Callers, Acquire(c)
    PROVE  SettledAreQueued'
<1>1. SettledCallers' = SettledCallers /\ settled' = settled
    BY DEF LockInv, EntryInv, TypeOK, Acquire, SettledCallers
<1> QED
    BY <1>1 DEF LockInv, SettledAreQueued, SettledCallers

LEMMA EnqueueKeepsQueue ==
    ASSUME LockInv, NEW c \in Callers, Enqueue(c)
    PROVE  SettledAreQueued'
<1> USE NoCallerAssumption, RepoOfAssumption
<1> DEFINE d == pending[RepoOf[c]]
<1>1. CASE d = NoCaller
    <2>1. SettledCallers' = SettledCallers /\ settled' = settled
        BY <1>1 DEF LockInv, EntryInv, TypeOK, Enqueue, SettledCallers
    <2> QED
        BY <2>1 DEF LockInv, SettledAreQueued, SettledCallers
<1>2. CASE d # NoCaller
    <2>1. d \in Callers /\ d \notin SettledCallers /\ d # c
        BY <1>2 DEF LockInv, EntryInv, TypeOK, SlotsOfRepo, EntryMatchesCallers,
                    Enqueue, SettledCallers, MaybeCaller
    <2>2. SettledCallers' = SettledCallers \cup {d} /\ settled' = Append(settled, d)
        BY <1>2, <2>1 DEF LockInv, EntryInv, TypeOK, Enqueue, SettledCallers
    <2>3. settled \in Seq(Callers) /\ Enumerates(settled, SettledCallers)
        BY DEF LockInv, EntryInv, TypeOK, SettledAreQueued, SettledCallers
    <2>4. Enumerates(settled', SettledCallers')
        BY <2>1, <2>2, <2>3, EnumeratesAppend
    <2> QED
        BY <2>4 DEF SettledAreQueued, SettledCallers
<1> QED
    BY <1>1, <1>2

LEMMA DrainNextKeepsQueue ==
    ASSUME LockInv, NEW c \in Callers, NEW ending \in Endings, DrainNext(c, ending)
    PROVE  SettledAreQueued'
<1> USE NoCallerAssumption, RepoOfAssumption
<1> DEFINE r == RepoOf[c]
           d == pending[r]
<1>1. /\ d \in Callers /\ RepoOf[d] = r /\ phase[d] = "pending"
      /\ phase[c] = "running" /\ c # d /\ c \notin SettledCallers
    BY DrainNextFacts DEF LockInv, SettledCallers
<1>2. settled \in Seq(Callers) /\ Enumerates(settled, SettledCallers)
    BY DEF LockInv, EntryInv, TypeOK, SettledAreQueued, SettledCallers
<1>3. CASE c = initial[r]
    <2>1. SettledCallers' = SettledCallers /\ settled' = settled
        BY <1>1, <1>3 DEF LockInv, EntryInv, TypeOK, DrainNext, SettledCallers
    <2> QED
        BY <1>2, <2>1 DEF SettledAreQueued, SettledCallers
<1>4. CASE c # initial[r]
    <2>1. SettledCallers' = SettledCallers \cup {c} /\ settled' = Append(settled, c)
        BY <1>1, <1>4 DEF LockInv, EntryInv, TypeOK, DrainNext, SettledCallers
    <2>2. Enumerates(settled', SettledCallers')
        BY <1>1, <1>2, <2>1, EnumeratesAppend
    <2> QED
        BY <2>2 DEF SettledAreQueued, SettledCallers
<1> QED
    BY <1>3, <1>4

LEMMA ReleaseKeepsQueue ==
    ASSUME LockInv, NEW c \in Callers, NEW ending \in Endings, Release(c, ending)
    PROVE  SettledAreQueued'
<1> USE NoCallerAssumption, RepoOfAssumption
<1> DEFINE r == RepoOf[c]
           i == initial[r]
<1>1. /\ i \in Callers /\ RepoOf[i] = r /\ phase[c] = "running"
      /\ c \notin SettledCallers /\ i \notin SettledCallers
    BY ReleaseFacts DEF LockInv, SettledCallers
<1>2. settled \in Seq(Callers) /\ Enumerates(settled, SettledCallers)
    BY DEF LockInv, EntryInv, TypeOK, SettledAreQueued, SettledCallers
<1> DEFINE q == Append(settled, c)
           T == SettledCallers \cup {c}
<1>3. q \in Seq(Callers) /\ Enumerates(q, T)
    BY <1>1, <1>2, EnumeratesAppend
<1>4. CASE c = i
    <2>1. SettledCallers' = T /\ settled' = q
        BY <1>1, <1>4 DEF LockInv, EntryInv, TypeOK, Release, SettledCallers
    <2> QED
        BY <1>3, <2>1 DEF SettledAreQueued, SettledCallers
<1>5. CASE c # i
    <2>1. SettledCallers' = T \cup {i} /\ settled' = Append(q, i)
        BY <1>1, <1>5 DEF LockInv, EntryInv, TypeOK, Release, SettledCallers
    <2>2. i \notin T
        BY <1>1, <1>5
    <2> HIDE DEF q, T
    <2>3. Enumerates(settled', SettledCallers')
        BY <1>1, <1>3, <2>1, <2>2, EnumeratesAppend
    <2> QED
        BY <2>3 DEF SettledAreQueued, SettledCallers
<1> QED
    BY <1>4, <1>5

(* Only a caller whose turn it is resumes: the head of the queue is settled, *)
(* so no entry names it.                                                     *)
LEMMA ResumeKeepsLock ==
    ASSUME LockInv, NEW c \in Callers, Resume(c)
    PROVE  LockInv'
<1> USE NoCallerAssumption, RepoOfAssumption
<1>1. settled \in Seq(Callers) /\ Enumerates(settled, SettledCallers)
    BY DEF LockInv, EntryInv, TypeOK, SettledAreQueued, SettledCallers
<1>2. /\ c \in SettledCallers
      /\ settled' \in Seq(Callers)
      /\ Enumerates(settled', SettledCallers \ {c})
    BY <1>1, EnumeratesTail DEF Resume
<1>3. SettledCallers' = SettledCallers \ {c}
    BY <1>2 DEF LockInv, EntryInv, TypeOK, Resume, SettledCallers
<1>4. TypeOK'
    BY <1>2 DEF LockInv, EntryInv, TypeOK, Resume, Phases, Results
<1>5. SlotsOfRepo'
    BY DEF LockInv, EntryInv, SlotsOfRepo, Resume
<1>6. EntryMatchesCallers'
    BY <1>2 DEF LockInv, EntryInv, TypeOK, EntryMatchesCallers, Resume, SettledCallers
<1>7. SettledAreQueued'
    BY <1>2, <1>3 DEF SettledAreQueued, SettledCallers
<1> QED
    BY <1>4, <1>5, <1>6, <1>7 DEF LockInv, EntryInv

LEMMA LockInvInit == Init => LockInv
<1> SUFFICES ASSUME Init PROVE LockInv
    OBVIOUS
<1>1. EntryInv
    BY EntryInvInit
<1>2. SettledAreQueued
    BY DEF Init, SettledAreQueued, Enumerates
<1> QED
    BY <1>1, <1>2 DEF LockInv

LEMMA LockInvStep == LockInv /\ [Next]_vars => LockInv'
<1> SUFFICES ASSUME LockInv, [Next]_vars PROVE LockInv'
    OBVIOUS
<1>1. ASSUME NEW c \in Callers, Acquire(c) PROVE LockInv'
    BY <1>1, AcquireKeepsEntry, AcquireKeepsQueue DEF LockInv
<1>2. ASSUME NEW c \in Callers, Enqueue(c) PROVE LockInv'
    BY <1>2, EnqueueKeepsEntry, EnqueueKeepsQueue DEF LockInv
<1>3. ASSUME NEW c \in Callers, NEW ending \in Endings, DrainNext(c, ending)
      PROVE  LockInv'
    BY <1>3, DrainNextKeepsEntry, DrainNextKeepsQueue DEF LockInv
<1>4. ASSUME NEW c \in Callers, NEW ending \in Endings, Release(c, ending)
      PROVE  LockInv'
    BY <1>4, ReleaseKeepsEntry, ReleaseKeepsQueue DEF LockInv
<1>5. ASSUME NEW c \in Callers, Resume(c) PROVE LockInv'
    BY <1>5, ResumeKeepsLock
<1>6. CASE UNCHANGED vars
    BY <1>6 DEF LockInv, EntryInv, TypeOK, SlotsOfRepo, EntryMatchesCallers,
                SettledAreQueued, Enumerates, vars
<1> QED
    BY <1>1, <1>2, <1>3, <1>4, <1>5, <1>6 DEF Next, Request, TaskEnds

-----------------------------------------------------------------------------
(* The entries, the callers and the microtask queue agree in every state.   *)
THEOREM LockInvariant == Spec => []LockInv
<1> QED
    BY LockInvInit, LockInvStep, PTL DEF Spec

(* The variables keep their types. *)
THEOREM LockTypes == Spec => []TypeOK
<1>1. LockInv => TypeOK
    BY DEF LockInv, EntryInv
<1> QED
    BY LockInvariant, <1>1, PTL

(* Two uploads for one repo never overlap. *)
THEOREM LockExcludes == Spec => []OneTaskPerRepo
<1>1. LockInv => OneTaskPerRepo
    BY DEF LockInv, EntryInv, EntryMatchesCallers, OneTaskPerRepo
<1> QED
    BY LockInvariant, <1>1, PTL

(* Every caller that waits is in a slot that will be drained, or its        *)
(* continuation is queued.                                                  *)
THEOREM LockForgetsNobody == Spec => []NoCallerForgotten
<1>1. LockInv => NoCallerForgotten
    BY DEF LockInv, EntryInv, NoCallerForgotten
<1> QED
    BY LockInvariant, <1>1, PTL

-----------------------------------------------------------------------------
(* Latest wins: a waiting caller loses its turn only to a newer call. *)
THEOREM LatestWins == Spec => CoalesceOnlyForNewer
<1> DEFINE Newer(c) == \E d \in Callers : /\ RepoOf[d] = RepoOf[c]
                                          /\ phase[d] = "idle"
                                          /\ phase'[d] = "pending"
<1>1. ASSUME LockInv, [Next]_vars, NEW c \in Callers,
             phase[c] = "pending", phase'[c] = "settled"
      PROVE  Newer(c)
    <2> USE NoCallerAssumption, RepoOfAssumption
    <2>1. ASSUME NEW d \in Callers, Acquire(d) PROVE FALSE
        BY <1>1, <2>1 DEF LockInv, EntryInv, TypeOK, Acquire
    <2>2. ASSUME NEW d \in Callers, Enqueue(d) PROVE Newer(c)
        <3>1. pending[RepoOf[d]] = c /\ RepoOf[c] = RepoOf[d]
            BY <1>1, <2>2
            DEF LockInv, EntryInv, TypeOK, SlotsOfRepo, EntryMatchesCallers, Enqueue
        <3>2. phase[d] = "idle" /\ phase'[d] = "pending"
            BY <1>1, <2>2, <3>1 DEF LockInv, EntryInv, TypeOK, Enqueue
        <3> QED
            BY <3>1, <3>2
    <2>3. ASSUME NEW d \in Callers, NEW ending \in Endings, DrainNext(d, ending)
          PROVE  FALSE
        <3>1. EntryInv /\ phase \in [Callers -> Phases]
            BY <1>1 DEF LockInv, EntryInv, TypeOK
        <3>2. phase[d] = "running" /\ d # c
            BY <1>1, <2>3, <3>1, DrainNextFacts
        <3>3. phase'[c] = "running" \/ phase'[c] = phase[c]
            BY <2>3, <3>1, <3>2 DEF DrainNext
        <3> QED
            BY <1>1, <3>3
    <2>4. ASSUME NEW d \in Callers, NEW ending \in Endings, Release(d, ending)
          PROVE  FALSE
        BY <1>1, <2>4, ReleaseFacts DEF LockInv, EntryInv, TypeOK, Release
    <2>5. ASSUME NEW d \in Callers, Resume(d) PROVE FALSE
        BY <1>1, <2>5 DEF LockInv, EntryInv, TypeOK, Resume
    <2>6. CASE UNCHANGED vars
        BY <1>1, <2>6 DEF vars
    <2> QED
        BY <1>1, <2>1, <2>2, <2>3, <2>4, <2>5, <2>6 DEF Next, Request, TaskEnds
<1>2. LockInv /\ [Next]_vars
      => [\A c \in Callers :
             phase[c] = "pending" /\ phase'[c] = "settled" => Newer(c)]_vars
    BY <1>1
<1> QED
    BY LockInvariant, <1>2, PTL DEF Spec, CoalesceOnlyForNewer

(* The caller that opened an entry settles only when the entry goes. *)
THEOREM InitialIsLast == Spec => InitialSettlesLast
<1>1. ASSUME LockInv, [Next]_vars, NEW r \in Repos,
             initial[r] # NoCaller, phase'[initial[r]] = "settled"
      PROVE  initial'[r] = NoCaller
    <2> USE NoCallerAssumption, RepoOfAssumption
    <2> DEFINE i == initial[r]
    <2>1. /\ i \in Callers /\ RepoOf[i] = r
          /\ phase[i] \in {"running", "draining"}
        BY <1>1
        DEF LockInv, EntryInv, TypeOK, SlotsOfRepo, EntryMatchesCallers, MaybeCaller
    <2>2. ASSUME NEW d \in Callers, Acquire(d) PROVE FALSE
        BY <1>1, <2>1, <2>2 DEF LockInv, EntryInv, TypeOK, Acquire
    <2>3. ASSUME NEW d \in Callers, Enqueue(d) PROVE FALSE
        BY <1>1, <2>1, <2>3
        DEF LockInv, EntryInv, TypeOK, SlotsOfRepo, EntryMatchesCallers, Enqueue, MaybeCaller
    <2>4. ASSUME NEW d \in Callers, NEW ending \in Endings, DrainNext(d, ending)
          PROVE  FALSE
        BY <1>1, <2>1, <2>4, DrainNextFacts DEF LockInv, EntryInv, TypeOK, DrainNext
    <2>5. ASSUME NEW d \in Callers, NEW ending \in Endings, Release(d, ending)
          PROVE  initial'[r] = NoCaller
        <3>1. CASE RepoOf[d] = r
            BY <2>5, <3>1, <1>1 DEF LockInv, EntryInv, TypeOK, Release
        <3>2. CASE RepoOf[d] # r
            BY <1>1, <2>1, <2>5, <3>2, ReleaseFacts DEF LockInv, EntryInv, TypeOK, Release
        <3> QED
            BY <3>1, <3>2
    <2>6. ASSUME NEW d \in Callers, Resume(d) PROVE FALSE
        BY <1>1, <2>1, <2>6 DEF LockInv, EntryInv, TypeOK, Resume
    <2>7. CASE UNCHANGED vars
        BY <1>1, <2>1, <2>7 DEF vars
    <2> QED
        BY <1>1, <2>2, <2>3, <2>4, <2>5, <2>6, <2>7 DEF Next, Request, TaskEnds
<1>2. LockInv /\ [Next]_vars
      => [\A r \in Repos :
             initial[r] # NoCaller /\ phase'[initial[r]] = "settled"
                 => initial'[r] = NoCaller]_vars
    BY <1>1
<1> QED
    BY LockInvariant, <1>2, PTL DEF Spec, InitialSettlesLast

(* Callers are answered in order: the two facts above together. *)
THEOREM LockSettlesInOrder == Spec => CallersSettleInOrder
    BY LatestWins, InitialIsLast DEF CallersSettleInOrder

-----------------------------------------------------------------------------
(* The refinement: `bar` is what SerialTasks calls stage.  A caller whose    *)
(* task ended is over whether it drains, or is settled; the slot and the     *)
(* entry are seen only through the callers they name.                        *)
bar == [c \in Callers |-> StageOf(phase[c])]

LEMMA StageCases ==
    /\ StageOf("idle") = "idle"
    /\ StageOf("pending") = "waiting"
    /\ StageOf("running") = "working"
    /\ StageOf("draining") = "over"
    /\ StageOf("settled") = "over"
BY DEF StageOf

(* Who works and who waits for a caller's repo, as the entry tells it. *)
LEMMA AbstractSets ==
    ASSUME EntryInv, NEW c \in Callers
    PROVE  /\ Serial!Busy(c) = {d \in Callers : d = current[RepoOf[c]]}
           /\ Serial!Waiting(c) = {d \in Callers : d = pending[RepoOf[c]]}
<1> USE NoCallerAssumption, RepoOfAssumption
<1>1. \A d \in Callers : /\ bar[d] = "working" <=> phase[d] = "running"
                         /\ bar[d] = "waiting" <=> phase[d] = "pending"
    BY StageCases DEF EntryInv, TypeOK, Phases, bar
<1>2. \A d \in Callers : d = current[RepoOf[c]] <=> RepoOf[d] = RepoOf[c] /\ phase[d] = "running"
    BY DEF EntryInv, SlotsOfRepo, EntryMatchesCallers
<1>3. \A d \in Callers : d = pending[RepoOf[c]] <=> RepoOf[d] = RepoOf[c] /\ phase[d] = "pending"
    BY DEF EntryInv, SlotsOfRepo, EntryMatchesCallers
<1>4. /\ Serial!Busy(c) = {d \in Serial!Peers(c) : bar[d] = "working"}
      /\ Serial!Waiting(c) = {d \in Serial!Peers(c) : bar[d] = "waiting"}
    BY DEF Serial!Busy, Serial!Waiting, bar
<1> QED
    BY <1>1, <1>2, <1>3, <1>4 DEF Serial!Peers

LEMMA AcquireIsBegin ==
    ASSUME EntryInv, NEW c \in Callers, Acquire(c)
    PROVE  Serial!Begin(c)
<1> USE NoCallerAssumption, RepoOfAssumption
<1>1. phase \in [Callers -> Phases] /\ phase[c] = "idle"
    BY DEF EntryInv, TypeOK, Acquire
<1>2. Serial!Busy(c) = {}
    BY AbstractSets DEF EntryInv, EntryMatchesCallers, Acquire
<1>3. bar[c] = "idle" /\ bar' = [bar EXCEPT ![c] = "working"]
    BY <1>1, StageCases DEF Acquire, bar
<1> QED
    BY <1>2, <1>3 DEF Serial!Begin, bar

LEMMA EnqueueIsJoin ==
    ASSUME EntryInv, NEW c \in Callers, Enqueue(c)
    PROVE  Serial!Join(c)
<1> USE NoCallerAssumption, RepoOfAssumption
<1> DEFINE r == RepoOf[c]
           d == pending[r]
<1>1. /\ r \in Repos /\ d \in MaybeCaller /\ current[r] \in Callers
      /\ phase \in [Callers -> Phases] /\ phase[c] = "idle"
      /\ d # c
    BY DEF EntryInv, TypeOK, Enqueue, EntryMatchesCallers, MaybeCaller
<1>2. Serial!Busy(c) # {}
    BY <1>1, AbstractSets
<1>3. bar' = [e \in Callers |-> IF e = c THEN "waiting"
                                ELSE IF e = d THEN "over" ELSE bar[e]]
    <2>1. CASE d = NoCaller
        BY <1>1, <2>1, StageCases DEF Enqueue, bar
    <2>2. CASE d # NoCaller
        <3>1. phase' = [phase EXCEPT ![c] = "pending", ![d] = "settled"]
            BY <2>2 DEF Enqueue
        <3> QED
            BY <1>1, <3>1, StageCases DEF bar
    <2> QED
        BY <2>1, <2>2
<1>4. bar' = [e \in Callers |-> IF e = c THEN "waiting"
                                ELSE IF e \in Serial!Waiting(c) THEN "over" ELSE bar[e]]
    BY <1>3, AbstractSets
<1>5. bar[c] = "idle"
    BY <1>1, StageCases DEF bar
<1> QED
    BY <1>2, <1>4, <1>5 DEF Serial!Join, bar

LEMMA DrainNextIsEnd ==
    ASSUME EntryInv, NEW c \in Callers, NEW ending \in Endings, DrainNext(c, ending)
    PROVE  Serial!End(c)
<1> DEFINE d == pending[RepoOf[c]]
<1>1. /\ phase \in [Callers -> Phases] /\ phase[c] = "running"
      /\ d \in Callers /\ d # c
    BY DrainNextFacts DEF EntryInv, TypeOK
<1>2. d \in Serial!Waiting(c)
    BY <1>1, AbstractSets
<1>3. PICK over \in {"draining", "settled"} :
          phase' = [phase EXCEPT ![c] = over, ![d] = "running"]
    BY DEF DrainNext
<1>4. bar[c] = "working" /\ bar' = [bar EXCEPT ![c] = "over", ![d] = "working"]
    BY <1>1, <1>3, StageCases DEF bar
<1> QED
    BY <1>2, <1>4 DEF Serial!End, bar

LEMMA ReleaseIsEnd ==
    ASSUME EntryInv, NEW c \in Callers, NEW ending \in Endings, Release(c, ending)
    PROVE  Serial!End(c)
<1> USE NoCallerAssumption
<1> DEFINE i == initial[RepoOf[c]]
<1>1. /\ phase \in [Callers -> Phases] /\ phase[c] = "running"
      /\ i \in Callers /\ RepoOf[i] = RepoOf[c]
      /\ phase[i] \in {"running", "draining"}
      /\ current[RepoOf[c]] = c /\ pending[RepoOf[c]] = NoCaller
    BY ReleaseFacts DEF EntryInv, TypeOK
<1>2. Serial!Waiting(c) = {}
    BY <1>1, AbstractSets
<1>3. i # c => phase[i] = "draining"
    BY <1>1 DEF EntryInv, EntryMatchesCallers
<1>4. phase' = [phase EXCEPT ![c] = "settled", ![i] = "settled"]
    BY DEF Release
<1>5. bar[c] = "working" /\ bar' = [bar EXCEPT ![c] = "over"]
    BY <1>1, <1>3, <1>4, StageCases DEF bar
<1> QED
    BY <1>2, <1>5 DEF Serial!End, bar

LEMMA ResumeIsLeave ==
    ASSUME LockInv, NEW c \in Callers, Resume(c)
    PROVE  Serial!Leave(c)
<1>1. settled \in Seq(Callers) /\ Enumerates(settled, SettledCallers)
    BY DEF LockInv, EntryInv, TypeOK, SettledAreQueued, SettledCallers
<1>2. phase[c] = "settled" /\ phase \in [Callers -> Phases]
    <2>1. c \in SettledCallers
        BY <1>1, EnumeratesTail DEF Resume
    <2> QED
        BY <2>1 DEF SettledCallers, LockInv, EntryInv, TypeOK
<1>3. bar[c] = "over" /\ bar' = [bar EXCEPT ![c] = "idle"]
    BY <1>2, StageCases DEF Resume, bar
<1> QED
    BY <1>3 DEF Serial!Leave, bar

(* withPublishLock implements one-at-a-time tasks with one newest waiter. *)
THEOREM LockImplementsSerialTasks == Spec => ImplementsSerialTasks
<1>1. Init => Serial!Init
    BY StageCases DEF Init, Serial!Init
<1>2. LockInv /\ [Next]_vars => [Serial!Next]_bar
    <2> SUFFICES ASSUME LockInv, [Next]_vars PROVE [Serial!Next]_bar
        OBVIOUS
    <2>1. EntryInv
        BY DEF LockInv
    <2>2. ASSUME NEW c \in Callers, Acquire(c) PROVE Serial!Next
        BY <2>1, <2>2, AcquireIsBegin DEF Serial!Next
    <2>3. ASSUME NEW c \in Callers, Enqueue(c) PROVE Serial!Next
        BY <2>1, <2>3, EnqueueIsJoin DEF Serial!Next
    <2>4. ASSUME NEW c \in Callers, NEW ending \in Endings, DrainNext(c, ending)
          PROVE  Serial!Next
        BY <2>1, <2>4, DrainNextIsEnd DEF Serial!Next
    <2>5. ASSUME NEW c \in Callers, NEW ending \in Endings, Release(c, ending)
          PROVE  Serial!Next
        BY <2>1, <2>5, ReleaseIsEnd DEF Serial!Next
    <2>6. ASSUME NEW c \in Callers, Resume(c) PROVE Serial!Next
        BY <2>6, ResumeIsLeave DEF Serial!Next
    <2>7. CASE UNCHANGED vars
        BY <2>7 DEF vars, bar
    <2> QED
        BY <2>2, <2>3, <2>4, <2>5, <2>6, <2>7 DEF Next, Request, TaskEnds
<1>3. LockInv /\ [Next]_vars => [Serial!Next]_([c \in Callers |-> StageOf(phase[c])])
    BY <1>2 DEF bar
<1> QED
    BY LockInvariant, <1>1, <1>3, PTL DEF Spec, ImplementsSerialTasks, Serial!Spec

=============================================================================
