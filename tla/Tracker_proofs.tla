---------------------------- MODULE Tracker_proofs ----------------------------
(***************************************************************************)
(* Proofs about the tracker: the branch with its authors and mirrors       *)
(* (Tracker), and the files and the documents built from them              *)
(* (TrackerFiles), for any number of requests, proposals, commits, issues, *)
(* epics, events and failures.                                             *)
(*                                                                         *)
(* Tracker.  No author may be trusted with more than a tree that folds, so *)
(* LogInv says of each commit that it is such a tree (Sources) and that it *)
(* keeps what the commits before it had (Extends).  That MAX + 1 is free   *)
(* rests on NoGaps: the numbers of a tree are an interval from 1.  Between *)
(* its steps a request has one of the Jobs; the one that takes a proposal  *)
(* off the inbox has its issue on the branch, or was asked to dismiss it.  *)
(*                                                                         *)
(* TrackerFiles.  FilesInv is the types of the files, that an issue that   *)
(* is there has a category and an epic that is there, and that the issues  *)
(* are numbered without gaps where the board reads the numbers.  That the  *)
(* fold of a log gives what the log says is shown for its beginnings by    *)
(* the principle of the least number (LeastNumber): the shortest beginning *)
(* where they differed would be one event longer than one where they       *)
(* agree.  BoardFollows takes that through the three documents and the     *)
(* parser: what the names of classes tell (ClassesTell), and the namespace *)
(* (OneNamespace).                                                         *)
(***************************************************************************)
EXTENDS MCTracker, SequenceTheorems, FiniteSetTheorems, WellFoundedInduction, TLAPS

(* ------------------------- The invariant of Tracker -------------------- *)

Slug == Seq(Words \cup Nat)

NumbersOf(issues) == {i.n : i \in issues}
NamesOf(src)      == {<<i.n, i.from>> : i \in src.issues}

(* The numbers of the issues, or of the rows of the table, have no gaps: so *)
(* there is a largest one, and MAX + 1 is free.                             *)
NoGaps(S) == \E m \in Nat : S = 1 .. m

SourceType ==
    [issues : SUBSET [n : Nat \ {0}, epic : {None} \cup Slug,
                      from : {Owner} \cup Proposals, events : Seq(Events)],
     epics  : Seq(Slug)]

(* A source tree that every author may build on. *)
Sources ==
    {s \in SourceType :
        /\ Foldable(s)
        /\ NoGaps(NumbersOf(s.issues))
        /\ \A i, j \in s.issues : i.n = j.n => i = j
        /\ \A i \in s.issues : i.epic \in {None} \cup Range(s.epics)}

(* What a commit keeps of the one before it. *)
Extends(old, new) ==
    NamesOf(old) \subseteq NamesOf(new) /\ Range(old.epics) \subseteq Range(new.epics)

LogInv ==
    /\ Len(log) \in Commit
    /\ log \in Seq({Built(s) : s \in Sources})
    /\ \A c \in DOMAIN log : \A d \in 1 .. c : Extends(log[d].src, log[c].src)

(* What a request may be: what it has cloned is on the branch and what it   *)
(* is about to write can be folded; the proposal it is about to take off    *)
(* the inbox has its issue on the branch, or is to be dismissed.            *)
IssueJobs  == {job \in [op : {"issue"}, at : {"push"}, arg : {None} \cup Slug,
                        base : DOMAIN log] :
                  job.arg \in {None} \cup Range(log[job.base].src.epics)}
EpicJobs   == {job \in [op : {"epic"}, at : {"push"}, arg : Titles, base : DOMAIN log] :
                  Foldable(WithEpic(log[job.base], job.arg))}
Unread     == [op : {"accept"}, at : {"checkout"}, arg : Proposals, base : {0}]
AcceptJobs == [op : {"accept"}, at : {"push"}, arg : Proposals, base : DOMAIN log]
TakenOff   == {job \in [op : {"accept"}, at : {"delete"}, arg : Proposals,
                        base : DOMAIN log] :
                  \E i \in log[Len(log)].src.issues : i.from = job.arg}
Dismissals == [op : {"dismiss"}, at : {"delete"}, arg : Proposals, base : {0}]
Boards     == [op : {"board"}, at : {"pod", "git"}, arg : {None}, base : DOMAIN log]

Jobs == {Idle} \cup IssueJobs \cup EpicJobs \cup Unread \cup AcceptJobs
               \cup TakenOff \cup Dismissals \cup Boards

RequestInv == request \in [Requests -> Jobs]

(* What a mirror has read, and what is in the pod by then. *)
MirrorType == [at : {"state", "epics", "put epics", "put state", "read"},
               state : 0 .. Len(log), epics : 0 .. Len(log)]
PodInv ==
    /\ pod \in [epics : 0 .. Len(log), state : 0 .. Len(log)]
    /\ pod.state # 0 => pod.epics # 0
    /\ Running \subseteq DOMAIN log
    /\ \A c \in Running :
          /\ mirror[c] \in MirrorType
          /\ mirror[c].at # "state" => mirror[c].state # 0
          /\ mirror[c].at = "put epics" => mirror[c].epics # 0
          /\ mirror[c].at = "put state" => pod.epics # 0
          /\ mirror[c].at = "read" => pod.state # 0

RowsInv ==
    /\ NoGaps(DOMAIN rows)
    /\ \A n \in DOMAIN rows : rows[n] \in {"flat", "tracker"}

SmallInv == /\ inbox \in [Proposals -> {"unsent", "there", "gone"}]
            /\ mishaps \in 0 .. MaxMishaps

TrackerInv == LogInv /\ RequestInv /\ PodInv /\ RowsInv /\ SmallInv

(* -------------------------- What a tree is made of --------------------- *)

(* The numbers a document shows are those of the tree. *)
LEMMA FoldNumbers ==
    ASSUME NEW src
    PROVE  NumbersOf(Fold(src).issues) = NumbersOf(src.issues)
<1> DEFINE Shows(i) == [n |-> i.n, epic |-> i.epic, from |-> i.from,
                        open |-> FoldEvents(i.events) \notin Closed]
<1>1. Fold(src).issues = {Shows(i) : i \in src.issues}
  BY DEF Fold
<1>2. \A i : Shows(i).n = i.n
  OBVIOUS
<1> HIDE DEF Shows
<1> QED BY <1>1, <1>2 DEF NumbersOf

LEMMA MaxOfInterval ==
    ASSUME NEW m \in Nat
    PROVE  Max({0} \cup 1 .. m) = m
<1> DEFINE S == {0} \cup 1 .. m
<1>1. m \in S /\ \A y \in S : m >= y
  OBVIOUS
<1>2. \A x \in S : (\A y \in S : x >= y) => x = m
  OBVIOUS
<1>3. Max(S) \in S /\ \A y \in S : Max(S) >= y
  <2> HIDE DEF S
  <2> QED BY <1>1 DEF Max
<1> QED BY <1>2, <1>3

(* The next number of a tree without gaps is the one after all of them. *)
LEMMA NextIsFree ==
    ASSUME NEW src, NEW m \in Nat, NumbersOf(src.issues) = 1 .. m
    PROVE  NextNumber(Built(src)) = m + 1
<1>1. NextNumber(Built(src)) = 1 + Max({0} \cup NumbersOf(Fold(src).issues))
  BY DEF NextNumber, Built, NumbersOf
<1>2. NumbersOf(Fold(src).issues) = 1 .. m
  BY FoldNumbers
<1>3. NextNumber(Built(src)) = 1 + Max({0} \cup 1 .. m)
  BY <1>1, <1>2
<1> QED BY <1>3, MaxOfInterval

LEMMA SourceFacts ==
    ASSUME NEW s \in Sources
    PROVE  /\ s \in SourceType
           /\ s.epics \in Seq(Slug)
           /\ Range(s.epics) \subseteq Slug
<1>1. s.epics \in Seq(Slug)
  BY DEF Sources, SourceType
<1>2. \A k \in DOMAIN s.epics : s.epics[k] \in Slug
  BY <1>1
<1> QED BY <1>1, <1>2 DEF Sources, Range

(* createMindIssue: the tree stays one that others may build on. *)
LEMMA WithIssueIsSource ==
    ASSUME NEW s \in Sources, NEW epic \in {None} \cup Range(s.epics),
           NEW from \in {Owner} \cup Proposals
    PROVE  LET t == WithIssue(Built(s), epic, from) IN
           /\ t \in Sources
           /\ Extends(s, t)
           /\ \E i \in t.issues : i.from = from
<1> DEFINE t == WithIssue(Built(s), epic, from)
<1>1. PICK m \in Nat : NumbersOf(s.issues) = 1 .. m
  BY DEF Sources, NoGaps
<1> DEFINE new == [n |-> m + 1, epic |-> epic, from |-> from, events |-> <<"todo">>]
<1>2. t = [s EXCEPT !.issues = @ \cup {new}]
  BY <1>1, NextIsFree DEF WithIssue, Built
<1>3. new \in [n : Nat \ {0}, epic : {None} \cup Slug, from : {Owner} \cup Proposals,
               events : Seq(Events)]
  <2>1. <<"todo">> \in Seq(Events)
    BY DEF Events
  <2> QED BY <2>1, SourceFacts
<1>4. s \in SourceType
  BY SourceFacts
<1>5. t \in SourceType /\ t.issues = s.issues \cup {new} /\ t.epics = s.epics
  <2> HIDE DEF new, t
  <2> QED BY <1>2, <1>3, <1>4 DEF SourceType
<1>6. NumbersOf(t.issues) = NumbersOf(s.issues) \cup {m + 1}
  <2>1. new.n = m + 1
    OBVIOUS
  <2> HIDE DEF t, new
  <2> QED BY <1>5, <2>1 DEF NumbersOf
<1>7. NoGaps(NumbersOf(t.issues))
  <2> HIDE DEF t
  <2>1. 1 .. (m + 1) = (1 .. m) \cup {m + 1}
    OBVIOUS
  <2> QED BY <1>1, <1>6, <2>1 DEF NoGaps
<1>8. \A i \in s.issues : i.n \in 1 .. m
  BY <1>1 DEF NumbersOf
<1>9. \A i, j \in t.issues : i.n = j.n => i = j
  <2>1. \A i, j \in s.issues : i.n = j.n => i = j
    BY DEF Sources
  <2>2. \A i \in s.issues : i.n # new.n
    BY <1>8
  <2> HIDE DEF new, t
  <2> QED BY <1>5, <2>1, <2>2
<1>10. \A i \in t.issues : i.epic \in {None} \cup Range(t.epics)
  <2>1. \A i \in s.issues : i.epic \in {None} \cup Range(s.epics)
    BY DEF Sources
  <2>2. new.epic = epic
    OBVIOUS
  <2> HIDE DEF new, t
  <2> QED BY <1>5, <2>1, <2>2
<1>11. Foldable(t)
  <2> HIDE DEF t
  <2> QED BY <1>5 DEF Foldable, Sources
<1>12. Extends(s, t)
  <2> HIDE DEF t, new
  <2> QED BY <1>5 DEF Extends, NamesOf
<1>13. \E i \in t.issues : i.from = from
  <2>1. new.from = from
    OBVIOUS
  <2> HIDE DEF t, new
  <2> QED BY <1>5, <2>1
<1>14. t \in Sources
  <2> HIDE DEF t
  <2> QED BY <1>5, <1>7, <1>9, <1>10, <1>11 DEF Sources
<1> QED BY <1>12, <1>13, <1>14

(* createMindEpic: a tree that folds with the epic in it is a source again. *)
LEMMA WithEpicIsSource ==
    ASSUME NEW s \in Sources, NEW title \in Titles,
           Foldable(WithEpic(Built(s), title))
    PROVE  /\ WithEpic(Built(s), title) \in Sources
           /\ Extends(s, WithEpic(Built(s), title))
<1> DEFINE slug == EpicSlug(s, title)
           t == [s EXCEPT !.epics = Append(@, slug)]
<1>1. WithEpic(Built(s), title) = t
  BY DEF WithEpic, Built
<1>2. s \in SourceType /\ s.epics \in Seq(Slug)
  BY SourceFacts
<1>3. slug \in Slug
  <2>1. title \in Seq(Words \cup Nat)
    BY TitlesAssumption
  <2>2. Len(s.epics) + 1 \in Words \cup Nat
    BY <1>2
  <2> QED BY <2>1, <2>2 DEF EpicSlug, Slug
<1> HIDE DEF slug
<1>4. t \in SourceType /\ t.issues = s.issues /\ t.epics = Append(s.epics, slug)
  BY <1>2, <1>3 DEF SourceType
<1>5. Range(s.epics) \subseteq Range(t.epics)
  <2>1. \A k \in DOMAIN s.epics : k \in DOMAIN t.epics /\ t.epics[k] = s.epics[k]
    BY <1>2, <1>3, <1>4
  <2> HIDE DEF t
  <2> QED BY <2>1 DEF Range
<1>6. Foldable(t)
  BY <1>1
<1> HIDE DEF t
<1>7. t \in Sources
  BY <1>4, <1>5, <1>6 DEF Sources
<1>8. Extends(s, t)
  BY <1>4, <1>5 DEF Extends, NamesOf
<1> QED BY <1>1, <1>7, <1>8

(* Another event of an issue changes neither its number nor its epic. *)
LEMMA MovedIsSource ==
    ASSUME NEW s \in Sources, NEW i \in s.issues, NEW to \in Events
    PROVE  LET t == [s EXCEPT !.issues =
                        (@ \ {i}) \cup {[i EXCEPT !.events = Append(@, to)]}] IN
           t \in Sources /\ Extends(s, t)
<1> DEFINE moved == [i EXCEPT !.events = Append(@, to)]
           t == [s EXCEPT !.issues = (@ \ {i}) \cup {moved}]
<1>1. s \in SourceType
  BY SourceFacts
<1> DEFINE Iss == [n : Nat \ {0}, epic : {None} \cup Slug, from : {Owner} \cup Proposals,
                   events : Seq(Events)]
<1>2. i \in Iss
  BY <1>1 DEF SourceType
<1>3. /\ moved \in Iss
      /\ moved.n = i.n /\ moved.epic = i.epic /\ moved.from = i.from
  <2>1. Append(i.events, to) \in Seq(Events)
    BY <1>2
  <2> QED BY <1>2, <2>1
<1> HIDE DEF moved
<1>4. t.issues = (s.issues \ {i}) \cup {moved} /\ t.epics = s.epics /\ t \in SourceType
  BY <1>1, <1>3 DEF SourceType
<1> HIDE DEF t, Iss
<1>5. NumbersOf(t.issues) = NumbersOf(s.issues)
  BY <1>3, <1>4 DEF NumbersOf
<1>6. NamesOf(t) = NamesOf(s)
  BY <1>3, <1>4 DEF NamesOf
<1>7. \A a1, a2 \in s.issues : a1.n = a2.n => a1 = a2
  BY DEF Sources
<1>8. \A a1, a2 \in t.issues : a1.n = a2.n => a1 = a2
  BY <1>3, <1>4, <1>7
<1>9. \A a1 \in t.issues : a1.epic \in {None} \cup Range(t.epics)
  BY <1>3, <1>4 DEF Sources
<1>10. t \in Sources
  BY <1>4, <1>5, <1>8, <1>9 DEF Sources, Foldable
<1> QED BY <1>4, <1>6, <1>10 DEF Extends, t, moved

(* ------------------------------ The branch ----------------------------- *)

LEMMA LogFacts ==
    ASSUME LogInv
    PROVE  /\ Len(log) \in Nat \ {0} /\ DOMAIN log = 1 .. Len(log)
           /\ Len(log) <= MaxCommits
           /\ \A c \in DOMAIN log : log[c] = Built(log[c].src) /\ log[c].src \in Sources
<1>1. Len(log) \in Nat \ {0} /\ DOMAIN log = 1 .. Len(log) /\ Len(log) <= MaxCommits
  BY BoundsAssumption DEF LogInv, Commit
<1>2. \A c \in DOMAIN log : log[c] \in {Built(s) : s \in Sources}
  BY DEF LogInv
<1>3. \A s : Built(s).src = s
  BY DEF Built
<1>4. \A c \in DOMAIN log : log[c] = Built(log[c].src) /\ log[c].src \in Sources
  <2> TAKE c \in DOMAIN log
  <2>1. PICK s \in Sources : log[c] = Built(s)
    BY <1>2
  <2> QED BY <1>3, <2>1
<1> QED BY <1>1, <1>4

(* A push puts a commit on the end of the branch. *)
Pushed(s) ==
    /\ Len(log') = Len(log) + 1
    /\ DOMAIN log' = 1 .. (Len(log) + 1)
    /\ \A c \in DOMAIN log : log'[c] = log[c]
    /\ log'[Len(log) + 1] = Built(s)

LEMMA LandPushes ==
    ASSUME LogInv, NEW s \in Sources, Land(Built(s))
    PROVE  Pushed(s)
<1>1. log \in Seq({Built(t) : t \in Sources}) /\ log' = Append(log, Built(s))
  BY DEF LogInv, Land
<1> QED BY <1>1 DEF Pushed

LEMMA LandKeepsLog ==
    ASSUME LogInv, NEW s \in Sources, Land(Built(s)), Extends(log[Len(log)].src, s)
    PROVE  LogInv'
<1> DEFINE n == Len(log)
<1>1. Pushed(s)
  BY LandPushes
<1>2. n \in Nat \ {0} /\ DOMAIN log = 1 .. n
  BY LogFacts
<1>3. Len(log') \in Commit
  <2>1. n < MaxCommits /\ MaxCommits \in Nat
    BY BoundsAssumption DEF Land
  <2> QED BY <1>1, <1>2, <2>1 DEF Commit, Pushed
<1>4. log' \in Seq({Built(t) : t \in Sources})
  BY DEF LogInv, Land
<1>5. ASSUME NEW c \in DOMAIN log', NEW d \in 1 .. c
      PROVE  Extends(log'[d].src, log'[c].src)
  <2>1. c \in 1 .. (n + 1)
    BY <1>1 DEF Pushed
  <2>2. CASE c \in 1 .. n
    <3>1. log'[c] = log[c] /\ log'[d] = log[d]
      BY <1>1, <1>2, <2>2 DEF Pushed
    <3> QED BY <1>2, <2>2, <3>1 DEF LogInv
  <2>3. CASE c = n + 1
    <3>1. log'[c].src = s
      BY <1>1, <2>3 DEF Pushed, Built
    <3>2. CASE d = n + 1
      BY <2>3, <3>1, <3>2 DEF Extends
    <3>3. CASE d \in 1 .. n
      <4>1. log'[d] = log[d]
        BY <1>1, <1>2, <3>3 DEF Pushed
      <4>2. Extends(log[d].src, log[n].src)
        BY <1>2, <3>3 DEF LogInv
      <4> QED BY <3>1, <4>1, <4>2 DEF Extends
    <3> QED BY <1>2, <2>3, <3>2, <3>3
  <2> QED BY <1>2, <2>1, <2>2, <2>3
<1> QED BY <1>3, <1>4, <1>5 DEF LogInv

(* What the others have asked for stands when the branch grows. *)
LEMMA JobsStand ==
    ASSUME LogInv, NEW s \in Sources, Land(Built(s)), Extends(log[Len(log)].src, s)
    PROVE  Jobs \subseteq Jobs'
<1> DEFINE n == Len(log)
<1>1. Pushed(s)
  BY LandPushes
<1>2. n \in Nat \ {0} /\ DOMAIN log = 1 .. n
  BY LogFacts
<1>3. DOMAIN log \subseteq DOMAIN log' /\ \A c \in DOMAIN log : log'[c] = log[c]
  BY <1>1, <1>2 DEF Pushed
<1>4. IssueJobs \subseteq IssueJobs'
  BY <1>3 DEF IssueJobs
<1>5. EpicJobs \subseteq EpicJobs'
  <2> SUFFICES ASSUME NEW job \in EpicJobs PROVE job \in EpicJobs'
    OBVIOUS
  <2>1. job \in [op : {"epic"}, at : {"push"}, arg : Titles, base : DOMAIN log]
        /\ Foldable(WithEpic(log[job.base], job.arg))
    BY DEF EpicJobs
  <2>2. log'[job.base] = log[job.base]
    BY <1>3, <2>1
  <2>3. job \in [op : {"epic"}, at : {"push"}, arg : Titles, base : DOMAIN log']
    BY <1>3, <2>1
  <2> QED BY <2>1, <2>2, <2>3 DEF EpicJobs
<1>6. AcceptJobs \subseteq AcceptJobs' /\ Boards \subseteq Boards'
  BY <1>3 DEF AcceptJobs, Boards
<1>7. TakenOff \subseteq TakenOff'
  <2> SUFFICES ASSUME NEW job \in TakenOff PROVE job \in TakenOff'
    OBVIOUS
  <2>1. job \in [op : {"accept"}, at : {"delete"}, arg : Proposals, base : DOMAIN log]
    BY DEF TakenOff
  <2>2. PICK i \in log[n].src.issues : i.from = job.arg
    BY DEF TakenOff
  <2>3. log'[Len(log')].src = s
    BY <1>1 DEF Pushed, Built
  <2>4. <<i.n, i.from>> \in NamesOf(s)
    BY <2>2 DEF Extends, NamesOf
  <2>5. \E j \in s.issues : j.from = job.arg
    BY <2>2, <2>4 DEF NamesOf
  <2>6. job \in [op : {"accept"}, at : {"delete"}, arg : Proposals, base : DOMAIN log']
    BY <1>3, <2>1
  <2> QED BY <2>3, <2>5, <2>6 DEF TakenOff
<1>8. Unread' = Unread /\ Dismissals' = Dismissals /\ Idle' = Idle
  BY DEF Unread, Dismissals, Idle
<1> QED BY <1>4, <1>5, <1>6, <1>7, <1>8 DEF Jobs

(* A push starts a mirror, and leaves the pod and the other mirrors alone. *)
LEMMA LandKeepsPod ==
    ASSUME LogInv, PodInv, NEW s \in Sources, Land(Built(s)), UNCHANGED pod
    PROVE  PodInv'
<1> DEFINE n == Len(log)
<1>1. Pushed(s)
  BY LandPushes
<1>2. n \in Nat \ {0} /\ DOMAIN log = 1 .. n
  BY LogFacts
<1>3. 0 .. n \subseteq 0 .. Len(log') /\ DOMAIN log \subseteq DOMAIN log'
      /\ n + 1 \in DOMAIN log'
  BY <1>1, <1>2 DEF Pushed
<1>4. MirrorType \subseteq MirrorType'
  BY <1>3 DEF MirrorType
<1>5. MirrorJob \in MirrorType'
  BY <1>1, <1>2 DEF MirrorType, MirrorJob, Pushed
<1>6. /\ Running' = Running \cup {n + 1}
      /\ \A c \in Running : mirror'[c] = mirror[c]
      /\ \A c \in Running' : c \in Running \/ mirror'[c] = MirrorJob
  BY DEF Land, Running
<1>7. pod' \in [epics : 0 .. Len(log'), state : 0 .. Len(log')]
  BY <1>3 DEF PodInv
<1>8. Running' \subseteq DOMAIN log'
  BY <1>3, <1>6 DEF PodInv
<1>9. ASSUME NEW c \in Running'
      PROVE  /\ mirror'[c] \in MirrorType'
             /\ mirror'[c].at # "state" => mirror'[c].state # 0
             /\ mirror'[c].at = "put epics" => mirror'[c].epics # 0
             /\ mirror'[c].at = "put state" => pod'.epics # 0
             /\ mirror'[c].at = "read" => pod'.state # 0
  <2>1. CASE c \in Running
    BY <1>4, <1>6, <2>1 DEF PodInv
  <2>2. CASE mirror'[c] = MirrorJob
    BY <1>5, <2>2 DEF MirrorJob
  <2> QED BY <1>6, <2>1, <2>2
<1> QED BY <1>7, <1>8, <1>9 DEF PodInv

(* ------------------------------ The steps ------------------------------ *)

LEMMA InitHolds == Init => TrackerInv
<1> SUFFICES ASSUME Init PROVE TrackerInv
  OBVIOUS
<1> DEFINE first == [issues |-> {}, epics |-> SetToSeq(Old)]
<1>1. SetToSeq(Old) \in [1 .. Cardinality(Old) -> Old] /\ IsInjective(SetToSeq(Old))
  <2>1. IsFiniteSet(Old)
    BY TitlesAssumption
  <2>2. Cardinality(Old) \in Nat /\ ExistsBijection(1 .. Cardinality(Old), Old)
    BY <2>1, FS_CardinalityType
  <2>3. PICK f \in [1 .. Cardinality(Old) -> Old] : IsInjective(f)
    BY <2>2 DEF ExistsBijection, Bijection, Injection
  <2> QED BY <2>3 DEF SetToSeq
<1>2. SetToSeq(Old) \in Seq(Slug)
  <2>1. Cardinality(Old) \in Nat
    BY TitlesAssumption, FS_CardinalityType
  <2>2. Old \subseteq Slug
    BY TitlesAssumption DEF Slug
  <2> QED BY <1>1, <2>1, <2>2
<1>3. first \in Sources
  <2>1. first \in SourceType
    BY <1>2 DEF SourceType
  <2>2. NoGaps({})
    <3>1. {} = 1 .. 0
      OBVIOUS
    <3> QED BY <3>1 DEF NoGaps
  <2>3. NumbersOf(first.issues) = {}
    BY DEF NumbersOf
  <2>4. Foldable(first)
    BY <1>1 DEF Foldable
  <2> QED BY <2>1, <2>2, <2>3, <2>4 DEF Sources
<1>4. log = <<Built(first)>>
  BY DEF Init
<1> HIDE DEF first
<1>5. Len(log) = 1 /\ DOMAIN log = {1} /\ log[1] = Built(first)
  BY <1>4
<1>6. LogInv
  <2>1. Len(log) \in Commit
    BY <1>5, BoundsAssumption DEF Commit
  <2>2. log \in Seq({Built(s) : s \in Sources})
    BY <1>3, <1>4
  <2>3. \A c \in DOMAIN log : \A d \in 1 .. c : d = c
    BY <1>5
  <2> QED BY <2>1, <2>2, <2>3 DEF LogInv, Extends
<1>7. RequestInv
  BY DEF Init, RequestInv, Jobs
<1>8. PodInv
  <2>1. pod = [epics |-> 0, state |-> 0]
    BY DEF Init
  <2>2. DOMAIN mirror = {1} /\ mirror[1] = MirrorJob
    BY DEF Init
  <2>3. MirrorJob \in MirrorType /\ MirrorJob.at = "state"
    BY <1>5 DEF MirrorType, MirrorJob
  <2>4. pod \in [epics : 0 .. Len(log), state : 0 .. Len(log)] /\ pod.state = 0
    BY <1>5, <2>1
  <2>5. \A c \in Running : mirror[c] = MirrorJob
    BY <2>2 DEF Running
  <2>6. Running \subseteq DOMAIN log
    BY <1>5, <2>2 DEF Running
  <2> QED BY <2>3, <2>4, <2>5, <2>6 DEF PodInv
<1>9. RowsInv
  <2>1. DOMAIN rows = 1 .. 0
    BY DEF Init
  <2> QED BY <2>1 DEF RowsInv, NoGaps
<1>10. SmallInv
  BY BoundsAssumption DEF Init, SmallInv
<1> QED BY <1>6, <1>7, <1>8, <1>9, <1>10 DEF TrackerInv

(* What one step leaves alone stays as it was. *)
LEMMA SameLog ==
    ASSUME UNCHANGED log
    PROVE  /\ LogInv => LogInv'
           /\ Jobs' = Jobs /\ MirrorType' = MirrorType
<1>1. IssueJobs' = IssueJobs /\ EpicJobs' = EpicJobs
  BY DEF IssueJobs, EpicJobs
<1>2. AcceptJobs' = AcceptJobs /\ TakenOff' = TakenOff
  BY DEF AcceptJobs, TakenOff
<1>3. Unread' = Unread /\ Dismissals' = Dismissals /\ Idle' = Idle /\ Boards' = Boards
  BY DEF Unread, Dismissals, Idle, Boards
<1> QED BY <1>1, <1>2, <1>3 DEF LogInv, Jobs, MirrorType

LEMMA SameLogRequests ==
    ASSUME LogInv, RequestInv, UNCHANGED log,
           request' = request \/ \E r \in Requests, job \in Jobs :
                                    request' = [request EXCEPT ![r] = job]
    PROVE  LogInv' /\ RequestInv'
  BY SameLog DEF RequestInv

LEMMA SamePod ==
    ASSUME PodInv, UNCHANGED <<log, pod, mirror>>
    PROVE  PodInv'
  BY SameLog DEF PodInv, Running

(* A step of a request that does not push. *)
LEMMA QuietRequest ==
    ASSUME TrackerInv, NEW r \in Requests, NEW job \in Jobs,
           request' = [request EXCEPT ![r] = job],
           UNCHANGED <<log, pod, rows, mirror>>, SmallInv'
    PROVE  TrackerInv'
<1>1. LogInv' /\ RequestInv'
  BY SameLogRequests DEF TrackerInv
<1>2. PodInv'
  BY SamePod DEF TrackerInv
<1> QED BY <1>1, <1>2 DEF TrackerInv, RowsInv

LEMMA PostIssueHolds ==
    ASSUME TrackerInv, NEW r \in Requests, PostIssue(r)
    PROVE  TrackerInv'
<1>1. PICK epic \in {None} \cup Slugs : Begin(r, "issue", "push", epic, Len(log))
  BY DEF PostIssue
<1> DEFINE job == [op |-> "issue", at |-> "push", arg |-> epic, base |-> Len(log)]
<1>2. Len(log) \in DOMAIN log /\ log[Len(log)].src \in Sources
  BY LogFacts DEF TrackerInv
<1>3. Slugs \subseteq Slug
  BY <1>2, SourceFacts DEF Slugs
<1>4. job \in IssueJobs
  BY <1>2, <1>3 DEF IssueJobs, Slugs
<1> QED BY <1>1, <1>4, QuietRequest DEF PostIssue, Begin, Jobs, SmallInv, TrackerInv

LEMMA PostEpicHolds ==
    ASSUME TrackerInv, NEW r \in Requests, PostEpic(r)
    PROVE  TrackerInv'
<1>1. PICK title \in Titles : /\ Foldable(WithEpic(log[Len(log)], title))
                              /\ Begin(r, "epic", "push", title, Len(log))
  BY DEF PostEpic
<1> DEFINE job == [op |-> "epic", at |-> "push", arg |-> title, base |-> Len(log)]
<1>2. Len(log) \in DOMAIN log
  BY LogFacts DEF TrackerInv
<1>3. job \in EpicJobs
  BY <1>1, <1>2 DEF EpicJobs
<1> QED BY <1>1, <1>3, QuietRequest DEF PostEpic, Begin, Jobs, SmallInv, TrackerInv

LEMMA AcceptHolds ==
    ASSUME TrackerInv, NEW r \in Requests, Accept(r)
    PROVE  TrackerInv'
<1>1. PICK p \in Inbox : Begin(r, "accept", "checkout", p, 0)
  BY DEF Accept
<1>2. [op |-> "accept", at |-> "checkout", arg |-> p, base |-> 0] \in Unread
  BY DEF Unread, Inbox
<1> QED BY <1>1, <1>2, QuietRequest DEF Accept, Begin, Jobs, SmallInv, TrackerInv

LEMMA DismissHolds ==
    ASSUME TrackerInv, NEW r \in Requests, Dismiss(r)
    PROVE  TrackerInv'
<1>1. PICK p \in Inbox : Begin(r, "dismiss", "delete", p, 0)
  BY DEF Dismiss
<1>2. [op |-> "dismiss", at |-> "delete", arg |-> p, base |-> 0] \in Dismissals
  BY DEF Dismissals, Inbox
<1> QED BY <1>1, <1>2, QuietRequest DEF Dismiss, Begin, Jobs, SmallInv, TrackerInv

(* A request is suspended where its kind may be. *)
LEMMA JobAt ==
    ASSUME NEW job \in Jobs
    PROVE  /\ job.at = "checkout" => job \in Unread
           /\ job.at = "push" => job \in IssueJobs \cup EpicJobs \cup AcceptJobs
           /\ job.at = "delete" => job \in TakenOff \cup Dismissals
           /\ job.op = "board" => job \in Boards
<1>1. Idle.at = "-" /\ Idle.op = "idle"
  BY DEF Idle
<1>2. CASE job \in IssueJobs \cup EpicJobs
  BY <1>2 DEF IssueJobs, EpicJobs
<1>3. CASE job \in Unread \cup AcceptJobs
  BY <1>3 DEF Unread, AcceptJobs
<1>4. CASE job \in TakenOff \cup Dismissals \cup Boards
  BY <1>4 DEF TakenOff, Dismissals, Boards
<1> QED BY <1>1, <1>2, <1>3, <1>4 DEF Jobs

LEMMA RequestFacts ==
    ASSUME TrackerInv, NEW r \in Requests
    PROVE  request[r] \in Jobs /\ r \in DOMAIN request
  BY DEF TrackerInv, RequestInv

LEMMA CheckoutHolds ==
    ASSUME TrackerInv, NEW r \in Requests, Checkout(r)
    PROVE  TrackerInv'
<1> DEFINE p == request[r].arg
           job == [op |-> "accept", at |-> "push", arg |-> p, base |-> Len(log)]
<1>1. p \in Proposals
  BY JobAt, RequestFacts DEF Checkout, Unread
<1>2. Len(log) \in DOMAIN log
  BY LogFacts DEF TrackerInv
<1>3. job \in AcceptJobs
  BY <1>1, <1>2 DEF AcceptJobs
<1> QED BY <1>3, QuietRequest DEF Checkout, Begin, Jobs, SmallInv, TrackerInv

LEMMA DeleteHolds ==
    ASSUME TrackerInv, NEW r \in Requests, Delete(r)
    PROVE  TrackerInv'
<1>1. SmallInv'
  <2>1. CASE inbox' = [inbox EXCEPT ![request[r].arg] = "gone"] /\ UNCHANGED mishaps
    BY <2>1 DEF TrackerInv, SmallInv
  <2>2. CASE Mishap /\ UNCHANGED inbox
    BY <2>2, BoundsAssumption DEF Mishap, TrackerInv, SmallInv
  <2> QED BY <2>1, <2>2 DEF Delete
<1> QED BY <1>1, QuietRequest DEF Delete, Return, Jobs

LEMMA OpenBoardHolds ==
    ASSUME TrackerInv, NEW r \in Requests, OpenBoard(r)
    PROVE  TrackerInv'
<1>1. SmallInv'
  BY BoundsAssumption DEF OpenBoard, Mishap, TrackerInv, SmallInv
<1>2. Len(log) \in DOMAIN log
  BY LogFacts DEF TrackerInv
<1>3. pod.state # 0 => pod.state \in DOMAIN log
  <2>1. pod.state \in 0 .. Len(log)
    BY DEF TrackerInv, PodInv
  <2> QED BY <2>1, LogFacts DEF TrackerInv
<1>4. PICK where \in {"pod", "git"}, commit \in DOMAIN log : Look(r, where, commit)
  BY <1>2, <1>3 DEF OpenBoard
<1>5. [op |-> "board", at |-> where, arg |-> None, base |-> commit] \in Boards
  BY DEF Boards
<1> QED BY <1>1, <1>4, <1>5, QuietRequest DEF OpenBoard, Look, Begin, Jobs

LEMMA BoardHolds ==
    ASSUME TrackerInv, NEW r \in Requests, Board(r)
    PROVE  TrackerInv'
  BY QuietRequest DEF Board, Return, Jobs, SmallInv, TrackerInv

(* What a request has written in its clone of the head is a source again,  *)
(* and has the issue of an accepted proposal in it.                         *)
LEMMA WrittenIsSource ==
    ASSUME TrackerInv, NEW r \in Requests, request[r].at = "push", Ahead(r)
    PROVE  LET t == Written(request[r]) IN
           /\ t \in Sources
           /\ Extends(log[Len(log)].src, t)
           /\ request[r].op = "accept" =>
                 /\ request[r] \in AcceptJobs
                 /\ \E i \in t.issues : i.from = request[r].arg
<1> DEFINE job == request[r]
           s == log[Len(log)].src
<1>1. /\ s \in Sources /\ log[job.base] = Built(s)
      /\ job \in IssueJobs \cup EpicJobs \cup AcceptJobs
  BY LogFacts, JobAt, RequestFacts DEF TrackerInv, Ahead
<1>2. CASE job \in IssueJobs
  <2>1. job.op = "issue" /\ job.arg \in {None} \cup Range(s.epics)
    BY <1>1, <1>2 DEF IssueJobs, Built
  <2>2. Written(job) = WithIssue(Built(s), job.arg, Owner)
    BY <1>1, <2>1 DEF Written
  <2> HIDE DEF job, s
  <2> QED BY <1>1, <2>1, <2>2, WithIssueIsSource DEF job, s
<1>3. CASE job \in EpicJobs
  <2>1. job.op = "epic" /\ job.arg \in Titles /\ Foldable(WithEpic(Built(s), job.arg))
    BY <1>1, <1>3 DEF EpicJobs
  <2>2. Written(job) = WithEpic(Built(s), job.arg)
    BY <1>1, <2>1 DEF Written
  <2> QED BY <1>1, <2>1, <2>2, WithEpicIsSource
<1>4. CASE job \in AcceptJobs
  <2>1. job.op = "accept" /\ job.arg \in Proposals
    BY <1>4 DEF AcceptJobs
  <2>2. Written(job) = WithIssue(Built(s), None, job.arg)
    BY <1>1, <2>1 DEF Written
  <2> QED BY <1>1, <1>4, <2>1, <2>2, WithIssueIsSource
<1> QED BY <1>1, <1>2, <1>3, <1>4

LEMMA PushHolds ==
    ASSUME TrackerInv, NEW r \in Requests, Push(r)
    PROVE  TrackerInv'
<1> DEFINE job == request[r]
           t == Written(job)
<1>1. LogInv /\ RequestInv /\ PodInv /\ RowsInv /\ SmallInv
  BY DEF TrackerInv
<1>2. RowsInv' /\ SmallInv' /\ UNCHANGED pod /\ job.at = "push"
  BY <1>1 DEF Push, RowsInv, SmallInv
<1>3. CASE Ahead(r) /\ Land(Built(t)) /\ Consume(r)
  <2>1. /\ t \in Sources
        /\ Extends(log[Len(log)].src, t)
        /\ job.op = "accept" => job \in AcceptJobs /\ \E i \in t.issues : i.from = job.arg
    BY <1>2, <1>3, WrittenIsSource
  <2> HIDE DEF t
  <2>2. LogInv' /\ PodInv' /\ Jobs \subseteq Jobs' /\ Pushed(t)
    BY <1>1, <1>2, <1>3, <2>1, LandKeepsLog, LandKeepsPod, LandPushes, JobsStand
  <2>3. PICK to \in Jobs' : request' = [request EXCEPT ![r] = to]
    <3>1. CASE job.op = "accept"
      <4> DEFINE to == [job EXCEPT !.at = "delete"]
      <4>1. request' = [request EXCEPT ![r] = to]
        BY <1>1, <1>3, <3>1 DEF Consume, Goto, RequestInv
      <4>2. job \in AcceptJobs /\ \E i \in t.issues : i.from = job.arg
        BY <2>1, <3>1
      <4>3. DOMAIN log \subseteq DOMAIN log' /\ log'[Len(log')].src = t
        BY <2>2, <1>1, LogFacts DEF Pushed, Built
      <4>4. to \in [op : {"accept"}, at : {"delete"}, arg : Proposals, base : DOMAIN log']
            /\ to.arg = job.arg
        BY <4>2, <4>3 DEF AcceptJobs
      <4>5. to \in TakenOff'
        BY <4>2, <4>3, <4>4 DEF TakenOff
      <4> QED BY <4>1, <4>5 DEF Jobs
    <3>2. CASE job.op # "accept"
      <4>1. request' = [request EXCEPT ![r] = Idle]
        BY <1>3, <3>2 DEF Consume, Return
      <4>2. Idle \in Jobs'
        BY DEF Jobs, Idle
      <4> QED BY <4>1, <4>2
    <3> QED BY <3>1, <3>2
  <2>4. RequestInv'
    BY <1>1, <2>2, <2>3 DEF RequestInv
  <2> QED BY <1>2, <2>2, <2>4 DEF TrackerInv
<1>4. CASE ~ Ahead(r) /\ Return(r) /\ UNCHANGED <<log, mirror>>
  BY <1>2, <1>4, QuietRequest DEF Push, Return, Jobs
<1> QED BY <1>3, <1>4 DEF Push

LEMMA ClientPushHolds ==
    ASSUME TrackerInv, ClientPush
    PROVE  TrackerInv'
<1> DEFINE s == log[Len(log)].src
<1>1. LogInv /\ RequestInv /\ PodInv /\ RowsInv /\ SmallInv /\ s \in Sources
  BY LogFacts DEF TrackerInv
<1>2. PICK i \in s.issues, to \in Events :
          Land(Built([s EXCEPT !.issues =
                        (@ \ {i}) \cup {[i EXCEPT !.events = Append(@, to)]}]))
  BY DEF ClientPush
<1> DEFINE t == [s EXCEPT !.issues =
                        (@ \ {i}) \cup {[i EXCEPT !.events = Append(@, to)]}]
<1>3. t \in Sources /\ Extends(s, t)
  BY <1>1, MovedIsSource
<1> HIDE DEF t
<1>4. Land(Built(t))
  BY <1>2 DEF t
<1>5. LogInv' /\ PodInv' /\ Jobs \subseteq Jobs'
  BY <1>1, <1>3, <1>4, LandKeepsLog, LandKeepsPod, JobsStand DEF ClientPush
<1>6. RequestInv'
  BY <1>1, <1>5 DEF RequestInv, ClientPush
<1>7. RowsInv' /\ SmallInv'
  BY <1>1 DEF ClientPush, RowsInv, SmallInv
<1> QED BY <1>5, <1>6, <1>7 DEF TrackerInv

(* A step of the pod, the table or the inbox. *)
LEMMA QuietElsewhere ==
    ASSUME TrackerInv, UNCHANGED <<log, request>>, PodInv', RowsInv', SmallInv'
    PROVE  TrackerInv'
  BY SameLogRequests DEF TrackerInv

LEMMA ProposeHolds == ASSUME TrackerInv, Propose PROVE TrackerInv'
<1>1. SmallInv'
  BY DEF Propose, PostProposal, TrackerInv, SmallInv
<1> QED BY <1>1, SamePod, QuietElsewhere DEF Propose, TrackerInv, RowsInv

LEMMA CreateFlatHolds == ASSUME TrackerInv, CreateFlat PROVE TrackerInv'
<1>1. PICK m \in Nat : DOMAIN rows = 1 .. m
  BY DEF TrackerInv, RowsInv, NoGaps
<1>2. Max({0} \cup DOMAIN rows) = m
  BY <1>1, MaxOfInterval
<1>3. rows' = [n \in DOMAIN rows \cup {m + 1} |->
                  IF n \in DOMAIN rows THEN rows[n] ELSE "flat"]
  BY <1>2 DEF CreateFlat
<1>4. DOMAIN rows' = 1 .. (m + 1)
  BY <1>1, <1>3
<1>5. \A n \in DOMAIN rows' : rows'[n] \in {"flat", "tracker"}
  BY <1>3 DEF TrackerInv, RowsInv
<1>6. RowsInv'
  BY <1>4, <1>5 DEF RowsInv, NoGaps
<1> QED BY <1>6, SamePod, QuietElsewhere DEF CreateFlat, TrackerInv, SmallInv

(* A mirror that goes one step on. *)
LEMMA StepHolds ==
    ASSUME TrackerInv, NEW c \in Running, NEW job \in MirrorType, Step(c, job),
           UNCHANGED <<log, rows, request, inbox, mishaps>>,
           pod' \in [epics : 0 .. Len(log), state : 0 .. Len(log)],
           pod'.state # 0 => pod'.epics # 0,
           pod.epics # 0 => pod'.epics # 0, pod.state # 0 => pod'.state # 0,
           job.at # "state" => job.state # 0,
           job.at = "put epics" => job.epics # 0,
           job.at = "put state" => pod'.epics # 0,
           job.at = "read" => pod'.state # 0
    PROVE  TrackerInv'
<1>1. Running' = Running /\ \A d \in Running : mirror'[d] = IF d = c THEN job ELSE mirror[d]
  BY DEF Step, Running
<1>2. Running' \subseteq DOMAIN log'
  BY <1>1 DEF TrackerInv, PodInv
<1>3. MirrorType' = MirrorType
  BY SameLog
<1>4. ASSUME NEW d \in Running
      PROVE  /\ mirror'[d] \in MirrorType
             /\ mirror'[d].at # "state" => mirror'[d].state # 0
             /\ mirror'[d].at = "put epics" => mirror'[d].epics # 0
             /\ mirror'[d].at = "put state" => pod'.epics # 0
             /\ mirror'[d].at = "read" => pod'.state # 0
  BY <1>1 DEF TrackerInv, PodInv
<1>5. PodInv'
  BY <1>1, <1>2, <1>3, <1>4 DEF PodInv
<1> QED BY <1>5, QuietElsewhere DEF TrackerInv, RowsInv, SmallInv

LEMMA MirrorFacts ==
    ASSUME TrackerInv, NEW c, Job(c)
    PROVE  /\ c \in Running
           /\ mirror[c] \in MirrorType
           /\ mirror[c].at # "state" => mirror[c].state # 0
           /\ mirror[c].at = "put epics" => mirror[c].epics # 0
           /\ mirror[c].at = "put state" => pod.epics # 0
           /\ mirror[c].at = "read" => pod.state # 0
           /\ pod \in [epics : 0 .. Len(log), state : 0 .. Len(log)]
           /\ pod.state # 0 => pod.epics # 0
           /\ Len(log) \in Nat \ {0}
  BY LogFacts DEF Job, TrackerInv, PodInv

LEMMA ReadGitHolds == ASSUME TrackerInv, NEW c, ReadGit(c) PROVE TrackerInv'
<1>0. Job(c)
  BY DEF ReadGit
<1>1. CASE mirror[c].at = "state"
  <2> DEFINE job == [mirror[c] EXCEPT !.at = "epics", !.state = Len(log)]
  <2>1. job \in MirrorType /\ job.at = "epics" /\ job.state # 0
    <3>1. /\ mirror[c] \in MirrorType
          /\ Len(log) \in Nat \ {0}
      BY <1>0, MirrorFacts
    <3>2. Len(log) \in 0 .. Len(log) /\ Len(log) # 0
      BY <3>1
    <3> QED BY <3>1, <3>2 DEF MirrorType
  <2>2. Step(c, job)
    BY <1>1 DEF ReadGit
  <2> HIDE DEF job
  <2> QED BY <1>0, <2>1, <2>2, MirrorFacts, StepHolds DEF ReadGit
<1>2. CASE mirror[c].at = "epics"
  <2> DEFINE job == [mirror[c] EXCEPT !.at = "put epics", !.epics = Len(log)]
  <2>1. job \in MirrorType /\ job.at = "put epics" /\ job.epics # 0 /\ job.state # 0
    <3>1. /\ mirror[c] \in MirrorType /\ mirror[c].state # 0
          /\ Len(log) \in Nat \ {0}
      BY <1>0, <1>2, MirrorFacts
    <3>2. Len(log) \in 0 .. Len(log) /\ Len(log) # 0
      BY <3>1
    <3> QED BY <3>1, <3>2 DEF MirrorType
  <2>2. Step(c, job)
    BY <1>2 DEF ReadGit
  <2> HIDE DEF job
  <2> QED BY <1>0, <2>1, <2>2, MirrorFacts, StepHolds DEF ReadGit
<1> QED BY <1>1, <1>2 DEF ReadGit

LEMMA PutHolds == ASSUME TrackerInv, NEW c, Put(c) PROVE TrackerInv'
<1>0. Job(c)
  BY DEF Put
<1>1. CASE mirror[c].at = "put epics"
  <2> DEFINE job == [mirror[c] EXCEPT !.at = "put state"]
  <2>1. job \in MirrorType /\ job.at = "put state" /\ job.state # 0
    BY <1>0, <1>1, MirrorFacts DEF MirrorType
  <2>2. Step(c, job) /\ pod' = [pod EXCEPT !.epics = mirror[c].epics]
    BY <1>1 DEF Put
  <2>3. /\ pod' \in [epics : 0 .. Len(log), state : 0 .. Len(log)]
        /\ pod'.epics # 0 /\ pod'.state = pod.state
    <3>1. mirror[c].epics \in 0 .. Len(log) /\ mirror[c].epics # 0
      BY <1>0, <1>1, MirrorFacts DEF MirrorType
    <3>2. pod \in [epics : 0 .. Len(log), state : 0 .. Len(log)]
      BY <1>0, MirrorFacts
    <3> QED BY <2>2, <3>1, <3>2
  <2> HIDE DEF job
  <2> QED BY <1>0, <2>1, <2>2, <2>3, MirrorFacts, StepHolds DEF Put
<1>2. CASE mirror[c].at = "put state"
  <2> DEFINE job == [mirror[c] EXCEPT !.at = "read"]
  <2>1. job \in MirrorType /\ job.at = "read" /\ job.state # 0
    BY <1>0, <1>2, MirrorFacts DEF MirrorType
  <2>2. Step(c, job) /\ pod' = [pod EXCEPT !.state = mirror[c].state]
    BY <1>2 DEF Put
  <2>3. /\ pod' \in [epics : 0 .. Len(log), state : 0 .. Len(log)]
        /\ pod'.epics # 0 /\ pod'.state # 0
    <3>1. mirror[c].state \in 0 .. Len(log) /\ mirror[c].state # 0 /\ pod.epics # 0
      BY <1>0, <1>2, MirrorFacts DEF MirrorType
    <3>2. pod \in [epics : 0 .. Len(log), state : 0 .. Len(log)]
      BY <1>0, MirrorFacts
    <3> QED BY <2>2, <3>1, <3>2
  <2> HIDE DEF job
  <2> QED BY <1>0, <2>1, <2>2, <2>3, MirrorFacts, StepHolds DEF Put
<1> QED BY <1>1, <1>2 DEF Put

LEMMA EndKeepsPod ==
    ASSUME TrackerInv, NEW c, End(c), UNCHANGED <<log, pod>>
    PROVE  PodInv'
<1>1. Running' \subseteq Running /\ \A d \in Running' : mirror'[d] = mirror[d]
  BY DEF End, Running
<1>2. MirrorType' = MirrorType
  BY SameLog
<1> QED BY <1>1, <1>2 DEF TrackerInv, PodInv

LEMMA MirrorFailsHolds == ASSUME TrackerInv, NEW c, MirrorFails(c) PROVE TrackerInv'
<1>1. SmallInv'
  BY BoundsAssumption DEF MirrorFails, Mishap, TrackerInv, SmallInv
<1> QED BY <1>1, EndKeepsPod, QuietElsewhere DEF MirrorFails, TrackerInv, RowsInv

(* The numbers of a tracker fill the rows from the first one on. *)
LEMMA ProjectHolds == ASSUME TrackerInv, NEW c, Project(c) PROVE TrackerInv'
<1> DEFINE numbers == NumbersOf(log[pod.state].trio.issues)
<1>1. pod.state \in DOMAIN log
  <2>1. pod.state \in 0 .. Len(log) /\ pod.state # 0
    BY MirrorFacts DEF Project
  <2> QED BY <2>1, LogFacts DEF TrackerInv
<1>2. PICK k \in Nat : numbers = 1 .. k
  <2>1. log[pod.state].trio = Fold(log[pod.state].src) /\ log[pod.state].src \in Sources
    BY <1>1, LogFacts DEF TrackerInv, Built
  <2>2. numbers = NumbersOf(log[pod.state].src.issues)
    BY <2>1, FoldNumbers
  <2> QED BY <2>1, <2>2 DEF Sources, NoGaps
<1>3. PICK m \in Nat : DOMAIN rows = 1 .. m
  BY DEF TrackerInv, RowsInv, NoGaps
<1>4. rows' = [n \in DOMAIN rows \cup numbers |->
                  IF n \in numbers THEN "tracker" ELSE rows[n]]
  BY DEF Project, Projected, NumbersOf
<1> HIDE DEF numbers
<1>5. DOMAIN rows' = 1 .. (IF k > m THEN k ELSE m)
  BY <1>2, <1>3, <1>4
<1>6. \A n \in DOMAIN rows' : rows'[n] \in {"flat", "tracker"}
  BY <1>4 DEF TrackerInv, RowsInv
<1>7. RowsInv'
  BY <1>5, <1>6 DEF RowsInv, NoGaps
<1> QED BY <1>7, EndKeepsPod, QuietElsewhere DEF Project, TrackerInv, SmallInv

LEMMA RestartHolds == ASSUME TrackerInv, Restart PROVE TrackerInv'
<1>1. SmallInv'
  BY BoundsAssumption DEF Restart, Mishap, TrackerInv, SmallInv
<1>2. RowsInv' /\ LogInv'
  BY SameLog DEF Restart, TrackerInv, RowsInv
<1>3. PodInv'
  BY DEF Restart, TrackerInv, PodInv, Running
<1>4. RequestInv'
  BY DEF Restart, RequestInv, Jobs, Idle
<1> QED BY <1>1, <1>2, <1>3, <1>4 DEF TrackerInv

LEMMA NextHolds == TrackerInv /\ [Next]_vars => TrackerInv'
<1> SUFFICES ASSUME TrackerInv, [Next]_vars PROVE TrackerInv'
  OBVIOUS
<1>1. ASSUME NEW r \in Requests, RequestStep(r) PROVE TrackerInv'
  BY <1>1, PostIssueHolds, PostEpicHolds, AcceptHolds, DismissHolds, OpenBoardHolds,
     CheckoutHolds, PushHolds, DeleteHolds, BoardHolds DEF RequestStep
<1>2. ASSUME NEW c \in Commit, MirrorStep(c) PROVE TrackerInv'
  BY <1>2, ReadGitHolds, PutHolds, MirrorFailsHolds, ProjectHolds DEF MirrorStep
<1>3. CASE Propose \/ ClientPush \/ CreateFlat \/ Restart
  BY <1>3, ProposeHolds, ClientPushHolds, CreateFlatHolds, RestartHolds
<1>4. CASE UNCHANGED vars
  <2>1. UNCHANGED <<log, pod, rows, inbox, request, mirror, mishaps>>
    BY <1>4 DEF vars
  <2> QED BY <2>1, SamePod, QuietElsewhere DEF TrackerInv, RowsInv, SmallInv
<1> QED BY <1>1, <1>2, <1>3, <1>4 DEF Next

(* ---------------------- What the invariant gives ----------------------- *)

LEMMA TypesFollow == TrackerInv => TypeOK
<1> SUFFICES ASSUME TrackerInv PROVE TypeOK
  OBVIOUS
<1>1. Len(log) \in Commit /\ DOMAIN log = 1 .. Len(log) /\ Len(log) \in Nat \ {0}
  BY LogFacts DEF TrackerInv, LogInv
<1>2. ASSUME NEW c \in DOMAIN log PROVE log[c].src.issues \subseteq Issue
  <2>1. log[c].src \in Sources
    BY LogFacts DEF TrackerInv
  <2>2. Range(log[c].src.epics) \subseteq Slugs
    BY <1>1 DEF TrackerInv, LogInv, Extends, Slugs
  <2>3. \A i \in log[c].src.issues : i.epic \in {None} \cup Slugs
    BY <2>1, <2>2 DEF Sources
  <2>4. \A i \in log[c].src.issues :
           i \in [n : Nat \ {0}, epic : {None} \cup Slug, from : {Owner} \cup Proposals,
                  events : Seq(Events)]
    BY <2>1 DEF Sources, SourceType
  <2> QED BY <2>3, <2>4 DEF Issue
<1>3. \A n \in DOMAIN rows : n \in Nat \ {0} /\ rows[n] \in {"flat", "tracker"}
  BY DEF TrackerInv, RowsInv, NoGaps
<1>4. \A c \in Running :
          mirror[c] \in [at : {"state", "epics", "put epics", "put state", "read"},
                         state : 0 .. Len(log), epics : 0 .. Len(log)]
  BY DEF TrackerInv, PodInv, MirrorType
<1> QED BY <1>1, <1>2, <1>3, <1>4 DEF TypeOK, TrackerInv, PodInv, SmallInv

LEMMA BranchGrows == TrackerInv => BranchOnlyGrows
<1> SUFFICES ASSUME TrackerInv, NEW c \in DOMAIN log
             PROVE  /\ Foldable(log[c].src)
                    /\ \A i, j \in log[c].src.issues : i.n = j.n => i = j
                    /\ \A d \in 1 .. c :
                          /\ Named(d) \subseteq Named(c)
                          /\ Range(log[d].src.epics) \subseteq Range(log[c].src.epics)
  BY DEF BranchOnlyGrows
<1>1. log[c].src \in Sources
  BY LogFacts DEF TrackerInv
<1>2. \A d : Named(d) = NamesOf(log[d].src)
  BY DEF Named, NamesOf
<1>3. \A d \in 1 .. c : Extends(log[d].src, log[c].src)
  BY DEF TrackerInv, LogInv
<1> QED BY <1>1, <1>2, <1>3 DEF Sources, Extends

(* groupByEpic puts every issue it is given into one group, whatever the    *)
(* epics it is given.                                                       *)
LEMMA EachInOneGroup ==
    ASSUME NEW within, NEW issues, NEW shown, NEW i \in shown
    PROVE  Cardinality({g \in Groups(within, issues, shown) : i \in g.issues}) = 1
<1> DEFINE GroupOf(e) == [epic |-> e, issues |-> {j \in shown : j.epic = e}]
           general == [epic |-> None, issues |-> General(within, shown)]
           here == {g \in Groups(within, issues, shown) : i \in g.issues}
           known == {x \in within : (\E j \in shown : j.epic = x)
                                   \/ ~ \E j \in issues : j.epic = x}
<1>1. Groups(within, issues, shown) = {general} \cup {GroupOf(e) : e \in known}
  BY DEF Groups
<1>2. \A e : i \in GroupOf(e).issues <=> i.epic = e
  OBVIOUS
<1>3. i \in general.issues <=> i.epic \notin within
  BY DEF General
<1>4. i.epic \in within => i.epic \in known
  OBVIOUS
<1>5. known \subseteq within
  OBVIOUS
<1> HIDE DEF GroupOf, general, known
<1>6. PICK g : here = {g}
  <2>1. CASE i.epic \in within
    <3>1. here = {GroupOf(i.epic)}
      BY <1>1, <1>2, <1>3, <1>4, <2>1
    <3> QED BY <3>1
  <2>2. CASE i.epic \notin within
    <3>1. here = {general}
      BY <1>1, <1>2, <1>3, <1>5, <2>2
    <3> QED BY <3>1
  <2> QED BY <2>1, <2>2
<1> QED BY <1>6, FS_Singleton

LEMMA EveryIssueShown == EveryIssueIsShown
<1> SUFFICES ASSUME NEW r \in Requests, NEW shown, NEW i \in shown
             PROVE  Cardinality({g \in Shown(r, shown) : i \in g.issues}) = 1
  BY DEF EveryIssueIsShown
<1> QED BY EachInOneGroup DEF Shown

(* A step that takes a proposal off the inbox is one that may. *)
Kept(p) ==
    \/ \E r \in Requests : request[r].op = "dismiss" /\ request[r].arg = p
    \/ \E i \in log[Len(log)].src.issues : i.from = p

LEMMA ProposalsAreKept ==
    TrackerInv /\ [Next]_vars => \A p \in Inbox \ Inbox' : Kept(p)
<1> SUFFICES ASSUME TrackerInv, [Next]_vars, NEW p \in Inbox \ Inbox' PROVE Kept(p)
  OBVIOUS
<1>1. inbox' # inbox
  BY DEF Inbox
<1>2. CASE \E r \in Requests : Delete(r)
  <2>1. PICK r \in Requests : Delete(r)
    BY <1>2
  <2>2. inbox' = [inbox EXCEPT ![request[r].arg] = "gone"] /\ request[r].at = "delete"
    BY <1>1, <2>1 DEF Delete
  <2>3. request[r].arg = p
    BY <2>2 DEF Inbox, TrackerInv, SmallInv
  <2>4. request[r] \in TakenOff \cup Dismissals
    BY <2>2, JobAt, RequestFacts
  <2>5. CASE request[r] \in TakenOff
    BY <2>3, <2>5 DEF TakenOff, Kept
  <2>6. CASE request[r] \in Dismissals
    BY <2>3, <2>6 DEF Dismissals, Kept
  <2> QED BY <2>4, <2>5, <2>6
<1>3. CASE Propose
  BY <1>3 DEF Propose, PostProposal, Inbox, TrackerInv, SmallInv
<1>4. ASSUME NEW r \in Requests, RequestStep(r), ~ Delete(r) PROVE FALSE
  BY <1>1, <1>4 DEF RequestStep, PostIssue, PostEpic, Accept, Dismiss, OpenBoard,
     Checkout, Push, Board
<1>5. ASSUME NEW c \in Commit, MirrorStep(c) PROVE FALSE
  BY <1>1, <1>5 DEF MirrorStep, ReadGit, Put, MirrorFails, Project
<1>6. CASE ClientPush \/ CreateFlat \/ Restart \/ UNCHANGED vars
  BY <1>1, <1>6 DEF ClientPush, CreateFlat, Restart, vars
<1> QED BY <1>2, <1>3, <1>4, <1>5, <1>6 DEF Next

(* --------------------------- Files and events -------------------------- *)

(* Who claims an issue says so; a known issue has a category of the         *)
(* configuration, and is in the general directory or in that of an epic;    *)
(* the first of the issues are known, and where the namespace is told they  *)
(* are numbered in that order.                                              *)
Claims(e) == e.kind = "claim" => e.actor # Nothing

FilesInv ==
    /\ FilesTypeOK
    /\ \A n \in Numbers, at \in Names : Claims(files[n].log[at])
    /\ \A n \in Known : files[n].type \in Types
                        /\ files[n].where \in {GeneralDir} \cup EpicSlugs
    /\ \E k \in Nat : Known = 1 .. k
    /\ NamespaceIsTold => \A n \in Known : files[n].number = n

FileType == [number : Nat, where : EpicNames \cup {GeneralDir, Nothing}, type : Types \cup {Nothing},
             log : [Names -> Event]]

LEMMA NoEventTyped == NoEvent \in Event /\ Claims(NoEvent)
  BY NothingAssumption DEF NoEvent, Event, Claims, Kinds

LEMMA FilesInitHolds == FilesInit => FilesInv
<1> SUFFICES ASSUME FilesInit PROVE FilesInv
  OBVIOUS
<1>1. NoIssue \in FileType /\ NoIssue.where = Nothing
      /\ \A at \in Names : NoIssue.log[at] = NoEvent
  BY NoEventTyped DEF NoIssue, FileType
<1>2. files = [n \in Numbers |-> NoIssue] /\ epics = <<>>
  BY DEF FilesInit
<1>3. FilesTypeOK
  BY <1>1, <1>2 DEF FilesTypeOK, FileType
<1>4. Known = {}
  BY <1>1, <1>2 DEF Known
<1>5. Known = 1 .. 0
  BY <1>4
<1>6. \A n \in Numbers, at \in Names : Claims(files[n].log[at])
  BY <1>1, <1>2, NoEventTyped
<1> QED BY <1>3, <1>4, <1>5, <1>6 DEF FilesInv

LEMMA FileFacts ==
    ASSUME FilesInv
    PROVE  /\ files \in [Numbers -> FileType]
           /\ epics \in Seq(EpicNames)
           /\ EpicSlugs \subseteq EpicNames
<1>1. epics \in Seq(EpicNames)
  BY DEF FilesInv, FilesTypeOK
<1> QED BY <1>1 DEF FilesInv, FilesTypeOK, FileType, EpicSlugs

(* The end of a sequence, from one position on. *)
LEMMA EndOfSeq ==
    ASSUME NEW S, NEW s \in Seq(S), NEW n \in Nat, n = Len(s), NEW at \in 0 .. n
    PROVE  /\ SubSeq(s, at + 1, n) \in Seq(S)
           /\ Len(SubSeq(s, at + 1, n)) = n - at
           /\ \A i \in 1 .. (n - at) : SubSeq(s, at + 1, n)[i] = s[at + i]
<1> DEFINE m == at + 1
<1>1. m \in Int /\ n \in Int /\ \A i \in m .. n : s[i] \in S
  OBVIOUS
<1> HIDE DEF m
<1>2. SubSeq(s, m, n) \in Seq(S)
  BY <1>1, SubSeqProperties, Zenon
<1>3. Len(SubSeq(s, m, n)) = IF m <= n THEN n - m + 1 ELSE 0
  BY <1>1, SubSeqProperties
<1>4. \A i \in 1 .. n - m + 1 : SubSeq(s, m, n)[i] = s[m + i - 1]
  BY <1>1, SubSeqProperties
<1>5. (m <= n \/ m = n + 1) /\ n - m + 1 = n - at
  BY DEF m
<1>6. Len(SubSeq(s, m, n)) = n - at
  BY <1>1, <1>3, <1>5
<1>7. \A i \in 1 .. (n - at) : m + i - 1 = at + i
  BY DEF m
<1> QED BY <1>2, <1>4, <1>5, <1>6, <1>7 DEF m

With(s, slug, at) == SubSeq(s, 1, at) \o <<slug>> \o SubSeq(s, at + 1, Len(s))

(* An epic that is put between the others leaves them where they are, in    *)
(* their order.                                                             *)
LEMMA InsertedEpic ==
    ASSUME NEW s \in Seq(EpicNames), NEW n \in Nat, n = Len(s),
           NEW slug \in EpicNames, NEW at \in 0 .. n,
           \A i \in DOMAIN s : s[i] # slug,
           \A i, j \in DOMAIN s : s[i] = s[j] => i = j
    PROVE  LET t == With(s, slug, at) IN
           /\ t \in Seq(EpicNames)
           /\ \A i, j \in DOMAIN t : t[i] = t[j] => i = j
           /\ \A i \in DOMAIN s : \E j \in DOMAIN t : t[j] = s[i]
<1> DEFINE left == SubSeq(s, 1, at)
           right == SubSeq(s, at + 1, n)
           t == With(s, slug, at)
<1>1. n \in Nat /\ DOMAIN s = 1 .. n
  OBVIOUS
<1>2. left \in Seq(EpicNames) /\ Len(left) = at /\ \A i \in 1 .. at : left[i] = s[i]
  BY <1>1, SubSeqProperties
<1>3. /\ right \in Seq(EpicNames) /\ Len(right) = n - at
      /\ \A i \in 1 .. (n - at) : right[i] = s[at + i]
  BY <1>1, EndOfSeq
<1> HIDE DEF left, right
<1> HIDE DEF t
<1> DEFINE mid == left \o <<slug>>
<1>4. /\ t \in Seq(EpicNames) /\ Len(t) = n + 1 /\ DOMAIN t = 1 .. (n + 1)
      /\ \A i \in 1 .. at : t[i] = s[i]
      /\ t[at + 1] = slug
      /\ \A i \in at + 2 .. n + 1 : t[i] = s[i - 1]
  <2> DEFINE w == at + 1
             z == n - at
  <2>1. /\ mid \in Seq(EpicNames) /\ Len(mid) = at + 1
        /\ \A i \in 1 .. at : mid[i] = s[i]
        /\ mid[at + 1] = slug
    BY <1>1, <1>2
  <2>2. t = mid \o right
    BY DEF With, mid, left, right, t
  <2> HIDE DEF mid
  <2>3. /\ w \in Nat /\ w = at + 1
        /\ z \in Nat /\ z = n - at
    BY <1>1
  <2> HIDE DEF w, z
  <2>4. /\ t \in Seq(EpicNames) /\ Len(t) = w + z
        /\ \A i \in 1 .. w + z : t[i] = IF i <= w THEN mid[i] ELSE right[i - w]
    <3>1. right \in Seq(EpicNames) /\ Len(right) = z /\ Len(mid) = w
      BY <1>3, <2>1, <2>3
    <3>2. mid \in Seq(EpicNames) /\ w \in Nat /\ z \in Nat
      BY <2>1, <2>3
    <3>3. mid \o right \in Seq(EpicNames) /\ Len(mid \o right) = w + z
      BY <3>1, <3>2
    <3>4. ASSUME NEW i \in 1 .. w + z
          PROVE  (mid \o right)[i] = IF i <= w THEN mid[i] ELSE right[i - w]
      BY <3>1, <3>2, ConcatProperties
    <3> QED BY <2>2, <3>3, <3>4
  <2>5. w + z = n + 1
    BY <1>1, <2>3
  <2>6. ASSUME NEW i \in 1 .. at PROVE t[i] = s[i]
    <3>1. i \in 1 .. w + z /\ i <= w
      BY <2>3
    <3>2. t[i] = mid[i]
      BY <2>4, <3>1
    <3> QED BY <2>1, <3>2
  <2>7. t[at + 1] = slug
    <3>1. w \in 1 .. w + z /\ w <= w
      BY <2>3
    <3>2. t[w] = mid[w]
      BY <2>4, <3>1
    <3> QED BY <2>1, <2>3, <3>2
  <2>8. ASSUME NEW i \in at + 2 .. n + 1
        PROVE  t[i] = s[i - 1]
    <3>1. /\ i \in 1 .. w + z /\ ~ (i <= w)
          /\ i - w \in 1 .. z /\ at + (i - w) = i - 1
      BY <1>1, <2>3
    <3>2. t[i] = right[i - w]
      BY <2>4, <3>1
    <3>3. right[i - w] = s[at + (i - w)]
      BY <1>3, <2>3, <3>1
    <3> QED BY <3>1, <3>2, <3>3
  <2>9. t \in Seq(EpicNames) /\ Len(t) = n + 1 /\ DOMAIN t = 1 .. (n + 1)
    BY <2>4, <2>5
  <2> QED BY <2>6, <2>7, <2>8, <2>9
<1>5. ASSUME NEW i \in DOMAIN t, NEW j \in DOMAIN t, t[i] = t[j]
      PROVE  i = j
  <2> DEFINE Was(k) == IF k <= at THEN k ELSE k - 1
  <2>1. \A k \in DOMAIN t : k # at + 1 => Was(k) \in DOMAIN s /\ t[k] = s[Was(k)]
    BY <1>1, <1>4
  <2>2. \A k, m \in DOMAIN t \ {at + 1} : Was(k) = Was(m) => k = m
    BY <1>1, <1>4
  <2> HIDE DEF Was
  <2>3. i = at + 1 <=> j = at + 1
    BY <1>4, <1>5, <2>1
  <2>4. CASE i # at + 1
    BY <1>5, <2>1, <2>2, <2>3, <2>4
  <2> QED BY <2>3, <2>4
<1>6. \A i \in DOMAIN s : \E j \in DOMAIN t : t[j] = s[i]
  <2> TAKE i \in DOMAIN s
  <2>1. CASE i <= at
    BY <1>1, <1>4, <2>1
  <2>2. CASE i > at
    <3>1. i + 1 \in at + 2 .. n + 1 /\ (i + 1) - 1 = i
      BY <1>1, <2>2
    <3>2. t[i + 1] = s[i] /\ i + 1 \in DOMAIN t
      BY <1>1, <1>4, <3>1
    <3> QED BY <3>2
  <2> QED BY <1>1, <2>1, <2>2
<1> QED BY <1>4, <1>5, <1>6 DEF t

LEMMA AddEpicHolds == ASSUME FilesInv, AddEpic PROVE FilesInv'
<1>1. PICK slug \in EpicNames \ EpicSlugs, at \in 0 .. Len(epics) :
          epics' = SubSeq(epics, 1, at) \o <<slug>> \o SubSeq(epics, at + 1, Len(epics))
  BY DEF AddEpic
<1>2. \A i \in DOMAIN epics : epics[i] # slug
  BY <1>1 DEF EpicSlugs
<1>3. \A i, j \in DOMAIN epics : epics[i] = epics[j] => i = j
  BY DEF FilesInv, FilesTypeOK
<1>4. /\ epics' \in Seq(EpicNames)
      /\ \A i, j \in DOMAIN epics' : epics'[i] = epics'[j] => i = j
      /\ \A i \in DOMAIN epics : \E j \in DOMAIN epics' : epics'[j] = epics[i]
  <2> DEFINE t == With(epics, slug, at)
  <2>1. epics \in Seq(EpicNames)
    BY FileFacts
  <2>2. /\ t \in Seq(EpicNames)
        /\ \A i, j \in DOMAIN t : t[i] = t[j] => i = j
        /\ \A i \in DOMAIN epics : \E j \in DOMAIN t : t[j] = epics[i]
    <3>1. Len(epics) \in Nat
      BY <2>1
    <3>2. slug \in EpicNames
      BY <1>1
    <3> QED BY <1>2, <1>3, <2>1, <3>1, <3>2, InsertedEpic
  <2>3. epics' = t
    BY <1>1 DEF With
  <2> QED BY <2>2, <2>3
<1>5. EpicSlugs \subseteq EpicSlugs'
  BY <1>4 DEF EpicSlugs
<1>6. files' = files /\ Known' = Known
  BY DEF AddEpic, Known
<1>7. FilesTypeOK'
  BY <1>4, <1>6 DEF FilesInv, FilesTypeOK
<1> QED BY <1>5, <1>6, <1>7 DEF FilesInv, NamespaceIsTold

(* Every document is in the namespace of the tracker: it is the one that is *)
(* read, if it is told, and is not read otherwise.                          *)
LEMMA OneNamespace ==
    /\ Subjects # {} /\ NamespaceIsTold => DetectMcNamespace(Subjects) = OwnNs
    /\ ~ NamespaceIsTold => DetectMcNamespace(Subjects) # OwnNs
<1> DEFINE E(i) == [iri |-> epics[i], number |-> i, ns |-> OwnNs,
                    count |-> Cardinality({n \in Known : files[n].where = epics[i]})]
           told == Subjects \cap HashNamespaces
<1>1. \A e \in RenderEpics : e.ns = OwnNs
  <2>1. RenderEpics = {E(i) : i \in DOMAIN epics}
    BY DEF RenderEpics
  <2>2. \A i : E(i).ns = OwnNs
    OBVIOUS
  <2> HIDE DEF E
  <2> QED BY <2>1, <2>2
<1>2. \A t \in RenderState : t.ns = OwnNs
  <2>1. \A n : Triples(Loaded, n).ns = OwnNs
    BY DEF Triples
  <2> QED BY <2>1 DEF RenderState
<1>3. \A ns \in Subjects : ns = OwnNs
  BY <1>1, <1>2 DEF Subjects
<1>4. DetectMcNamespace(Subjects) = IF told = {} THEN Fallback ELSE CHOOSE ns \in told : TRUE
  BY DEF DetectMcNamespace
<1>5. told # {} => (CHOOSE ns \in told : TRUE) \in told
  OBVIOUS
<1>6. \A ns \in told : ns = OwnNs /\ OwnNs \in HashNamespaces
  BY <1>3
<1>7. CASE told = {}
  <2>1. Subjects # {} => OwnNs \notin HashNamespaces
    BY <1>3, <1>7
  <2> HIDE DEF told
  <2> QED BY <1>4, <1>7, <2>1 DEF NamespaceIsTold
<1>8. CASE told # {}
  <2> HIDE DEF told
  <2> QED BY <1>4, <1>5, <1>6, <1>8 DEF NamespaceIsTold
<1> QED BY <1>7, <1>8

(* The numbers that the board reads, and the one it gives to a new issue.   *)
LEMMA NumbersRead ==
    UNION {b.number : b \in ParseTrackerTrio} =
        IF NamespaceIsTold THEN {files[n].number : n \in Known} ELSE {}
<1> DEFINE ns == DetectMcNamespace(Subjects)
           B(n) == ParseIssue(ns, Triples(Loaded, n))
<1>1. ParseTrackerTrio = {B(n) : n \in Known}
  BY DEF ParseTrackerTrio, RenderState
<1>2. \A n : B(n).number = IF ns = OwnNs THEN {files[n].number} ELSE {}
  BY DEF ParseIssue, Triples
<1>3. Known # {} => Subjects # {}
  BY DEF Subjects, RenderState
<1>4. Known # {} => (ns = OwnNs <=> NamespaceIsTold)
  BY <1>3, OneNamespace
<1> HIDE DEF ns, B
<1>5. CASE Known = {}
  BY <1>1, <1>5
<1>6. CASE Known # {} /\ NamespaceIsTold
  <2>1. ns = OwnNs
    BY <1>4, <1>6
  <2>2. ASSUME NEW n PROVE B(n).number = {files[n].number}
    BY <1>2, <2>1
  <2>3. ASSUME NEW x PROVE (\E n \in Known : x \in B(n).number) <=> (\E n \in Known : x = files[n].number)
    BY <2>2
  <2> HIDE DEF Known
  <2>4. ASSUME NEW x
        PROVE  x \in UNION {b.number : b \in ParseTrackerTrio} <=> \E n \in Known : x \in B(n).number
    BY <1>1
  <2> QED BY <1>6, <2>3, <2>4
<1>7. CASE ~ NamespaceIsTold
  <2>1. \A n \in Known : B(n).number = {}
    BY <1>2, <1>4, <1>7
  <2> QED BY <1>1, <1>7, <2>1
<1> QED BY <1>5, <1>6, <1>7

LEMMA NextOnBoardIsFree ==
    ASSUME FilesInv, NEW n \in Numbers, n \notin Known,
           \A m \in Numbers : m < n => m \in Known
    PROVE  /\ NextOnBoard \in Nat
           /\ Known \cup {n} = 1 .. n
           /\ NamespaceIsTold => NextOnBoard = n
<1> DEFINE read == UNION {b.number : b \in ParseTrackerTrio}
           top == CHOOSE k \in read : \A m \in read : m <= k
<1>1. NextOnBoard = IF read = {} THEN 1 ELSE 1 + top
  BY DEF NextOnBoard
<1>2. PICK k \in Nat : Known = 1 .. k
  BY DEF FilesInv
<1>3. Numbers = 1 .. Cardinality(Numbers) /\ Cardinality(Numbers) \in Nat
  BY ConfigAssumption, FS_CardinalityType
<1>4. n \in Nat \ {0} /\ n > k
  BY <1>2, <1>3
<1>5. n <= k + 1
  <2> SUFFICES ASSUME n > k + 1 PROVE FALSE
    BY <1>2, <1>4
  <2>1. k + 1 \in Numbers /\ k + 1 < n /\ k + 1 \notin 1 .. k
    BY <1>2, <1>3, <1>4
  <2> QED BY <1>2, <2>1
<1>6. n = k + 1
  BY <1>2, <1>4, <1>5
<1>7. Known \cup {n} = 1 .. n
  BY <1>2, <1>6
<1>8. CASE ~ NamespaceIsTold
  <2>1. read = {}
    BY <1>8, NumbersRead
  <2> QED BY <1>1, <1>7, <1>8, <2>1
<1>9. CASE NamespaceIsTold
  <2>1. {files[m].number : m \in Known} = Known
    BY <1>9 DEF FilesInv
  <2>2. read = 1 .. k
    BY <1>2, <1>9, <2>1, NumbersRead
  <2>3. CASE k = 0
    <3>1. read = {}
      BY <2>2, <2>3
    <3> HIDE DEF read, top
    <3> QED BY <1>1, <1>6, <1>7, <2>3, <3>1
  <2>4. CASE k # 0
    <3>1. k \in 1 .. k /\ \A m \in 1 .. k : m <= k
      BY <2>4
    <3>2. \A j \in 1 .. k : (\A m \in 1 .. k : m <= j) => j = k
      BY <3>1
    <3>3. top = CHOOSE j \in 1 .. k : \A m \in 1 .. k : m <= j
      BY <2>2
    <3>4. top = k
      <4> HIDE DEF top
      <4> QED BY <3>1, <3>2, <3>3
    <3>5. read # {}
      BY <2>2, <3>1
    <3> HIDE DEF read, top
    <3> QED BY <1>1, <1>6, <1>7, <3>4, <3>5
  <2> QED BY <2>3, <2>4
<1> QED BY <1>8, <1>9

LEMMA AddIssueHolds ==
    ASSUME FilesInv, NEW n \in Numbers, NEW at \in Names, AddIssue(n, at)
    PROVE  FilesInv'
<1> DEFINE opened == [NoEvent EXCEPT !.kind = "open", !.to = "todo"]
<1>1. PICK t \in Types, where \in {GeneralDir} \cup {e.slug : e \in ParseEpics} :
          files' = [files EXCEPT ![n] =
                [number |-> NextOnBoard, where |-> where, type |-> t,
                 log |-> [NoIssue.log EXCEPT ![at] = opened]]]
  BY DEF AddIssue
<1>0. /\ NextOnBoard \in Nat /\ Known \cup {n} = 1 .. n
      /\ NamespaceIsTold => NextOnBoard = n
      /\ n \in Nat /\ "todo" \in States
  <2>1. n \notin Known /\ (\A m \in Numbers : m < n => m \in Known) /\ "todo" \in States
    BY DEF AddIssue
  <2> QED BY <2>1, NextOnBoardIsFree, ConfigAssumption
<1>2. {e.slug : e \in ParseEpics} \subseteq EpicSlugs
  <2>1. ASSUME NEW d \in RenderEpics PROVE d.iri \in EpicSlugs
    <3> DEFINE E(i) == [iri |-> epics[i], number |-> i, ns |-> OwnNs,
                  count |-> Cardinality({m \in Known : files[m].where = epics[i]})]
    <3>1. RenderEpics = {E(i) : i \in DOMAIN epics}
      BY DEF RenderEpics
    <3>2. \A i : E(i).iri = epics[i]
      OBVIOUS
    <3> HIDE DEF E
    <3> QED BY <3>1, <3>2 DEF EpicSlugs
  <2> QED BY <2>1 DEF ParseEpics
<1>3. opened \in Event /\ Claims(opened)
  BY <1>0, NoEventTyped, NothingAssumption DEF NoEvent, Event, Claims, Kinds
<1> DEFINE log1 == [NoIssue.log EXCEPT ![at] = opened]
<1>4. log1 \in [Names -> Event] /\ \A k \in Names : Claims(log1[k])
  BY <1>3, NoEventTyped DEF NoIssue
<1> DEFINE new == [number |-> NextOnBoard, where |-> where, type |-> t, log |-> log1]
<1>5. files' = [files EXCEPT ![n] = new]
  BY <1>1
<1>6. new.number = NextOnBoard /\ new.where = where /\ new.type = t /\ new.log = log1
  OBVIOUS
<1> HIDE DEF log1
<1>7. new \in FileType
  BY <1>0, <1>2, <1>4, <1>6, FileFacts DEF FileType
<1> HIDE DEF new
<1>8. \A m \in Numbers : files'[m] = IF m = n THEN new ELSE files[m]
  BY <1>5, FileFacts
<1>9. FilesTypeOK'
  <2>1. files' \in [Numbers -> FileType]
    BY <1>5, <1>7, FileFacts
  <2> QED BY <2>1 DEF AddIssue, FilesInv, FilesTypeOK, FileType
<1>10. \A m \in Numbers, k \in Names : Claims(files'[m].log[k])
  BY <1>4, <1>6, <1>8 DEF FilesInv
<1>11. EpicSlugs' = EpicSlugs
  BY DEF AddIssue, EpicSlugs
<1>12. Known' = Known \cup {n}
  <2>1. where # Nothing
    BY <1>2, FileFacts, NothingAssumption
  <2> QED BY <1>6, <1>8, <2>1 DEF Known
<1>14. \E k \in Nat : Known' = 1 .. k
  BY <1>0, <1>12
<1>15. NamespaceIsTold' => \A m \in Known' : files'[m].number = m
  BY <1>0, <1>6, <1>8, <1>12 DEF FilesInv, NamespaceIsTold, Known
<1>13. \A m \in Known' : files'[m].type \in Types
                        /\ files'[m].where \in {GeneralDir} \cup EpicSlugs
  BY <1>2, <1>6, <1>8, <1>12 DEF FilesInv, Known
<1> QED BY <1>9, <1>10, <1>11, <1>13, <1>14, <1>15 DEF FilesInv

LEMMA AddEventHolds ==
    ASSUME FilesInv, NEW n \in Numbers, NEW at \in Names, AddEvent(n, at)
    PROVE  FilesInv'
<1>1. PICK e \in EventRecords(n) :
          e.to \in States \cup {Nothing} /\ files' = [files EXCEPT ![n].log[at] = e]
  BY DEF AddEvent
<1>2. e \in Event /\ Claims(e)
  <2>1. ASSUME NEW b \in Actors, e = [NoEvent EXCEPT !.kind = "claim", !.to = "doing", !.actor = b]
        PROVE  e \in Event /\ Claims(e)
    BY <1>1, <2>1, NoEventTyped, NothingAssumption DEF NoEvent, Event, Claims, Kinds
  <2>2. CASE e = [NoEvent EXCEPT !.kind = "release"]
    BY <2>2, NoEventTyped DEF NoEvent, Event, Claims, Kinds
  <2>3. ASSUME NEW to \in States, e = [NoEvent EXCEPT !.kind = "move", !.to = to]
        PROVE  e \in Event /\ Claims(e)
    BY <2>3, NoEventTyped DEF NoEvent, Event, Claims, Kinds
  <2>4. ASSUME NEW m \in Numbers,
               e = [NoEvent EXCEPT !.kind = "move", !.sets = TRUE, !.blocks = {m}]
        PROVE  e \in Event /\ Claims(e)
    BY <2>4, NoEventTyped DEF NoEvent, Event, Claims, Kinds
  <2> QED BY <1>1, <2>1, <2>2, <2>3, <2>4 DEF EventRecords
<1>3. files[n] \in FileType
  BY FileFacts
<1> DEFINE new == [files[n] EXCEPT !.log = [@ EXCEPT ![at] = e]]
<1>4. files' = [files EXCEPT ![n] = new]
  BY <1>1, <1>3, FileFacts DEF FileType
<1>5. /\ new \in FileType
      /\ new.number = files[n].number
      /\ new.where = files[n].where /\ new.type = files[n].type
      /\ \A k \in Names : new.log[k] = IF k = at THEN e ELSE files[n].log[k]
  BY <1>2, <1>3 DEF FileType
<1> HIDE DEF new
<1>6. \A m \in Numbers : files'[m] = IF m = n THEN new ELSE files[m]
  BY <1>4, FileFacts
<1>7. FilesTypeOK'
  <2>1. files' \in [Numbers -> FileType]
    BY <1>4, <1>5, FileFacts
  <2> QED BY <2>1 DEF AddEvent, FilesInv, FilesTypeOK, FileType
<1>8. \A m \in Numbers, k \in Names : Claims(files'[m].log[k])
  BY <1>2, <1>5, <1>6 DEF FilesInv
<1>9. EpicSlugs' = EpicSlugs /\ Known' = Known
  BY <1>5, <1>6 DEF AddEvent, EpicSlugs, Known
<1>10. \A m \in Known' : files'[m].type \in Types
                        /\ files'[m].where \in {GeneralDir} \cup EpicSlugs
  BY <1>5, <1>6, <1>9 DEF FilesInv, Known
<1>11. NamespaceIsTold' => \A m \in Known' : files'[m].number = m
  BY <1>5, <1>6, <1>9 DEF FilesInv, Known, NamespaceIsTold
<1> QED BY <1>7, <1>8, <1>9, <1>10, <1>11 DEF FilesInv

LEMMA FilesNextHolds == FilesInv /\ [FilesNext]_fileVars => FilesInv'
<1> SUFFICES ASSUME FilesInv, [FilesNext]_fileVars PROVE FilesInv'
  OBVIOUS
<1>1. CASE FilesNext
  BY <1>1, AddEpicHolds, AddIssueHolds, AddEventHolds DEF FilesNext
<1>2. CASE UNCHANGED fileVars
  <2>1. files' = files /\ epics' = epics
    BY <1>2 DEF fileVars
  <2> QED BY <2>1 DEF FilesInv, FilesTypeOK, Known, EpicSlugs, NamespaceIsTold
<1> QED BY <1>1, <1>2

(* ----------------------- What a log of events says --------------------- *)

(* Every set of numbers that is not empty has a smallest one: induction for *)
(* what follows.                                                            *)
LEMMA LeastNumber ==
    ASSUME NEW T \in SUBSET Nat, T # {}
    PROVE  \E x \in T : \A y \in T : x <= y
<1>1. IsWellFoundedOn(OpToRel(<, Nat), Nat)
  BY NatLessThanWellFounded
<1>2. \E x \in T : \A y \in T : ~ (<<y, x>> \in OpToRel(<, Nat))
  BY <1>1, WFMin, Zenon
<1>3. \A x, y \in Nat : y < x => <<y, x>> \in OpToRel(<, Nat)
  BY DEF OpToRel
<1>4. \E x \in T : \A y \in T : ~ (y < x)
  BY <1>2, <1>3, Zenon
<1>5. \A x, y \in Nat : ~ (y < x) => x <= y
  OBVIOUS
<1> QED BY <1>4, <1>5, Zenon

(* The last of the events of a set, 0 when there is none. *)
Latest(S) == IF S = {} THEN 0 ELSE CHOOSE n \in S : \A m \in S : m <= n

LEMMA LatestTyped ==
    ASSUME NEW k \in Nat, NEW S \in SUBSET (1 .. k)
    PROVE  /\ Latest(S) \in 0 .. k
           /\ S # {} => Latest(S) \in S
<1>1. CASE S = {}
  BY <1>1 DEF Latest
<1>2. CASE S # {}
  <2> DEFINE T == {y \in Nat : \A x \in S : x <= y}
  <2>1. k \in T
    OBVIOUS
  <2>2. PICK y \in T : \A z \in T : y <= z
    <3>1. T \in SUBSET Nat /\ T # {}
      BY <2>1
    <3> HIDE DEF T
    <3> QED BY <3>1, LeastNumber
  <2>3. y \in S
    <3> SUFFICES ASSUME y \notin S PROVE FALSE
      OBVIOUS
    <3>1. y \in Nat /\ \A x \in S : x <= y
      BY <2>2
    <3>2. PICK x1 \in S : x1 \in 1 .. k
      BY <1>2
    <3>3. x1 <= y
      BY <3>1
    <3>4. y - 1 \in Nat
      BY <3>1, <3>2, <3>3
    <3>5. ASSUME NEW x \in S PROVE x <= y - 1
      <4>1. x <= y /\ x # y /\ x \in Nat
        BY <3>1
      <4> QED BY <3>1, <4>1
    <3>6. y - 1 \in T
      BY <3>4, <3>5
    <3>7. y <= y - 1
      BY <2>2, <3>6
    <3> QED BY <3>1, <3>7
  <2>4. \E n \in S : \A m \in S : m <= n
    BY <2>2, <2>3
  <2>5. Latest(S) \in S
    BY <1>2, <2>4 DEF Latest
  <2>6. \A n \in S : n \in 0 .. k
    OBVIOUS
  <2> QED BY <2>5, <2>6
<1> QED BY <1>1, <1>2

LEMMA LatestIsTop ==
    ASSUME NEW k \in Nat \ {0}, NEW S \in SUBSET (1 .. k), k \in S
    PROVE  Latest(S) = k
<1>1. \A m \in S : m <= k
  OBVIOUS
<1>2. ASSUME NEW n \in S, \A m \in S : m <= n PROVE n = k
  <2>1. n \in Nat /\ n <= k /\ k <= n
    BY <1>2
  <2> QED BY <2>1
<1>3. Latest(S) = CHOOSE n \in S : \A m \in S : m <= n
  BY DEF Latest
<1> QED BY <1>1, <1>2, <1>3

(* The events among the first n of a log that move the issue, claim it,     *)
(* free it or set its links, and what the first n say of it.                *)
Frees(e) == e.kind = "release" \/ (e.kind # "claim" /\ e.to \notin {Nothing, "doing"})

Moved(log1, n)   == {m \in 1 .. n : log1[m].to # Nothing}
Claimed(log1, n) == {m \in 1 .. n : log1[m].kind = "claim"}
Freed(log1, n)   == {m \in 1 .. n : Frees(log1[m])}
Linked(log1, n)  == {m \in 1 .. n : log1[m].sets}

SaysFirst(log1, n) ==
    [state  |-> IF Latest(Moved(log1, n)) = 0 THEN InitialState ELSE log1[Latest(Moved(log1, n))].to,
     holder |-> IF Latest(Claimed(log1, n)) > Latest(Freed(log1, n))
                THEN log1[Latest(Claimed(log1, n))].actor ELSE Nothing,
     blocks |-> IF Latest(Linked(log1, n)) = 0 THEN {} ELSE log1[Latest(Linked(log1, n))].blocks]

Last1 == Cardinality(Names)

LEMMA NamesAre == Last1 \in Nat /\ Names = 1 .. Last1 /\ Upto = 0 .. Last1
  BY ConfigAssumption, FS_CardinalityType DEF Last1, Upto

LEMMA LogSaysAll ==
    ASSUME NEW log1
    PROVE  LogSays(log1) = SaysFirst(log1, Last1)
<1>1. Latest(Moved(log1, Last1)) = LastOf(log1, LAMBDA e : e.to # Nothing)
  BY NamesAre DEF Latest, Moved, LastOf
<1>2. Latest(Claimed(log1, Last1)) = LastOf(log1, LAMBDA e : e.kind = "claim")
  BY NamesAre DEF Latest, Claimed, LastOf
<1>3. Latest(Freed(log1, Last1)) =
        LastOf(log1, LAMBDA e : \/ e.kind = "release"
                                \/ e.kind # "claim" /\ e.to \notin {Nothing, "doing"})
  BY NamesAre DEF Latest, Freed, Frees, LastOf
<1>4. Latest(Linked(log1, Last1)) = LastOf(log1, LAMBDA e : e.sets)
  BY NamesAre DEF Latest, Linked, LastOf
<1> QED BY <1>1, <1>2, <1>3, <1>4 DEF LogSays, SaysFirst


LEMMA LatestGrows ==
    ASSUME NEW n \in Nat \ {0}, NEW B \in SUBSET (1 .. n)
    PROVE  /\ Latest(B) = IF n \in B THEN n ELSE Latest(B \ {n})
           /\ Latest(B \ {n}) \in 0 .. n - 1
           /\ Latest(B \ {n}) # 0 => Latest(B \ {n}) \in B \ {n}
<1>1. B \ {n} \in SUBSET (1 .. n - 1) /\ n - 1 \in Nat
  OBVIOUS
<1>2. n \notin B => B \ {n} = B
  OBVIOUS
<1>3. Latest({}) = 0
  BY DEF Latest
<1> QED BY <1>1, <1>2, <1>3, LatestTyped, LatestIsTop

(* One event more changes what the log says as the fold does. *)
LEMMA SaysApplied ==
    ASSUME NEW log1 \in [Names -> Event], \A k \in Names : Claims(log1[k]),
           NEW n \in Nat \ {0}, n \in Names
    PROVE  SaysFirst(log1, n) = Applied(SaysFirst(log1, n - 1), log1[n])
<1> DEFINE e == log1[n]
           mv == Moved(log1, n)    mv0 == Moved(log1, n - 1)
           cl == Claimed(log1, n)  cl0 == Claimed(log1, n - 1)
           fr == Freed(log1, n)    fr0 == Freed(log1, n - 1)
           li == Linked(log1, n)   li0 == Linked(log1, n - 1)
           acc == SaysFirst(log1, n - 1)
<1>1. /\ mv \in SUBSET (1 .. n) /\ mv0 = mv \ {n} /\ (n \in mv <=> e.to # Nothing)
      /\ cl \in SUBSET (1 .. n) /\ cl0 = cl \ {n} /\ (n \in cl <=> e.kind = "claim")
      /\ fr \in SUBSET (1 .. n) /\ fr0 = fr \ {n} /\ (n \in fr <=> Frees(e))
      /\ li \in SUBSET (1 .. n) /\ li0 = li \ {n} /\ (n \in li <=> e.sets)
  <2>1. mv \in SUBSET (1 .. n) /\ mv0 = mv \ {n} /\ (n \in mv <=> e.to # Nothing)
    BY DEF Moved
  <2>2. cl \in SUBSET (1 .. n) /\ cl0 = cl \ {n} /\ (n \in cl <=> e.kind = "claim")
    BY DEF Claimed
  <2>3. fr \in SUBSET (1 .. n) /\ fr0 = fr \ {n} /\ (n \in fr <=> Frees(e))
    <3> HIDE DEF e
    <3>1. \A m \in 1 .. n : m \in 1 .. n - 1 \/ m = n
      OBVIOUS
    <3> QED BY <3>1 DEF Freed, e
  <2>4. li \in SUBSET (1 .. n) /\ li0 = li \ {n} /\ (n \in li <=> e.sets)
    BY DEF Linked
  <2> QED BY <2>1, <2>2, <2>3, <2>4
<1>2. e \in Event /\ Claims(e)
  OBVIOUS
<1> DEFINE lm == Latest(mv0)  lc == Latest(cl0)  lf == Latest(fr0)  ll == Latest(li0)
<1>3. acc = [state  |-> IF lm = 0 THEN InitialState ELSE log1[lm].to,
             holder |-> IF lc > lf THEN log1[lc].actor ELSE Nothing,
             blocks |-> IF ll = 0 THEN {} ELSE log1[ll].blocks]
  BY DEF SaysFirst
<1> HIDE DEF mv, mv0, cl, cl0, fr, fr0, li, li0
<1>4. /\ Latest(mv) = IF e.to # Nothing THEN n ELSE lm
      /\ Latest(cl) = IF e.kind = "claim" THEN n ELSE lc
      /\ Latest(fr) = IF Frees(e) THEN n ELSE lf
      /\ Latest(li) = IF e.sets THEN n ELSE ll
      /\ lc \in 0 .. n - 1 /\ lf \in 0 .. n - 1
  BY <1>1, LatestGrows
<1>5. SaysFirst(log1, n) =
        [state  |-> IF Latest(mv) = 0 THEN InitialState ELSE log1[Latest(mv)].to,
         holder |-> IF Latest(cl) > Latest(fr) THEN log1[Latest(cl)].actor ELSE Nothing,
         blocks |-> IF Latest(li) = 0 THEN {} ELSE log1[Latest(li)].blocks]
  BY DEF SaysFirst, mv, cl, fr, li
<1> DEFINE all == SaysFirst(log1, n)
<1> HIDE DEF lm, lc, lf, ll
<1>6. all.state = IF e.to # Nothing THEN e.to ELSE acc.state
  BY <1>3, <1>4, <1>5
<1>7. all.blocks = IF e.sets THEN e.blocks ELSE acc.blocks
  <2>1. all.blocks = IF Latest(li) = 0 THEN {} ELSE log1[Latest(li)].blocks
    BY <1>5
  <2>2. acc.blocks = IF ll = 0 THEN {} ELSE log1[ll].blocks
    BY <1>3
  <2>3. Latest(li) = IF e.sets THEN n ELSE ll
    BY <1>4
  <2>4. CASE e.sets
    <3>1. Latest(li) = n /\ n # 0
      BY <2>3, <2>4, Zenon
    <3>2. all.blocks = e.blocks
      BY <2>1, <3>1
    <3> HIDE DEF all, acc
    <3> QED BY <2>4, <3>2, Zenon
  <2>5. CASE ~ e.sets
    <3>1. Latest(li) = ll
      BY <2>3, <2>5, Zenon
    <3>2. all.blocks = acc.blocks
      BY <2>1, <2>2, <3>1
    <3> HIDE DEF all, acc
    <3> QED BY <2>5, <3>2, Zenon
  <2> QED BY <2>4, <2>5
<1>8. all.holder = CASE e.kind = "claim" -> IF e.actor # Nothing THEN e.actor ELSE acc.holder
                     [] e.kind = "release" -> Nothing
                     [] e.kind # "claim" /\ e.kind # "release" /\ e.to \notin {Nothing, "doing"} -> Nothing
                     [] OTHER -> acc.holder
  <2>1. all.holder = IF Latest(cl) > Latest(fr) THEN log1[Latest(cl)].actor ELSE Nothing
    BY <1>5
  <2>2. acc.holder = IF lc > lf THEN log1[lc].actor ELSE Nothing
    BY <1>3
  <2>3. CASE e.kind = "claim"
    <3>1. Latest(cl) = n /\ Latest(fr) = lf /\ e.actor # Nothing
      BY <1>2, <1>4, <2>3 DEF Frees, Claims
    <3>2. n > lf
      BY <1>4
    <3> QED BY <2>1, <2>3, <3>1, <3>2
  <2>4. CASE Frees(e)
    <3>1. e.kind # "claim" /\ Latest(cl) = lc /\ Latest(fr) = n
      BY <1>4, <2>4 DEF Frees
    <3>2. ~ (lc > n)
      BY <1>4
    <3>3. all.holder = Nothing
      BY <2>1, <3>1, <3>2
    <3> QED BY <2>4, <3>1, <3>3 DEF Frees
  <2>5. CASE e.kind # "claim" /\ ~ Frees(e)
    <3>1. Latest(cl) = lc /\ Latest(fr) = lf
      BY <1>4, <2>5
    <3>2. all.holder = acc.holder
      BY <2>1, <2>2, <3>1
    <3> QED BY <2>5, <3>2 DEF Frees
  <2> QED BY <2>3, <2>4, <2>5
<1>9. all = [state |-> all.state, blocks |-> all.blocks, holder |-> all.holder]
  BY <1>5
<1> HIDE DEF all, acc, e
<1> QED BY <1>6, <1>7, <1>8, <1>9 DEF Applied, all, acc, e

(* foldEvents computes what the log says, for every log. *)
LEMMA FoldIsWhatTheLogSays ==
    ASSUME NEW log1 \in [Names -> Event], \A k \in Names : Claims(log1[k])
    PROVE  FoldLog(log1) = LogSays(log1)
<1> DEFINE One(acc, n) == IF n = 0 THEN Start
                          ELSE IF n \in Names THEN Applied(acc[n - 1], log1[n]) ELSE acc[n - 1]
           G == [n \in Upto |-> SaysFirst(log1, n)]
<1>1. FoldLog(log1) = (CHOOSE acc : acc = [n \in Upto |-> One(acc, n)])[Last1]
  BY DEF FoldLog, Last1
<1>2. SaysFirst(log1, 0) = Start
  <2>1. Latest({}) = 0
    BY DEF Latest
  <2>2. Moved(log1, 0) = {} /\ Claimed(log1, 0) = {} /\ Freed(log1, 0) = {} /\ Linked(log1, 0) = {}
    BY DEF Moved, Claimed, Freed, Linked
  <2> QED BY <2>1, <2>2 DEF SaysFirst, Start
<1>3. ASSUME NEW n \in Upto PROVE SaysFirst(log1, n) = One(G, n)
  <2>1. CASE n = 0
    BY <1>2, <2>1
  <2>2. CASE n # 0
    <3>1. n \in Nat \ {0} /\ n \in Names /\ n - 1 \in Upto
      BY <2>2, NamesAre
    <3>2. G[n - 1] = SaysFirst(log1, n - 1)
      BY <3>1
    <3> QED BY <2>2, <3>1, <3>2, SaysApplied
  <2> QED BY <2>1, <2>2
<1>4. G = [n \in Upto |-> One(G, n)]
  BY <1>3
<1>5. ASSUME NEW f, f = [n \in Upto |-> One(f, n)], NEW n \in Upto
      PROVE  f[n] = G[n]
  <2> DEFINE T == {m \in Upto : f[m] # G[m]}
  <2> SUFFICES ASSUME T # {} PROVE FALSE
    OBVIOUS
  <2>1. T \in SUBSET Nat
    BY NamesAre
  <2>2. PICK m \in T : \A k \in T : m <= k
    <3> HIDE DEF T
    <3> QED BY <2>1, LeastNumber
  <2>3. f[m] = One(f, m) /\ G[m] = One(G, m) /\ m \in Upto /\ f[m] # G[m]
    BY <1>4, <1>5, <2>2
  <2>4. m # 0
    BY <2>3
  <2>5. m - 1 \in Upto /\ m - 1 \notin T
    BY <2>2, <2>3, <2>4, NamesAre
  <2>6. f[m - 1] = G[m - 1]
    BY <2>5
  <2> QED BY <2>3, <2>6
<1>6. ASSUME NEW f, f = [n \in Upto |-> One(f, n)] PROVE f[Last1] = LogSays(log1)
  <2>1. Last1 \in Upto
    BY NamesAre
  <2>2. f[Last1] = G[Last1]
    BY <1>5, <1>6, <2>1
  <2> QED BY <2>1, <2>2, LogSaysAll
<1> DEFINE c == CHOOSE acc : acc = [n \in Upto |-> One(acc, n)]
<1>7. c = [n \in Upto |-> One(c, n)]
  <2>1. \E acc : acc = [n \in Upto |-> One(acc, n)]
    BY <1>4
  <2> HIDE DEF One
  <2> QED BY <2>1
<1> HIDE DEF c
<1>8. c[Last1] = LogSays(log1)
  BY <1>6, <1>7
<1> QED BY <1>1, <1>8 DEF c

(* ---------------------- From the files to the board -------------------- *)

Says(n) == LogSays(files[n].log)

LEMMA SaysTyped ==
    ASSUME FilesInv, NEW n \in Numbers
    PROVE  /\ Says(n) = [state |-> Says(n).state, holder |-> Says(n).holder,
                         blocks |-> Says(n).blocks]
           /\ Says(n).state \in States
           /\ FoldLog(files[n].log) = Says(n)
<1> DEFINE log1 == files[n].log
           moved == Latest(Moved(log1, Last1))
<1>1. log1 \in [Names -> Event] /\ \A k \in Names : Claims(log1[k])
  BY FileFacts DEF FileType, FilesInv
<1>2. FoldLog(log1) = LogSays(log1)
  BY <1>1, FoldIsWhatTheLogSays
<1>3. LogSays(log1) = SaysFirst(log1, Last1)
  BY LogSaysAll
<1>4. Moved(log1, Last1) \in SUBSET (1 .. Last1) /\ Last1 \in Nat
  BY NamesAre DEF Moved
<1>5. moved = 0 \/ moved \in Moved(log1, Last1)
  BY <1>4, LatestTyped DEF Latest
<1>6. moved # 0 => log1[moved].to \in States
  BY <1>1, <1>5, NamesAre DEF Moved, Event
<1>7. InitialState \in States
  BY ConfigAssumption
<1>8. SaysFirst(log1, Last1).state = IF moved = 0 THEN InitialState ELSE log1[moved].to
  BY DEF SaysFirst
<1>9. Says(n).state \in States
  <2> HIDE DEF log1, moved
  <2> QED BY <1>3, <1>6, <1>7, <1>8 DEF Says, log1
<1>10. SaysFirst(log1, Last1) = [state |-> SaysFirst(log1, Last1).state,
                                 holder |-> SaysFirst(log1, Last1).holder,
                                 blocks |-> SaysFirst(log1, Last1).blocks]
  BY DEF SaysFirst
<1> QED BY <1>2, <1>3, <1>9, <1>10 DEF Says

(* What the classes of tracker.ttl tell: the states, but for one that has   *)
(* the class of all issues, and the categories, but for one that has the    *)
(* class of all of them; and whether a state is open, if no other has its   *)
(* class.                                                                   *)
LEMMA ClassesTell ==
    /\ \A x \in States : ClassName[x] # "Issue" => ClassName[x] \in ParseStates
    /\ \A x \in States : StateIsTold(x) => (IsOpen(ClassName[x]) <=> x \in OpenStates)
    /\ \A t \in Types : ClassName[t] # "Category" => ClassName[t] \in ParseCategories
    /\ \A c \in ParseCategories : \E t \in Types : ClassName[t] = c
<1> DEFINE All == States \cup Types
           Under(c) == {p \in {"Open", "Closed", "Issue", "Category"} :
              \E i \in All : ClassName[i] = c /\
                 \/ i \in States /\ p = "Issue"
                 \/ i \in OpenStates /\ p = "Open"
                 \/ i \in ClosedStates /\ p = "Closed"
                 \/ i \in Types /\ p = "Category"}
<1>1. RenderTracker = [c \in {ClassName[i] : i \in All} |-> Under(c)]
  BY DEF RenderTracker
<1>2. \A x \in All : ClassName[x] \in DOMAIN RenderTracker
                     /\ RenderTracker[ClassName[x]] = Under(ClassName[x])
  <2> HIDE DEF Under, All
  <2> QED BY <1>1
<1>3. \A c \in DOMAIN RenderTracker : RenderTracker[c] = Under(c)
  <2> HIDE DEF Under, All
  <2> QED BY <1>1
<1>4. \A x \in States : "Issue" \in Under(ClassName[x])
  OBVIOUS
<1>5. \A t \in Types : "Category" \in Under(ClassName[t])
  OBVIOUS
<1>6. \A c : "Category" \in Under(c) => \E t \in Types : ClassName[t] = c
  OBVIOUS
<1>7. ASSUME NEW x \in States, StateIsTold(x)
      PROVE  /\ "Open" \in Under(ClassName[x]) <=> x \in OpenStates
             /\ "Closed" \in Under(ClassName[x]) <=> x \in ClosedStates
  <2>1. \A i \in States : ClassName[i] = ClassName[x] => i = x
    BY <1>7 DEF StateIsTold
  <2>2. OpenStates \subseteq States /\ ClosedStates \subseteq States
    BY DEF States
  <2>3. "Open" \in Under(ClassName[x]) <=>
           \E i \in OpenStates : ClassName[i] = ClassName[x]
    BY <2>2
  <2>4. "Closed" \in Under(ClassName[x]) <=>
           \E i \in ClosedStates : ClassName[i] = ClassName[x]
    BY <2>2
  <2> HIDE DEF Under
  <2> QED BY <2>1, <2>2, <2>3, <2>4
<1>8. \A x \in States : x \in OpenStates \/ x \in ClosedStates
  BY DEF States
<1>9. States \subseteq All /\ Types \subseteq All
  OBVIOUS
<1> HIDE DEF Under, All
<1>10. ASSUME NEW x \in States, StateIsTold(x) PROVE IsOpen(ClassName[x]) <=> x \in OpenStates
  <2>1. RenderTracker[ClassName[x]] = Under(ClassName[x])
    BY <1>2, <1>9
  <2> QED BY <1>7, <1>8, <1>10, <2>1 DEF IsOpen
<1>11. \A x \in States : ClassName[x] # "Issue" => ClassName[x] \in ParseStates
  BY <1>2, <1>4, <1>9 DEF ParseStates
<1>12. \A t \in Types : ClassName[t] # "Category" => ClassName[t] \in ParseCategories
  BY <1>2, <1>5, <1>9 DEF ParseCategories
<1>13. \A c \in ParseCategories : \E t \in Types : ClassName[t] = c
  BY <1>3, <1>6 DEF ParseCategories
<1> QED BY <1>10, <1>11, <1>12, <1>13

(* Of a state and a category, the first class that is a state is the one,   *)
(* and the first that is a category the other.                              *)
LEMMA FirstOfTwo ==
    ASSUME NEW x, NEW y, NEW classes
    PROVE  /\ x \in classes => FirstIn(<<x, y>>, classes) = x
           /\ x \notin classes /\ y \in classes => FirstIn(<<x, y>>, classes) = y
<1> DEFINE two == <<x, y>>
           Is(i) == /\ two[i] \in classes
                    /\ \A j \in 1 .. i - 1 : two[j] \notin classes
<1>1. DOMAIN two = {1, 2} /\ two[1] = x /\ two[2] = y
  OBVIOUS
<1>2. ASSUME x \in classes PROVE FirstIn(two, classes) = x
  <2>1. Is(1) /\ ~ Is(2)
    BY <1>2
  <2>2. (CHOOSE i \in DOMAIN two : Is(i)) = 1
    <3> HIDE DEF Is, two
    <3> QED BY <1>1, <2>1
  <2>3. \E i \in DOMAIN two : two[i] \in classes
    BY <1>1, <1>2
  <2> QED BY <1>1, <2>2, <2>3 DEF FirstIn
<1>3. ASSUME x \notin classes, y \in classes PROVE FirstIn(two, classes) = y
  <2>1. Is(2) /\ ~ Is(1)
    BY <1>3
  <2>2. (CHOOSE i \in DOMAIN two : Is(i)) = 2
    <3> HIDE DEF Is, two
    <3> QED BY <1>1, <2>1
  <2>3. \E i \in DOMAIN two : two[i] \in classes
    BY <1>1, <1>3
  <2> QED BY <1>1, <2>2, <2>3 DEF FirstIn
<1> QED BY <1>2, <1>3

(* What is loaded of an issue is what its log says, without the links to    *)
(* issues that are not there.                                               *)
LEMMA LoadedSays ==
    ASSUME FilesInv
    PROVE  /\ DOMAIN Loaded = Known
           /\ \A n \in Known : /\ Loaded[n].state = Says(n).state
                               /\ Loaded[n].holder = Says(n).holder
                               /\ Loaded[n].blocks = Says(n).blocks \cap Known
<1> DEFINE fold == [n \in Known |-> FoldLog(files[n].log)]
<1>1. Loaded = [n \in Known |-> [fold[n] EXCEPT !.blocks = @ \cap Known]]
  BY DEF Loaded
<1>2. ASSUME NEW n \in Known
      PROVE  /\ Loaded[n].state = Says(n).state
             /\ Loaded[n].holder = Says(n).holder
             /\ Loaded[n].blocks = Says(n).blocks \cap Known
  <2>1. n \in Numbers
    BY DEF Known
  <2>2. fold[n] = [state |-> Says(n).state, holder |-> Says(n).holder,
                   blocks |-> Says(n).blocks]
    BY <2>1, SaysTyped
  <2>3. Loaded[n] = [fold[n] EXCEPT !.blocks = @ \cap Known]
    BY <1>1
  <2> HIDE DEF fold
  <2> QED BY <2>2, <2>3
<1> QED BY <1>1, <1>2

(* What the board says of an issue, in a namespace that is told or not.     *)
LEMMA IssueComesBack ==
    ASSUME FilesInv, NEW n \in Known, NEW ns
    PROVE  LET b == ParseIssue(ns, Triples(Loaded, n)) IN
           /\ b.id = n /\ b.assignee = Says(n).holder
           /\ StateIsTold(Says(n).state) =>
                /\ b.state = ClassName[Says(n).state]
                /\ b.open <=> Says(n).state \in OpenStates
           /\ CategoryIsTold(files[n].type, Says(n).state) => b.category = ClassName[files[n].type]
           /\ ns = OwnNs => /\ b.number = {files[n].number}
                            /\ b.epic = {files[n].where} \cap EpicSlugs
                            /\ b.blocks = Says(n).blocks \cap Known
                            /\ b.blockedBy = {m \in Known : n \in Says(m).blocks}
<1> DEFINE t == Triples(Loaded, n)
           state == ClassName[Says(n).state]
           type == ClassName[files[n].type]
           b == ParseIssue(ns, t)
<1>1. n \in Numbers /\ files[n].type \in Types /\ Says(n).state \in States
      /\ files[n].where \in {GeneralDir} \cup EpicSlugs
  BY SaysTyped DEF FilesInv, Known
<1>2. /\ t.iri = n /\ t.ns = OwnNs /\ t.number = files[n].number
      /\ t.epic = {files[n].where} \ {GeneralDir}
      /\ t.types = <<state, type>>
      /\ t.assignee = Says(n).holder
      /\ t.blocks = Says(n).blocks \cap Known
      /\ t.blockedBy = BlockedBy(Loaded, n)
  BY LoadedSays DEF Triples
<1>3. t.epic = {files[n].where} \cap EpicSlugs
  BY <1>1, <1>2, FileFacts, NothingAssumption
<1>4. t.blockedBy = {m \in Known : n \in Says(m).blocks}
  BY <1>2, LoadedSays DEF BlockedBy
<1>5. state # Nothing
  BY <1>1, NothingAssumption
<1> HIDE DEF t
<1>6. /\ b.id = n /\ b.assignee = Says(n).holder
      /\ b.state = FirstIn(t.types, ParseStates)
      /\ b.open = IF b.state = Nothing THEN TRUE ELSE IsOpen(b.state)
      /\ b.category = FirstIn(t.types, ParseCategories)
      /\ ns = OwnNs => /\ b.number = {t.number} /\ b.epic = t.epic
                       /\ b.blocks = t.blocks /\ b.blockedBy = t.blockedBy
  BY <1>2 DEF ParseIssue
<1> HIDE DEF b
<1>7. ASSUME StateIsTold(Says(n).state)
      PROVE  b.state = state /\ (b.open <=> Says(n).state \in OpenStates)
  <2>1. state \in ParseStates
    BY <1>1, <1>7, ClassesTell DEF StateIsTold
  <2>2. b.state = state
    BY <1>2, <1>6, <2>1, FirstOfTwo
  <2>3. IsOpen(state) <=> Says(n).state \in OpenStates
    BY <1>1, <1>7, ClassesTell
  <2> HIDE DEF state
  <2>4. b.open = IsOpen(state)
    BY <1>5, <1>6, <2>2, Zenon
  <2> QED BY <2>2, <2>3, <2>4
<1>8. ASSUME CategoryIsTold(files[n].type, Says(n).state)
      PROVE  b.category = type
  <2>1. type \in ParseCategories
    BY <1>1, <1>8, ClassesTell DEF CategoryIsTold
  <2>2. state \in ParseCategories => state = type
    <3> SUFFICES ASSUME state \in ParseCategories PROVE state = type
      OBVIOUS
    <3>1. PICK u \in Types : ClassName[u] = state
      BY ClassesTell
    <3>2. u = files[n].type
      BY <1>8, <3>1 DEF CategoryIsTold
    <3> QED BY <3>1, <3>2
  <2> HIDE DEF state, type
  <2>3. FirstIn(<<state, type>>, ParseCategories) = type
    BY <2>1, <2>2, FirstOfTwo
  <2> QED BY <1>2, <1>6, <2>3
<1>9. ns = OwnNs => /\ b.number = {files[n].number}
                   /\ b.epic = {files[n].where} \cap EpicSlugs
                   /\ b.blocks = Says(n).blocks \cap Known
                   /\ b.blockedBy = {m \in Known : n \in Says(m).blocks}
  BY <1>2, <1>3, <1>4, <1>6
<1> QED BY <1>6, <1>7, <1>8, <1>9 DEF b, t

LEMMA BoardFollows == FilesInv => BoardIsTheFiles
<1> SUFFICES ASSUME FilesInv PROVE BoardIsTheFiles
  OBVIOUS
<1> DEFINE ns == DetectMcNamespace(Subjects)
           says == [n \in Known |-> LogSays(files[n].log)]
           B(n) == ParseIssue(ns, Triples(Loaded, n))
<1>1. ParseTrackerTrio = {B(n) : n \in Known}
  BY DEF ParseTrackerTrio, RenderState
<1>2. \A n \in Known : says[n] = Says(n)
  BY DEF Says
<1>3. ASSUME NEW n \in Known, NamespaceIsTold PROVE ns = OwnNs
  <2>1. Triples(Loaded, n) \in RenderState
    BY DEF RenderState
  <2>2. Subjects # {}
    BY <2>1 DEF Subjects
  <2> QED BY <1>3, <2>2, OneNamespace
<1> DEFINE Right(b, n) ==
              /\ n \in Known /\ b.assignee = says[n].holder
              /\ StateIsTold(says[n].state) =>
                    /\ b.state = ClassName[says[n].state]
                    /\ b.open <=> says[n].state \in OpenStates
              /\ CategoryIsTold(files[n].type, says[n].state) => b.category = ClassName[files[n].type]
              /\ NamespaceIsTold =>
                    /\ b.number = {files[n].number}
                    /\ b.epic = {files[n].where} \cap EpicSlugs
                    /\ b.blocks = says[n].blocks \cap Known
                    /\ b.blockedBy = {m \in Known : n \in says[m].blocks}
<1>4. ASSUME NEW n \in Known PROVE B(n).id = n /\ Right(B(n), n)
  <2>1. says[n] = Says(n) /\ {m \in Known : n \in says[m].blocks} = {m \in Known : n \in Says(m).blocks}
    BY <1>2
  <2> HIDE DEF says, ns
  <2> QED BY <1>3, <2>1, IssueComesBack
<1> HIDE DEF B
<1>5. ASSUME NEW n \in Known PROVE Cardinality({b \in ParseTrackerTrio : b.id = n}) = 1
  <2>1. {b \in ParseTrackerTrio : b.id = n} = {B(n)}
    BY <1>1, <1>4
  <2> QED BY <2>1, FS_Singleton
<1>6. NamespaceIsTold => \A m, n \in Known : files[m].number = files[n].number => m = n
  BY DEF FilesInv
<1> DEFINE E(i) == [iri |-> epics[i], number |-> i, ns |-> OwnNs,
                    count |-> Cardinality({n \in Known : files[n].where = epics[i]})]
           Epic(i) == [slug |-> epics[i], number |-> i]
<1>7. NamespaceIsTold => ParseEpics = {Epic(i) : i \in DOMAIN epics}
  <2> SUFFICES ASSUME NamespaceIsTold PROVE ParseEpics = {Epic(i) : i \in DOMAIN epics}
    OBVIOUS
  <2>1. RenderEpics = {E(i) : i \in DOMAIN epics}
    BY DEF RenderEpics
  <2>2. \A i : E(i).iri = epics[i] /\ E(i).number = i /\ E(i).ns = OwnNs
    OBVIOUS
  <2> HIDE DEF E
  <2>3. ASSUME NEW i \in DOMAIN epics PROVE ns = OwnNs
    <3>1. Subjects # {}
      BY <2>1 DEF Subjects
    <3> QED BY <3>1, OneNamespace
  <2>4. ParseEpics = {[slug |-> e.iri, number |-> e.number] : e \in {d \in RenderEpics : d.ns = ns}}
    BY DEF ParseEpics
  <2> HIDE DEF ns
  <2>5. {d \in RenderEpics : d.ns = ns} = {E(i) : i \in DOMAIN epics}
    BY <2>1, <2>2, <2>3
  <2> QED BY <2>2, <2>4, <2>5
<1>8. NamespaceIsTold => {e.slug : e \in ParseEpics} = EpicSlugs
  <2>1. \A i : Epic(i).slug = epics[i]
    OBVIOUS
  <2> HIDE DEF Epic
  <2> QED BY <1>7, <2>1 DEF EpicSlugs
<1>9. NamespaceIsTold => \A e, f \in ParseEpics : e.number = f.number => e = f
  <2>1. \A i : Epic(i).number = i
    OBVIOUS
  <2> HIDE DEF Epic
  <2> QED BY <1>7, <2>1
<1> HIDE DEF says, ns
<1>10. \A b \in ParseTrackerTrio : \E n \in Known : b = B(n)
  BY <1>1
<1>11. ASSUME NEW b \in ParseTrackerTrio PROVE Right(b, b.id)
  <2>1. PICK n \in Known : b = B(n)
    BY <1>10
  <2> HIDE DEF Right
  <2> QED BY <1>4, <2>1
<1> QED BY <1>5, <1>6, <1>8, <1>9, <1>11, Zenon DEF BoardIsTheFiles, says

(* ------------------------------- Theorems ------------------------------ *)

AllVars == <<vars, fileVars, part>>

LEMMA TrackerStep ==
    ASSUME [TrackerNext]_AllVars
    PROVE  [Next]_vars /\ [FilesNext]_fileVars
  BY DEF TrackerNext, AllVars, vars, fileVars

(* The invariants of the two parts hold of every behaviour of them, for any *)
(* number of requests, proposals, mirrors, commits, issues, epics, events   *)
(* and failures.                                                            *)
THEOREM TrackerInvariant == TrackerSpec => [](TrackerInv /\ FilesInv)
<1>1. TrackerInit => TrackerInv /\ FilesInv
  BY InitHolds, FilesInitHolds DEF TrackerInit
<1>2. TrackerInv /\ FilesInv /\ [TrackerNext]_AllVars => (TrackerInv /\ FilesInv)'
  BY TrackerStep, NextHolds, FilesNextHolds
<1> QED BY <1>1, <1>2, PTL DEF TrackerSpec, AllVars

(* Types; an issue is in an epic of its own branch, a mirror is of a commit *)
(* that is there, and a pod with state.ttl has the epics.ttl it is read     *)
(* with.                                                                    *)
THEOREM TrackerTypes == TrackerSpec => []TrackerTypeOK
<1>1. TrackerInv /\ FilesInv => TrackerTypeOK
  BY TypesFollow DEF TrackerTypeOK, FilesInv
<1> QED BY <1>1, TrackerInvariant, PTL

(* However authors, clients, mirrors and restarts interleave, the branch    *)
(* can be folded, has no number twice and loses nothing that was pushed, and*)
(* the board shows each of its issues once (createMindIssue, createMindEpic,*)
(* groupByEpic).                                                            *)
THEOREM TrackerKeeps == TrackerSpec => []TrackerKeepsItsIssues
<1>1. TrackerInv => TrackerKeepsItsIssues
  BY BranchGrows, EveryIssueShown DEF TrackerKeepsItsIssues
<1> QED BY <1>1, TrackerInvariant, PTL

(* A proposal leaves the inbox only by a dismissal, or with its issue on    *)
(* the branch (the accept route).                                           *)
THEOREM ProposalsStay == TrackerSpec => NoProposalIsLost
<1>1. TrackerInv /\ [TrackerNext]_AllVars =>
         [\A p \in Inbox \ Inbox' :
             \/ \E r \in Requests : request[r].op = "dismiss" /\ request[r].arg = p
             \/ \E i \in log[Len(log)].src.issues : i.from = p]_vars
  BY TrackerStep, ProposalsAreKept DEF Kept
<1> QED BY <1>1, TrackerInvariant, PTL DEF TrackerSpec, AllVars, NoProposalIsLost

(* For every configuration that loadConfig takes, every tree of issues and  *)
(* epics and every log of events, the board reads from the three documents  *)
(* what the files say (foldEvents, the build and parse.ts): of a state or a *)
(* category where the classes tell it, and of the tracker's own terms where *)
(* its namespace is told.                                                   *)
THEOREM BoardStaysTheFiles == TrackerSpec => []BoardIsTheFiles
<1>1. FilesInv => BoardIsTheFiles
  BY BoardFollows
<1> QED BY <1>1, TrackerInvariant, PTL
=============================================================================
