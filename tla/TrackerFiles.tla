---------------------------- MODULE TrackerFiles ----------------------------
(***************************************************************************)
(* The files of a tracker, what the build makes of them, and what the      *)
(* board reads back: .mind/issues with an append-only log of events per    *)
(* issue (src/src/lib/tracker/author.ts), the fold into three Turtle       *)
(* documents (lib/tracker/build.ts) and their parser (lib/tracker/parse.ts,*)
(* lib/tracker/model.ts).  Tracker has the git and the pod of it; here the *)
(* files themselves grow, in any order: clones that are merged put events  *)
(* and epics between those that are there, since names begin with a time.  *)
(*                                                                         *)
(* A document is its triples.  A class is named by className of an id; two *)
(* ids may share one.                                                      *)
(***************************************************************************)
EXTENDS Integers, Sequences, FiniteSets

CONSTANTS
    OpenStates, ClosedStates,   \* ids of the states of tracker.config.md
    Types,          \* ids of its categories
    InitialState,
    ClassName,      \* className, for all of these
    StateLabel, TypeLabel,   \* their labels: an id of its own where none is given
    OwnNs, Fallback,   \* namespace of the config, and MC_FALLBACK
    HashNamespaces,    \* namespaces that end in '#', but for RDF, RDFS and FLOW
    Actors, EpicNames,
    Nothing,        \* undefined
    GeneralDir,     \* 00_general_issues, the directory of issues without an epic
    Numbers,        \* issues, in the order in which they are authored
    Names,          \* names of events, numbered in the order of their times
    MaxFiles        \* bound: files of epics and of events

States == OpenStates \cup ClosedStates

(* loadConfig asks for an initial state that is declared, and for nothing   *)
(* else: two ids may share a class, a state and a category may have one id, *)
(* a label need not be the id, the namespace may be any.                    *)
ASSUME ConfigAssumption ==
    /\ InitialState \in States
    /\ Numbers \subseteq Nat /\ IsFiniteSet(Numbers) /\ Numbers = 1 .. Cardinality(Numbers)
    /\ IsFiniteSet(Names) /\ Names = 1 .. Cardinality(Names)
    /\ MaxFiles \in Nat

Kinds == {"open", "claim", "release", "move"}

(* undefined is no string, and no epic is in the directory of the issues    *)
(* without one: it does not match ENTRY_DIR_RE.                             *)
ASSUME NothingAssumption ==
    /\ Nothing \notin Kinds \cup States \cup Actors \cup EpicNames \cup {GeneralDir}
    /\ \A i \in States \cup Types : ClassName[i] # Nothing
    /\ GeneralDir \notin EpicNames

VARIABLES
    files,   \* per issue: its number, directory, category and events
    epics    \* slugs of epic.md, in the order of their directories

fileVars == <<files, epics>>

NoEvent  == [kind |-> Nothing, to |-> Nothing, actor |-> Nothing, sets |-> FALSE, blocks |-> {}]
NoIssue  == [number |-> 0, where |-> Nothing, type |-> Nothing, log |-> [n \in Names |-> NoEvent]]
Event    == [kind : Kinds \cup {Nothing}, to : States \cup {Nothing},
             actor : Actors \cup {Nothing}, sets : BOOLEAN, blocks : SUBSET Numbers]

FilesTypeOK ==
    /\ files \in [Numbers -> [number : Nat, where : EpicNames \cup {GeneralDir, Nothing},
                              type : Types \cup {Nothing}, log : [Names -> Event]]]
    /\ epics \in Seq(EpicNames) /\ \A i, j \in DOMAIN epics : epics[i] = epics[j] => i = j

FilesInit == files = [n \in Numbers |-> NoIssue] /\ epics = <<>>

Known == {n \in Numbers : files[n].where # Nothing}
EpicSlugs == {epics[i] : i \in DOMAIN epics}
Room == Len(epics) + Cardinality({x \in Numbers \X Names : files[x[1]].log[x[2]] # NoEvent}) < MaxFiles

-----------------------------------------------------------------------------
(* foldEvents: every event of the log in turn. *)
Start == [state |-> InitialState, holder |-> Nothing, blocks |-> {}]

(* Slip: a move keeps the holder. *)
AppliedKeepingHolder(acc, e) ==
    [state  |-> IF e.to # Nothing THEN e.to ELSE acc.state,
     blocks |-> IF e.sets THEN e.blocks ELSE acc.blocks,
     holder |-> CASE e.kind = "claim"   -> IF e.actor # Nothing THEN e.actor ELSE acc.holder
                  [] e.kind = "release" -> Nothing
                  [] OTHER -> acc.holder]

Applied(acc, e) ==
    [state  |-> IF e.to # Nothing THEN e.to ELSE acc.state,
     blocks |-> IF e.sets THEN e.blocks ELSE acc.blocks,
     holder |-> CASE e.kind = "claim"   -> IF e.actor # Nothing THEN e.actor ELSE acc.holder
                  [] e.kind = "release" -> Nothing
                  [] e.kind # "claim" /\ e.kind # "release" /\ e.to \notin {Nothing, "doing"} -> Nothing
                  [] OTHER -> acc.holder]

Upto == 0 .. Cardinality(Names)
FoldLog(log) ==
    LET acc[n \in Upto] == IF n = 0 THEN Start
                           ELSE IF n \in Names THEN Applied(acc[n - 1], log[n]) ELSE acc[n - 1]
    IN acc[Cardinality(Names)]

(* loadIssuesIn and linkDependencies: references to issues that are not     *)
(* there are dropped.                                                       *)
Loaded ==
    LET fold == [n \in Known |-> FoldLog(files[n].log)] IN
    [n \in Known |-> [fold[n] EXCEPT !.blocks = @ \cap Known]]

BlockedBy(fold, n) == {m \in DOMAIN fold : n \in fold[m].blocks}

-----------------------------------------------------------------------------
(* renderTracker: the classes of tracker.ttl and what they are under. *)
RenderTracker ==
    [c \in {ClassName[i] : i \in States \cup Types} |->
       {p \in {"Open", "Closed", "Issue", "Category"} :
          \E i \in States \cup Types : ClassName[i] = c /\
             \/ i \in States /\ p = "Issue"
             \/ i \in OpenStates /\ p = "Open"
             \/ i \in ClosedStates /\ p = "Closed"
             \/ i \in Types /\ p = "Category"}]

(* renderEpics: epics.ttl, in the namespace of the config. *)
RenderEpics ==
    {[iri |-> epics[i], number |-> i, ns |-> OwnNs,
      count |-> Cardinality({n \in Known : files[n].where = epics[i]})] : i \in DOMAIN epics}

(* renderState: state.ttl; an issue of the general lane has no mc:epic.     *)
Triples(fold, n) ==
    [iri |-> n, ns |-> OwnNs, number |-> files[n].number, epic |-> {files[n].where} \ {GeneralDir},
     types |-> <<ClassName[fold[n].state], ClassName[files[n].type]>>,
     assignee |-> fold[n].holder, blocks |-> fold[n].blocks, blockedBy |-> BlockedBy(fold, n)]

RenderState == LET fold == Loaded IN {Triples(fold, n) : n \in Known}

-----------------------------------------------------------------------------
(* parse.ts.  The namespace is read off the predicates of the three         *)
(* documents, up to a '#'.                                                  *)
DetectMcNamespace(subjects) ==
    LET told == subjects \cap HashNamespaces IN
    IF told = {} THEN Fallback ELSE CHOOSE ns \in told : TRUE

(* The namespaces whose terms are read back. *)
NamespaceIsTold == OwnNs \in HashNamespaces \cup {Fallback}

Subjects == {e.ns : e \in RenderEpics} \cup {s.ns : s \in RenderState}

(* The class of all issues is no state, and that of all categories is none. *)
ParseStates     == {c \in DOMAIN RenderTracker \ {"Issue"} : "Issue" \in RenderTracker[c]}
ParseCategories == {c \in DOMAIN RenderTracker \ {"Category"} : "Category" \in RenderTracker[c]}
IsOpen(c)       == "Open" \in RenderTracker[c] \/ "Closed" \notin RenderTracker[c]

ParseEpics ==
    LET ns == DetectMcNamespace(Subjects) IN
    {[slug |-> e.iri, number |-> e.number] : e \in {d \in RenderEpics : d.ns = ns}}

(* The first type that is a state, the first that is a category; an issue   *)
(* without a state is open.                                                 *)
FirstIn(types, classes) ==
    IF \E i \in DOMAIN types : types[i] \in classes
    THEN types[CHOOSE i \in DOMAIN types : /\ types[i] \in classes
                                           /\ \A j \in 1 .. i - 1 : types[j] \notin classes]
    ELSE Nothing

ParseIssue(ns, s) ==
    LET state == FirstIn(s.types, ParseStates)
        Mc(values) == IF s.ns = ns THEN values ELSE {} IN
    [id |-> s.iri, number |-> Mc({s.number}), epic |-> Mc(s.epic),
     state |-> state, open |-> IF state = Nothing THEN TRUE ELSE IsOpen(state),
     category |-> FirstIn(s.types, ParseCategories), assignee |-> s.assignee,
     blocks |-> Mc(s.blocks), blockedBy |-> Mc(s.blockedBy)]

ParseTrackerTrio ==
    LET ns == DetectMcNamespace(Subjects) IN {ParseIssue(ns, s) : s \in RenderState}

-----------------------------------------------------------------------------
(* createMindEpic: a slug that is not taken, a directory at the end; or one *)
(* from another clone, whose time is earlier.                               *)
AddEpic ==
    /\ Room
    /\ \E slug \in EpicNames \ EpicSlugs, at \in 0 .. Len(epics) :
          epics' = SubSeq(epics, 1, at) \o <<slug>> \o SubSeq(epics, at + 1, Len(epics))
    /\ UNCHANGED files

(* The labels of a class: the first of the document is read, of a state     *)
(* before that of the class of issues and those of categories.              *)
Labels(c) ==
    LET OfStates == {StateLabel[i] : i \in {j \in States : ClassName[j] = c}} IN
    IF OfStates # {} THEN OfStates ELSE IF c = "Issue" THEN {"Issue"}
    ELSE {TypeLabel[i] : i \in {j \in Types : ClassName[j] = c}}

(* One more than the largest number of the board. *)
NextOnBoard ==
    LET read == UNION {b.number : b \in ParseTrackerTrio} IN
    IF read = {} THEN 1 ELSE 1 + CHOOSE k \in read : \A m \in read : m <= k

(* createMindIssue: a category of the board, whose label is written; an     *)
(* epic of the board; the next number; and the event that opens it.  What   *)
(* cannot be folded again is not pushed: a label that is no category's id,  *)
(* or no state todo.                                                        *)
AddIssue(n, at) ==
    /\ Room /\ n \notin Known /\ \A m \in Numbers : m < n => m \in Known
    /\ "todo" \in States
    /\ \E c \in ParseCategories, where \in {GeneralDir} \cup {e.slug : e \in ParseEpics} :
       \E type \in Labels(c) \cap Types :
          files' = [files EXCEPT ![n] =
             [number |-> NextOnBoard, where |-> where, type |-> type,
              log |-> [NoIssue.log EXCEPT ![at] = [NoEvent EXCEPT !.kind = "open", !.to = "todo"]]]]
    /\ UNCHANGED epics

(* A push adds an event: an issue is claimed, which starts it, or released, *)
(* moved, or set to block another, which may not be there yet; what names   *)
(* no state of the configuration is not folded, and changes no document.    *)
EventRecords(n) ==
    {[NoEvent EXCEPT !.kind = "claim", !.to = "doing", !.actor = a] : a \in Actors}
      \cup {[NoEvent EXCEPT !.kind = "release"]}
      \cup {[NoEvent EXCEPT !.kind = "move", !.to = to] : to \in States}
      \cup {[NoEvent EXCEPT !.kind = "move", !.sets = TRUE, !.blocks = {m}] : m \in Numbers \ {n}}

AddEvent(n, at) ==
    /\ Room /\ n \in Known /\ files[n].log[at] = NoEvent
    /\ \E e \in EventRecords(n) : /\ e.to \in States \cup {Nothing}
                                  /\ files' = [files EXCEPT ![n].log[at] = e]
    /\ UNCHANGED epics

FilesNext == AddEpic \/ \E n \in Numbers, at \in Names : AddIssue(n, at) \/ AddEvent(n, at)

FilesSpec == FilesInit /\ [][FilesNext]_fileVars

-----------------------------------------------------------------------------
(* What a log means, said without the loop: the state is the last one that  *)
(* is named; the holder is the actor of the last claim, unless it was       *)
(* released or moved on since; the links are those set last.                *)
LastOf(log, P(_)) ==
    LET S == {n \in Names : P(log[n])} IN
    IF S = {} THEN 0 ELSE CHOOSE n \in S : \A m \in S : m <= n

LogSays(log) ==
    LET moved   == LastOf(log, LAMBDA e : e.to # Nothing)
        claimed == LastOf(log, LAMBDA e : e.kind = "claim")
        freed   == LastOf(log, LAMBDA e : \/ e.kind = "release"
                                          \/ e.kind # "claim" /\ e.to \notin {Nothing, "doing"})
        linked  == LastOf(log, LAMBDA e : e.sets)
    IN [state  |-> IF moved = 0 THEN InitialState ELSE log[moved].to,
        holder |-> IF claimed > freed THEN log[claimed].actor ELSE Nothing,
        blocks |-> IF linked = 0 THEN {} ELSE log[linked].blocks]

(* What can be read off the classes: the state of an issue whose class is   *)
(* that of no other state, and the category of one whose class, and that of *)
(* the issue's state, are those of no other category.                       *)
StateIsTold(s)       == /\ ClassName[s] # "Issue"
                        /\ \A i \in States : ClassName[i] = ClassName[s] => i = s
CategoryIsTold(t, s) == /\ ClassName[t] # "Category"
                        /\ \A i \in Types : ClassName[i] \in {ClassName[s], ClassName[t]} => i = t

(* The board is the files: through the three documents every issue comes    *)
(* back once, held by whom its log says; with its state and its category    *)
(* where the classes of the configuration tell them; and, in a namespace    *)
(* that is told, with its number, which no other has, its lane and its      *)
(* links, and whatever blocks an issue is blocked by it on the other side.  *)
BoardIsTheFiles ==
    LET says  == [n \in Known |-> LogSays(files[n].log)]
        board == ParseTrackerTrio IN
    /\ \A n \in Known : Cardinality({b \in board : b.id = n}) = 1
    /\ \A b \in board :
          LET n == b.id IN
          /\ n \in Known /\ b.assignee = says[n].holder
          /\ StateIsTold(says[n].state) =>
                /\ b.state = ClassName[says[n].state]
                /\ b.open <=> says[n].state \in OpenStates
          /\ CategoryIsTold(files[n].type, says[n].state) => b.category = ClassName[files[n].type]
          /\ NamespaceIsTold =>
                /\ b.number = {files[n].number}
                /\ b.epic = {files[n].where} \cap EpicSlugs
                /\ b.blocks = says[n].blocks \cap Known
                /\ b.blockedBy = {m \in Known : n \in says[m].blocks}
    /\ NamespaceIsTold =>
          /\ \A m, n \in Known : files[m].number = files[n].number => m = n
          /\ {e.slug : e \in ParseEpics} = EpicSlugs
          /\ \A e, f \in ParseEpics : e.number = f.number => e = f
=============================================================================
