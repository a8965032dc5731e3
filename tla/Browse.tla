------------------------------- MODULE Browse -------------------------------
(***************************************************************************)
(* Reading a repository in the browser: the pages of the code              *)
(* (src/src/app/repos/[owner]/[repo]: page.tsx, tree, blob) and of a pull  *)
(* request (pulls/[number]/page.tsx) run several git commands on the bare  *)
(* repository (lib/git/objects, lib/git/diff), each of which looks up the  *)
(* branch anew, while others push, delete branches and merge.              *)
(*                                                                         *)
(* A commit is a number, 0 for none; its tree is the set of its READMEs,   *)
(* the text files by which pages differ here.                              *)
(* There is one pull request, of the branch "topic" into "main".           *)
(***************************************************************************)
EXTENDS Integers, Sequences

CONSTANTS
    Candidates,   \* README_CANDIDATES, in the order of lookup
    MaxPushes     \* bound: commits that are pushed

ASSUME PushesAssumption     == MaxPushes \in Nat
ASSUME CandidatesAssumption == Candidates # <<>> /\ Candidates \in Seq(STRING)

RefNames == {"main", "topic"}
Files    == {Candidates[i] : i \in DOMAIN Candidates}

VARIABLES
    heads,    \* refs/heads
    first,    \* the first parent of each commit
    tree,     \* its files
    request,  \* the row of the pull request: its mergeSha, 0 while it is open
    view      \* the page that is being loaded

gitVars    == <<heads, first, tree, request>>
browseVars == <<gitVars, view>>

(* What git is asked for: a branch, or a commit by its hash. *)
Branch(b) == <<b, 0>>
Sha(c)    == <<"commit", c>>
Asks      == {Branch(b) : b \in RefNames} \cup {Sha(c) : c \in 0 .. MaxPushes + 1}

(* asked: the commit that the address asks for, or the mergeSha of the row  *)
(* as it was read; 0 for a branch.  ref: what git is asked for; two of them *)
(* for a diff.                                                              *)
(* try: the file that is read.  todo: what runs in parallel.  saw: what git *)
(* has answered, each part with the commit it is of.                        *)
NoPage == [kind |-> "none", asked |-> 0, ref |-> <<>>, pc |-> "idle", try |-> 1,
           todo |-> {}, saw |-> {}, answer |-> "none"]

Parts == {"any", "branches", "size", "type", "bytes", "log", "tree",
          "stat", "numstat", "names", "ahead", "patch"}

BrowseTypeOK ==
    /\ heads \in [RefNames -> 0 .. Len(tree)]
    /\ Len(first) = Len(tree) /\ Len(tree) <= MaxPushes + 1
    /\ \A c \in DOMAIN tree : first[c] \in 0 .. c - 1 /\ tree[c] \subseteq Files
    /\ request \in 0 .. Len(tree)
    /\ view.kind \in {"none", "repo", "tree", "blob", "pull"}
    /\ view.asked \in 0 .. Len(tree) /\ view.ref \in Seq(Asks) /\ Len(view.ref) <= 2
    /\ view.pc \in Parts \cup {"idle", "parts", "done"}
    /\ view.try \in DOMAIN Candidates
    /\ view.todo \subseteq Parts
    /\ \A s \in view.saw : s[1] \in Parts /\ s[2] \in Seq(0 .. Len(tree))
    /\ view.answer \in {"none", "ok", "empty", "not found", "error"}

BrowseInit ==
    /\ heads = [b \in RefNames |-> 0]
    /\ first = <<>> /\ tree = <<>> /\ request = 0
    /\ view = NoPage

-----------------------------------------------------------------------------
(* What others do meanwhile.  A push may be forced: its commit is on top of *)
(* any other, or a root.  It has a README, by one name or more.             *)
Commit(parent, files) ==
    first' = Append(first, parent) /\ tree' = Append(tree, files)

Pushed(b) ==
    /\ Len(tree) < MaxPushes
    /\ \E parent \in 0 .. Len(tree), files \in SUBSET Files \ {{}} : Commit(parent, files)
    /\ heads' = [heads EXCEPT ![b] = Len(tree')]
    /\ UNCHANGED <<request, view>>

Deleted ==
    /\ heads["topic"] # 0
    /\ heads' = [heads EXCEPT !["topic"] = 0]
    /\ UNCHANGED <<first, tree, request, view>>

(* mergeBranches, and the row: main is seeded with the tip of topic when it *)
(* is not there, else it has a merge, or, when it has all of topic already, *)
(* the tip it had: the histories that decide between the two are left out.  *)
MergeShas ==
    /\ request = 0 /\ heads["topic"] # 0
    /\ \/ heads["main"] = 0 /\ request' = heads["topic"] /\ UNCHANGED <<first, tree>>
       \/ heads["main"] # 0 /\ request' = heads["main"] /\ UNCHANGED <<first, tree>>
       \/ /\ heads["main"] # 0
          /\ Commit(heads["main"], tree[heads["main"]] \cup tree[heads["topic"]])
          /\ request' = Len(tree')
    /\ heads' = [heads EXCEPT !["main"] = request']
    /\ UNCHANGED view

-----------------------------------------------------------------------------
(* Every command of git resolves the ref again. *)
RevParse(ref) == IF ref[1] = "commit" THEN ref[2] ELSE heads[ref[1]]

ViewAt(pc) == view.pc = pc
Turn(pc)   == view' = [view EXCEPT !.pc = pc]
Saw(part, pc) ==
    view' = [view EXCEPT !.pc = pc, !.saw = @ \cup {<<part, <<RevParse(view.ref[1])>>>>}]
Ends(answer) == view' = [view EXCEPT !.pc = "done", !.answer = answer]

(* The pages of the repository, of a directory and of a file: the last two  *)
(* may be asked for at a branch or a commit.                                *)
OpenRepo ==
    /\ ViewAt("idle")
    /\ view' = [NoPage EXCEPT !.kind = "repo", !.ref = <<Branch("main")>>, !.pc = "any"]
    /\ UNCHANGED gitVars

OpenTree(ref) ==
    /\ ViewAt("idle")
    /\ view' = [NoPage EXCEPT !.kind = "tree", !.asked = ref[2], !.ref = <<ref>>, !.pc = "branches"]
    /\ UNCHANGED gitVars

OpenBlob(ref, i) ==
    /\ ViewAt("idle")
    /\ view' = [NoPage EXCEPT !.kind = "blob", !.asked = ref[2], !.ref = <<ref>>,
                                !.try = i, !.pc = "branches"]
    /\ UNCHANGED gitVars

HasAnyCommits ==
    /\ ViewAt("any")
    /\ IF heads["main"] = 0 THEN Ends("empty")
       ELSE Turn(IF view.kind = "repo" THEN "size" ELSE "tree")
    /\ UNCHANGED gitVars

(* pickRef: a branch that is listed, or what looks like a commit. *)
PickRef(ref) == IF RevParse(ref) = 0 THEN Branch("main") ELSE ref

ListBranches ==
    /\ ViewAt("branches")
    /\ view' = [view EXCEPT !.ref = <<PickRef(@[1])>>,
                            !.pc = CASE view.kind = "repo" -> "log"
                                     [] view.kind = "tree" -> "any"
                                     [] view.kind = "blob" -> "size"]
    /\ UNCHANGED gitVars

(* readBlob: whether the file is there, whether it is one, and its bytes.   *)
Present == LET c == RevParse(view.ref[1]) IN c # 0 /\ Candidates[view.try] \in tree[c]

(* No such file: for findReadme the next of the candidates. *)
Absence ==
    IF view.kind = "blob" THEN Ends("not found")
    ELSE IF view.try < Len(Candidates) THEN view' = [view EXCEPT !.pc = "size", !.try = @ + 1]
    ELSE Turn("branches")

SizeProbe ==
    /\ ViewAt("size")
    /\ \/ Present /\ Saw("size", "type")
       \/ ~Present /\ Absence
    /\ UNCHANGED gitVars

TypeProbe ==
    /\ ViewAt("type")
    /\ \/ Present /\ Saw("type", "bytes")
       \/ ~Present /\ Absence
    /\ UNCHANGED gitVars

(* A file that was there a command ago makes it throw. *)
ReadBytes ==
    /\ ViewAt("bytes")
    /\ \/ Present /\ view.kind = "repo" /\ Saw("bytes", "branches")
       \/ /\ Present /\ view.kind = "blob"
          /\ view' = [view EXCEPT !.pc = "done", !.answer = "ok",
                                  !.saw = @ \cup {<<"bytes", <<RevParse(view.ref[1])>>>>}]
       \/ ~Present /\ Ends("error")
    /\ UNCHANGED gitVars

(* Nothing is found where there is no such branch. *)
ListRecentCommits ==
    /\ ViewAt("log")
    /\ Saw("log", "tree")
    /\ UNCHANGED gitVars

ListTree ==
    /\ ViewAt("tree")
    /\ view' = [view EXCEPT !.pc = "done", !.answer = "ok",
                            !.saw = @ \cup {<<"tree", <<RevParse(view.ref[1])>>>>}]
    /\ UNCHANGED gitVars

-----------------------------------------------------------------------------
(* The page of the pull request: what its row is compared by.  A merged one *)
(* is the merge against its first parent, which may not be there.           *)
RefsOfPull == 
    IF request # 0 THEN <<Sha(first[request]), Sha(request)>>
    ELSE <<Branch("main"), Branch("topic")>>

OpenPullPage ==
    /\ ViewAt("idle")
    /\ view' = [NoPage EXCEPT !.kind = "pull", !.asked = request, !.pc = "parts",
                    !.ref = RefsOfPull, !.todo = {"stat", "numstat", "names", "ahead", "patch"}]
    /\ UNCHANGED gitVars

(* The commands of the four helpers run at once, but for the two that       *)
(* diffFiles runs one after the other.  One that fails leaves its part out: *)
(* a commit is not there, or two branches have no common one to compare by. *)
ReadPart(part) ==
    /\ ViewAt("parts") /\ part \in view.todo
    /\ part = "names" => "numstat" \notin view.todo
    /\ \E related \in {TRUE, view.asked # 0} :
       LET ends  == [i \in 1 .. 2 |-> RevParse(view.ref[i])]
           there == (\A i \in 1 .. 2 : ends[i] # 0) /\ (part = "ahead" \/ related)
           files == part \in {"numstat", "names"}
       IN view' = [view EXCEPT
            !.todo = @ \ ({part} \cup (IF files /\ ~there THEN {"names"} ELSE {})),
            !.saw  = CASE there -> @ \cup {<<part, ends>>}
                       [] ~there /\ files -> {s \in @ : s[1] # "numstat"}
                       [] OTHER -> @]
    /\ UNCHANGED gitVars

Render ==
    /\ ViewAt("parts") /\ view.todo = {}
    /\ Ends("ok")
    /\ UNCHANGED gitVars

ClosePage ==
    /\ ViewAt("done")
    /\ view' = NoPage
    /\ UNCHANGED gitVars

PageStep ==
    \/ HasAnyCommits \/ ListBranches \/ SizeProbe \/ TypeProbe \/ ReadBytes
    \/ ListRecentCommits \/ ListTree
    \/ \E part \in Parts : ReadPart(part)
    \/ Render \/ ClosePage

BrowseNext ==
    \/ \E b \in RefNames : Pushed(b)
    \/ Deleted \/ MergeShas
    \/ OpenRepo \/ OpenPullPage
    \/ \E ref \in {Branch(b) : b \in RefNames} \cup {Sha(c) : c \in DOMAIN tree} :
          OpenTree(ref) \/ \E i \in DOMAIN Candidates : OpenBlob(ref, i)
    \/ PageStep

BrowseSpec == BrowseInit /\ [][BrowseNext]_browseVars

-----------------------------------------------------------------------------
(* A page that is asked for at a commit, and that of a merged request, is   *)
(* of that commit in all its parts, and the diff has either all of its      *)
(* parts or none: whatever is pushed, deleted or merged while git is asked  *)
(* five times, they can be linked to.                                       *)
PinnedPagesAreWhole ==
    view.pc = "done" /\ view.asked # 0 =>
        LET of == IF view.kind = "pull" THEN <<first[view.asked], view.asked>>
                  ELSE <<view.asked>> IN
        /\ view.answer # "error"
        /\ \A s \in view.saw : s[2] = of
        /\ view.kind = "pull" =>
              {s[1] : s \in view.saw} \in
                 {{}, {"stat", "numstat", "names", "ahead", "patch"}}

(* The page of a repository that is not refused shows a README if a name of *)
(* the list was there in every commit, and none after the first such name,  *)
(* although a push may rename the others between two lookups.               *)
ReadmeIsFound ==
    view.pc = "done" /\ view.kind = "repo" /\ view.answer = "ok" =>
        \A i \in DOMAIN Candidates :
            (\A c \in DOMAIN tree : Candidates[i] \in tree[c]) =>
                view.try <= i /\ \E s \in view.saw : s[1] = "bytes"
=============================================================================
