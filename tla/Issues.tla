------------------------------- MODULE Issues -------------------------------
(***************************************************************************)
(* One issue and its conversation: the rows of issues and issue_comments   *)
(* (src/src/lib/registry/issues.ts), the routes that change them, the page *)
(* that calls those, the agent runs that the owner's comments start and    *)
(* what they answer (lib/agents/drivers/coder.ts), and the copies on the   *)
(* owner's pod, each written by a PUT that nobody awaits                   *)
(* (lib/solid/issues.ts).                                                  *)
(*                                                                         *)
(* A request's rows, its PUT and its run come from one synchronous step.   *)
(* What git does in a run, and its payment, are in Pulls; here a run reads *)
(* the conversation, works, and answers.  Text is left out: a revision of  *)
(* the issue has a number, and so has a comment.                           *)
(***************************************************************************)
EXTENDS Integers, Sequences, FiniteSets

CONSTANTS
    AgentRuns,   \* runs, in the order they are started
    MaxNotes,    \* bound: comments of the owner and of runs
    MaxEdits,    \* bound: requests that change the issue
    MaxHitches   \* bound: writes and requests that fail, restarts of the bridge

ASSUME IssueNumbersAssumption ==
    AgentRuns \subseteq Nat \ {0} /\ {MaxNotes, MaxEdits, MaxHitches} \subseteq Nat

VARIABLES
    issue,     \* the row: its status, how often updated_at was set (rev), and
               \* which of these was the last change of the issue itself (edited)
    notes,     \* issue_comments by id: the run that made each, 0 for the owner
    agent,     \* runs of the driver, with the row of agent_runs
    puts,      \* PUTs under way: document 0 is the issue, n the comment n
    copy,      \* what the pod has of each document: a revision, -1 for none
    spoiled,   \* documents a PUT of which failed, died or was overtaken
    form,      \* the comment form of the page
    shots,     \* per run with screenshots: where they are
    hitches    \* used-up bound

issueRows == <<issue, notes>>
mirror    == <<puts, copy, spoiled>>
issueVars == <<issueRows, agent, mirror, form, shots, hitches>>

Documents == 0 .. MaxNotes
Put       == [doc : Documents, rev : Nat]
Statuses  == {"open", "closed"}
NotRun    == [pc |-> "none", note |-> 0, heard |-> 0, ends |-> "running"]

(* The revision of a document that its last own change made. *)
Latest(d) == IF d = 0 THEN issue.edited ELSE 0

IssuesTypeOK ==
    /\ issue \in [status : Statuses, rev : 0 .. MaxEdits + MaxNotes, edited : Nat]
    /\ issue.edited <= issue.rev
    /\ notes \in Seq(AgentRuns \cup {0}) /\ Len(notes) <= MaxNotes
    /\ agent \in [AgentRuns -> [pc : {"none", "gate", "work", "upload", "answer", "over"},
                                note : 0 .. MaxNotes, heard : 0 .. MaxNotes,
                                ends : {"running", "ok", "error"}]]
    /\ \A r \in AgentRuns : agent[r].ends # "running" => agent[r].pc = "over"
    /\ puts \subseteq Put /\ copy \in [Documents -> Int] /\ spoiled \subseteq Documents
    /\ \A d \in Documents : copy[d] <= Latest(d)
    /\ form \in {"empty", "written", "sent"}
    /\ shots \in [AgentRuns -> SUBSET {"made", "work", "host", "pod"}]
    /\ hitches \in 0 .. MaxHitches

Waits(d) == \E w \in puts : w.doc = d

(* createIssue, the PUT and the dispatch of issue.created. *)
IssuesInit ==
    /\ issue = [status |-> "open", rev |-> 0, edited |-> 0] /\ notes = <<>>
    /\ agent = [r \in AgentRuns |-> IF r = 1 THEN [NotRun EXCEPT !.pc = "gate"] ELSE NotRun]
    /\ puts = {[doc |-> 0, rev |-> 0]}
    /\ copy = [d \in Documents |-> -1] /\ spoiled = {}
    /\ form = "empty"
    /\ shots = [r \in AgentRuns |-> {}]
    /\ hitches = 0

Hitch == hitches < MaxHitches /\ hitches' = hitches + 1

-----------------------------------------------------------------------------
(* The mirror on the pod.  writeIssueToPod and writeCommentToPod render the *)
(* row as it was when they were called.                                     *)
Mirror(d, rev) ==
    /\ puts' = puts \cup {[doc |-> d, rev |-> rev]}
    /\ spoiled' = IF Waits(d) THEN spoiled \cup {d} ELSE spoiled
    /\ UNCHANGED copy

(* getOwnerFetch, ensureIssueContainers and the PUT; each may fail, and the *)
(* caller only logs that.                                                   *)
Write(w) ==
    /\ puts' = puts \ {w}
    /\ copy' = [copy EXCEPT ![w.doc] = w.rev]
    /\ UNCHANGED <<issueRows, agent, spoiled, form, shots, hitches>>

WriteFails(w) ==
    /\ Hitch
    /\ puts' = puts \ {w} /\ spoiled' = spoiled \cup {w.doc}
    /\ UNCHANGED <<issueRows, agent, copy, form, shots>>

-----------------------------------------------------------------------------
(* updateIssue, and the answer of the row as it is now. *)
UpdateIssue(status) ==
    /\ issue.rev - Len(notes) < MaxEdits
    /\ issue' = [status |-> status, rev |-> issue.rev + 1, edited |-> issue.rev + 1]

(* PATCH of the issue: title, body, labels and priority, or the status.     *)
(* Slip: the row that was read before is mirrored.                          *)
PatchStale(status) ==
    /\ UpdateIssue(status)
    /\ Mirror(0, issue.rev)
    /\ UNCHANGED <<notes, agent, form, shots, hitches>>

Patch(status) ==
    /\ UpdateIssue(status)
    /\ Mirror(0, issue.rev + 1)
    /\ UNCHANGED <<notes, agent, form, shots, hitches>>

(* Close issue or Reopen issue, by the status that the page shows: it may be *)
(* behind another tab or a merge.                                           *)
Toggle == \E status \in Statuses : Patch(status)

(* The merge of the pull request of the issue closes it, once. *)
MergeCloses ==
    /\ \E r \in AgentRuns : agent[r].ends = "ok"
    /\ issue.status = "open"
    /\ UpdateIssue("closed") /\ Mirror(0, issue.rev + 1)
    /\ UNCHANGED <<notes, agent, form, shots, hitches>>

-----------------------------------------------------------------------------
(* dispatch: the row of the run, then the driver up to its first wait. *)
NextRun(r) == agent[r].pc = "none" /\ \A q \in AgentRuns : q < r => agent[q].pc # "none"

Started(r, n) == [agent EXCEPT ![r] = [NotRun EXCEPT !.pc = "gate", !.note = n]]

(* addComment, which sets updated_at of the issue, and the mirror of the    *)
(* comment; of the issue nobody makes a PUT.                                *)
AddNote(by) ==
    /\ Len(notes) < MaxNotes
    /\ notes' = Append(notes, by)
    /\ issue' = [issue EXCEPT !.rev = @ + 1]
    /\ Mirror(Len(notes) + 1, 0)

(* The form: what is sent stays in it until the answer is there; a refused  *)
(* or lost one leaves it, and the owner may send it again.                  *)
WriteNote ==
    /\ form = "empty" /\ Len(notes) < MaxNotes
    /\ form' = "written"
    /\ UNCHANGED <<issueRows, agent, mirror, shots, hitches>>

(* Slip: the run is started with what the conversation was. *)
PostNoteLate(r) ==
    /\ form = "written" /\ NextRun(r)
    /\ AddNote(0)
    /\ agent' = [Started(r, Len(notes) + 1) EXCEPT ![r].pc = "work", ![r].heard = Len(notes)]
    /\ form' = "sent"
    /\ UNCHANGED <<shots, hitches>>

(* POST of a comment of the owner: the comment, then a run for it. *)
PostNote(r) ==
    /\ form = "written" /\ NextRun(r)
    /\ AddNote(0)
    /\ agent' = Started(r, Len(notes) + 1)
    /\ form' = "sent"
    /\ UNCHANGED <<shots, hitches>>

NoteAnswered ==
    /\ form = "sent" /\ form' = "empty"
    /\ UNCHANGED <<issueRows, agent, mirror, shots, hitches>>

AnswerIsLost ==
    /\ form = "sent" /\ form' = "written" /\ Hitch
    /\ UNCHANGED <<issueRows, agent, mirror, shots>>

(* Run the coder again: the dispatch route, within the quota of runs. *)
Rerun(r) ==
    /\ NextRun(r) /\ issue.status = "open"
    /\ \A q \in AgentRuns : agent[q].ends = "running" => agent[q].pc \in {"none", "over"}
    /\ agent' = Started(r, 0)
    /\ UNCHANGED <<issueRows, mirror, form, shots, hitches>>

-----------------------------------------------------------------------------
(* The coder. *)
Over(r, ends) == agent' = [agent EXCEPT ![r].pc = "over", ![r].ends = ends]

(* Its allotment is used up, or no key is configured. *)
GateRefuses(r) ==
    /\ agent[r].pc = "gate" /\ Hitch
    /\ Over(r, "error")
    /\ UNCHANGED <<issueRows, mirror, form, shots>>

(* listComments, after the balance was awaited; the prompt has them all. *)
ReadNotes(r) ==
    /\ agent[r].pc = "gate"
    /\ agent' = [agent EXCEPT ![r].pc = "work", ![r].heard = Len(notes)]
    /\ UNCHANGED <<issueRows, mirror, form, shots, hitches>>

(* What opencode leaves in the checkout: nothing, or a comment or changes,  *)
(* and maybe screenshots, which are copied to the host first, if that works.*)
WorkEnds(r) ==
    /\ agent[r].pc = "work"
    /\ \/ Over(r, "error") /\ UNCHANGED <<shots, hitches>>
       \/ /\ agent' = [agent EXCEPT ![r].pc = "answer"]
          /\ UNCHANGED <<shots, hitches>>
       \/ /\ agent' = [agent EXCEPT ![r].pc = "upload"]
          /\ \/ shots' = [shots EXCEPT ![r] = {"made", "work", "host"}] /\ UNCHANGED hitches
             \/ shots' = [shots EXCEPT ![r] = {"made", "work"}] /\ Hitch
    /\ UNCHANGED <<issueRows, mirror, form>>

(* uploadScreenshots is best effort.  Screenshots alone are an error, and   *)
(* the checkout is removed whatever the end is.                             *)
Upload(r) ==
    /\ agent[r].pc = "upload"
    /\ \/ shots' = [shots EXCEPT ![r] = (@ \ {"work"}) \cup {"pod"}] /\ UNCHANGED hitches
       \/ shots' = [shots EXCEPT ![r] = @ \ {"work"}] /\ Hitch
    /\ agent' = [agent EXCEPT ![r].pc = "answer"]
    /\ UNCHANGED <<issueRows, mirror, form>>

ScreenshotsOnly(r) ==
    /\ agent[r].pc = "answer" /\ shots[r] # {}
    /\ Over(r, "error")
    /\ UNCHANGED <<issueRows, mirror, form, shots, hitches>>

(* postAgentComment does not go through the route: no run is started.       *)
AnswerNote(r) ==
    /\ agent[r].pc = "answer"
    /\ AddNote(r)
    /\ Over(r, "ok")
    /\ UNCHANGED <<form, shots, hitches>>

(* A pull request, opened or moved, without a comment; or git refuses. *)
AnswerPull(r) ==
    /\ agent[r].pc = "answer"
    /\ Over(r, "ok") \/ Over(r, "error")
    /\ UNCHANGED <<issueRows, mirror, form, shots, hitches>>

(* Rows, the disk with its checkouts and the pod stay; runs and PUTs do    *)
(* not.  A row of agent_runs stays running.                                 *)
RestartBridge ==
    /\ Hitch
    /\ puts' = {} /\ spoiled' = spoiled \cup {w.doc : w \in puts}
    /\ agent' = [r \in AgentRuns |-> IF agent[r].pc = "none" THEN agent[r]
                                     ELSE [agent[r] EXCEPT !.pc = "over"]]
    /\ UNCHANGED <<issueRows, copy, form, shots>>

IssuesNext ==
    \/ \E w \in puts : Write(w) \/ WriteFails(w)
    \/ Toggle \/ MergeCloses \/ WriteNote \/ NoteAnswered \/ AnswerIsLost
    \/ \E r \in AgentRuns :
          \/ PostNote(r) \/ Rerun(r) \/ GateRefuses(r) \/ ReadNotes(r) \/ WorkEnds(r)
          \/ Upload(r) \/ ScreenshotsOnly(r) \/ AnswerNote(r) \/ AnswerPull(r)
    \/ RestartBridge

IssuesSpec == IssuesInit /\ [][IssuesNext]_issueVars

-----------------------------------------------------------------------------
(* Nothing the owner writes is lost on the agent: the prompt of the run for *)
(* a comment has that comment, and when nothing runs and nothing went       *)
(* wrong, every comment of the owner is in some run's prompt.               *)
EveryNoteIsHeard ==
    /\ \A r \in AgentRuns : agent[r].heard > 0 => agent[r].heard >= agent[r].note
    /\ hitches = 0 /\ (\A r \in AgentRuns : agent[r].pc \in {"none", "over"}) =>
       \A n \in DOMAIN notes : notes[n] = 0 => \E r \in AgentRuns : agent[r].heard >= n

(* "Agent-authored comments skip this to avoid an infinite loop"            *)
(* (comments/route.ts:105): a run is for a comment of the owner, or for     *)
(* none.                                                                    *)
AgentsDoNotTalkToThemselves ==
    \A r \in AgentRuns : agent[r].note # 0 => notes[agent[r].note] = 0

(* The pod has every comment as the registry has it and the issue as its    *)
(* last change made it, once no PUT is under way: unless one failed, or was *)
(* made while an older one was.  Comments since then have moved updated_at  *)
(* of the row on, and dcterms:modified of the copy is behind by those.      *)
PodFollows ==
    \A d \in 0 .. Len(notes) :
       ~Waits(d) /\ d \notin spoiled =>
          /\ copy[d] = Latest(d)
          /\ d = 0 => issue.rev - copy[0] \in 0 .. Len(notes)

(* No single failure loses the screenshots of a run with its checkout       *)
(* (coder.ts:443).                                                          *)
ShotsSurvive ==
    \A r \in AgentRuns :
       "made" \in shots[r] /\ hitches < 2 => shots[r] \cap {"work", "host", "pod"} # {}

(* The conversation reaches the agent, and does not feed on itself. *)
ConversationIsKept == EveryNoteIsHeard /\ AgentsDoNotTalkToThemselves

(* What the registry and a run have, the pod gets. *)
PodKeepsUp == PodFollows /\ ShotsSurvive
=============================================================================
