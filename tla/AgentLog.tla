------------------------------ MODULE AgentLog ------------------------------
(***************************************************************************)
(* Watching an agent run: the card of the run polls the tail of its log    *)
(* (src/src/app/repos/.../issues/[number]/agent-run-card.tsx,              *)
(* app/api/agent-runs/[id]/log/route.ts) while the driver writes it.  The  *)
(* interval does not wait for the poll before, so polls overlap and are    *)
(* answered in any order.  The log is a number of lines.                   *)
(***************************************************************************)
EXTENDS Integers, Sequences

CONSTANTS
    Polls,      \* requests of the card, each used once
    MaxLines    \* bound: lines of the log

ASSUME LogBoundAssumption == MaxLines \in Nat \ {0}

VARIABLES
    file,       \* lines the log has, -1 before it is opened
    ended,      \* the row of agent_runs
    card,       \* the run as the card has it
    since,      \* sinceRef: how far the card has read
    shown,      \* the lines the card shows
    poll,       \* polls under way
    overlapped  \* a poll has begun while another was under way

logVars == <<file, ended, card, since, shown, poll, overlapped>>

Unpolled == [pc |-> "none", since |-> 0, upto |-> 0, status |-> "running"]
Verdicts == {"running", "ok", "error"}

LogTypeOK ==
    /\ file \in -1 .. MaxLines /\ since \in 0 .. MaxLines
    /\ ended \in Verdicts /\ card \in Verdicts
    /\ shown \in Seq(1 .. MaxLines)
    /\ poll \in [Polls -> [pc : {"none", "asked", "stat", "read", "row", "done"},
                           since : 0 .. MaxLines, upto : 0 .. MaxLines, status : Verdicts]]
    /\ overlapped \in BOOLEAN

LogInit ==
    /\ file = -1 /\ ended = "running" /\ card = "running" /\ since = 0 /\ shown = <<>>
    /\ poll = [p \in Polls |-> Unpolled] /\ overlapped = FALSE

UnderWay == {p \in Polls : poll[p].pc \notin {"none", "done"}}

(* openLogStream and the lines of the tool, then finishAgentRun: the stream *)
(* is ended before the driver returns.  Slip: it is not.                    *)
LogUnawaited ==
    /\ file < MaxLines
    /\ file' = file + 1
    /\ UNCHANGED <<ended, card, since, shown, poll, overlapped>>

Log ==
    /\ ended = "running" /\ file < MaxLines
    /\ file' = file + 1
    /\ UNCHANGED <<ended, card, since, shown, poll, overlapped>>

FinishRun ==
    /\ ended = "running"
    /\ ended' \in {"ok", "error"}
    /\ UNCHANGED <<file, card, since, shown, poll, overlapped>>

-----------------------------------------------------------------------------
(* tick of the card, at once and then by the interval while it runs. *)
Tick(p) ==
    /\ poll[p].pc = "none" /\ card = "running"
    /\ poll' = [poll EXCEPT ![p].pc = "asked", ![p].since = since]
    /\ overlapped' = (overlapped \/ UnderWay # {})
    /\ UNCHANGED <<file, ended, card, since, shown>>

(* GET of the log: the row, then the size of the file, then its tail. *)
ReadRow(p) ==
    /\ poll[p].pc = "asked"
    /\ poll' = [poll EXCEPT ![p].pc = "stat", ![p].status = ended]
    /\ UNCHANGED <<file, ended, card, since, shown, overlapped>>

Stat(p) ==
    /\ poll[p].pc = "stat"
    /\ poll' = [poll EXCEPT ![p].pc = "read", ![p].upto = IF file < 0 THEN 0 ELSE file]
    /\ UNCHANGED <<file, ended, card, since, shown, overlapped>>

TailOf(p) == [i \in 1 .. poll[p].upto - poll[p].since |-> poll[p].since + i]

(* The answer reaches the card: it appends the tail and goes on from there, *)
(* and asks for the row when the run has ended.                             *)
Shows(p) ==
    /\ poll[p].pc = "read" /\ card = "running"
    /\ shown' = shown \o TailOf(p)
    /\ since' = poll[p].upto
    /\ poll' = [poll EXCEPT ![p] = [Unpolled EXCEPT
                   !.pc = IF poll[p].status = "running" THEN "done" ELSE "row"]]
    /\ UNCHANGED <<file, ended, card, overlapped>>

(* GET of the run. *)
ShowVerdict(p) ==
    /\ poll[p].pc = "row"
    /\ card' = ended
    /\ poll' = [poll EXCEPT ![p] = [Unpolled EXCEPT !.pc = "done"]]
    /\ UNCHANGED <<file, ended, since, shown, overlapped>>

(* A poll that fails is left to the next one, and one that is answered when *)
(* the card has stopped is ignored.                                         *)
PollLost(p) ==
    /\ poll[p].pc \notin {"none", "done"}
    /\ poll' = [poll EXCEPT ![p] = [Unpolled EXCEPT !.pc = "done"]]
    /\ UNCHANGED <<file, ended, card, since, shown, overlapped>>

LogNext ==
    \/ Log \/ FinishRun
    \/ \E p \in Polls : Tick(p) \/ ReadRow(p) \/ Stat(p) \/ Shows(p)
                          \/ ShowVerdict(p) \/ PollLost(p)

LogSpec == LogInit /\ [][LogNext]_logVars

-----------------------------------------------------------------------------
(* The tail: the card skips no line, however its polls overlap, and while   *)
(* they do not it shows every line once.                                    *)
LogHasNoGap ==
    /\ \A i \in DOMAIN shown : shown[i] > 1 => \E j \in 1 .. i - 1 : shown[j] = shown[i] - 1
    /\ ~overlapped => shown = [i \in 1 .. since |-> i]

(* A card that has stopped has the verdict of the run, and a poll that was  *)
(* told of a verdict had the whole log.                                     *)
VerdictComesLast ==
    /\ card # "running" => card = ended
    /\ \A p \in Polls : poll[p].status # "running" /\ poll[p].pc = "read" =>
                             poll[p].upto = IF file < 0 THEN 0 ELSE file

(* The card tells the log of the run as it is, and its verdict last. *)
CardTellsTheLog == LogHasNoGap /\ VerdictComesLast
=============================================================================
