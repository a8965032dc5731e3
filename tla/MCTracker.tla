----------------------------- MODULE MCTracker -----------------------------
(* The tracker in git and on the pod, and its files, checked side by side:  *)
(* which of the two is at work is chosen at the start.                      *)
(*                                                                          *)
(* Tracker: two requests at once against a tracker without epics, which may *)
(* both author an epic of the same title.                                   *)
(* TrackerFiles: two issues, three events each, two epics; a state and a    *)
(* category share an id, and a category has a label of its own, so that it  *)
(* cannot be authored.                                                      *)
EXTENDS Tracker, TrackerFiles, TLC

CONSTANTS r1, r2, p1, a

MCRequests == {r1, r2}
MCTitles   == {<<a>>}
MCOld      == {}

MCClassName  == [todo |-> "Todo", doing |-> "Doing", done |-> "Done", bug |-> "Bug", doc |-> "Doc"]
MCStateLabel == [i \in {"todo", "doing", "done"} |-> i]
MCTypeLabel  == [bug |-> "bug", done |-> "done", doc |-> "documentation"]
MCNumbers    == 1 .. 2
MCNames      == 1 .. 3

VARIABLE part

TrackerInit == part \in {"tracker", "files"} /\ Init /\ FilesInit

TrackerNext ==
    \/ part = "tracker" /\ Next /\ UNCHANGED <<fileVars, part>>
    \/ part = "files" /\ FilesNext /\ UNCHANGED <<vars, part>>

TrackerSpec == TrackerInit /\ [][TrackerNext]_<<vars, fileVars, part>>

(* The types of the two parts. *)
TrackerTypeOK == TypeOK /\ FilesTypeOK

Symmetry == Permutations(MCRequests)
=============================================================================
