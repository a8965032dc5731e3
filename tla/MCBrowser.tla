----------------------------- MODULE MCBrowser -----------------------------
(* What people do in their browsers and what the bridge then does, checked  *)
(* side by side: which of the six is at work is chosen at the start, and    *)
(* the others rest.                                                         *)
(*                                                                          *)
(* Drafts: two browsers, one word, which hints at an epic, and a connection *)
(* for each, and a third in the place of one that breaks.                   *)
(* Issues: two runs of the agent and two comments.                          *)
(* AgentLog: three polls of a log of three lines.  Providers: two vendors   *)
(* with one listed model each, one run.  Accounts: two tabs, two e-mails    *)
(* and two handles.  Browse: two pushes, one merge, two names of a README.  *)
EXTENDS Drafts, Issues, AgentLog, Providers, Accounts, Browse

MCPeers     == 1 .. 2
MCConns     == 1 .. 3
MCAgentRuns == 1 .. 2
MCOrder     == <<"google", "openrouter">>
MCReadmes   == <<"README.md", "README">>

VARIABLE part

allVars == <<draftVars, issueVars, logVars, aiVars, accountVars, browseVars, part>>

(* The ledger has credit, and the bridge has all keys, or none for the     *)
(* provider it is pinned to; the ledger has none; or it is off.             *)
AllKeys == [keys |-> Vendors, pinned |-> ""]
Ledgers ==
    [on : {TRUE}, balance : {Free},
     bridge : {AllKeys, [keys |-> {"google"}, pinned |-> "openrouter"]}] \cup
    {[on |-> TRUE,  balance |-> 0, bridge |-> AllKeys],
     [on |-> FALSE, balance |-> 0, bridge |-> [AllKeys EXCEPT !.pinned = "openrouter"]]}

BrowserInit ==
    /\ part \in {"drafts", "issues", "log", "providers", "accounts", "browse"}
    /\ DraftsInit /\ IssuesInit /\ LogInit /\ AiInit /\ AccountsInit /\ BrowseInit
    /\ ledger \in Ledgers
    /\ part # "providers" => ~ledger.on

(* A bound: a page turns, which the relay does not see, or a connection     *)
(* breaks, but not both.                                                    *)
TurnsOrBreaks == turns' = 0 \/ breaks' = 0

BrowserNext ==
    \/ /\ part = "drafts" /\ DraftsNext /\ TurnsOrBreaks
       /\ UNCHANGED <<issueVars, logVars, aiVars, accountVars, browseVars, part>>
    \/ /\ part = "issues" /\ IssuesNext
       /\ UNCHANGED <<draftVars, logVars, aiVars, accountVars, browseVars, part>>
    \/ /\ part = "log" /\ LogNext
       /\ UNCHANGED <<draftVars, issueVars, aiVars, accountVars, browseVars, part>>
    \/ /\ part = "providers" /\ AiNext
       /\ UNCHANGED <<draftVars, issueVars, logVars, accountVars, browseVars, part>>
    \/ /\ part = "accounts" /\ AccountsNext
       /\ UNCHANGED <<draftVars, issueVars, logVars, aiVars, browseVars, part>>
    \/ /\ part = "browse" /\ BrowseNext
       /\ UNCHANGED <<draftVars, issueVars, logVars, aiVars, accountVars, part>>

BrowserSpec == BrowserInit /\ [][BrowserNext]_allVars

(* The types of the part that is at work. *)
BrowserTypeOK ==
    CASE part = "drafts"    -> DraftsTypeOK
      [] part = "issues"    -> IssuesTypeOK
      [] part = "log"       -> LogTypeOK
      [] part = "providers" -> AiTypeOK
      [] part = "accounts"  -> AccountsTypeOK
      [] part = "browse"    -> BrowseTypeOK

(* What is shown is what there is: a card is true to the log of its run, a  *)
(* page at a commit is of that commit in all its parts, and a README is     *)
(* found among pushes.                                                      *)
PagesTellWhatIs == CardTellsTheLog /\ PinnedPagesAreWhole /\ ReadmeIsFound
=============================================================================
