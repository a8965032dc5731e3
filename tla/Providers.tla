----------------------------- MODULE Providers -----------------------------
(***************************************************************************)
(* Whose key an agent run uses and who pays for it: the vault of API keys  *)
(* and the preference of a repo owner (src/src/lib/ai-providers/store.ts), *)
(* the routes and the page that change them (app/api/profile/ai,           *)
(* app/profile/ai-providers/manage.tsx), the script that sets them behind  *)
(* the bridge's back (scripts/set-coder-provider.ts), and the coder, which *)
(* resolves them when a run starts and pays when it ends.                  *)
(*                                                                         *)
(* A model is a provider and a number; the numbers of the curated list     *)
(* come first.  There is one owner.                                        *)
(***************************************************************************)
EXTENDS Integers, Sequences

CONSTANTS
    Order,        \* ENV_FALLBACK_ORDER: the providers, as the bridge prefers them
    Curated,      \* how many models the list of a provider has
    AiRuns,       \* runs of the coder
    Free,         \* what the owner's balance is at most
    MaxChanges    \* bound: changes of the keys, the preference and the form

Vendors == {Order[i] : i \in DOMAIN Order}

ASSUME OrderAssumption   == Order \in Seq(STRING)
ASSUME VendorsAssumption == "" \notin Vendors /\ Curated \in Nat \ {0}
ASSUME AiBoundsAssumption == {Free, MaxChanges} \subseteq Nat

VARIABLES
    keys,      \* user_ai_providers: the providers that have a key of the owner
    pref,      \* user_ai_prefs
    torn,      \* keys and pref were not changed together
    script,    \* what the script has still to write
    tab,       \* the page: what it was mounted and last rendered with, its form
    ledger,    \* whether the ledger is on, and the balance
    usage,     \* the runs
    changes    \* used-up bound

aiRows == <<keys, pref, torn, script>>
aiVars == <<aiRows, tab, ledger, usage, changes>>

Models  == Vendors \X (1 .. Curated + 1)
NoModel == <<"", 0>>
NoPref  == [provider |-> "", model |-> NoModel]
Prefs   == {NoPref} \cup [provider : Vendors, model : Models]

ListOf(v) == {v} \X (1 .. Curated)
First(v)  == <<v, 1>>

NoUsage == [pc |-> "none", source |-> "none", provider |-> "", meter |-> FALSE,
            billed |-> FALSE, paid |-> FALSE]

(* A page as it is mounted: the form has the preference that is saved, and  *)
(* the list of models, whether the saved one is on it or not.               *)
Mounted == [listed |-> keys, pref |-> pref, form |-> pref, mounted |-> pref, custom |-> FALSE]

(* What the bridge has keys for, and the provider it is pinned to. *)
Bridges == [keys : SUBSET Vendors, pinned : Vendors \cup {""}]

AiTypeOK ==
    /\ keys \subseteq Vendors /\ pref \in Prefs /\ torn \in BOOLEAN /\ script \in Prefs
    /\ tab.form \in [provider : Vendors \cup {""}, model : Models \cup {NoModel}]
    /\ tab.custom \in BOOLEAN /\ tab.listed \subseteq Vendors /\ tab.pref \in Prefs
    /\ tab.mounted \in Prefs
    /\ ledger.on \in BOOLEAN /\ ledger.balance \in 0 .. Free /\ ledger.bridge \in Bridges
    /\ usage \in [AiRuns -> [pc : {"none", "gate", "work", "charged", "ok", "error"},
                             source : {"none", "user-pref", "env-fallback"},
                             provider : Vendors \cup {""}, meter : BOOLEAN,
                             billed : BOOLEAN, paid : BOOLEAN]]
    /\ changes \in 0 .. MaxChanges

AiInit ==
    /\ keys = {} /\ pref = NoPref /\ torn = FALSE /\ script = NoPref
    /\ tab = Mounted
    /\ \E on \in BOOLEAN, left \in 0 .. Free, b \in Bridges :
          ledger = [on |-> on, balance |-> left, bridge |-> b]
    /\ usage = [r \in AiRuns |-> NoUsage]
    /\ changes = 0

Change == changes < MaxChanges /\ changes' = changes + 1

-----------------------------------------------------------------------------
(* The vault.  setUserApiKey adds a key or replaces it. *)
PutKey(v) == keys' = keys \cup {v}

SetKey(v) ==
    /\ Change
    /\ PutKey(v)
    /\ UNCHANGED <<pref, torn, script, tab, ledger, usage>>

Unset(v) == IF pref.provider = v THEN NoPref ELSE pref

(* deleteUserApiKey is two statements: the process may die between them. *)
DeleteKey(v) ==
    /\ Change /\ v \in keys
    /\ keys' = keys \ {v}
    /\ \/ pref' = Unset(v) /\ UNCHANGED torn
       \/ UNCHANGED pref /\ torn' = TRUE
    /\ UNCHANGED <<script, tab, ledger, usage>>

(* The script writes the key and then the preference, from a process of its *)
(* own: the bridge may delete the key in between.                           *)
ScriptKey(v, m) ==
    /\ Change /\ script = NoPref
    /\ PutKey(v)
    /\ script' = [provider |-> v, model |-> m]
    /\ UNCHANGED <<pref, torn, tab, ledger, usage>>

ScriptPref ==
    /\ script # NoPref
    /\ pref' = script /\ script' = NoPref
    /\ torn' = (torn \/ script.provider \notin keys)
    /\ UNCHANGED <<keys, tab, ledger, usage, changes>>

-----------------------------------------------------------------------------
(* The page is loaded anew. *)
MountTab ==
    /\ tab' = Mounted
    /\ UNCHANGED <<aiRows, ledger, usage, changes>>

(* router.refresh: the page is rendered again, its form keeps what it had. *)
RenderTab ==
    /\ tab' = [tab EXCEPT !.listed = keys, !.pref = pref]
    /\ UNCHANGED <<aiRows, ledger, usage, changes>>

(* The provider: a model of its list comes with it, unless one is typed in.  *)
Choose(v) ==
    /\ Change /\ v \in tab.listed \cup {""}
    /\ tab' = [tab EXCEPT !.form.provider = v,
                          !.form.model = IF v = "" THEN NoModel
                                         ELSE IF tab.custom THEN @ ELSE First(v)]
    /\ UNCHANGED <<aiRows, ledger, usage>>

ChooseModel(m) ==
    /\ Change /\ tab.form.provider # ""
    /\ tab.custom \/ m \in ListOf(tab.form.provider)
    /\ tab' = [tab EXCEPT !.form.model = m]
    /\ UNCHANGED <<aiRows, ledger, usage>>

ToggleCustom ==
    /\ Change /\ tab.form.provider # ""
    /\ tab' = [tab EXCEPT !.custom = ~@,
                          !.form.model = IF tab.custom THEN First(tab.form.provider) ELSE @]
    /\ UNCHANGED <<aiRows, ledger, usage>>

(* Save: PUT of the preference, refused for a provider without a model or   *)
(* without a key.                                                           *)
Acceptable(form) ==
    form.provider = "" \/ (form.provider \in keys /\ form.model # NoModel)

SavePref ==
    /\ Change /\ tab.form # tab.pref
    /\ IF Acceptable(tab.form)
       THEN /\ pref' = IF tab.form.provider = "" THEN NoPref ELSE tab.form
            /\ tab' = [tab EXCEPT !.listed = keys, !.pref = pref']
       ELSE UNCHANGED <<pref, tab>>
    /\ UNCHANGED <<keys, torn, script, ledger, usage>>

-----------------------------------------------------------------------------
(* resolveEnvFallback: the provider that is pinned, or the first of the     *)
(* order, that the bridge has a key for.                                    *)
EnvFallback(b) ==
    LET usable == {i \in DOMAIN Order : Order[i] \in b.keys /\ b.pinned \in {"", Order[i]}} IN
    IF usable = {} THEN "" ELSE Order[CHOOSE i \in usable : \A j \in usable : i <= j]

(* resolveCoderConfig. *)
Own == pref.provider # "" /\ pref.provider \in keys

Resolve == IF Own THEN [source |-> "user-pref", provider |-> pref.provider]
           ELSE IF EnvFallback(ledger.bridge) # ""
           THEN [source |-> "env-fallback", provider |-> EnvFallback(ledger.bridge)]
           ELSE [source |-> "none", provider |-> ""]

StartUsage(r) ==
    /\ usage[r].pc = "none"
    /\ usage' = [usage EXCEPT ![r] = [NoUsage EXCEPT
                   !.source = Resolve.source, !.provider = Resolve.provider,
                   !.pc = IF Resolve.source = "none" THEN "error"
                          ELSE IF Resolve.source = "env-fallback" /\ ledger.on THEN "gate"
                          ELSE "work"]]
    /\ UNCHANGED <<aiRows, tab, ledger, changes>>

(* gateEnvFallback, with the balance or, when it cannot be read, without. *)
GateUsage(r) ==
    /\ usage[r].pc = "gate"
    /\ \/ usage' = [usage EXCEPT ![r].pc = "work", ![r].meter = TRUE]
       \/ ledger.balance = 0 /\ usage' = [usage EXCEPT ![r].pc = "error"]
    /\ UNCHANGED <<aiRows, tab, ledger, changes>>

UsageFails(r) ==
    /\ usage[r].pc = "work"
    /\ usage' = [usage EXCEPT ![r].pc = "error"]
    /\ UNCHANGED <<aiRows, tab, ledger, changes>>

(* debit: the ledger takes it, or it refuses or cannot be reached, which is *)
(* logged: the run goes uncharged.                                          *)
Debit(r, bill) ==
    \/ /\ usage' = [usage EXCEPT ![r].pc = "charged", ![r].billed = bill, ![r].paid = FALSE]
       /\ UNCHANGED ledger
    \/ /\ bill /\ ledger.balance > 0
       /\ usage' = [usage EXCEPT ![r].pc = "charged", ![r].billed = TRUE, ![r].paid = TRUE]
       /\ ledger' = [ledger EXCEPT !.balance = @ - 1]

(* Slip: who is billed is looked up when the run ends. *)
ChargeNow(r) ==
    /\ usage[r].pc = "work"
    /\ Debit(r, ledger.on /\ ~Own)
    /\ UNCHANGED <<aiRows, tab, changes>>

(* chargeRun, once the work is done: a run that is not metered is not       *)
(* billed.                                                                  *)
ChargeUsage(r) ==
    /\ usage[r].pc = "work"
    /\ Debit(r, usage[r].meter)
    /\ UNCHANGED <<aiRows, tab, changes>>

(* The driver returns, unless the bridge is restarted before. *)
UsageEnds(r) ==
    /\ usage[r].pc = "charged"
    /\ usage' = [usage EXCEPT ![r].pc = "ok"]
    /\ UNCHANGED <<aiRows, tab, ledger, changes>>

AiNext ==
    \/ \E v \in Vendors :
          SetKey(v) \/ DeleteKey(v) \/ Choose(v) \/ \E m \in Models : ScriptKey(v, m)
    \/ ScriptPref \/ MountTab \/ RenderTab \/ Choose("") \/ ToggleCustom \/ SavePref
    \/ \E m \in Models : ChooseModel(m)
    \/ \E r \in AiRuns :
          StartUsage(r) \/ GateUsage(r) \/ UsageFails(r) \/ ChargeUsage(r) \/ UsageEnds(r)

AiSpec == AiInit /\ [][AiNext]_aiVars

-----------------------------------------------------------------------------
(* A run that was started with a key of the owner is never billed, and one  *)
(* on the bridge's key is billed exactly when it has done its work, if the  *)
(* ledger is on: what happens to the keys and the preference meanwhile does *)
(* not matter.  What the ledger then takes is for such a run only.          *)
BilledForTheBridgesKey ==
    \A r \in AiRuns :
       /\ usage[r].billed <=> /\ usage[r].pc \in {"charged", "ok"}
                              /\ usage[r].source = "env-fallback" /\ ledger.on
       /\ usage[r].paid => usage[r].billed

(* "Owner must have an API key configured for the provider they pick"       *)
(* (pref/route.ts:44), "otherwise the resolver would just fall back": a     *)
(* preference has its key, unless the two were torn apart.                  *)
PrefHasKey == ~torn /\ pref.provider # "" => pref.provider \in keys

(* What is chosen from the lists is a model that the provider offers; a     *)
(* form that shows the list has another one only when it is as it was       *)
(* mounted, with a model that somebody typed in before.                     *)
ModelIsOffered ==
    ~tab.custom /\ tab.form.provider # "" =>
       tab.form.model \in ListOf(tab.form.provider) \/ tab.form = tab.mounted

(* Who pays, whose key it is and what is preferred go together. *)
KeysAreRespected == BilledForTheBridgesKey /\ PrefHasKey /\ ModelIsOffered
=============================================================================
