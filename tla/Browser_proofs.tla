---------------------------- MODULE Browser_proofs ----------------------------
(***************************************************************************)
(* Proofs about what people do in their browsers and what the bridge then  *)
(* does: Providers, Accounts, AgentLog, Browse, Issues and Drafts, one     *)
(* after the other, each with an inductive invariant of its own, and the   *)
(* six together as MCBrowser composes them, for every value of the         *)
(* constants.                                                              *)
(***************************************************************************)
EXTENDS MCBrowser, TLAPS, FiniteSetTheorems

-----------------------------------------------------------------------------
(* Providers.  What a run is metered for was decided when it started, and   *)
(* whether the ledger is on never changes.                                  *)
Form   == [provider : Vendors \cup {""}, model : Models \cup {NoModel}]
Tab    == [listed : SUBSET Vendors, pref : Prefs, form : Form, mounted : Prefs,
           custom : BOOLEAN]
Ledger == [on : BOOLEAN, balance : 0 .. Free, bridge : Bridges]
Usage  == [pc : {"none", "gate", "work", "charged", "ok", "error"},
           source : {"none", "user-pref", "env-fallback"},
           provider : Vendors \cup {""}, meter : BOOLEAN, billed : BOOLEAN, paid : BOOLEAN]

VaultTypes ==
    /\ keys \in SUBSET Vendors /\ pref \in Prefs /\ torn \in BOOLEAN /\ script \in Prefs
    /\ changes \in 0 .. MaxChanges
UsageTypes == ledger \in Ledger /\ usage \in [AiRuns -> Usage]

OnTheBridge(u) == u.source = "env-fallback" /\ ledger.on
MeterInv(u) ==
    /\ u.pc = "gate" => OnTheBridge(u) /\ ~u.meter
    /\ u.pc = "work" => (u.meter <=> OnTheBridge(u))
    /\ u.billed <=> (u.pc \in {"charged", "ok"} /\ OnTheBridge(u))
    /\ u.paid => u.billed
Metered == \A r \in AiRuns : MeterInv(usage[r])

AiInv == VaultTypes /\ tab \in Tab /\ UsageTypes /\ PrefHasKey /\ ModelIsOffered /\ Metered

LEMMA AiBounds == MaxChanges \in Nat /\ Free \in Nat /\ Curated \in Nat /\ Curated > 0
<1>1. Curated \in Nat /\ Curated # 0
    BY VendorsAssumption
<1> QED
    BY <1>1, AiBoundsAssumption

LEMMA ModelsAreTyped ==
    /\ \A v \in Vendors : First(v) \in Models /\ First(v) \in ListOf(v)
    /\ \A v \in Vendors : \A m \in ListOf(v) : m \in Models
    /\ NoPref \in Prefs /\ NoPref \in Form /\ NoPref.provider = "" /\ NoPref.model = NoModel
<1>1. ASSUME NEW v \in Vendors
      PROVE  First(v) \in Models /\ First(v) \in ListOf(v)
    BY <1>1, AiBounds DEF First, Models, ListOf
<1>2. ASSUME NEW v \in Vendors, NEW m \in ListOf(v)
      PROVE  m \in Models
    BY <1>2, AiBounds DEF ListOf, Models
<1>3. NoPref \in Prefs /\ NoPref \in Form /\ NoPref.provider = "" /\ NoPref.model = NoModel
    BY DEF NoPref, Prefs, Form
<1> QED
    BY <1>1, <1>2, <1>3

LEMMA PrefIsTyped ==
    ASSUME NEW p \in Prefs
    PROVE  /\ p.provider \in Vendors \cup {""} /\ p \in Form
           /\ p.provider = "" \/ p.model \in Models
BY ModelsAreTyped DEF Prefs, Form

(* A page that is mounted has what is saved. *)
LEMMA MountedIs ==
    ASSUME keys \in SUBSET Vendors, pref \in Prefs, tab' = Mounted
    PROVE  tab' \in Tab /\ tab'.form = tab'.mounted
BY PrefIsTyped DEF Mounted, Tab

LEMMA NoUsageIsTyped == NoUsage \in Usage /\ MeterInv(NoUsage)
BY DEF NoUsage, Usage, MeterInv

LEMMA AiInitHolds == AiInit => AiInv
<1> SUFFICES ASSUME AiInit PROVE AiInv
    OBVIOUS
<1>1. VaultTypes /\ PrefHasKey
    <2>1. torn \in BOOLEAN
        BY DEF AiInit
    <2>2. keys = {} /\ pref = NoPref /\ script = NoPref /\ changes = 0
        BY DEF AiInit
    <2> QED
        <3>1. 0 \in 0 .. MaxChanges
            BY AiBounds
        <3>2. VaultTypes
            BY <2>1, <2>2, <3>1, ModelsAreTyped DEF VaultTypes
        <3>3. PrefHasKey
            BY <2>2, ModelsAreTyped DEF PrefHasKey
        <3> QED
            BY <3>2, <3>3
<1>2. tab \in Tab /\ ModelIsOffered
    <2>1. keys \in SUBSET Vendors /\ pref \in Prefs /\ tab = Mounted
        BY ModelsAreTyped DEF AiInit
    <2>2. tab \in Tab /\ tab.form = tab.mounted
        BY <2>1, PrefIsTyped DEF Mounted, Tab
    <2> QED
        BY <2>2 DEF ModelIsOffered
<1>3. UsageTypes /\ Metered
    <2>1. ledger \in Ledger
        BY DEF AiInit, Ledger
    <2>2. usage = [r \in AiRuns |-> NoUsage]
        BY DEF AiInit
    <2> QED
        BY <2>1, <2>2, NoUsageIsTyped DEF UsageTypes, Metered
<1> QED
    BY <1>1, <1>2, <1>3 DEF AiInv

(* The vault changes: the keys and the preference, by the page or behind it. *)
LEMMA VaultHolds ==
    ASSUME AiInv,
           \/ \E v \in Vendors : SetKey(v) \/ DeleteKey(v) \/ \E m \in Models : ScriptKey(v, m)
           \/ ScriptPref
    PROVE  AiInv'
<1>1. UNCHANGED <<tab, ledger, usage>> /\ VaultTypes /\ PrefHasKey
    BY DEF AiInv, SetKey, DeleteKey, ScriptKey, ScriptPref
<1>2. changes' \in 0 .. MaxChanges
    BY <1>1, AiBounds DEF SetKey, DeleteKey, ScriptKey, ScriptPref, Change, VaultTypes
<1>3. VaultTypes' /\ PrefHasKey'
    <2>1. ASSUME NEW v \in Vendors, SetKey(v)
          PROVE  VaultTypes' /\ PrefHasKey'
        BY <1>1, <1>2, <2>1 DEF SetKey, PutKey, VaultTypes, PrefHasKey
    <2>2. ASSUME NEW v \in Vendors, DeleteKey(v)
          PROVE  VaultTypes' /\ PrefHasKey'
        <3>1. keys' = keys \ {v} /\ script' = script /\ pref \in Prefs /\ keys \in SUBSET Vendors
              /\ script \in Prefs /\ torn \in BOOLEAN
            BY <1>1, <2>2 DEF DeleteKey, VaultTypes
        <3>2. CASE pref' = Unset(v) /\ torn' = torn
            <4>1. pref' \in Prefs /\ (pref'.provider # "" => pref' = pref /\ pref.provider # v)
                BY <3>1, <3>2, ModelsAreTyped DEF Unset
            <4> QED
                BY <1>1, <1>2, <3>1, <3>2, <4>1 DEF VaultTypes, PrefHasKey
        <3>3. CASE pref' = pref /\ torn' = TRUE
            <4>1. torn' \in BOOLEAN /\ torn'
                BY <3>3
            <4> QED
                BY <1>2, <3>1, <3>3, <4>1 DEF VaultTypes, PrefHasKey
        <3> QED
            BY <2>2, <3>2, <3>3 DEF DeleteKey
    <2>3. ASSUME NEW v \in Vendors, NEW m \in Models, ScriptKey(v, m)
          PROVE  VaultTypes' /\ PrefHasKey'
        <3>1. script' \in Prefs
            BY <2>3 DEF ScriptKey, Prefs
        <3> QED
            BY <1>1, <1>2, <2>3, <3>1 DEF ScriptKey, PutKey, VaultTypes, PrefHasKey
    <2>4. CASE ScriptPref
        <3>1. torn' \in BOOLEAN /\ pref' \in Prefs /\ script' \in Prefs
            BY <1>1, <2>4, ModelsAreTyped DEF ScriptPref, VaultTypes
        <3>2. PrefHasKey'
            BY <2>4 DEF ScriptPref, PrefHasKey
        <3> QED
            BY <1>1, <1>2, <2>4, <3>1, <3>2 DEF ScriptPref, VaultTypes
    <2> QED
        BY <2>1, <2>2, <2>3, <2>4
<1> QED
    BY <1>1, <1>3 DEF AiInv, UsageTypes, ModelIsOffered, Metered, MeterInv, OnTheBridge

LEMMA ChangesAreCounted ==
    ASSUME changes \in 0 .. MaxChanges, (UNCHANGED changes) \/ Change
    PROVE  changes' \in 0 .. MaxChanges
BY AiBounds DEF Change

(* The page: what it lists, what is chosen in its form, and Save. *)
LEMMA TabHolds ==
    ASSUME AiInv,
           \/ MountTab \/ RenderTab \/ ToggleCustom \/ SavePref
           \/ \E v \in Vendors \cup {""} : Choose(v)
           \/ \E m \in Models : ChooseModel(m)
    PROVE  AiInv'
<1>0. UNCHANGED <<keys, torn, script, ledger, usage>>
    BY DEF MountTab, RenderTab, ToggleCustom, SavePref, Choose, ChooseModel, aiRows
<1>1. /\ UNCHANGED <<keys, torn, script, ledger, usage>> /\ VaultTypes /\ PrefHasKey
      /\ ModelIsOffered /\ tab \in Tab /\ tab.form \in Form /\ tab.custom \in BOOLEAN
      /\ tab.listed \in SUBSET Vendors
    BY <1>0 DEF AiInv, Tab
<1>2. changes' \in 0 .. MaxChanges
    <2>1. (UNCHANGED changes) \/ Change
        BY DEF MountTab, RenderTab, ToggleCustom, SavePref, Choose, ChooseModel
    <2>2. changes \in 0 .. MaxChanges
        BY <1>1 DEF VaultTypes
    <2> QED
        BY <2>1, <2>2, ChangesAreCounted
<1>3. UsageTypes' /\ Metered'
    BY <1>1 DEF AiInv, UsageTypes, Metered, MeterInv, OnTheBridge
<1>4. ASSUME UNCHANGED pref, tab' \in Tab, ModelIsOffered' PROVE AiInv'
    <2>1. VaultTypes'
        BY <1>1, <1>2, <1>4 DEF VaultTypes
    <2>2. PrefHasKey'
        BY <1>1, <1>4 DEF PrefHasKey
    <2> QED
        BY <1>4, <1>3, <2>1, <2>2 DEF AiInv
<1>5. CASE RenderTab
    <2>1. /\ tab' = [tab EXCEPT !.listed = keys, !.pref = pref] /\ UNCHANGED pref
          /\ keys \in SUBSET Vendors /\ pref \in Prefs
        BY <1>1, <1>5 DEF RenderTab, aiRows, VaultTypes
    <2>2. /\ tab' \in Tab /\ tab'.custom = tab.custom /\ tab'.form = tab.form
          /\ tab'.mounted = tab.mounted
        BY <1>1, <2>1 DEF Tab
    <2> QED
        BY <1>1, <1>4, <2>1, <2>2 DEF ModelIsOffered
<1>6. ASSUME NEW v \in Vendors \cup {""}, Choose(v) PROVE AiInv'
    <2> DEFINE m == IF v = "" THEN NoModel
                    ELSE IF tab.custom THEN tab.form.model ELSE First(v)
    <2> DEFINE f == [tab.form EXCEPT !.provider = v, !.model = m]
    <2>1. UNCHANGED pref
        BY <1>6 DEF Choose, aiRows
    <2>2. tab' = [tab EXCEPT !.form = f]
        BY <1>1, <1>6 DEF Choose, Tab, Form
    <2>3. m \in Models \cup {NoModel} /\ (v # "" /\ ~tab.custom => m \in ListOf(v))
        BY <1>1, ModelsAreTyped DEF Form
    <2> HIDE DEF m
    <2>4. f \in Form /\ f.provider = v /\ f.model = m
        BY <1>1, <2>3 DEF Form
    <2> HIDE DEF f
    <2>5. tab' \in Tab /\ tab'.custom = tab.custom /\ tab'.form = f
        BY <1>1, <2>2, <2>4 DEF Tab
    <2> QED
        BY <1>1, <1>4, <2>1, <2>3, <2>4, <2>5 DEF ModelIsOffered
<1>7. ASSUME NEW m \in Models, ChooseModel(m) PROVE AiInv'
    <2>1. /\ UNCHANGED pref /\ tab.form.provider # ""
          /\ tab.custom \/ m \in ListOf(tab.form.provider)
        BY <1>1, <1>7 DEF ChooseModel, aiRows
    <2>2. tab' \in Tab /\ tab'.custom = tab.custom /\ tab'.form.provider = tab.form.provider
          /\ tab'.form.model = m
        BY <1>1, <1>7 DEF ChooseModel, Tab, Form
    <2> QED
        BY <1>4, <2>1, <2>2 DEF ModelIsOffered
<1>8. CASE ToggleCustom
    <2> DEFINE m == IF tab.custom THEN First(tab.form.provider) ELSE tab.form.model
    <2>1. UNCHANGED pref /\ tab.form.provider \in Vendors
        BY <1>1, <1>8 DEF ToggleCustom, aiRows, Form
    <2>2. m \in Models \cup {NoModel} /\ (tab.custom => m \in ListOf(tab.form.provider))
        BY <1>1, <2>1, ModelsAreTyped DEF Form
    <2>3. tab' = [tab EXCEPT !.custom = ~tab.custom, !.form = [tab.form EXCEPT !.model = m]]
        BY <1>1, <1>8 DEF ToggleCustom, Tab
    <2> DEFINE f == [tab.form EXCEPT !.model = m]
    <2> HIDE DEF m
    <2>4. f \in Form /\ f.provider = tab.form.provider /\ f.model = m
        BY <1>1, <2>2 DEF Form
    <2> HIDE DEF f
    <2>5. tab' = [tab EXCEPT !.custom = ~tab.custom, !.form = f]
        BY <2>3 DEF f
    <2> DEFINE c == ~tab.custom
    <2>6. c \in BOOLEAN /\ (~c <=> tab.custom)
        BY <1>1
    <2>7. tab' = [tab EXCEPT !.custom = c, !.form = f]
        BY <2>5
    <2> HIDE DEF c
    <2>8. tab' \in Tab /\ tab'.custom = c /\ tab'.form = f
        BY <1>1, <2>4, <2>6, <2>7 DEF Tab
    <2> QED
        BY <1>1, <1>4, <2>1, <2>2, <2>4, <2>6, <2>8 DEF ModelIsOffered
<1>9. CASE SavePref
    <2>1. CASE ~Acceptable(tab.form)
        BY <1>1, <1>4, <1>9, <2>1 DEF SavePref, ModelIsOffered
    <2>2. CASE Acceptable(tab.form)
        <3>1. pref' = (IF tab.form.provider = "" THEN NoPref ELSE tab.form)
              /\ tab' = [tab EXCEPT !.listed = keys, !.pref = pref']
            BY <1>9, <2>2 DEF SavePref
        <3>2. pref' \in Prefs /\ (pref'.provider # "" => pref'.provider \in keys)
            BY <1>1, <2>2, <3>1, ModelsAreTyped DEF Acceptable, Prefs, Form
        <3>3. /\ tab' \in Tab /\ tab'.custom = tab.custom /\ tab'.form = tab.form
              /\ tab'.mounted = tab.mounted
            BY <1>1, <3>1, <3>2 DEF Tab, VaultTypes
        <3>4. ModelIsOffered' /\ PrefHasKey'
            BY <1>1, <3>2, <3>3 DEF ModelIsOffered, PrefHasKey
        <3> QED
            BY <1>1, <1>2, <1>3, <3>2, <3>3, <3>4 DEF VaultTypes, AiInv
    <2> QED
        BY <2>1, <2>2
<1>10. CASE MountTab
    <2>1. UNCHANGED pref /\ tab' = Mounted /\ keys \in SUBSET Vendors /\ pref \in Prefs
        BY <1>1, <1>10 DEF MountTab, aiRows, VaultTypes
    <2>2. tab' \in Tab /\ tab'.form = tab'.mounted
        BY <2>1, MountedIs
    <2> QED
        BY <1>4, <2>1, <2>2 DEF ModelIsOffered
<1> QED
    BY <1>5, <1>6, <1>7, <1>8, <1>9, <1>10

(* The runs: each stays on the key it was started with. *)
LEMMA UsageIs ==
    ASSUME AiInv, NEW r \in AiRuns
    PROVE  /\ usage \in [AiRuns -> Usage] /\ usage[r] \in Usage /\ MeterInv(usage[r])
           /\ ledger \in Ledger /\ ledger.on \in BOOLEAN
BY DEF AiInv, UsageTypes, Metered, Ledger

LEMMA UsageMoves ==
    ASSUME AiInv, NEW r \in AiRuns, NEW u \in Usage, usage' = [usage EXCEPT ![r] = u],
           UNCHANGED <<aiRows, tab, changes>>, ledger' \in Ledger, ledger'.on = ledger.on,
           MeterInv(u)
    PROVE  AiInv'
<1>1. VaultTypes' /\ tab' \in Tab /\ PrefHasKey' /\ ModelIsOffered'
    BY DEF AiInv, VaultTypes, PrefHasKey, ModelIsOffered, aiRows
<1>2. UsageTypes'
    BY DEF AiInv, UsageTypes
<1>3. ASSUME NEW q \in AiRuns PROVE MeterInv(usage[q])'
    <2>1. MeterInv(usage[q]) /\ usage'[q] = (IF q = r THEN u ELSE usage[q])
        BY DEF AiInv, UsageTypes, Metered
    <2> QED
        BY <2>1 DEF MeterInv, OnTheBridge
<1> QED
    BY <1>1, <1>2, <1>3 DEF AiInv, Metered

LEMMA SmallestIndex ==
    ASSUME NEW S, S \subseteq Nat, S # {}
    PROVE  \E i \in S : \A j \in S : i <= j
<1> DEFINE R == {p \in Nat \X Nat : p[1] < p[2]}
<1>1. IsWellFoundedOn(R, Nat)
    BY NatLessThanWellFounded DEF OpToRel
<1>2. \A i \in Nat, j \in Nat : <<j, i>> \in R \/ i <= j
    OBVIOUS
<1> HIDE DEF R
<1>3. PICK i \in S : \A j \in S : ~ (<<j, i>> \in R)
    BY <1>1, WFMin, Zenon
<1>4. \A j \in S : i <= j
    BY <1>2, <1>3
<1> QED
    BY <1>4

LEMMA ResolveIsTyped ==
    ASSUME AiInv
    PROVE  /\ Resolve.source \in {"none", "user-pref", "env-fallback"}
           /\ Resolve.provider \in Vendors \cup {""}
<1>1. pref.provider \in Vendors \cup {""}
    BY PrefIsTyped DEF AiInv, VaultTypes
<1>2. ledger.bridge \in Bridges
    BY DEF AiInv, UsageTypes, Ledger
<1>3. EnvFallback(ledger.bridge) \in Vendors \cup {""}
    <2> DEFINE b == ledger.bridge
               usable == {i \in DOMAIN Order : Order[i] \in b.keys /\ b.pinned \in {"", Order[i]}}
    <2>1. usable \subseteq Nat /\ usable \subseteq DOMAIN Order
        <3>1. DOMAIN Order \subseteq Nat
            BY OrderAssumption
        <3>2. usable \subseteq DOMAIN Order
            OBVIOUS
        <3> QED
            BY <3>1, <3>2
    <2>2. ASSUME usable # {} PROVE \E i \in usable : \A j \in usable : i <= j
        BY <2>1, <2>2, SmallestIndex
    <2>3. \A i \in usable : Order[i] \in Vendors
        BY <2>1 DEF Vendors
    <2>4. EnvFallback(b) = IF usable = {} THEN ""
                           ELSE Order[CHOOSE i \in usable : \A j \in usable : i <= j]
        BY DEF EnvFallback
    <2> HIDE DEF usable
    <2> QED
        BY <2>2, <2>3, <2>4
<1> QED
    BY <1>1, <1>3 DEF Resolve

LEMMA StartUsageHolds ==
    ASSUME AiInv, NEW r \in AiRuns, StartUsage(r)
    PROVE  AiInv'
<1> DEFINE pc == IF Resolve.source = "none" THEN "error"
                 ELSE IF Resolve.source = "env-fallback" /\ ledger.on THEN "gate" ELSE "work"
           u  == [NoUsage EXCEPT !.source = Resolve.source, !.provider = Resolve.provider,
                                 !.pc = pc]
<1>1. /\ usage' = [usage EXCEPT ![r] = u] /\ UNCHANGED <<aiRows, tab, ledger, changes>>
      /\ ledger \in Ledger /\ ledger.on \in BOOLEAN
    BY UsageIs DEF StartUsage
<1>2. /\ u \in Usage /\ u.pc = pc /\ u.source = Resolve.source
      /\ u.meter = FALSE /\ u.billed = FALSE /\ u.paid = FALSE
    BY ResolveIsTyped DEF Usage, NoUsage
<1>3. /\ pc \in {"error", "gate", "work"}
      /\ pc = "gate" => Resolve.source = "env-fallback" /\ ledger.on
      /\ pc = "work" => ~(Resolve.source = "env-fallback" /\ ledger.on)
    OBVIOUS
<1> HIDE DEF pc, u
<1>4. MeterInv(u)
    BY <1>2, <1>3 DEF MeterInv, OnTheBridge
<1> QED
    BY <1>1, <1>2, <1>4, UsageMoves

LEMMA UsageStepHolds ==
    ASSUME AiInv, NEW r \in AiRuns, GateUsage(r) \/ UsageFails(r) \/ ChargeUsage(r) \/ UsageEnds(r)
    PROVE  AiInv'
<1>1. /\ usage \in [AiRuns -> Usage] /\ usage[r] \in Usage /\ MeterInv(usage[r])
      /\ ledger \in Ledger /\ ledger.on \in BOOLEAN /\ usage[r].meter \in BOOLEAN
      /\ usage[r].billed \in BOOLEAN /\ usage[r].paid \in BOOLEAN
    BY UsageIs DEF Usage
<1>2. CASE /\ usage[r].pc = "gate" /\ UNCHANGED <<aiRows, tab, ledger, changes>>
           /\ usage' = [usage EXCEPT ![r].pc = "work", ![r].meter = TRUE]
    <2> DEFINE u == [usage[r] EXCEPT !.pc = "work", !.meter = TRUE]
    <2>1. /\ u \in Usage /\ u.pc = "work" /\ u.meter = TRUE /\ u.paid = usage[r].paid
          /\ u.billed = usage[r].billed /\ u.source = usage[r].source /\ usage' = [usage EXCEPT ![r] = u]
        BY <1>1, <1>2 DEF Usage
    <2> HIDE DEF u
    <2>2. MeterInv(u)
        BY <1>1, <1>2, <2>1 DEF MeterInv, OnTheBridge
    <2> QED
        BY <1>1, <1>2, <2>1, <2>2, UsageMoves
<1>3. CASE /\ usage[r].pc \in {"gate", "work"} /\ UNCHANGED <<aiRows, tab, ledger, changes>>
           /\ usage' = [usage EXCEPT ![r].pc = "error"]
    <2> DEFINE u == [usage[r] EXCEPT !.pc = "error"]
    <2>1. /\ u \in Usage /\ u.pc = "error" /\ u.paid = usage[r].paid
          /\ u.billed = usage[r].billed /\ u.source = usage[r].source /\ usage' = [usage EXCEPT ![r] = u]
        BY <1>1, <1>3 DEF Usage
    <2> HIDE DEF u
    <2>2. MeterInv(u)
        BY <1>1, <1>3, <2>1 DEF MeterInv, OnTheBridge
    <2> QED
        BY <1>1, <1>3, <2>1, <2>2, UsageMoves
<1>4. CASE ChargeUsage(r)
    <2>1. /\ usage[r].pc = "work" /\ UNCHANGED <<aiRows, tab, changes>>
          /\ Debit(r, usage[r].meter) /\ ledger.balance \in 0 .. Free
        BY <1>1, <1>4 DEF ChargeUsage, Ledger
    <2>2. PICK m \in BOOLEAN : m = usage[r].meter /\ (m <=> OnTheBridge(usage[r]))
        BY <1>1, <2>1 DEF MeterInv
    <2>3. CASE /\ usage' = [usage EXCEPT ![r].pc = "charged", ![r].billed = m, ![r].paid = FALSE]
               /\ UNCHANGED ledger
        <3> DEFINE u == [usage[r] EXCEPT !.pc = "charged", !.billed = m, !.paid = FALSE]
        <3>1. u \in Usage /\ usage' = [usage EXCEPT ![r] = u]
            BY <1>1, <2>3 DEF Usage
        <3>2. u.pc = "charged" /\ u.billed = m /\ u.paid = FALSE /\ u.source = usage[r].source
            BY <1>1 DEF Usage
        <3> HIDE DEF u
        <3>3. MeterInv(u)
            BY <2>2, <3>2 DEF MeterInv, OnTheBridge
        <3> QED
            BY <1>1, <2>1, <2>3, <3>1, <3>3, UsageMoves
    <2>4. CASE /\ m /\ ledger.balance > 0
               /\ usage' = [usage EXCEPT ![r].pc = "charged", ![r].billed = TRUE, ![r].paid = TRUE]
               /\ ledger' = [ledger EXCEPT !.balance = ledger.balance - 1]
        <3> DEFINE u == [usage[r] EXCEPT !.pc = "charged", !.billed = TRUE, !.paid = TRUE]
                   c == ledger.balance - 1
        <3>1. u \in Usage /\ usage' = [usage EXCEPT ![r] = u]
            BY <1>1, <2>4 DEF Usage
        <3>2. u.pc = "charged" /\ u.billed = TRUE /\ u.paid = TRUE /\ u.source = usage[r].source
            BY <1>1 DEF Usage
        <3> HIDE DEF u
        <3>3. MeterInv(u)
            BY <2>2, <2>4, <3>2 DEF MeterInv, OnTheBridge
        <3>4. c \in 0 .. Free /\ ledger' = [ledger EXCEPT !.balance = c]
            BY <2>1, <2>4, AiBounds
        <3> HIDE DEF c
        <3>5. ledger' \in Ledger /\ ledger'.on = ledger.on
            BY <1>1, <3>4 DEF Ledger
        <3> QED
            BY <1>1, <2>1, <3>1, <3>3, <3>5, UsageMoves
    <2> QED
        BY <2>1, <2>2, <2>3, <2>4 DEF Debit
<1>5. CASE UsageEnds(r)
    <2> DEFINE u == [usage[r] EXCEPT !.pc = "ok"]
    <2>1. /\ u \in Usage /\ u.pc = "ok" /\ u.paid = usage[r].paid
          /\ u.billed = usage[r].billed /\ u.source = usage[r].source
          /\ usage' = [usage EXCEPT ![r] = u]
        BY <1>1, <1>5 DEF Usage, UsageEnds
    <2>2. usage[r].pc = "charged" /\ UNCHANGED <<aiRows, tab, ledger, changes>>
        BY <1>5 DEF UsageEnds
    <2> HIDE DEF u
    <2>3. MeterInv(u)
        BY <1>1, <2>1, <2>2 DEF MeterInv, OnTheBridge
    <2> QED
        BY <1>1, <2>1, <2>2, <2>3, UsageMoves
<1> QED
    BY <1>2, <1>3, <1>4, <1>5 DEF GateUsage, UsageFails

LEMMA AiNextHolds == AiInv /\ [AiNext]_aiVars => AiInv'
<1> SUFFICES ASSUME AiInv, [AiNext]_aiVars PROVE AiInv'
    OBVIOUS
<1>1. CASE UNCHANGED aiVars
    BY <1>1 DEF aiVars, aiRows, AiInv, VaultTypes, UsageTypes, PrefHasKey, ModelIsOffered, Metered,
                MeterInv, OnTheBridge
<1>2. ASSUME NEW v \in Vendors,
             SetKey(v) \/ DeleteKey(v) \/ Choose(v) \/ \E m \in Models : ScriptKey(v, m)
      PROVE  AiInv'
    BY <1>2, VaultHolds, TabHolds
<1>3. CASE ScriptPref \/ MountTab \/ RenderTab \/ Choose("") \/ ToggleCustom \/ SavePref
    BY <1>3, VaultHolds, TabHolds
<1>4. ASSUME NEW m \in Models, ChooseModel(m) PROVE AiInv'
    BY <1>4, TabHolds
<1>5. ASSUME NEW r \in AiRuns,
             StartUsage(r) \/ GateUsage(r) \/ UsageFails(r) \/ ChargeUsage(r) \/ UsageEnds(r)
      PROVE  AiInv'
    BY <1>5, StartUsageHolds, UsageStepHolds
<1> QED
    BY <1>1, <1>2, <1>3, <1>4, <1>5 DEF AiNext

LEMMA AiTyped == AiInv => AiTypeOK
BY DEF AiInv, VaultTypes, UsageTypes, Tab, Form, Ledger, Usage, AiTypeOK

(* Whatever the owner does to the keys and the preference, and whenever a   *)
(* run ends, the vault, the page, the ledger and the runs stay typed.       *)
THEOREM ProvidersTypes == AiSpec => []AiTypeOK
BY AiInitHolds, AiNextHolds, AiTyped, PTL DEF AiSpec

LEMMA AiKept == AiInv => KeysAreRespected
<1> SUFFICES ASSUME AiInv PROVE BilledForTheBridgesKey
    BY DEF AiInv, KeysAreRespected
<1> QED
    BY DEF AiInv, Metered, MeterInv, OnTheBridge, BilledForTheBridgesKey

(* Runs on a key of the owner are never billed and those on the bridge's    *)
(* key once they have worked, which is all that the ledger takes; a         *)
(* preference has its key, and what is chosen from the lists is on them     *)
(* (lib/ai-providers, manage.tsx, chargeRun of coder.ts).                   *)
THEOREM KeysStayRespected == AiSpec => []KeysAreRespected
BY AiInitHolds, AiNextHolds, AiKept, PTL DEF AiSpec

-----------------------------------------------------------------------------
(* Accounts.  What each tab knows at each step, and what the server and the *)
(* cookies hold for it.                                                     *)
Pcs   == {"idle", "blank", "password", "pod", "row", "login", "walk", "complete", "popup",
          "callback", "answer"} \cup Told
Panel == [pc : Pcs, email : Emails \cup {NoHandle}, handle : WebIds \cup {NoHandle},
          right : BOOLEAN, nonce : Nat]
Jar   == [webId : WebIds \cup {NoHandle}, nonce : Nat, csrf : Nat, flow : Tabs \cup {NoTab}]

ServerTypes ==
    /\ account \in [Emails -> Handles \cup {NoPod, NoHandle}]
    /\ users \in SUBSET Row /\ proven \in SUBSET WebIds /\ popups \in SUBSET Tabs
    /\ issued \in Nat /\ tries \in 0 .. MaxTries /\ mishaps \in 0 .. MaxMishaps

PodsAreUnique == \A e, f \in Emails : account[e] \in Handles /\ account[e] = account[f] => e = f
RowsAreTrue   == \A u \in users : account[u.email] = u.slug

PopupInv(t, p) ==
    /\ p.pc \in {"popup", "callback"} =>
          t \in popups /\ p.email = NoHandle /\ (jar.flow = t \/ \E s \in popups : s # t)
    /\ p.pc = "callback" => p.handle \in WebIds
    /\ p.pc = "overtaken" => \E s \in popups : s # t
SignUpInv(p) ==
    /\ p.pc \in {"blank", "password", "pod", "row"} => p.handle \in Handles
    /\ p.pc \in {"blank", "password", "pod", "row", "login", "walk", "complete"} =>
          p.email \in Emails
    /\ p.pc = "pod" => account[p.email] = NoPod
    /\ p.pc = "row" => account[p.email] = p.handle
AnswerInv(t, p) ==
    /\ p.nonce <= issued
    /\ p.pc = "complete" => p.handle \in Handles
    /\ p.pc = "answer" => /\ p.nonce # 0 /\ p.handle \in proven
                          /\ p.email = NoHandle => t \in popups
TabInv(t, p) == PopupInv(t, p) /\ SignUpInv(p) /\ AnswerInv(t, p)

OneAtPod == \A s, t \in Tabs : panel[s].pc = "pod" /\ panel[t].pc = "pod"
                               /\ panel[s].email = panel[t].email => s = t
JarInv ==
    /\ jar \in Jar /\ jar.nonce <= issued /\ jar.csrf = jar.nonce
    /\ jar.nonce = 0 <=> jar.webId = NoHandle
    /\ jar.webId # NoHandle => jar.webId \in proven

AccInv ==
    /\ ServerTypes /\ PodsAreUnique /\ RowsAreTrue /\ JarInv
    /\ panel \in [Tabs -> Panel] /\ OneAtPod /\ \A t \in Tabs : TabInv(t, panel[t])

(* A cookie of the flow is only ever replaced by that of a popup. *)
FlowMoves(t) == \A s \in Tabs : jar.flow = s /\ s # t => jar'.flow = s \/ t \in popups'

LEMMA TabsMove ==
    ASSUME AccInv, NEW t \in Tabs, NEW p \in Panel,
           panel' = [panel EXCEPT ![t] = p],
           ServerTypes', PodsAreUnique', RowsAreTrue', JarInv', TabInv(t, p)',
           issued <= issued', popups \subseteq popups', proven \subseteq proven', FlowMoves(t),
           \A e \in Emails : account[e] \in Handles => account'[e] = account[e],
           \A s \in Tabs \ {t} : panel[s].pc = "pod" =>
              /\ account'[panel[s].email] = NoPod
              /\ p.pc = "pod" => p.email # panel[s].email
    PROVE  AccInv'
<1>1. panel' \in [Tabs -> Panel] /\ panel'[t] = p /\ \A s \in Tabs \ {t} : panel'[s] = panel[s]
    BY DEF AccInv
<1>2. OneAtPod'
    BY <1>1 DEF AccInv, OneAtPod
<1>3. ASSUME NEW s \in Tabs PROVE TabInv(s, panel[s])'
    <2>1. CASE s = t
        BY <1>1, <2>1
    <2>2. CASE s # t
        <3>1. TabInv(s, panel[s]) /\ panel'[s] = panel[s] /\ panel[s] \in Panel
            BY <1>1, <2>2 DEF AccInv
        <3>2. PICK q : q = panel[s]
            OBVIOUS
        <3>3. TabInv(s, q) /\ q.nonce \in Nat /\ issued \in Nat /\ issued' \in Nat
            BY <3>1, <3>2 DEF AccInv, ServerTypes, Panel
        <3>4. PopupInv(s, q)'
            BY <2>2, <3>3 DEF TabInv, PopupInv, FlowMoves
        <3>5. SignUpInv(q)'
            <4>1. q.pc = "pod" => account'[q.email] = NoPod
                BY <2>2, <3>2
            <4>2. q.pc = "row" => account'[q.email] = q.handle
                BY <3>3 DEF TabInv, SignUpInv
            <4> QED
                BY <3>3, <4>1, <4>2 DEF TabInv, SignUpInv
        <3>6. AnswerInv(s, q)'
            BY <3>3 DEF TabInv, AnswerInv
        <3> QED
            BY <3>1, <3>2, <3>4, <3>5, <3>6 DEF TabInv
    <2> QED
        BY <2>1, <2>2
<1> QED
    BY <1>1, <1>2, <1>3 DEF AccInv

(* Most steps touch the tab alone, and perhaps a bound. *)
LEMMA TabMovesAlone ==
    ASSUME AccInv, NEW t \in Tabs, NEW p \in Panel,
           panel' = [panel EXCEPT ![t] = p], UNCHANGED <<server, jar, popups>>,
           tries' \in 0 .. MaxTries, mishaps' \in 0 .. MaxMishaps,
           TabInv(t, p), p.pc = "pod" => panel[t].pc = "pod" /\ p.email = panel[t].email
    PROVE  AccInv'
<1>1. UNCHANGED <<account, users, proven, issued, jar, popups>>
    BY DEF server
<1>2. ServerTypes' /\ PodsAreUnique' /\ RowsAreTrue' /\ JarInv'
    BY <1>1 DEF AccInv, ServerTypes, PodsAreUnique, RowsAreTrue, JarInv
<1>3. TabInv(t, p)'
    BY <1>1 DEF TabInv, PopupInv, SignUpInv, AnswerInv
<1>4. issued <= issued'
    BY <1>1 DEF AccInv, ServerTypes
<1>5. ASSUME NEW s \in Tabs \ {t}, panel[s].pc = "pod"
      PROVE  account'[panel[s].email] = NoPod /\ (p.pc = "pod" => p.email # panel[s].email)
    BY <1>1, <1>5 DEF AccInv, TabInv, SignUpInv, OneAtPod
<1> QED
    BY <1>1, <1>2, <1>3, <1>4, <1>5, TabsMove DEF FlowMoves

LEMMA AccBounds == MaxTries \in Nat /\ MaxMishaps \in Nat
BY AccountBoundsAssumption

LEMMA TriesAreCounted ==
    ASSUME AccInv
    PROVE  /\ tries \in 0 .. MaxTries /\ mishaps \in 0 .. MaxMishaps
           /\ \A t \in Tabs : Ready(t) => tries' \in 0 .. MaxTries
           /\ Mishap => mishaps' \in 0 .. MaxMishaps
<1>1. tries \in 0 .. MaxTries /\ mishaps \in 0 .. MaxMishaps
    BY DEF AccInv, ServerTypes
<1> QED
    BY <1>1, AccBounds DEF Ready, Mishap

LEMMA IdleIsFine ==
    ASSUME AccInv, NEW t \in Tabs
    PROVE  /\ IdleTab \in Panel /\ TabInv(t, IdleTab) /\ IdleTab.pc = "idle"
           /\ \A told \in {"refused", "incorrect", "failed"} :
                 LET p == [IdleTab EXCEPT !.pc = told]
                 IN  p \in Panel /\ TabInv(t, p) /\ p.pc = told
<1>1. issued \in Nat
    BY DEF AccInv, ServerTypes
<1>2. ASSUME NEW pc \in {"idle", "refused", "incorrect", "failed"}, NEW p \in Panel,
             p.pc = pc, p.nonce = 0
      PROVE  TabInv(t, p)
    BY <1>1, <1>2 DEF TabInv, PopupInv, SignUpInv, AnswerInv
<1>3. IdleTab \in Panel /\ IdleTab.pc = "idle" /\ IdleTab.nonce = 0
    BY DEF IdleTab, Panel, Pcs, Told
<1>4. ASSUME NEW told \in {"refused", "incorrect", "failed"}
      PROVE  LET p == [IdleTab EXCEPT !.pc = told]
             IN  p \in Panel /\ p.pc = told /\ p.nonce = 0
    BY DEF IdleTab, Panel, Pcs, Told
<1> QED
    BY <1>2, <1>3, <1>4

(* What a tab is told. *)
LEMMA SaysHolds ==
    ASSUME AccInv, NEW t \in Tabs, NEW told \in {"refused", "incorrect", "failed"}, Says(t, told),
           UNCHANGED <<server, jar, popups>>,
           tries' \in 0 .. MaxTries, mishaps' \in 0 .. MaxMishaps
    PROVE  AccInv'
<1> DEFINE p == [IdleTab EXCEPT !.pc = told]
<1>1. p \in Panel /\ TabInv(t, p) /\ p.pc = told
    BY IdleIsFine
<1>2. panel' = [panel EXCEPT ![t] = p]
    BY DEF Says
<1> HIDE DEF p
<1> QED
    BY <1>1, <1>2, TabMovesAlone

LEMMA CallFailsHolds ==
    ASSUME AccInv, NEW t \in Tabs, CallFails(t)
    PROVE  AccInv'
BY SaysHolds, TriesAreCounted DEF CallFails

LEMMA MovesTo ==
    ASSUME AccInv, NEW t \in Tabs, NEW pc \in Pcs, Moves(t, pc)
    PROVE  \E p \in Panel : /\ panel' = [panel EXCEPT ![t] = p]
                            /\ p.pc = pc /\ p.email = panel[t].email
                            /\ p.handle = panel[t].handle /\ p.nonce = panel[t].nonce
<1> DEFINE p == [panel[t] EXCEPT !.pc = pc]
<1>1. panel[t] \in Panel /\ panel \in [Tabs -> Panel]
    BY DEF AccInv
<1>2. p \in Panel /\ p.pc = pc /\ p.email = panel[t].email /\ p.handle = panel[t].handle
      /\ p.nonce = panel[t].nonce
    BY <1>1 DEF Panel
<1>3. panel' = [panel EXCEPT ![t] = p]
    BY <1>1 DEF Moves
<1> QED
    BY <1>2, <1>3

LEMMA AtTab ==
    ASSUME AccInv, NEW t \in Tabs
    PROVE  panel[t] \in Panel /\ PopupInv(t, panel[t]) /\ SignUpInv(panel[t])
           /\ AnswerInv(t, panel[t])
BY DEF AccInv, TabInv

(* Sign-up: the two that change the account. *)
LEMMA AttachPasswordHolds ==
    ASSUME AccInv, NEW t \in Tabs, AttachPassword(t)
    PROVE  AccInv'
<1> DEFINE e == panel[t].email
<1>1. e \in Emails /\ panel[t].handle \in Handles /\ panel[t].nonce <= issued
    BY AtTab DEF AttachPassword, At, SignUpInv, AnswerInv
<1>2. CASE Says(t, "refused") /\ UNCHANGED <<account, mishaps>>
    BY <1>2, SaysHolds, TriesAreCounted DEF AttachPassword, server
<1>3. CASE account[e] = NoHandle /\ account' = [account EXCEPT ![e] = NoPod]
    <2>1. PICK p \in Panel : /\ panel' = [panel EXCEPT ![t] = p] /\ TabInv(t, p)'
                             /\ p.pc = "pod" => p.email = e
        <3>1. UNCHANGED <<issued, popups, jar>> /\ account'[e] = NoPod
            BY <1>1, <1>3 DEF AttachPassword, AccInv, ServerTypes
        <3>2. CASE Moves(t, "pod")
            <4>1. PICK p \in Panel : /\ panel' = [panel EXCEPT ![t] = p] /\ p.pc = "pod"
                                     /\ p.email = e /\ p.handle = panel[t].handle
                                     /\ p.nonce = panel[t].nonce
                BY <3>2, MovesTo DEF Pcs
            <4>2. TabInv(t, p)'
                BY <1>1, <3>1, <4>1 DEF TabInv, PopupInv, SignUpInv, AnswerInv
            <4> QED
                BY <4>1, <4>2
        <3>3. CASE Says(t, "failed")
            <4>1. PICK p \in Panel : /\ panel' = [panel EXCEPT ![t] = p] /\ p.pc = "failed"
                                     /\ TabInv(t, p)
                BY <3>3, IdleIsFine DEF Says
            <4>2. TabInv(t, p)'
                BY <3>1, <4>1 DEF TabInv, PopupInv, SignUpInv, AnswerInv
            <4> QED
                BY <4>1, <4>2
        <3> QED
            BY <1>2, <1>3, <3>2, <3>3, NamesAssumption DEF AttachPassword
    <2>2. UNCHANGED <<users, proven, issued, jar, popups, tries>>
          /\ mishaps' \in 0 .. MaxMishaps
        BY TriesAreCounted DEF AttachPassword
    <2>3. /\ account' \in [Emails -> Handles \cup {NoPod, NoHandle}] /\ account'[e] \notin Handles
          /\ account'[e] = NoPod /\ \A f \in Emails \ {e} : account'[f] = account[f]
          /\ account[e] \notin Handles
        BY <1>1, <1>3, NamesAssumption DEF AccInv, ServerTypes
    <2>4. ServerTypes' /\ PodsAreUnique' /\ RowsAreTrue' /\ JarInv' /\ issued <= issued'
        BY <2>2, <2>3, TriesAreCounted
           DEF AccInv, ServerTypes, PodsAreUnique, RowsAreTrue, JarInv, Row
    <2>5. ASSUME NEW s \in Tabs \ {t}, panel[s].pc = "pod"
          PROVE  account'[panel[s].email] = NoPod /\ (p.pc = "pod" => p.email # panel[s].email)
        <3>1. panel[s].email \in Emails /\ account[panel[s].email] = NoPod
            BY <2>5, AtTab DEF SignUpInv
        <3> QED
            BY <1>3, <2>1, <2>3, <3>1, NamesAssumption
    <2>6. \A f \in Emails : account[f] \in Handles => account'[f] = account[f]
        BY <2>3
    <2> QED
        BY <2>1, <2>2, <2>4, <2>5, <2>6, TabsMove DEF FlowMoves
<1> QED
    BY <1>2, <1>3 DEF AttachPassword

LEMMA CreatePodHolds ==
    ASSUME AccInv, NEW t \in Tabs, CreatePod(t)
    PROVE  AccInv'
<1> DEFINE e == panel[t].email
           h == panel[t].handle
<1>1. e \in Emails /\ h \in Handles /\ panel[t].nonce <= issued /\ account[e] = NoPod
    BY AtTab DEF CreatePod, At, SignUpInv, AnswerInv
<1>2. CASE Says(t, "refused") /\ UNCHANGED <<account, mishaps>>
    BY <1>2, SaysHolds, TriesAreCounted DEF CreatePod, server
<1>3. CASE (\A f \in Emails : account[f] # h) /\ account' = [account EXCEPT ![e] = h]
           /\ ~ UNCHANGED account
    <2>1. PICK p \in Panel : panel' = [panel EXCEPT ![t] = p] /\ TabInv(t, p)' /\ p.pc # "pod"
        <3>1. UNCHANGED <<issued, popups, jar>> /\ account'[e] = h
            BY <1>1, <1>3 DEF CreatePod, AccInv, ServerTypes
        <3>2. CASE Moves(t, "row")
            <4>1. PICK p \in Panel : /\ panel' = [panel EXCEPT ![t] = p] /\ p.pc = "row"
                                     /\ p.email = e /\ p.handle = h /\ p.nonce = panel[t].nonce
                BY <3>2, MovesTo DEF Pcs
            <4>2. TabInv(t, p)'
                BY <1>1, <3>1, <4>1 DEF TabInv, PopupInv, SignUpInv, AnswerInv
            <4> QED
                BY <4>1, <4>2
        <3>3. CASE Says(t, "failed")
            <4>1. PICK p \in Panel : /\ panel' = [panel EXCEPT ![t] = p] /\ p.pc = "failed"
                                     /\ TabInv(t, p)
                BY <3>3, IdleIsFine DEF Says
            <4>2. TabInv(t, p)'
                BY <3>1, <4>1 DEF TabInv, PopupInv, SignUpInv, AnswerInv
            <4> QED
                BY <4>1, <4>2
        <3> QED
            BY <1>3, <3>2, <3>3 DEF CreatePod
    <2>2. UNCHANGED <<users, proven, issued, jar, popups, tries>>
          /\ mishaps' \in 0 .. MaxMishaps
        BY TriesAreCounted DEF CreatePod
    <2>3. /\ account' \in [Emails -> Handles \cup {NoPod, NoHandle}] /\ account'[e] = h
          /\ \A f \in Emails \ {e} : account'[f] = account[f]
          /\ account[e] \notin Handles
        BY <1>1, <1>3, NamesAssumption DEF AccInv, ServerTypes
    <2>4. PodsAreUnique' /\ RowsAreTrue'
        BY <1>3, <2>2, <2>3 DEF AccInv, ServerTypes, PodsAreUnique, RowsAreTrue, Row
    <2>5. ServerTypes' /\ JarInv' /\ issued <= issued'
        BY <2>2, <2>3, TriesAreCounted DEF AccInv, ServerTypes, JarInv
    <2>6. ASSUME NEW s \in Tabs \ {t}, panel[s].pc = "pod"
          PROVE  account'[panel[s].email] = NoPod
        <3>1. panel[s].email \in Emails /\ account[panel[s].email] = NoPod
            BY <2>6, AtTab DEF SignUpInv
        <3>2. panel[s].email # e
            BY <2>6 DEF AccInv, OneAtPod, CreatePod, At
        <3> QED
            BY <2>3, <3>1, <3>2
    <2>7. \A f \in Emails : account[f] \in Handles => account'[f] = account[f]
        BY <2>3
    <2> QED
        BY <2>1, <2>2, <2>4, <2>5, <2>6, <2>7, TabsMove DEF FlowMoves
<1> QED
    <2>1. account[e] # h /\ account \in [Emails -> Handles \cup {NoPod, NoHandle}]
        BY <1>1, NamesAssumption DEF AccInv, ServerTypes
    <2> QED
        BY <1>1, <1>2, <1>3, <2>1 DEF CreatePod

LEMMA FormsHold ==
    ASSUME AccInv, NEW t \in Tabs, SignUp(t) \/ SignIn(t)
    PROVE  AccInv'
<1>1. UNCHANGED <<server, jar, popups, mishaps>> /\ tries' \in 0 .. MaxTries
    BY TriesAreCounted DEF SignUp, SignIn
<1>2. \E p \in Panel : /\ panel' = [panel EXCEPT ![t] = p] /\ p.pc \in {"blank", "login"}
                       /\ p.email \in Emails /\ p.nonce = 0
                       /\ p.pc = "blank" => p.handle \in Handles
    <2>1. CASE SignUp(t)
        <3>1. PICK e \in Emails, h \in Handles :
                 panel' = [panel EXCEPT ![t] = [IdleTab EXCEPT !.pc = "blank", !.email = e,
                                                               !.handle = h, !.right = TRUE]]
            BY <2>1 DEF SignUp
        <3> DEFINE p == [IdleTab EXCEPT !.pc = "blank", !.email = e, !.handle = h, !.right = TRUE]
        <3>2. p \in Panel /\ p.pc = "blank" /\ p.email = e /\ p.handle = h /\ p.nonce = 0
            BY DEF IdleTab, Panel, Pcs, WebIds
        <3> QED
            BY <3>1, <3>2
    <2>2. CASE SignIn(t)
        <3>1. PICK e \in Emails, right \in BOOLEAN :
                 panel' = [panel EXCEPT ![t] = [IdleTab EXCEPT !.pc = "login", !.email = e,
                                                               !.right = right]]
            BY <2>2 DEF SignIn
        <3> DEFINE p == [IdleTab EXCEPT !.pc = "login", !.email = e, !.right = right]
        <3>2. p \in Panel /\ p.pc = "login" /\ p.email = e /\ p.nonce = 0
            BY DEF IdleTab, Panel, Pcs
        <3> QED
            BY <3>1, <3>2
    <2> QED
        BY <2>1, <2>2
<1>3. PICK p \in Panel : /\ panel' = [panel EXCEPT ![t] = p] /\ p.pc \in {"blank", "login"}
                         /\ p.email \in Emails /\ p.nonce = 0
                         /\ p.pc = "blank" => p.handle \in Handles
    BY <1>2
<1>4. TabInv(t, p)
    BY <1>3 DEF TabInv, PopupInv, SignUpInv, AnswerInv, AccInv, ServerTypes
<1> QED
    BY <1>1, <1>3, <1>4, TabMovesAlone, TriesAreCounted

(* Steps of the sign-up and of the login that only go on. *)
LEMMA StepsHold ==
    ASSUME AccInv, NEW t \in Tabs, Blank(t) \/ StartLogin(t)
    PROVE  AccInv'
<1>1. CASE CallFails(t)
    BY <1>1, CallFailsHolds
<1>2. ASSUME NEW pc \in {"password", "walk"}, Moves(t, pc),
             pc = "password" => At(t, "blank"), pc = "walk" => At(t, "login"),
             UNCHANGED <<server, jar, popups, accountUsed>>
      PROVE  AccInv'
    <2>1. PICK p \in Panel : /\ panel' = [panel EXCEPT ![t] = p] /\ p.pc = pc
                             /\ p.email = panel[t].email /\ p.handle = panel[t].handle
                             /\ p.nonce = panel[t].nonce
        BY <1>2, MovesTo DEF Pcs
    <2>2. TabInv(t, p)
        BY <1>2, <2>1, AtTab DEF TabInv, PopupInv, SignUpInv, AnswerInv, At
    <2> QED
        BY <1>2, <2>1, <2>2, TabMovesAlone, TriesAreCounted DEF accountUsed
<1> QED
    BY <1>1, <1>2 DEF Blank, StartLogin

LEMMA InsertUserHolds ==
    ASSUME AccInv, NEW t \in Tabs, InsertUser(t)
    PROVE  AccInv'
<1> DEFINE e == panel[t].email
           h == panel[t].handle
           row == [slug |-> h, email |-> e]
<1>1. e \in Emails /\ h \in Handles /\ panel[t].nonce <= issued /\ account[e] = h
    BY AtTab DEF InsertUser, At, SignUpInv, AnswerInv
<1>2. PICK p \in Panel : /\ panel' = [panel EXCEPT ![t] = p] /\ p.pc = "login"
                         /\ p.email = e /\ p.nonce = panel[t].nonce
    BY MovesTo DEF InsertUser, Pcs
<1>3. UNCHANGED <<account, proven, issued, jar, popups, tries>>
      /\ mishaps' \in 0 .. MaxMishaps
    BY TriesAreCounted DEF InsertUser
<1>4. users' \subseteq users \cup {row}
    BY DEF InsertUser
<1>5. row \in Row /\ row.slug = h /\ row.email = e
    BY <1>1 DEF Row
<1> HIDE DEF row
<1>6. RowsAreTrue'
    BY <1>1, <1>3, <1>4, <1>5 DEF AccInv, RowsAreTrue
<1>7. ServerTypes' /\ PodsAreUnique' /\ JarInv'
    BY <1>3, <1>4, <1>5, TriesAreCounted DEF AccInv, ServerTypes, PodsAreUnique, JarInv
<1>8. TabInv(t, p)' /\ issued <= issued'
    BY <1>1, <1>2, <1>3 DEF TabInv, PopupInv, SignUpInv, AnswerInv, AccInv, ServerTypes
<1>9. \A s \in Tabs \ {t} : panel[s].pc = "pod" => account'[panel[s].email] = NoPod
    BY <1>3, AtTab DEF SignUpInv
<1> QED
    BY <1>2, <1>3, <1>6, <1>7, <1>8, <1>9, TabsMove DEF FlowMoves

LEMMA WalkHolds ==
    ASSUME AccInv, NEW t \in Tabs, Walk(t)
    PROVE  AccInv'
<1>1. CASE CallFails(t)
    BY <1>1, CallFailsHolds
<1>2. CASE Says(t, "incorrect") /\ UNCHANGED <<server, jar, popups, accountUsed>>
    BY <1>2, SaysHolds, TriesAreCounted DEF accountUsed
<1>3. CASE /\ At(t, "walk") /\ PickWebId(t) /\ UNCHANGED <<server, jar, popups, accountUsed>>
           /\ panel' = [panel EXCEPT ![t].pc = "complete",
                                     ![t].handle = account[panel[t].email]]
    <2> DEFINE h == account[panel[t].email]
               p == [panel[t] EXCEPT !.pc = "complete", !.handle = h]
    <2>1. h \in Handles /\ panel[t] \in Panel /\ panel \in [Tabs -> Panel]
        BY <1>3, AtTab DEF PickWebId, AccInv
    <2>2. panel' = [panel EXCEPT ![t] = p]
        BY <1>3, <2>1
    <2> HIDE DEF h
    <2>3. p \in Panel /\ p.pc = "complete" /\ p.handle = h /\ p.email = panel[t].email
          /\ p.nonce = panel[t].nonce
        BY <2>1 DEF Panel, Pcs, WebIds
    <2> HIDE DEF p
    <2>4. TabInv(t, p)
        BY <1>3, <2>1, <2>3, AtTab DEF TabInv, PopupInv, SignUpInv, AnswerInv, At
    <2> QED
        BY <1>3, <2>2, <2>3, <2>4, TabMovesAlone, TriesAreCounted DEF accountUsed
<1> QED
    BY <1>1, <1>2, <1>3 DEF Walk

(* A WebID is proven, and its session issued. *)
LEMMA IssueHolds ==
    ASSUME AccInv, NEW t \in Tabs, IssueSession(t), panel[t].handle \in WebIds,
           proven' = proven \cup {panel[t].handle},
           UNCHANGED <<account, users, jar, popups, accountUsed>>,
           panel[t].email = NoHandle => t \in popups
    PROVE  AccInv'
<1> DEFINE n == issued + 1
           p == [panel[t] EXCEPT !.pc = "answer", !.nonce = n]
<1>1. /\ panel[t] \in Panel /\ panel \in [Tabs -> Panel] /\ issued \in Nat /\ issued' = n
      /\ n \in Nat /\ issued < n /\ n # 0
    BY DEF AccInv, ServerTypes, IssueSession
<1>2. panel' = [panel EXCEPT ![t] = p]
    BY <1>1 DEF IssueSession
<1> HIDE DEF n
<1>3. p \in Panel /\ p.pc = "answer" /\ p.nonce = n /\ p.handle = panel[t].handle
      /\ p.email = panel[t].email
    BY <1>1 DEF Panel, Pcs
<1> HIDE DEF p
<1>4. ServerTypes' /\ PodsAreUnique' /\ RowsAreTrue' /\ issued <= issued'
    BY <1>1, TriesAreCounted DEF AccInv, ServerTypes, PodsAreUnique, RowsAreTrue, accountUsed
<1>5. JarInv'
    BY <1>1 DEF AccInv, JarInv, Jar
<1>6. PICK q \in Panel : q = p
    BY <1>3
<1>7. TabInv(t, q)'
    BY <1>1, <1>3, <1>6 DEF TabInv, PopupInv, SignUpInv, AnswerInv
<1>8. \A s \in Tabs \ {t} : panel[s].pc = "pod" => account'[panel[s].email] = NoPod
    BY AtTab DEF SignUpInv
<1> QED
    BY <1>1, <1>2, <1>3, <1>4, <1>5, <1>6, <1>7, <1>8, TabsMove DEF FlowMoves

LEMMA SessionsHold ==
    ASSUME AccInv, NEW t \in Tabs, Complete(t) \/ Callback(t)
    PROVE  AccInv'
<1>1. CASE CallFails(t)
    BY <1>1, CallFailsHolds
<1>2. CASE Complete(t) /\ ~CallFails(t)
    BY <1>2, IssueHolds, AtTab, NamesAssumption
       DEF Complete, At, SignUpInv, AnswerInv, WebIds
<1>3. CASE At(t, "callback") /\ Callback(t) /\ jar.flow = t /\ ~CallFails(t)
    BY <1>3, IssueHolds, AtTab DEF Callback, At, PopupInv
<1>4. CASE /\ At(t, "callback") /\ jar.flow # t /\ Says(t, "overtaken")
           /\ UNCHANGED <<server, jar, popups, accountUsed>>
    <2> DEFINE p == [IdleTab EXCEPT !.pc = "overtaken"]
    <2>1. p \in Panel /\ p.pc = "overtaken" /\ p.nonce = 0 /\ panel' = [panel EXCEPT ![t] = p]
        BY <1>4 DEF IdleTab, Panel, Pcs, Told, Says
    <2> HIDE DEF p
    <2>2. \E s \in popups : s # t
        BY <1>4, AtTab DEF At, PopupInv
    <2>3. TabInv(t, p)
        BY <2>1, <2>2 DEF TabInv, PopupInv, SignUpInv, AnswerInv, AccInv, ServerTypes
    <2> QED
        BY <1>4, <2>1, <2>3, TabMovesAlone, TriesAreCounted DEF accountUsed
<1> QED
    BY <1>1, <1>2, <1>3, <1>4 DEF Complete, Callback

LEMMA StartPopupHolds ==
    ASSUME AccInv, NEW t \in Tabs, StartPopup(t)
    PROVE  AccInv'
<1>1. tries' \in 0 .. MaxTries /\ UNCHANGED <<account, users, proven, issued>>
    BY TriesAreCounted DEF StartPopup, server
<1>2. CASE Mishap /\ Says(t, "failed") /\ UNCHANGED <<jar, popups>>
    BY <1>1, <1>2, SaysHolds, TriesAreCounted DEF server
<1>3. CASE /\ jar' = [jar EXCEPT !.flow = t] /\ popups' = popups \cup {t} /\ UNCHANGED mishaps
           /\ panel' = [panel EXCEPT ![t] = [IdleTab EXCEPT !.pc = "popup"]]
    <2> DEFINE p == [IdleTab EXCEPT !.pc = "popup"]
    <2>1. p \in Panel /\ p.pc = "popup" /\ p.nonce = 0 /\ p.email = NoHandle
          /\ panel' = [panel EXCEPT ![t] = p]
        BY <1>3 DEF IdleTab, Panel, Pcs
    <2> HIDE DEF p
    <2>2. jar \in Jar
        BY DEF AccInv, JarInv
    <2>3. jar' \in Jar /\ jar'.flow = t /\ jar'.nonce = jar.nonce /\ jar'.csrf = jar.csrf
          /\ jar'.webId = jar.webId
        BY <1>3, <2>2 DEF Jar
    <2>4. JarInv'
        BY <1>1, <2>3 DEF AccInv, JarInv
    <2>5. ServerTypes' /\ PodsAreUnique' /\ RowsAreTrue' /\ issued <= issued'
        BY <1>1, <1>3, TriesAreCounted DEF AccInv, ServerTypes, PodsAreUnique, RowsAreTrue
    <2>6. PICK q \in Panel : q = p
        BY <2>1
    <2>7. TabInv(t, q)'
        BY <1>1, <1>3, <2>1, <2>3, <2>6
           DEF TabInv, PopupInv, SignUpInv, AnswerInv, AccInv, ServerTypes
    <2>8. \A s \in Tabs \ {t} : panel[s].pc = "pod" => account'[panel[s].email] = NoPod
        BY <1>1, AtTab DEF SignUpInv
    <2> QED
        BY <1>1, <1>3, <2>1, <2>4, <2>5, <2>6, <2>7, <2>8, TabsMove DEF FlowMoves
<1> QED
    BY <1>2, <1>3 DEF StartPopup

LEMMA AuthorizeHolds ==
    ASSUME AccInv, NEW t \in Tabs, Authorize(t)
    PROVE  AccInv'
<1>1. UNCHANGED <<server, jar, popups, accountUsed>> /\ At(t, "popup")
    BY DEF Authorize
<1>2. CASE panel' = [panel EXCEPT ![t] = IdleTab]
    BY <1>1, <1>2, IdleIsFine, TabMovesAlone, TriesAreCounted DEF accountUsed
<1>3. ASSUME NEW w \in WebIds, panel' = [panel EXCEPT ![t].pc = "callback", ![t].handle = w]
      PROVE  AccInv'
    <2> DEFINE p == [panel[t] EXCEPT !.pc = "callback", !.handle = w]
    <2>1. panel[t] \in Panel /\ panel \in [Tabs -> Panel]
        BY AtTab DEF AccInv
    <2>2. panel' = [panel EXCEPT ![t] = p]
        BY <1>3, <2>1
    <2>3. p \in Panel /\ p.pc = "callback" /\ p.handle = w /\ p.email = panel[t].email
          /\ p.nonce = panel[t].nonce
        BY <2>1 DEF Panel, Pcs
    <2> HIDE DEF p
    <2>4. TabInv(t, p)
        BY <1>1, <2>3, AtTab DEF TabInv, PopupInv, SignUpInv, AnswerInv, At
    <2> QED
        BY <1>1, <2>2, <2>3, <2>4, TabMovesAlone, TriesAreCounted DEF accountUsed
<1> QED
    BY <1>2, <1>3 DEF Authorize, WebIds

LEMMA AnswerHolds ==
    ASSUME AccInv, NEW t \in Tabs, Answer(t)
    PROVE  AccInv'
<1>1. CASE CallFails(t)
    BY <1>1, CallFailsHolds
<1>2. CASE Answer(t) /\ ~CallFails(t)
    <2> DEFINE n == panel[t].nonce
               w == panel[t].handle
               f == IF panel[t].email = NoHandle THEN NoTab ELSE jar.flow
    <2>1. /\ At(t, "answer") /\ UNCHANGED <<server, popups, accountUsed>>
          /\ panel' = [panel EXCEPT ![t] = IdleTab]
          /\ jar' = [jar EXCEPT !.webId = w, !.nonce = n, !.csrf = n, !.flow = f]
        BY <1>2 DEF Answer, AccInv, JarInv, Jar
    <2>2. UNCHANGED <<account, users, proven, issued, tries, mishaps>>
        BY <2>1 DEF server, accountUsed
    <2>3. /\ n \in Nat /\ n # 0 /\ n <= issued /\ w \in proven /\ proven \subseteq WebIds
          /\ issued \in Nat /\ panel[t] \in Panel
          /\ panel[t].email = NoHandle => t \in popups
        BY <2>1, AtTab DEF AnswerInv, At, Panel, AccInv, ServerTypes
    <2>4. jar \in Jar /\ f \in Tabs \cup {NoTab}
        BY DEF AccInv, JarInv, Jar
    <2>5. f # jar.flow => t \in popups
        BY <2>3
    <2> HIDE DEF n, w, f
    <2>6. jar' \in Jar /\ jar'.webId = w /\ jar'.nonce = n /\ jar'.csrf = n /\ jar'.flow = f
        BY <2>1, <2>3, <2>4 DEF Jar
    <2>7. JarInv'
        <3>1. w # NoHandle
            BY <2>3, NamesAssumption DEF WebIds
        <3> QED
            BY <2>2, <2>3, <2>6, <3>1 DEF JarInv
    <2>8. ServerTypes' /\ PodsAreUnique' /\ RowsAreTrue' /\ issued <= issued'
        BY <2>1, <2>2, <2>3, TriesAreCounted DEF AccInv, ServerTypes, PodsAreUnique, RowsAreTrue
    <2>9. IdleTab \in Panel /\ TabInv(t, IdleTab)' /\ IdleTab.pc = "idle"
        <3>1. IdleTab \in Panel /\ IdleTab.pc = "idle" /\ IdleTab.nonce = 0
            BY DEF IdleTab, Panel, Pcs
        <3>2. PICK q \in Panel : q = IdleTab
            BY <3>1
        <3>3. TabInv(t, q)'
            BY <2>2, <2>3, <3>1, <3>2 DEF TabInv, PopupInv, SignUpInv, AnswerInv
        <3> QED
            BY <3>1, <3>2, <3>3
    <2>10. FlowMoves(t)
        BY <2>1, <2>5, <2>6 DEF FlowMoves
    <2>11. \A s \in Tabs \ {t} : panel[s].pc = "pod" => account'[panel[s].email] = NoPod
        BY <2>2, AtTab DEF SignUpInv
    <2> QED
        BY <2>1, <2>2, <2>7, <2>8, <2>9, <2>10, <2>11, TabsMove
<1> QED
    BY <1>1, <1>2

LEMMA SignOutHolds ==
    ASSUME AccInv, SignOut
    PROVE  AccInv'
<1>1. /\ UNCHANGED <<account, users, proven, issued, panel, popups, tries, mishaps>>
      /\ jar' = [NoCookie EXCEPT !.flow = jar.flow] /\ jar \in Jar /\ issued \in Nat
    BY DEF SignOut, server, accountUsed, AccInv, JarInv, ServerTypes
<1>2. /\ jar' \in Jar /\ jar'.flow = jar.flow /\ jar'.nonce = 0 /\ jar'.csrf = 0
      /\ jar'.webId = NoHandle
    BY <1>1 DEF Jar, NoCookie
<1>3. JarInv'
    BY <1>1, <1>2 DEF JarInv
<1>4. ServerTypes' /\ PodsAreUnique' /\ RowsAreTrue' /\ OneAtPod'
    BY <1>1 DEF AccInv, ServerTypes, PodsAreUnique, RowsAreTrue, OneAtPod
<1>5. ASSUME NEW t \in Tabs PROVE TabInv(t, panel[t])'
    BY <1>1, <1>2 DEF AccInv, TabInv, PopupInv, SignUpInv, AnswerInv
<1> QED
    BY <1>1, <1>3, <1>4, <1>5 DEF AccInv

LEMMA AccInitHolds == AccountsInit => AccInv
<1> SUFFICES ASSUME AccountsInit PROVE AccInv
    OBVIOUS
<1>1. IdleTab \in Panel /\ IdleTab.pc = "idle" /\ IdleTab.nonce = 0
    BY DEF IdleTab, Panel, Pcs
<1>2. NoCookie \in Jar /\ NoCookie.webId = NoHandle /\ NoCookie.nonce = 0 /\ NoCookie.csrf = 0
    BY DEF NoCookie, Jar
<1>3. ServerTypes /\ PodsAreUnique /\ RowsAreTrue
    BY AccBounds, NamesAssumption DEF AccountsInit, ServerTypes, PodsAreUnique, RowsAreTrue
<1>4. JarInv
    BY <1>2 DEF AccountsInit, JarInv
<1>5. panel \in [Tabs -> Panel] /\ \A t \in Tabs : panel[t] = IdleTab
    BY <1>1 DEF AccountsInit
<1>6. OneAtPod
    BY <1>1, <1>5 DEF OneAtPod
<1>7. ASSUME NEW t \in Tabs PROVE TabInv(t, panel[t])
    BY <1>1, <1>5 DEF TabInv, PopupInv, SignUpInv, AnswerInv, AccountsInit
<1> QED
    BY <1>3, <1>4, <1>5, <1>6, <1>7 DEF AccInv

LEMMA AccNextHolds == AccInv /\ [AccountsNext]_accountVars => AccInv'
<1> SUFFICES ASSUME AccInv, [AccountsNext]_accountVars PROVE AccInv'
    OBVIOUS
<1>1. CASE UNCHANGED accountVars
    BY <1>1 DEF accountVars, server, accountUsed, AccInv, ServerTypes, PodsAreUnique, RowsAreTrue,
                JarInv, OneAtPod, TabInv, PopupInv, SignUpInv, AnswerInv
<1>2. CASE SignOut
    BY <1>2, SignOutHolds
<1>3. ASSUME NEW t \in Tabs,
             SignUp(t) \/ Blank(t) \/ AttachPassword(t) \/ CreatePod(t) \/ InsertUser(t)
             \/ SignIn(t) \/ StartLogin(t) \/ Walk(t)
      PROVE  AccInv'
    BY <1>3, FormsHold, StepsHold, AttachPasswordHolds, CreatePodHolds, InsertUserHolds, WalkHolds
<1>4. ASSUME NEW t \in Tabs,
             Complete(t) \/ StartPopup(t) \/ Authorize(t) \/ Callback(t) \/ Answer(t)
      PROVE  AccInv'
    BY <1>4, SessionsHold, StartPopupHolds, AuthorizeHolds, AnswerHolds
<1> QED
    BY <1>1, <1>2, <1>3, <1>4 DEF AccountsNext

LEMMA AccTyped == AccInv => AccountsTypeOK
<1> SUFFICES ASSUME AccInv PROVE AccountsTypeOK
    OBVIOUS
<1>1. issued \in Nat /\ jar \in Jar /\ jar.nonce <= issued /\ jar.csrf = jar.nonce
      /\ panel \in [Tabs -> Panel] /\ \A t \in Tabs : panel[t].nonce <= issued
    BY DEF AccInv, ServerTypes, JarInv, TabInv, AnswerInv
<1>2. \A n \in Nat : n <= issued => n \in 0 .. issued
    BY <1>1
<1>3. jar \in [webId : WebIds \cup {NoHandle}, nonce : 0 .. issued, csrf : 0 .. issued,
               flow : Tabs \cup {NoTab}]
    BY <1>1, <1>2 DEF Jar
<1>4. panel \in [Tabs -> [pc : Pcs, email : Emails \cup {NoHandle},
                          handle : WebIds \cup {NoHandle}, right : BOOLEAN, nonce : 0 .. issued]]
    BY <1>1, <1>2 DEF Panel
<1> QED
    BY <1>3, <1>4 DEF AccInv, ServerTypes, AccountsTypeOK, Pcs

LEMMA AccKept == AccInv => AccountsDoNotMix
<1> SUFFICES ASSUME AccInv PROVE AccountsDoNotMix
    OBVIOUS
<1>1. SessionIsProven
    BY DEF AccInv, JarInv, SessionIsProven, SignedIn
<1>2. RowsHavePods
    <2>1. ASSUME NEW u \in users, NEW v \in users, v.slug = u.slug PROVE v = u
        <3>1. u \in Row /\ v \in Row /\ account[u.email] = u.slug /\ account[v.email] = v.slug
            BY DEF AccInv, ServerTypes, RowsAreTrue
        <3>2. u.email = v.email
            BY <2>1, <3>1 DEF AccInv, PodsAreUnique, Row
        <3> QED
            BY <2>1, <3>1, <3>2 DEF Row
    <2> QED
        BY <2>1 DEF AccInv, RowsAreTrue, RowsHavePods
<1>3. OnlyPopupsOvertake
    BY DEF AccInv, TabInv, PopupInv, OnlyPopupsOvertake
<1> QED
    BY <1>1, <1>2, <1>3 DEF AccountsDoNotMix

(* Whatever the tabs of a browser send, and in whatever order the answers   *)
(* come, accounts, rows, cookies and tabs stay typed.                       *)
THEOREM AccountsTypes == AccountsSpec => []AccountsTypeOK
BY AccInitHolds, AccNextHolds, AccTyped, PTL DEF AccountsSpec

(* Sign-ups and sign-ins at once do not mix: a session is of a WebID that   *)
(* was proven and has the nonce of its twin, a row of users has its pod and *)
(* no other row the same handle, and a popup fails only when another popup  *)
(* was opened.                                                              *)
THEOREM AccountsStayApart == AccountsSpec => []AccountsDoNotMix
BY AccInitHolds, AccNextHolds, AccKept, PTL DEF AccountsSpec

-----------------------------------------------------------------------------
(* AgentLog.  Every line before the place that the card, or a poll, reads   *)
(* on from is shown already; a poll that goes on alone reads on from the    *)
(* end of what is shown; and a verdict that a poll was told is the verdict. *)
Poll == [pc : {"none", "asked", "stat", "read", "row", "done"}, since : 0 .. MaxLines,
         upto : 0 .. MaxLines, status : Verdicts]

LogTypes ==
    /\ file \in -1 .. MaxLines /\ since \in 0 .. MaxLines
    /\ ended \in Verdicts /\ card \in Verdicts
    /\ poll \in [Polls -> Poll] /\ overlapped \in BOOLEAN

LogSize == IF file < 0 THEN 0 ELSE file

Shown(k)    == \A l \in 1 .. k : \E i \in DOMAIN shown : shown[i] = l
NoGap       == \A i \in DOMAIN shown : shown[i] > 1 =>
                   \E j \in 1 .. i - 1 : shown[j] = shown[i] - 1
ReadSoFar   == since <= LogSize /\ Shown(since)
PollInv(q) ==
    /\ q.since <= LogSize /\ Shown(q.since)
    /\ q.pc \in {"none", "asked"} => q.status = "running"
    /\ q.pc = "read" => q.since <= q.upto /\ q.upto <= LogSize
    /\ q.status # "running" => ended # "running"
    /\ q.pc = "row" => ended # "running"
    /\ q.pc = "read" /\ q.status # "running" => q.upto = LogSize
    /\ q.pc \notin {"none", "done"} /\ ~overlapped => (q.pc = "row" \/ q.since = since)
Alone == ~overlapped => /\ shown = [i \in 1 .. since |-> i]
                        /\ \A p, q \in UnderWay : p = q

LogInv ==
    /\ LogTypes /\ shown \in Seq(1 .. MaxLines)
    /\ NoGap /\ ReadSoFar /\ Alone /\ (card # "running" => card = ended)
    /\ \A p \in Polls : PollInv(poll[p])

LEMMA LogSizes ==
    ASSUME LogInv
    PROVE  /\ MaxLines \in Nat /\ LogSize \in 0 .. MaxLines /\ since \in 0 .. MaxLines
           /\ file \in -1 .. MaxLines
           /\ \A p \in Polls : poll[p] \in Poll /\ PollInv(poll[p])
           /\ poll \in [Polls -> Poll] /\ shown \in Seq(1 .. MaxLines)
<1>1. MaxLines \in Nat /\ file \in -1 .. MaxLines
    BY LogBoundAssumption DEF LogInv, LogTypes
<1>2. LogSize \in 0 .. MaxLines
    BY <1>1 DEF LogSize
<1> QED
    BY <1>1, <1>2 DEF LogInv, LogTypes

(* The run: a line, or its verdict. *)
LEMMA RunHolds ==
    ASSUME LogInv, Log \/ FinishRun
    PROVE  LogInv'
<1>1. /\ UNCHANGED <<card, since, shown, poll, overlapped>>
      /\ ended = "running" /\ ended' \in Verdicts /\ file' \in -1 .. MaxLines
      /\ LogSize <= LogSize' /\ LogSize' \in Nat /\ card = "running"
    <2>1. CASE Log
        BY <2>1, LogSizes DEF Log, LogInv, LogTypes, LogSize
    <2>2. CASE FinishRun
        BY <2>2, LogSizes DEF FinishRun, LogInv, LogTypes, LogSize, Verdicts
    <2> QED
        BY <2>1, <2>2
<1>2. LogTypes' /\ shown' \in Seq(1 .. MaxLines) /\ NoGap' /\ Alone' /\ ReadSoFar'
      /\ card' = "running"
    BY <1>1, LogSizes DEF LogInv, LogTypes, NoGap, Alone, UnderWay, ReadSoFar, Shown
<1>3. ASSUME NEW p \in Polls PROVE PollInv(poll[p])'
    <2>1. PICK q \in Poll : q = poll[p]
        BY LogSizes
    <2>2. PollInv(q) /\ q.since \in Nat /\ q.upto \in Nat
        BY <2>1, LogSizes DEF Poll
    <2>3. PollInv(q)'
        BY <1>1, <2>2, LogSizes DEF PollInv, Shown
    <2> QED
        BY <1>1, <2>1, <2>3
<1> QED
    BY <1>2, <1>3 DEF LogInv

(* Every step of the card changes one poll. *)
LEMMA PollsMove ==
    ASSUME LogInv, NEW p \in Polls, NEW q \in Poll, poll' = [poll EXCEPT ![p] = q],
           UNCHANGED <<file, ended>>, card' \in Verdicts, card' # "running" => card' = ended,
           PollInv(q)', overlapped' \in BOOLEAN, overlapped => overlapped',
           \/ UNCHANGED <<since, shown>>
           \/ /\ poll[p].pc \notin {"none", "done"} /\ since' \in 0 .. LogSize
              /\ shown' \in Seq(1 .. MaxLines) /\ NoGap' /\ Shown(since)'
              /\ \A k \in Nat : Shown(k) => Shown(k)'
              /\ ~overlapped => shown' = [i \in 1 .. since' |-> i],
           \/ poll[p].pc \notin {"none", "done"}
           \/ overlapped' \/ UnderWay = {}
    PROVE  LogInv'
<1>1. poll' \in [Polls -> Poll] /\ poll'[p] = q /\ \A s \in Polls \ {p} : poll'[s] = poll[s]
    BY LogSizes
<1>2. LogSize' = LogSize
    BY DEF LogSize
<1>3. LogTypes' /\ shown' \in Seq(1 .. MaxLines) /\ NoGap' /\ ReadSoFar'
    <2>1. CASE UNCHANGED <<since, shown>>
        BY <1>1, <1>2, <2>1, LogSizes DEF LogInv, LogTypes, NoGap, ReadSoFar, Shown
    <2>2. CASE since' \in 0 .. LogSize /\ shown' \in Seq(1 .. MaxLines) /\ NoGap'
               /\ Shown(since)'
        <3>1. since' \in 0 .. MaxLines /\ since' <= LogSize'
            BY <1>2, <2>2, LogSizes
        <3> QED
            BY <1>1, <2>2, <3>1 DEF LogInv, LogTypes, ReadSoFar
    <2> QED
        BY <2>1, <2>2
<1>4. Alone'
    <2>1. ASSUME ~overlapped' PROVE \A s \in Polls \ {p} : s \notin UnderWay
        BY <2>1 DEF LogInv, Alone, UnderWay
    <2>2. ~overlapped' => \A r, s \in UnderWay' : r = s
        BY <1>1, <2>1 DEF UnderWay
    <2>3. ~overlapped' => shown' = [i \in 1 .. since' |-> i]
        BY DEF LogInv, Alone
    <2> QED
        BY <2>2, <2>3 DEF Alone
<1>5. ASSUME NEW s \in Polls PROVE PollInv(poll[s])'
    <2>1. CASE s = p
        BY <1>1, <2>1
    <2>2. CASE s # p
        <3>1. PICK r \in Poll : r = poll[s] /\ r = poll'[s]
            BY <1>1, <2>2, LogSizes
        <3>2. PollInv(r) /\ r.since \in Nat
            <4>1. PollInv(poll[s])
                BY LogSizes
            <4>2. r.since \in Nat
                BY DEF Poll
            <4> QED
                BY <3>1, <4>1, <4>2
        <3>3. Shown(r.since)'
            BY <3>2 DEF PollInv, Shown
        <3>4. r.pc \notin {"none", "done"} /\ ~overlapped' => r.since = since' \/ r.pc = "row"
            BY <2>2, <3>1, <3>2 DEF LogInv, Alone, UnderWay, PollInv
        <3>5. PollInv(r)'
            BY <1>2, <3>2, <3>3, <3>4 DEF PollInv
        <3> QED
            BY <3>1, <3>5
    <2> QED
        BY <2>1, <2>2
<1> QED
    BY <1>3, <1>4, <1>5 DEF LogInv

LEMMA DonePoll ==
    ASSUME LogInv
    PROVE  LET done == [Unpolled EXCEPT !.pc = "done"]
               row  == [Unpolled EXCEPT !.pc = "row"]
           IN  /\ done \in Poll /\ done.pc = "done" /\ done.since = 0 /\ done.status = "running"
               /\ row \in Poll /\ row.pc = "row" /\ row.since = 0 /\ row.status = "running"
BY LogSizes DEF Unpolled, Poll, Verdicts

LEMMA TickHolds ==
    ASSUME LogInv, NEW p \in Polls, Tick(p)
    PROVE  LogInv'
<1> DEFINE q == [poll[p] EXCEPT !.pc = "asked", !.since = since]
<1>1. poll[p] \in Poll /\ PollInv(poll[p]) /\ poll[p].pc = "none" /\ since \in 0 .. MaxLines
    BY LogSizes DEF Tick
<1>2. poll' = [poll EXCEPT ![p] = q]
    BY <1>1, LogSizes DEF Tick
<1>3. /\ q \in Poll /\ q.pc = "asked" /\ q.since = since /\ q.status = poll[p].status
    BY <1>1 DEF Poll
<1> HIDE DEF q
<1>4. PICK r \in Poll : r = q
    BY <1>3
<1>5. UNCHANGED <<file, ended, card, since, shown>>
    BY DEF Tick
<1>6. PollInv(r)'
    BY <1>1, <1>3, <1>4, <1>5 DEF PollInv, LogInv, ReadSoFar, Shown, LogSize
<1>7. /\ overlapped' \in BOOLEAN /\ (overlapped => overlapped')
      /\ overlapped' \/ UnderWay = {}
    BY DEF Tick, LogInv, LogTypes
<1>8. card' \in Verdicts /\ (card' # "running" => card' = ended)
    BY <1>5 DEF LogInv, LogTypes
<1> QED
    BY <1>2, <1>4, <1>5, <1>6, <1>7, <1>8, PollsMove

LEMMA AskedHolds ==
    ASSUME LogInv, NEW p \in Polls, ReadRow(p) \/ Stat(p)
    PROVE  LogInv'
<1>0. poll[p] \in Poll /\ PollInv(poll[p]) /\ poll \in [Polls -> Poll] /\ ended \in Verdicts
      /\ LogSize \in 0 .. MaxLines
    BY LogSizes DEF LogInv, LogTypes
<1>1. UNCHANGED <<file, ended, card, since, shown, overlapped>>
      /\ poll[p].pc \notin {"none", "done"}
    BY DEF ReadRow, Stat
<1>2. ASSUME NEW q, poll' = [poll EXCEPT ![p] = q], q \in Poll, q.since = poll[p].since,
             \/ /\ q.pc = "stat" /\ (q.status # "running" => ended # "running")
             \/ /\ q.pc = "read" /\ q.status = poll[p].status /\ q.upto = LogSize
      PROVE  LogInv'
    <2>1. PollInv(q)'
        <3>1. q.since \in Nat /\ q.upto \in Nat /\ poll[p].pc # "row"
            BY <1>2 DEF Poll, ReadRow, Stat
        <3> QED
            BY <1>0, <1>1, <1>2, <3>1 DEF PollInv, Shown, LogSize
    <2>2. card' \in Verdicts /\ (card' # "running" => card' = ended)
          /\ overlapped' \in BOOLEAN /\ (overlapped => overlapped')
        BY <1>1 DEF LogInv, LogTypes
    <2> QED
        BY <1>1, <1>2, <2>1, <2>2, PollsMove
<1>3. CASE ReadRow(p)
    <2> DEFINE q == [poll[p] EXCEPT !.pc = "stat", !.status = ended]
    <2>1. poll' = [poll EXCEPT ![p] = q]
        BY <1>0, <1>3 DEF ReadRow
    <2>2. q \in Poll /\ q.pc = "stat" /\ q.status = ended /\ q.since = poll[p].since
        BY <1>0 DEF Poll
    <2> HIDE DEF q
    <2> QED
        BY <1>2, <2>1, <2>2
<1>4. CASE Stat(p)
    <2> DEFINE q == [poll[p] EXCEPT !.pc = "read", !.upto = LogSize]
    <2>1. poll' = [poll EXCEPT ![p] = q]
        BY <1>0, <1>4 DEF Stat, LogSize
    <2>2. q \in Poll /\ q.pc = "read" /\ q.upto = LogSize /\ q.since = poll[p].since
          /\ q.status = poll[p].status
        BY <1>0 DEF Poll
    <2> HIDE DEF q
    <2> QED
        BY <1>2, <2>1, <2>2
<1> QED
    BY <1>3, <1>4

(* A poll that ends without a tail. *)
LEMMA PollEndsHolds ==
    ASSUME LogInv, NEW p \in Polls, ShowVerdict(p) \/ PollLost(p)
    PROVE  LogInv'
<1> DEFINE q == [Unpolled EXCEPT !.pc = "done"]
<1>1. q \in Poll /\ q.pc = "done" /\ q.since = 0 /\ q.status = "running"
    BY DonePoll
<1>2. /\ poll' = [poll EXCEPT ![p] = q] /\ poll[p].pc \notin {"none", "done"}
      /\ UNCHANGED <<file, ended, since, shown, overlapped>>
    BY DEF ShowVerdict, PollLost
<1> HIDE DEF q
<1>3. PICK r \in Poll : r = q
    BY <1>1
<1>4. PollInv(r)'
    BY <1>1, <1>2, <1>3, LogSizes DEF PollInv, Shown, LogSize
<1>5. /\ card' \in Verdicts /\ (card' # "running" => card' = ended)
      /\ overlapped' \in BOOLEAN /\ (overlapped => overlapped')
    BY <1>2 DEF ShowVerdict, PollLost, LogInv, LogTypes
<1> QED
    BY <1>2, <1>3, <1>4, <1>5, PollsMove

LEMMA FunctionsAreSeqs ==
    ASSUME NEW S, NEW m \in Nat, NEW f \in [1 .. m -> S]
    PROVE  f \in Seq(S) /\ Len(f) = m
OBVIOUS

(* The tail: it goes on from what was shown when its poll began. *)
LEMMA TailIs ==
    ASSUME LogInv, NEW p \in Polls, Shows(p)
    PROVE  LET a == poll[p].since
               b == poll[p].upto
           IN  /\ a \in Nat /\ b \in Nat /\ a <= b /\ b <= LogSize /\ Shown(a)
               /\ TailOf(p) \in Seq(1 .. MaxLines) /\ Len(TailOf(p)) = b - a
               /\ \A i \in 1 .. b - a : TailOf(p)[i] = a + i
<1> DEFINE a == poll[p].since
           b == poll[p].upto
<1>1. /\ a \in Nat /\ b \in Nat /\ a <= b /\ b <= LogSize /\ Shown(a) /\ b <= MaxLines
      /\ LogSize \in Nat /\ MaxLines \in Nat
    BY LogSizes DEF Shows, PollInv, Poll
<1> HIDE DEF a, b
<1>2. TailOf(p) = [i \in 1 .. b - a |-> a + i]
    BY DEF TailOf, a, b
<1> DEFINE m == b - a
<1>3. m \in Nat /\ \A i \in 1 .. m : a + i \in 1 .. MaxLines
    BY <1>1
<1> HIDE DEF m
<1>4. TailOf(p) \in [1 .. m -> 1 .. MaxLines] /\ \A i \in 1 .. m : TailOf(p)[i] = a + i
    BY <1>2, <1>3 DEF m
<1>5. TailOf(p) \in Seq(1 .. MaxLines) /\ Len(TailOf(p)) = m
    BY <1>3, <1>4, FunctionsAreSeqs
<1> QED
    BY <1>1, <1>4, <1>5 DEF a, b, m

LEMMA AppendTail ==
    ASSUME NEW S, NEW s \in Seq(S), NEW t \in Seq(S)
    PROVE  /\ s \o t \in Seq(S)
           /\ Len(s \o t) = Len(s) + Len(t) /\ Len(s) \in Nat /\ Len(t) \in Nat
           /\ DOMAIN (s \o t) = 1 .. Len(s) + Len(t) /\ DOMAIN s = 1 .. Len(s)
           /\ \A i \in 1 .. Len(s) : (s \o t)[i] = s[i]
           /\ \A i \in 1 .. Len(t) : (s \o t)[Len(s) + i] = t[i]
           /\ \A i \in 1 .. Len(s) + Len(t) : i > Len(s) => (s \o t)[i] = t[i - Len(s)]
OBVIOUS

LEMMA ShowsHolds ==
    ASSUME LogInv, NEW p \in Polls, Shows(p)
    PROVE  LogInv'
<1> DEFINE a == poll[p].since
           b == poll[p].upto
           n == Len(shown)
<1>1. /\ a \in Nat /\ b \in Nat /\ a <= b /\ b <= LogSize /\ Shown(a)
      /\ TailOf(p) \in Seq(1 .. MaxLines) /\ Len(TailOf(p)) = b - a
      /\ \A i \in 1 .. b - a : TailOf(p)[i] = a + i
    BY TailIs
<1>2. /\ shown' = shown \o TailOf(p) /\ since' = b /\ card = "running"
      /\ UNCHANGED <<file, ended, card, overlapped>> /\ poll[p].pc \notin {"none", "done"}
      /\ shown \in Seq(1 .. MaxLines) /\ LogSize \in Nat
    BY LogSizes DEF Shows
<1>3. /\ shown' \in Seq(1 .. MaxLines) /\ n \in Nat /\ DOMAIN shown = 1 .. n
      /\ DOMAIN shown' = 1 .. n + (b - a) /\ Len(shown') = n + (b - a)
      /\ \A i \in 1 .. n : shown'[i] = shown[i]
      /\ \A i \in 1 .. b - a : shown'[n + i] = a + i
      /\ \A i \in 1 .. n + (b - a) : i > n => shown'[i] = a + (i - n)
    <2> DEFINE t == TailOf(p)
    <2> HIDE DEF t, a, b, n
    <2>1. t \in Seq(1 .. MaxLines) /\ Len(t) = b - a /\ \A i \in 1 .. b - a : t[i] = a + i
        BY <1>1 DEF t
    <2>2. shown' = shown \o t /\ n = Len(shown)
        BY <1>2 DEF t, n
    <2>3. /\ shown \o t \in Seq(1 .. MaxLines)
          /\ Len(shown \o t) = Len(shown) + Len(t) /\ Len(shown) \in Nat
          /\ DOMAIN (shown \o t) = 1 .. Len(shown) + Len(t) /\ DOMAIN shown = 1 .. Len(shown)
          /\ \A i \in 1 .. Len(shown) : (shown \o t)[i] = shown[i]
          /\ \A i \in 1 .. Len(t) : (shown \o t)[Len(shown) + i] = t[i]
          /\ \A i \in 1 .. Len(shown) + Len(t) : i > Len(shown) =>
                 (shown \o t)[i] = t[i - Len(shown)]
        <3> DEFINE S == 1 .. MaxLines
        <3>1. shown \in Seq(S) /\ t \in Seq(S)
            BY <1>2, <2>1
        <3> HIDE DEF S
        <3> QED
            BY <3>1, AppendTail DEF S
    <2>4. \A i \in 1 .. n + (b - a) : i > n => i - n \in 1 .. b - a
        BY <1>1, <2>2, <2>3
    <2> QED
        BY <2>1, <2>2, <2>3, <2>4
<1>4. a = since \/ overlapped
    BY <1>2, LogSizes DEF PollInv, Shows
<1> HIDE DEF a, b, n
<1>5. ASSUME NEW k \in Nat, Shown(k) PROVE Shown(k)'
    <2> SUFFICES ASSUME NEW l \in 1 .. k PROVE \E i \in DOMAIN shown' : shown'[i] = l
        BY DEF Shown
    <2>1. PICK i \in DOMAIN shown : shown[i] = l
        BY <1>5 DEF Shown
    <2>2. i \in 1 .. n + (b - a)
        BY <1>1, <1>3, <2>1
    <2> QED
        BY <1>3, <2>1, <2>2
<1>6. Shown(since)'
    <2>1. ASSUME NEW l \in 1 .. b PROVE \E i \in DOMAIN shown' : shown'[i] = l
        <3>1. CASE l <= a
            <4>1. PICK k \in Nat : k = a
                BY <1>1
            <4>2. Shown(k)' /\ l \in 1 .. k
                BY <1>1, <1>5, <3>1, <4>1
            <4> QED
                BY <4>2 DEF Shown
        <3>2. CASE l > a
            <4>1. l - a \in 1 .. b - a /\ shown'[n + (l - a)] = l /\ n + (l - a) \in DOMAIN shown'
                BY <1>1, <1>3, <3>2
            <4> QED
                BY <4>1
        <3> QED
            BY <1>1, <3>1, <3>2
    <2> QED
        BY <1>2, <2>1 DEF Shown
<1>7. NoGap'
    <2> SUFFICES ASSUME NEW i \in DOMAIN shown', shown'[i] > 1
                 PROVE  \E j \in 1 .. i - 1 : shown'[j] = shown'[i] - 1
        BY DEF NoGap
    <2>1. CASE i <= n
        <3>1. i \in DOMAIN shown /\ shown'[i] = shown[i] /\ i \in 1 .. n
            BY <1>1, <1>3, <2>1
        <3>2. PICK j \in 1 .. i - 1 : shown[j] = shown[i] - 1
            BY <2>1, <3>1 DEF LogInv, NoGap
        <3>3. j \in 1 .. n /\ shown'[j] = shown[j]
            BY <1>3, <3>1, <3>2
        <3> QED
            BY <3>1, <3>2, <3>3
    <2>2. CASE i = n + 1
        <3>1. shown'[i] = a + 1 /\ a >= 1
            BY <1>1, <1>3, <2>2
        <3>2. PICK j \in DOMAIN shown : shown[j] = a
            BY <1>1, <3>1 DEF Shown
        <3>3. j \in 1 .. i - 1 /\ shown'[j] = a
            BY <1>3, <2>2, <3>2
        <3> QED
            BY <1>1, <3>1, <3>3
    <2>3. CASE i > n + 1
        <3>1. shown'[i] = a + (i - n) /\ i - 1 \in 1 .. n + (b - a) /\ i - 1 > n
            BY <1>1, <1>3, <2>3
        <3>2. shown'[i - 1] = a + ((i - 1) - n)
            BY <1>3, <3>1
        <3>3. i - 1 \in 1 .. i - 1 /\ shown'[i - 1] = shown'[i] - 1
            BY <1>1, <1>3, <3>1, <3>2
        <3> QED
            BY <3>3
    <2> QED
        BY <1>1, <1>3, <2>1, <2>2, <2>3
<1>8. ~overlapped => shown' = [i \in 1 .. since' |-> i]
    <2> SUFFICES ASSUME ~overlapped PROVE shown' = [i \in 1 .. b |-> i]
        BY <1>2
    <2>1. shown = [i \in 1 .. since |-> i] /\ a = since
        BY <1>4 DEF LogInv, Alone
    <2>2. n = a
        BY <1>1, <1>3, <2>1 DEF n
    <2>3. DOMAIN shown' = 1 .. b
        BY <1>1, <1>3, <2>2
    <2>4. ASSUME NEW i \in 1 .. b PROVE shown'[i] = i
        <3>1. CASE i <= n
            <4>1. i \in 1 .. n /\ shown[i] = i
                BY <1>3, <2>1, <2>2, <3>1
            <4> QED
                BY <1>3, <4>1
        <3>2. CASE i > n
            BY <1>1, <1>3, <2>2, <3>2
        <3> QED
            BY <1>3, <3>1, <3>2
    <2>5. shown' = [i \in DOMAIN shown' |-> shown'[i]]
        BY <1>3
    <2> QED
        BY <2>3, <2>4, <2>5
<1> DEFINE q == [Unpolled EXCEPT !.pc = IF poll[p].status = "running" THEN "done" ELSE "row"]
<1>9. /\ poll' = [poll EXCEPT ![p] = q] /\ q \in Poll /\ q.pc \in {"done", "row"} /\ q.since = 0
      /\ q.status = "running" /\ (q.pc = "row" => poll[p].status # "running")
    BY DonePoll DEF Shows
<1> HIDE DEF q
<1>10. PICK r \in Poll : r = q
    BY <1>9
<1>11. PollInv(r)'
    <2>1. Shown(0)'
        BY DEF Shown
    <2>2. PollInv(poll[p])
        BY LogSizes
    <2>3. LogSize' \in Nat
        BY <1>2 DEF LogSize
    <2> QED
        BY <1>2, <1>9, <1>10, <2>1, <2>2, <2>3 DEF PollInv
<1>12. /\ card' \in Verdicts /\ (card' # "running" => card' = ended)
       /\ overlapped' \in BOOLEAN /\ (overlapped => overlapped')
    BY <1>2 DEF LogInv, LogTypes
<1>13. since' \in 0 .. LogSize
    BY <1>1, <1>2
<1> QED
    BY <1>2, <1>3, <1>5, <1>6, <1>7, <1>8, <1>9, <1>10, <1>11, <1>12, <1>13, PollsMove

LEMMA LogInitHolds == LogInit => LogInv
<1> SUFFICES ASSUME LogInit PROVE LogInv
    OBVIOUS
<1>1. MaxLines \in Nat /\ file = -1 /\ LogSize = 0 /\ since = 0 /\ shown = <<>>
    BY LogBoundAssumption DEF LogInit, LogSize
<1>2. /\ Unpolled \in Poll /\ Unpolled.pc = "none" /\ Unpolled.since = 0
      /\ Unpolled.status = "running"
    BY <1>1 DEF Unpolled, Poll, Verdicts
<1>3. LogTypes /\ shown \in Seq(1 .. MaxLines)
    <2>1. poll \in [Polls -> Poll] /\ overlapped \in BOOLEAN
        BY <1>2 DEF LogInit
    <2>2. -1 \in -1 .. MaxLines /\ 0 \in 0 .. MaxLines
        BY <1>1
    <2> QED
        BY <1>1, <2>1, <2>2 DEF LogInit, LogTypes, Verdicts
<1>4. NoGap /\ ReadSoFar
    BY <1>1 DEF NoGap, ReadSoFar, Shown
<1>5. Alone
    BY <1>1, <1>2 DEF LogInit, Alone, UnderWay
<1>6. ASSUME NEW p \in Polls PROVE PollInv(poll[p])
    BY <1>1, <1>2 DEF LogInit, PollInv, Shown
<1> QED
    BY <1>3, <1>4, <1>5, <1>6 DEF LogInv, LogInit

LEMMA LogNextHolds == LogInv /\ [LogNext]_logVars => LogInv'
<1> SUFFICES ASSUME LogInv, [LogNext]_logVars PROVE LogInv'
    OBVIOUS
<1>1. CASE UNCHANGED logVars
    BY <1>1 DEF logVars, LogInv, LogTypes, NoGap, ReadSoFar, Shown, Alone, UnderWay, PollInv, LogSize
<1>2. CASE Log \/ FinishRun
    BY <1>2, RunHolds
<1>3. ASSUME NEW p \in Polls,
             Tick(p) \/ ReadRow(p) \/ Stat(p) \/ Shows(p) \/ ShowVerdict(p) \/ PollLost(p)
      PROVE  LogInv'
    BY <1>3, TickHolds, AskedHolds, ShowsHolds, PollEndsHolds
<1> QED
    BY <1>1, <1>2, <1>3 DEF LogNext

LEMMA LogTyped == LogInv => LogTypeOK
BY DEF LogInv, LogTypes, Poll, LogTypeOK

LEMMA LogKept == LogInv => CardTellsTheLog
<1> SUFFICES ASSUME LogInv PROVE CardTellsTheLog
    OBVIOUS
<1>1. LogHasNoGap
    BY DEF LogInv, NoGap, Alone, LogHasNoGap
<1>2. VerdictComesLast
    BY DEF LogInv, PollInv, LogSize, VerdictComesLast
<1> QED
    BY <1>1, <1>2 DEF CardTellsTheLog

(* The card, its polls and the log stay typed, however the polls overlap    *)
(* and in whatever order they are answered.                                 *)
THEOREM LogTypesHold == LogSpec => []LogTypeOK
BY LogInitHolds, LogNextHolds, LogTyped, PTL DEF LogSpec

(* The card skips no line of the log, shows each once while its polls do    *)
(* not overlap, and has the verdict of the run after all of its lines.      *)
THEOREM CardIsTrue == LogSpec => []CardTellsTheLog
BY LogInitHolds, LogNextHolds, LogKept, PTL DEF LogSpec

-----------------------------------------------------------------------------
(* Browse.  Commits are never taken away, so what git says of a hash stays  *)
(* true; a page at a commit asks by the hash, and what it saw is of that    *)
(* commit.                                                                  *)
CommitsInv ==
    /\ Len(first) = Len(tree) /\ Len(tree) <= MaxPushes + 1
    /\ first \in Seq(Nat) /\ tree \in Seq(SUBSET Files)
    /\ \A c \in DOMAIN tree : first[c] < c
    /\ heads \in [RefNames -> 0 .. Len(tree)] /\ request \in 0 .. Len(tree)
    /\ Len(tree) = MaxPushes + 1 => request # 0

View == [kind : {"none", "repo", "tree", "blob", "pull"}, asked : Nat, ref : Seq(Asks),
         pc : Parts \cup {"idle", "parts", "done"}, try : DOMAIN Candidates,
         todo : SUBSET Parts, saw : SUBSET (Parts \X Seq(Nat)),
         answer : {"none", "ok", "empty", "not found", "error"}]

All  == {"stat", "numstat", "names", "ahead", "patch"}

Always(i) == \A c \in DOMAIN tree : Candidates[i] \in tree[c]

(* A repository page. *)
RepoInv(v) ==
    /\ v.asked = 0 /\ v.ref = <<Branch("main")>>
    /\ v.pc \in {"any", "size", "type", "bytes", "branches", "log", "tree", "done"}
    /\ v.pc \notin {"any", "done"} => heads["main"] # 0
    /\ \A i \in DOMAIN Candidates : Always(i) => v.try <= i
    /\ \A i \in DOMAIN Candidates :
          Always(i) /\ (v.pc \in {"branches", "log", "tree"} \/ v.answer = "ok") =>
             \E s \in v.saw : s[1] = "bytes"
    /\ v.answer = "ok" => v.pc = "done"
(* A page of a directory or a file. *)
PinnedInv(v) ==
    /\ v.pc \in {"branches", "any", "tree", "size", "type", "bytes", "done"}
    /\ Len(v.ref) = 1
    /\ v.asked # 0 => /\ v.ref = <<Sha(v.asked)>> /\ v.answer # "error"
                      /\ \A s \in v.saw : s[2] = <<v.asked>>
    /\ v.asked # 0 /\ v.pc \in {"type", "bytes"} => Candidates[v.try] \in tree[v.asked]
    /\ v.kind = "tree" => v.pc \notin {"size", "type", "bytes"}
    /\ v.kind = "blob" => v.pc \notin {"any", "tree"}
(* The page of the pull request. *)
PullInv(v) ==
    /\ v.pc \in {"parts", "done"} /\ Len(v.ref) = 2 /\ v.todo \subseteq All
    /\ v.pc = "done" => v.todo = {}
    /\ v.answer # "error"
    /\ v.asked # 0 =>
          /\ v.ref = <<Sha(first[v.asked]), Sha(v.asked)>>
          /\ \A s \in v.saw : s[2] = <<first[v.asked], v.asked>>
          /\ {s[1] : s \in v.saw} = IF first[v.asked] = 0 THEN {} ELSE All \ v.todo

ViewInv(v) ==
    /\ v \in View /\ v.asked \in 0 .. Len(tree) /\ Len(v.ref) <= 2
    /\ \A s \in v.saw : \A i \in DOMAIN s[2] : s[2][i] <= Len(tree)
    /\ \A i \in DOMAIN v.ref : v.ref[i][1] = "commit" => v.ref[i][2] <= Len(tree)
    /\ v.kind = "none" <=> v.pc = "idle"
    /\ v.kind = "none" => v = NoPage
    /\ v.kind = "repo" => RepoInv(v)
    /\ v.kind \in {"tree", "blob"} => PinnedInv(v)
    /\ v.kind = "pull" => PullInv(v)

BrowseInv == CommitsInv /\ ViewInv(view)

LEMMA BrowseBounds ==
    ASSUME BrowseInv
    PROVE  /\ MaxPushes \in Nat /\ Len(tree) \in 0 .. MaxPushes + 1
           /\ DOMAIN tree = 1 .. Len(tree) /\ DOMAIN first = 1 .. Len(tree)
           /\ \A c \in DOMAIN tree : tree[c] \in SUBSET Files /\ first[c] \in 0 .. c - 1
           /\ \A b \in RefNames : heads[b] \in 0 .. Len(tree)
           /\ view \in View /\ ViewInv(view)
           /\ Candidates # <<>> /\ Len(Candidates) \in Nat /\ Len(Candidates) > 0
           /\ DOMAIN Candidates = 1 .. Len(Candidates)
<1>1. MaxPushes \in Nat /\ Len(tree) \in 0 .. MaxPushes + 1
    BY PushesAssumption DEF BrowseInv, CommitsInv
<1>2. DOMAIN tree = 1 .. Len(tree) /\ DOMAIN first = 1 .. Len(tree)
    BY DEF BrowseInv, CommitsInv
<1>3. \A c \in DOMAIN tree : tree[c] \in SUBSET Files /\ first[c] \in 0 .. c - 1
    BY <1>2 DEF BrowseInv, CommitsInv
<1>4. Len(Candidates) \in Nat /\ Len(Candidates) > 0 /\ DOMAIN Candidates = 1 .. Len(Candidates)
    BY CandidatesAssumption
<1> QED
    BY <1>1, <1>2, <1>3, <1>4, CandidatesAssumption DEF BrowseInv, CommitsInv, ViewInv

LEMMA AskedIs ==
    /\ \A c \in 0 .. MaxPushes + 1 : Sha(c) \in Asks /\ Sha(c)[1] = "commit" /\ Sha(c)[2] = c
                                     /\ RevParse(Sha(c)) = c
    /\ \A b \in RefNames : /\ Branch(b) \in Asks /\ Branch(b)[1] = b /\ Branch(b)[2] = 0
                            /\ b # "commit" /\ RevParse(Branch(b)) = heads[b]
BY DEF Sha, Branch, Asks, RevParse, RefNames

LEMMA RevParses ==
    ASSUME BrowseInv, NEW i \in DOMAIN view.ref
    PROVE  /\ view.ref[i] \in Asks /\ RevParse(view.ref[i]) \in 0 .. Len(tree)
<1>0. view.ref \in Seq(Asks)
    BY BrowseBounds DEF View
<1>1. view.ref \in Seq(Asks) /\ view.ref[i] \in Asks
    BY <1>0
<1>2. CASE \E b \in RefNames : view.ref[i] = Branch(b)
    BY <1>1, <1>2, AskedIs, BrowseBounds
<1>3. CASE \E c \in 0 .. MaxPushes + 1 : view.ref[i] = Sha(c)
    <2>1. PICK c \in 0 .. MaxPushes + 1 : view.ref[i] = Sha(c)
        BY <1>3
    <2>2. c <= Len(tree)
        BY <2>1, AskedIs, BrowseBounds DEF ViewInv
    <2> QED
        BY <1>1, <2>1, <2>2, AskedIs, BrowseBounds
<1> QED
    BY <1>1, <1>2, <1>3 DEF Asks

(* What others do in the repository. *)
LEMMA CommitHolds ==
    ASSUME BrowseInv, NEW parent \in 0 .. Len(tree), NEW files \in SUBSET Files,
           Commit(parent, files)
    PROVE  /\ Len(tree') = Len(tree) + 1 /\ Len(first') = Len(tree')
           /\ first' \in Seq(Nat) /\ tree' \in Seq(SUBSET Files)
           /\ DOMAIN tree' = 1 .. Len(tree')
           /\ \A c \in DOMAIN tree : c \in DOMAIN tree' /\ tree'[c] = tree[c] /\ first'[c] = first[c]
           /\ \A c \in DOMAIN tree' : first'[c] < c
<1>1. first \in Seq(Nat) /\ tree \in Seq(SUBSET Files) /\ Len(first) = Len(tree)
      /\ \A c \in DOMAIN tree : first[c] < c
    BY DEF BrowseInv, CommitsInv
<1>2. first' = Append(first, parent) /\ tree' = Append(tree, files) /\ parent \in Nat
    BY BrowseBounds DEF Commit
<1>3. /\ first' \in Seq(Nat) /\ tree' \in Seq(SUBSET Files)
      /\ Len(tree') = Len(tree) + 1 /\ Len(first') = Len(tree')
    BY <1>1, <1>2
<1>4. /\ \A c \in DOMAIN tree : tree'[c] = tree[c] /\ first'[c] = first[c]
      /\ first'[Len(tree) + 1] = parent
    BY <1>1, <1>2, BrowseBounds
<1>5. /\ DOMAIN tree' = 1 .. Len(tree) + 1 /\ DOMAIN tree = 1 .. Len(tree) /\ Len(tree) \in Nat
    BY <1>3, BrowseBounds
<1>6. ASSUME NEW c \in DOMAIN tree' PROVE first'[c] < c
    <2>1. c \in DOMAIN tree \/ c = Len(tree) + 1
        BY <1>3, <1>5
    <2>2. parent < Len(tree) + 1
        BY <1>5
    <2> QED
        BY <1>1, <1>4, <2>1, <2>2
<1> QED
    BY <1>3, <1>4, <1>5, <1>6

(* What was there is there still. *)
GitGrew ==
    /\ CommitsInv' /\ UNCHANGED view /\ (heads["main"] # 0 => heads'["main"] # 0)
    /\ Len(tree) <= Len(tree')
    /\ \A c \in DOMAIN tree : c \in DOMAIN tree' /\ tree'[c] = tree[c] /\ first'[c] = first[c]

LEMMA OthersHold ==
    ASSUME BrowseInv, (\E b \in RefNames : Pushed(b)) \/ Deleted \/ MergeShas
    PROVE  BrowseInv'
<1>1. GitGrew
    <2>0. /\ heads \in [RefNames -> 0 .. Len(tree)] /\ request \in 0 .. Len(tree)
          /\ Len(tree) \in Nat /\ "main" \in RefNames /\ "topic" \in RefNames
        BY BrowseBounds DEF BrowseInv, CommitsInv, RefNames
    <2>1. ASSUME NEW b \in RefNames, Pushed(b) PROVE GitGrew
        <3>1. PICK parent \in 0 .. Len(tree), files \in SUBSET Files : Commit(parent, files)
            BY <2>1 DEF Pushed
        <3>2. /\ Len(tree) < MaxPushes /\ heads' = [heads EXCEPT ![b] = Len(tree')]
              /\ UNCHANGED <<request, view>>
            BY <2>1 DEF Pushed
        <3>3. Len(tree') = Len(tree) + 1 /\ Len(tree') \in Nat
            BY <2>0, <3>1, CommitHolds
        <3>4. heads' \in [RefNames -> 0 .. Len(tree')] /\ request' \in 0 .. Len(tree')
              /\ (heads["main"] # 0 => heads'["main"] # 0)
            BY <2>0, <3>2, <3>3
        <3>5. CommitsInv'
            BY <3>1, <3>2, <3>3, <3>4, CommitHolds, BrowseBounds DEF CommitsInv
        <3> QED
            BY <2>0, <3>1, <3>2, <3>3, <3>4, <3>5, CommitHolds DEF GitGrew
    <2>2. ASSUME UNCHANGED <<first, tree, view>>, request' \in 0 .. Len(tree),
                 request # 0 => request' # 0,
                 heads' \in [RefNames -> 0 .. Len(tree)], heads["main"] # 0 => heads'["main"] # 0
          PROVE  GitGrew
        BY <2>0, <2>2 DEF BrowseInv, CommitsInv, GitGrew
    <2>3. CASE Deleted
        <3>1. UNCHANGED <<first, tree, view, request>> /\ heads' = [heads EXCEPT !["topic"] = 0]
            BY <2>3 DEF Deleted
        <3>2. heads' \in [RefNames -> 0 .. Len(tree)] /\ heads'["main"] = heads["main"]
            BY <2>0, <3>1
        <3> QED
            BY <2>0, <2>2, <3>1, <3>2
    <2>4. CASE MergeShas
        <3>1. /\ request = 0 /\ heads["topic"] # 0 /\ UNCHANGED view
              /\ heads' = [heads EXCEPT !["main"] = request']
            BY <2>4 DEF MergeShas
        <3>2. ASSUME UNCHANGED <<first, tree>>, request' \in {heads["topic"], heads["main"]},
                     request' # 0
              PROVE  GitGrew
            <4>1. request' \in 0 .. Len(tree)
                BY <2>0, <3>2
            <4>2. heads' \in [RefNames -> 0 .. Len(tree)] /\ heads'["main"] = request'
                BY <2>0, <3>1, <4>1
            <4> QED
                BY <2>2, <3>1, <3>2, <4>1, <4>2
        <3>3. ASSUME heads["main"] # 0, request' = Len(tree'),
                     Commit(heads["main"], tree[heads["main"]] \cup tree[heads["topic"]])
              PROVE  GitGrew
            <4> DEFINE files == tree[heads["main"]] \cup tree[heads["topic"]]
            <4>1. files \in SUBSET Files /\ heads["main"] \in 0 .. Len(tree)
                <5>1. heads["main"] \in DOMAIN tree /\ heads["topic"] \in DOMAIN tree
                    BY <2>0, <3>1, <3>3, BrowseBounds
                <5> QED
                    BY <2>0, <5>1, BrowseBounds
            <4> HIDE DEF files
            <4>2. Commit(heads["main"], files)
                BY <3>3 DEF files
            <4>3. PICK parent \in 0 .. Len(tree), g \in SUBSET Files : Commit(parent, g)
                BY <4>1, <4>2
            <4>4. Len(tree') = Len(tree) + 1 /\ Len(tree') \in Nat
                BY <2>0, <4>3, CommitHolds
            <4>5. heads' \in [RefNames -> 0 .. Len(tree')] /\ request' \in 0 .. Len(tree')
                  /\ heads'["main"] # 0 /\ request' # 0
                BY <2>0, <3>1, <3>3, <4>4
            <4>6. Len(tree') <= MaxPushes + 1
                BY <3>1, <4>4, BrowseBounds DEF BrowseInv, CommitsInv
            <4>7. CommitsInv'
                BY <4>3, <4>4, <4>5, <4>6, CommitHolds DEF CommitsInv
            <4> QED
                BY <2>0, <3>1, <4>3, <4>4, <4>5, <4>7, CommitHolds DEF GitGrew
        <3> QED
            BY <2>4, <3>1, <3>2, <3>3 DEF MergeShas
    <2> QED
        BY <2>1, <2>3, <2>4
<1>2. PICK v \in View : v = view /\ v = view' /\ ViewInv(v)
    BY <1>1, BrowseBounds DEF GitGrew
<1>3. /\ Len(tree) \in Nat /\ Len(tree') \in Nat /\ v.asked \in 0 .. Len(tree)
      /\ v.asked # 0 => v.asked \in DOMAIN tree /\ v.asked \in DOMAIN tree'
      /\ v.asked \in 0 .. Len(tree')
    <2>1. Len(tree) \in Nat /\ Len(tree') \in Nat /\ v.asked \in 0 .. Len(tree)
        BY <1>1, <1>2, BrowseBounds DEF ViewInv, CommitsInv, GitGrew
    <2>2. v.asked # 0 => v.asked \in DOMAIN tree
        BY <2>1, BrowseBounds
    <2> QED
        BY <1>1, <2>1, <2>2 DEF GitGrew
<1>4. \A i \in DOMAIN Candidates : Always(i)' => Always(i)
    BY <1>1 DEF Always, GitGrew
<1>5. v.kind = "repo" => RepoInv(v)'
    BY <1>1, <1>2, <1>4 DEF ViewInv, RepoInv, GitGrew
<1>6. v.kind \in {"tree", "blob"} => PinnedInv(v)'
    BY <1>1, <1>2, <1>3 DEF ViewInv, PinnedInv, GitGrew
<1>7. v.kind = "pull" => PullInv(v)'
    BY <1>1, <1>2, <1>3 DEF ViewInv, PullInv, GitGrew
<1>8. /\ \A s \in v.saw : \A i \in DOMAIN s[2] : s[2][i] <= Len(tree')
      /\ \A i \in DOMAIN v.ref : v.ref[i][1] = "commit" => v.ref[i][2] <= Len(tree')
    <2>1. ASSUME NEW s \in v.saw, NEW i \in DOMAIN s[2] PROVE s[2][i] <= Len(tree')
        <3>1. s[2][i] \in Nat /\ s[2][i] <= Len(tree)
            <4>1. v.saw \in SUBSET (Parts \X Seq(Nat))
                BY DEF View
            <4>2. s[2] \in Seq(Nat)
                BY <4>1
            <4>3. s[2][i] \in Nat
                BY <4>2
            <4> QED
                BY <1>2, <4>3 DEF ViewInv
        <3> QED
            BY <1>1, <1>3, <3>1 DEF GitGrew
    <2>2. ASSUME NEW i \in DOMAIN v.ref, v.ref[i][1] = "commit" PROVE v.ref[i][2] <= Len(tree')
        <3>1. v.ref[i] \in Asks /\ v.ref[i][2] <= Len(tree)
            <4>1. v.ref \in Seq(Asks)
                BY DEF View
            <4>2. v.ref[i] \in Asks
                BY <4>1
            <4> QED
                BY <1>2, <2>2, <4>2 DEF ViewInv
        <3>2. v.ref[i][2] \in Nat
            BY <2>2, <3>1, AskedIs, PushesAssumption DEF Asks
        <3> QED
            BY <1>1, <1>3, <3>1, <3>2 DEF GitGrew
    <2> QED
        BY <2>1, <2>2
<1>9. ViewInv(v)'
    BY <1>2, <1>3, <1>5, <1>6, <1>7, <1>8 DEF ViewInv
<1> QED
    BY <1>1, <1>2, <1>9 DEF BrowseInv, GitGrew

(* A page is opened. *)
LEMMA ViewStep ==
    ASSUME BrowseInv, UNCHANGED gitVars, NEW v, view' = v, ViewInv(v)
    PROVE  BrowseInv'
<1>1. UNCHANGED <<heads, first, tree, request>>
    BY DEF gitVars
<1>2. CommitsInv'
    BY <1>1 DEF BrowseInv, CommitsInv
<1>3. ViewInv(v)'
    BY <1>1 DEF ViewInv, RepoInv, PinnedInv, PullInv, Always
<1> QED
    BY <1>2, <1>3 DEF BrowseInv


LEMMA OpenPageHolds ==
    ASSUME BrowseInv, NEW kind \in {"repo", "tree", "blob"}, NEW ref \in Asks,
           NEW try \in DOMAIN Candidates, NEW pc \in {"any", "branches"},
           UNCHANGED gitVars, NEW v \in View, view' = v,
           v.kind = kind, v.asked = ref[2], v.ref = <<ref>>, v.pc = pc,
           v.try = try, v.todo = {}, v.saw = {}, v.answer = "none",
           \/ \E b \in RefNames : ref = Branch(b)
           \/ \E c \in DOMAIN tree : ref = Sha(c),
           kind = "repo" => ref = Branch("main") /\ try = 1 /\ pc = "any",
           kind # "repo" => pc = "branches"
    PROVE  BrowseInv'
<1>1. ref[2] \in 0 .. Len(tree) /\ (ref[2] # 0 => ref = Sha(ref[2]))
      /\ (ref[1] = "commit" => ref[2] <= Len(tree))
    BY BrowseBounds, AskedIs
<1>2. Len(v.ref) = 1 /\ DOMAIN v.ref = {1} /\ v.ref[1] = ref
    OBVIOUS
<1>3. kind = "repo" => RepoInv(v)
    <2>1. \A i \in DOMAIN Candidates : 1 <= i
        BY BrowseBounds
    <2> QED
        BY <2>1, AskedIs DEF RepoInv, RefNames
<1>4. kind # "repo" => PinnedInv(v)
    BY <1>1, <1>2 DEF PinnedInv
<1>5. ViewInv(v)
    BY <1>1, <1>2, <1>3, <1>4 DEF ViewInv
<1> QED
    BY <1>5, ViewStep

LEMMA OpensHold ==
    ASSUME BrowseInv,
           \/ OpenRepo
           \/ \E ref \in {Branch(b) : b \in RefNames} \cup {Sha(c) : c \in DOMAIN tree} :
                 OpenTree(ref) \/ \E i \in DOMAIN Candidates : OpenBlob(ref, i)
    PROVE  BrowseInv'
<1>0. 1 \in DOMAIN Candidates /\ {} \in SUBSET Parts /\ 0 \in Nat
    BY BrowseBounds
<1>1. CASE OpenRepo
    <2> DEFINE v == [NoPage EXCEPT !.kind = "repo", !.ref = <<Branch("main")>>, !.pc = "any"]
    <2>1. Branch("main") \in Asks /\ Branch("main")[2] = 0 /\ "main" \in RefNames
          /\ <<Branch("main")>> \in Seq(Asks)
        BY AskedIs DEF RefNames
    <2>2. /\ v \in View /\ v.kind = "repo" /\ v.asked = 0 /\ v.ref = <<Branch("main")>>
          /\ v.pc = "any" /\ v.try = 1 /\ v.todo = {} /\ v.saw = {} /\ v.answer = "none"
        BY <1>0, <2>1 DEF NoPage, View, Parts
    <2>3. view' = v /\ UNCHANGED gitVars
        BY <1>1 DEF OpenRepo
    <2> HIDE DEF v
    <2> QED
        BY <1>0, <2>1, <2>2, <2>3, OpenPageHolds
<1>2. ASSUME NEW ref \in {Branch(b) : b \in RefNames} \cup {Sha(c) : c \in DOMAIN tree},
             NEW i \in DOMAIN Candidates, OpenTree(ref) \/ OpenBlob(ref, i)
      PROVE  BrowseInv'
    <2>1. /\ ref \in Asks /\ ref[2] \in Nat /\ <<ref>> \in Seq(Asks)
          /\ (\E b \in RefNames : ref = Branch(b)) \/ (\E c \in DOMAIN tree : ref = Sha(c))
        BY AskedIs, BrowseBounds
    <2>2. CASE OpenTree(ref)
        <3> DEFINE v == [NoPage EXCEPT !.kind = "tree", !.asked = ref[2], !.ref = <<ref>>,
                                       !.pc = "branches"]
        <3>1. /\ v \in View /\ v.kind = "tree" /\ v.asked = ref[2] /\ v.ref = <<ref>>
              /\ v.pc = "branches" /\ v.try = 1 /\ v.todo = {} /\ v.saw = {} /\ v.answer = "none"
            BY <1>0, <2>1 DEF NoPage, View, Parts
        <3>2. view' = v /\ UNCHANGED gitVars
            BY <2>2 DEF OpenTree
        <3> HIDE DEF v
        <3> QED
            BY <1>0, <2>1, <3>1, <3>2, OpenPageHolds
    <2>3. CASE OpenBlob(ref, i)
        <3> DEFINE v == [NoPage EXCEPT !.kind = "blob", !.asked = ref[2], !.ref = <<ref>>,
                                       !.try = i, !.pc = "branches"]
        <3>1. /\ v \in View /\ v.kind = "blob" /\ v.asked = ref[2] /\ v.ref = <<ref>>
              /\ v.pc = "branches" /\ v.try = i /\ v.todo = {} /\ v.saw = {} /\ v.answer = "none"
            BY <1>0, <2>1 DEF NoPage, View, Parts
        <3>2. view' = v /\ UNCHANGED gitVars
            BY <2>3 DEF OpenBlob
        <3> HIDE DEF v
        <3> QED
            BY <2>1, <3>1, <3>2, OpenPageHolds
    <2> QED
        BY <1>2, <2>2, <2>3
<1> QED
    BY <1>0, <1>1, <1>2

LEMMA OpenPullHolds ==
    ASSUME BrowseInv, OpenPullPage
    PROVE  BrowseInv'
<1> DEFINE v == [NoPage EXCEPT !.kind = "pull", !.asked = request, !.pc = "parts",
                    !.ref = RefsOfPull, !.todo = {"stat", "numstat", "names", "ahead", "patch"}]
<1>1. /\ request \in 0 .. Len(tree) /\ Len(tree) \in Nat
      /\ request # 0 => request \in DOMAIN tree /\ first[request] \in 0 .. Len(tree)
    BY BrowseBounds DEF BrowseInv, CommitsInv
<1>2. /\ RefsOfPull \in Seq(Asks) /\ Len(RefsOfPull) = 2 /\ DOMAIN RefsOfPull = 1 .. 2
      /\ \A i \in 1 .. 2 : RefsOfPull[i][1] = "commit" => RefsOfPull[i][2] <= Len(tree)
      /\ request # 0 => RefsOfPull = <<Sha(first[request]), Sha(request)>>
    <2>1. CASE request # 0
        <3>1. /\ request \in 0 .. MaxPushes + 1 /\ first[request] \in 0 .. MaxPushes + 1
              /\ request <= Len(tree) /\ first[request] <= Len(tree)
            BY <1>1, <2>1, BrowseBounds
        <3>2. /\ Sha(first[request]) \in Asks /\ Sha(request) \in Asks
              /\ Sha(first[request])[2] = first[request] /\ Sha(request)[2] = request
            BY <3>1, AskedIs
        <3>3. RefsOfPull = <<Sha(first[request]), Sha(request)>>
            BY <2>1 DEF RefsOfPull
        <3> QED
            BY <3>1, <3>2, <3>3
    <2>2. CASE request = 0
        <3>1. RefsOfPull = <<Branch("main"), Branch("topic")>>
            BY <2>2 DEF RefsOfPull
        <3>2. /\ Branch("main") \in Asks /\ Branch("main")[1] = "main"
              /\ Branch("topic") \in Asks /\ Branch("topic")[1] = "topic"
            BY AskedIs DEF RefNames
        <3> QED
            BY <2>2, <3>1, <3>2
    <2> QED
        BY <2>1, <2>2
<1>3. /\ v \in View /\ v.kind = "pull" /\ v.asked = request /\ v.ref = RefsOfPull
      /\ v.pc = "parts" /\ v.todo = All /\ v.saw = {} /\ v.answer = "none"
    <2>1. 1 \in DOMAIN Candidates /\ request \in Nat
        BY <1>1, BrowseBounds
    <2> QED
        BY <1>2, <2>1 DEF NoPage, View, Parts, All
<1>4. view' = v /\ UNCHANGED gitVars
    BY DEF OpenPullPage
<1> HIDE DEF v
<1>5. {s[1] : s \in v.saw} = {} /\ All \ v.todo = {}
    BY <1>3
<1>6. PullInv(v)
    BY <1>2, <1>3, <1>5 DEF PullInv
<1>7. ViewInv(v)
    <2>0. v.ref = RefsOfPull
        BY <1>3
    <2>1. /\ Len(v.ref) <= 2
          /\ \A i \in DOMAIN v.ref : v.ref[i][1] = "commit" => v.ref[i][2] <= Len(tree)
        <3>0. Len(v.ref) = 2
            BY <1>2, <2>0, Zenon
        <3>1. Len(v.ref) <= 2
            BY <3>0
        <3>2. \A i \in DOMAIN v.ref : v.ref[i][1] = "commit" => v.ref[i][2] <= Len(tree)
            BY <1>2, <2>0, Zenon
        <3> QED
            BY <3>1, <3>2
    <2>2. v.asked \in 0 .. Len(tree) /\ \A s \in v.saw : \A i \in DOMAIN s[2] : s[2][i] <= Len(tree)
        BY <1>1, <1>3
    <2> QED
        BY <1>3, <1>6, <2>1, <2>2 DEF ViewInv
<1> QED
    BY <1>4, <1>7, ViewStep

(* A command about the page of a repository, a directory or a file. *)
Single == view.kind \in {"repo", "tree", "blob"}

LEMMA SingleRef ==
    ASSUME BrowseInv, Single
    PROVE  /\ DOMAIN view.ref = {1} /\ Len(view.ref) = 1
           /\ view.ref[1] \in Asks /\ RevParse(view.ref[1]) \in 0 .. Len(tree)
           /\ view.asked # 0 => RevParse(view.ref[1]) = view.asked
           /\ view.kind = "repo" => RevParse(view.ref[1]) = heads["main"]
<1>1. view.ref \in Seq(Asks) /\ ViewInv(view)
    BY BrowseBounds DEF View
<1>2. CASE view.kind = "repo"
    <2>1. view.ref = <<Branch("main")>> /\ view.asked = 0
        BY <1>1, <1>2 DEF ViewInv, RepoInv
    <2>2. DOMAIN view.ref = {1} /\ Len(view.ref) = 1 /\ view.ref[1] = Branch("main")
        BY <2>1
    <2> QED
        BY <1>2, <2>1, <2>2, RevParses, AskedIs DEF RefNames
<1>3. CASE view.kind # "repo"
    <2>1. Len(view.ref) = 1 /\ (view.asked # 0 => view.ref = <<Sha(view.asked)>>)
          /\ view.asked \in 0 .. Len(tree)
        BY <1>1, <1>3 DEF Single, ViewInv, PinnedInv
    <2>2. DOMAIN view.ref = {1}
        BY <1>1, <2>1
    <2>3. view.asked # 0 => view.ref[1] = Sha(view.asked) /\ view.asked \in 0 .. MaxPushes + 1
        BY <2>1, BrowseBounds
    <2> QED
        BY <1>3, <2>1, <2>2, <2>3, RevParses, AskedIs
<1> QED
    BY <1>2, <1>3

SeenNow == {<<piece, <<RevParse(view.ref[1])>>>> : piece \in Parts}

LEMMA SeenIsTyped ==
    ASSUME BrowseInv, Single
    PROVE  /\ SeenNow \in SUBSET (Parts \X Seq(Nat))
           /\ \A s \in SeenNow : /\ DOMAIN s[2] = {1} /\ s[2][1] <= Len(tree)
                                 /\ view.asked # 0 => s[2] = <<view.asked>>
<1>1. /\ RevParse(view.ref[1]) \in 0 .. Len(tree)
      /\ view.asked # 0 => RevParse(view.ref[1]) = view.asked
    BY SingleRef
<1>2. RevParse(view.ref[1]) \in Nat /\ RevParse(view.ref[1]) <= Len(tree)
    BY <1>1, BrowseBounds
<1>3. PICK c \in Nat : c = RevParse(view.ref[1])
    BY <1>2
<1>4. SeenNow = {<<piece, <<c>>>> : piece \in Parts}
    BY <1>3 DEF SeenNow
<1>5. <<c>> \in Seq(Nat) /\ DOMAIN <<c>> = {1} /\ <<c>>[1] = c
    OBVIOUS
<1>6. \A s \in SeenNow : s \in Parts \X Seq(Nat) /\ s[2] = <<c>>
    BY <1>4, <1>5
<1> QED
    BY <1>1, <1>2, <1>3, <1>5, <1>6

LEMMA SingleStep ==
    ASSUME BrowseInv, Single, UNCHANGED gitVars, NEW v \in View, view' = v,
           v.kind = view.kind, v.asked = view.asked, v.pc # "idle",
           \/ v.ref = view.ref
           \/ view.asked = 0 /\ v.ref = <<Branch("main")>>,
           v.saw \subseteq view.saw \cup SeenNow,
           v.kind = "repo" => RepoInv(v),
           v.kind # "repo" =>
              /\ v.pc \in {"branches", "any", "tree", "size", "type", "bytes", "done"}
              /\ v.asked # 0 => v.answer # "error"
              /\ v.asked # 0 /\ v.pc \in {"type", "bytes"} =>
                    Candidates[v.try] \in tree[v.asked]
              /\ v.kind = "tree" => v.pc \notin {"size", "type", "bytes"}
              /\ v.kind = "blob" => v.pc \notin {"any", "tree"}
    PROVE  BrowseInv'
<1>1. ViewInv(view) /\ Len(tree) \in Nat
    BY BrowseBounds
<1>2. /\ Len(v.ref) = 1 /\ DOMAIN v.ref = {1}
      /\ v.ref[1][1] = "commit" => v.ref[1][2] <= Len(tree)
    <2>1. CASE v.ref = view.ref
        <3>1. DOMAIN view.ref = {1} /\ Len(view.ref) = 1
            BY SingleRef
        <3>2. view.ref[1][1] = "commit" => view.ref[1][2] <= Len(tree)
            BY <1>1, <3>1 DEF ViewInv
        <3> QED
            BY <2>1, <3>1, <3>2, Zenon
    <2>2. CASE v.ref = <<Branch("main")>>
        BY <2>2, AskedIs DEF RefNames
    <2> QED
        BY <2>1, <2>2
<1>3. ASSUME NEW s \in v.saw
      PROVE  /\ \A i \in DOMAIN s[2] : s[2][i] <= Len(tree)
             /\ v.asked # 0 /\ v.kind # "repo" => s[2] = <<v.asked>>
    <2>1. CASE s \in view.saw
        BY <1>1, <2>1 DEF ViewInv, Single, PinnedInv
    <2>2. CASE s \in SeenNow
        BY <2>2, SeenIsTyped
    <2> QED
        BY <2>1, <2>2
<1>4. v.kind # "repo" => PinnedInv(v)
    <2> SUFFICES ASSUME v.kind # "repo" PROVE PinnedInv(v)
        OBVIOUS
    <2>1. v.asked # 0 => v.ref = <<Sha(v.asked)>>
        BY <1>1 DEF ViewInv, Single, PinnedInv
    <2> QED
        BY <1>2, <1>3, <2>1 DEF PinnedInv
<1>5. v.asked \in 0 .. Len(tree) /\ v.kind \notin {"none", "pull"}
    BY <1>1 DEF ViewInv, Single
<1>6. Len(v.ref) <= 2 /\ \A i \in DOMAIN v.ref : v.ref[i][1] = "commit" => v.ref[i][2] <= Len(tree)
    BY <1>2
<1>7. ViewInv(v)
    BY <1>3, <1>4, <1>5, <1>6 DEF ViewInv
<1> QED
    BY <1>7, ViewStep

LEMMA KindIs ==
    ASSUME BrowseInv
    PROVE  /\ view.pc \in {"any", "branches", "size", "type", "bytes", "log", "tree"} => Single
           /\ view.pc = "parts" => view.kind = "pull"
           /\ view.pc = "log" => view.kind = "repo"
           /\ view.pc \in {"size", "type", "bytes"} => view.kind \in {"repo", "blob"}
           /\ view.pc \in {"any", "tree"} => view.kind \in {"repo", "tree"}
<1>1. view \in View /\ ViewInv(view)
    BY BrowseBounds
<1> QED
    BY <1>1 DEF ViewInv, View, Single, RepoInv, PinnedInv, PullInv

LEMMA PageFields ==
    ASSUME BrowseInv
    PROVE  /\ view \in View /\ view.asked \in Nat /\ view.ref \in Seq(Asks)
           /\ view.saw \in SUBSET (Parts \X Seq(Nat)) /\ view.try \in DOMAIN Candidates
           /\ view.kind = "repo" => RepoInv(view)
           /\ view.kind \in {"tree", "blob"} => PinnedInv(view)
           /\ view.kind = "pull" => PullInv(view)
BY BrowseBounds DEF ViewInv, View

(* A step that only goes on, or ends. *)
Turned(pc, answer, try, saw) ==
    /\ UNCHANGED gitVars /\ Single
    /\ pc \in Parts \cup {"done"} /\ answer \in {"none", "ok", "empty", "not found", "error"}
    /\ try \in DOMAIN Candidates /\ saw \subseteq view.saw \cup SeenNow
    /\ view' = [view EXCEPT !.pc = pc, !.answer = answer, !.try = try, !.saw = saw]
    /\ view.kind = "repo" =>
          /\ pc \in {"any", "size", "type", "bytes", "branches", "log", "tree", "done"}
          /\ pc \notin {"any", "done"} => heads["main"] # 0
          /\ \A i \in DOMAIN Candidates : Always(i) => try <= i
          /\ \A i \in DOMAIN Candidates :
                Always(i) /\ (pc \in {"branches", "log", "tree"} \/ answer = "ok") =>
                   \E s \in saw : s[1] = "bytes"
          /\ answer = "ok" => pc = "done"
    /\ view.kind # "repo" =>
          /\ pc \in {"branches", "any", "tree", "size", "type", "bytes", "done"}
          /\ view.asked # 0 => answer # "error"
          /\ view.asked # 0 /\ pc \in {"type", "bytes"} => Candidates[try] \in tree[view.asked]
          /\ view.kind = "tree" => pc \notin {"size", "type", "bytes"}
          /\ view.kind = "blob" => pc \notin {"any", "tree"}

LEMMA TurnHolds ==
    ASSUME BrowseInv, NEW pc, NEW answer, NEW try, NEW saw, Turned(pc, answer, try, saw)
    PROVE  BrowseInv'
<1> DEFINE v == [view EXCEPT !.pc = pc, !.answer = answer, !.try = try, !.saw = saw]
<1>0. UNCHANGED gitVars /\ Single /\ view' = v
    BY DEF Turned
<1>1. saw \in SUBSET (Parts \X Seq(Nat))
    BY SeenIsTyped, PageFields DEF Turned
<1>2. /\ v \in View /\ v.kind = view.kind /\ v.asked = view.asked /\ v.ref = view.ref /\ v.pc = pc
      /\ v.answer = answer /\ v.try = try /\ v.saw = saw
    BY <1>1, PageFields DEF View, Turned
<1> HIDE DEF v
<1>4. v.kind = "repo" => RepoInv(v)
    <2> SUFFICES ASSUME v.kind = "repo" PROVE RepoInv(v)
        OBVIOUS
    <2>1. view.kind = "repo" /\ view.asked = 0 /\ view.ref = <<Branch("main")>>
        BY <1>2, PageFields DEF RepoInv
    <2> QED
        BY <1>2, <2>1 DEF RepoInv, Turned
<1>5. v.pc # "idle"
    BY <1>2 DEF Parts, Turned
<1>6. v.kind # "repo" =>
          /\ v.pc \in {"branches", "any", "tree", "size", "type", "bytes", "done"}
          /\ v.asked # 0 => v.answer # "error"
          /\ v.asked # 0 /\ v.pc \in {"type", "bytes"} => Candidates[v.try] \in tree[v.asked]
          /\ v.kind = "tree" => v.pc \notin {"size", "type", "bytes"}
          /\ v.kind = "blob" => v.pc \notin {"any", "tree"}
    BY <1>2 DEF Turned
<1>7. v.saw \subseteq view.saw \cup SeenNow
    BY <1>2 DEF Turned
<1> QED
    BY <1>0, <1>2, <1>4, <1>5, <1>6, <1>7, SingleStep

LEMMA TurnsAre ==
    ASSUME BrowseInv, NEW pc, NEW answer, NEW piece
    PROVE  /\ Turn(pc) => view' = [view EXCEPT !.pc = pc, !.answer = view.answer,
                                               !.try = view.try, !.saw = view.saw]
           /\ Ends(answer) => view' = [view EXCEPT !.pc = "done", !.answer = answer,
                                                   !.try = view.try, !.saw = view.saw]
           /\ Saw(piece, pc) =>
                 view' = [view EXCEPT !.pc = pc, !.answer = view.answer, !.try = view.try,
                             !.saw = view.saw \cup {<<piece, <<RevParse(view.ref[1])>>>>}]
<1>1. view \in View
    BY PageFields
<1>2. Turn(pc) => view' = [view EXCEPT !.pc = pc, !.answer = view.answer,
                                       !.try = view.try, !.saw = view.saw]
    BY <1>1 DEF Turn, View
<1>3. Ends(answer) => view' = [view EXCEPT !.pc = "done", !.answer = answer,
                                           !.try = view.try, !.saw = view.saw]
    BY <1>1 DEF Ends, View
<1>4. Saw(piece, pc) => view' = [view EXCEPT !.pc = pc, !.answer = view.answer, !.try = view.try,
                                   !.saw = view.saw \cup {<<piece, <<RevParse(view.ref[1])>>>>}]
    BY <1>1 DEF Saw, View
<1> QED
    BY <1>2, <1>3, <1>4

(* What the page of the repository knows at each step. *)
LEMMA PageIs ==
    ASSUME BrowseInv, Single
    PROVE  /\ view.answer \in {"none", "ok", "empty", "not found", "error"}
           /\ view.asked # 0 /\ view.kind # "repo" => view.answer # "error"
           /\ view.kind = "repo" =>
                 /\ view.asked = 0
                 /\ view.pc \notin {"any", "done"} => heads["main"] # 0
                 /\ view.answer = "ok" => view.pc = "done"
                 /\ \A i \in DOMAIN Candidates : Always(i) => view.try <= i
                 /\ \A i \in DOMAIN Candidates :
                       Always(i) /\ view.pc \in {"branches", "log", "tree"} =>
                          \E s \in view.saw : s[1] = "bytes"
           /\ view.kind # "repo" /\ view.asked # 0 /\ view.pc \in {"type", "bytes"} =>
                 Candidates[view.try] \in tree[view.asked]
<1>1. view \in View
    BY PageFields
<1> QED
    BY <1>1, PageFields DEF View, Single, RepoInv, PinnedInv

LEMMA HasAnyHolds ==
    ASSUME BrowseInv, HasAnyCommits
    PROVE  BrowseInv'
<1>1. view.pc = "any" /\ UNCHANGED gitVars
    BY DEF HasAnyCommits, ViewAt
<1>2. Single /\ view.kind \in {"repo", "tree"}
    BY <1>1, KindIs
<1>3. CASE Ends("empty")
    <2>1. Turned("done", "empty", view.try, view.saw)
        BY <1>1, <1>2, <1>3, TurnsAre, PageIs, PageFields DEF Turned
    <2> QED
        BY <2>1, TurnHolds
<1>4. CASE heads["main"] # 0 /\ Turn(IF view.kind = "repo" THEN "size" ELSE "tree")
    <2> DEFINE pc == IF view.kind = "repo" THEN "size" ELSE "tree"
    <2>1. /\ pc \in Parts /\ (view.kind = "repo" => pc = "size")
          /\ view.kind # "repo" => pc = "tree"
        BY DEF Parts
    <2>2. Turn(pc)
        BY <1>4
    <2> HIDE DEF pc
    <2>3. Turned(pc, view.answer, view.try, view.saw)
        BY <1>1, <1>2, <1>4, <2>1, <2>2, TurnsAre, PageIs, PageFields DEF Turned
    <2> QED
        BY <2>3, TurnHolds
<1> QED
    BY <1>3, <1>4 DEF HasAnyCommits

LEMMA ListBranchesHolds ==
    ASSUME BrowseInv, ListBranches
    PROVE  BrowseInv'
<1> DEFINE r  == PickRef(view.ref[1])
           pc == CASE view.kind = "repo" -> "log" [] view.kind = "tree" -> "any"
                   [] view.kind = "blob" -> "size"
           v  == [view EXCEPT !.ref = <<r>>, !.pc = pc]
<1>1. view.pc = "branches" /\ UNCHANGED gitVars /\ Single
    BY KindIs DEF ListBranches, ViewAt
<1>2. view' = v
    BY DEF ListBranches
<1>3. /\ view.kind = "repo" => pc = "log"
      /\ view.kind = "tree" => pc = "any"
      /\ view.kind = "blob" => pc = "size"
    OBVIOUS
<1>4. /\ r \in Asks /\ <<r>> \in Seq(Asks)
      /\ view.asked # 0 => <<r>> = view.ref
      /\ <<r>> = view.ref \/ r = Branch("main")
      /\ view.kind = "repo" => <<r>> = <<Branch("main")>>
    <2>1. /\ DOMAIN view.ref = {1} /\ Len(view.ref) = 1 /\ view.ref[1] \in Asks
          /\ view.asked # 0 => RevParse(view.ref[1]) = view.asked
          /\ view.ref \in Seq(Asks)
        BY <1>1, SingleRef, PageFields
    <2>2. r \in {view.ref[1], Branch("main")} /\ (view.asked # 0 => r = view.ref[1])
        BY <2>1 DEF PickRef
    <2>3. view.ref = <<view.ref[1]>>
        BY <2>1
    <2>4. Branch("main") \in Asks
        BY AskedIs DEF RefNames
    <2>5. view.kind = "repo" => view.ref[1] = Branch("main")
        BY PageFields DEF RepoInv
    <2> HIDE DEF r
    <2> QED
        BY <2>1, <2>2, <2>3, <2>4, <2>5
<1>5. pc \in Parts
    BY <1>1, <1>3 DEF Single, Parts
<1> HIDE DEF r, pc
<1>6. /\ v \in View /\ v.kind = view.kind /\ v.asked = view.asked /\ v.ref = <<r>> /\ v.pc = pc
      /\ v.answer = view.answer /\ v.try = view.try /\ v.saw = view.saw
    BY <1>4, <1>5, PageFields DEF View
<1> HIDE DEF v
<1>7. v.kind = "repo" => RepoInv(v)
    BY <1>1, <1>3, <1>4, <1>6, PageIs DEF RepoInv
<1>8. v.ref = view.ref \/ (view.asked = 0 /\ v.ref = <<Branch("main")>>)
    BY <1>4, <1>6
<1>9. v.pc # "idle"
    BY <1>5, <1>6 DEF Parts
<1>10. v.kind # "repo" =>
          /\ v.pc \in {"branches", "any", "tree", "size", "type", "bytes", "done"}
          /\ v.asked # 0 => v.answer # "error"
          /\ v.asked # 0 /\ v.pc \in {"type", "bytes"} => Candidates[v.try] \in tree[v.asked]
          /\ v.kind = "tree" => v.pc \notin {"size", "type", "bytes"}
          /\ v.kind = "blob" => v.pc \notin {"any", "tree"}
    BY <1>1, <1>3, <1>6, PageIs DEF Single
<1> QED
    BY <1>1, <1>2, <1>6, <1>7, <1>8, <1>9, <1>10, SingleStep

(* Whether the file is there, when a page asks. *)
LEMMA PresentIs ==
    ASSUME BrowseInv, Single
    PROVE  /\ view.kind = "repo" /\ heads["main"] # 0 =>
                 (Always(view.try) => Present)
           /\ view.asked # 0 => (Present <=> Candidates[view.try] \in tree[view.asked])
<1>1. /\ RevParse(view.ref[1]) \in 0 .. Len(tree)
      /\ view.asked # 0 => RevParse(view.ref[1]) = view.asked
      /\ view.kind = "repo" => RevParse(view.ref[1]) = heads["main"]
    BY SingleRef
<1>2. RevParse(view.ref[1]) # 0 => RevParse(view.ref[1]) \in DOMAIN tree
    BY <1>1, BrowseBounds
<1> QED
    BY <1>1, <1>2 DEF Present, Always

LEMMA AbsenceHolds ==
    ASSUME BrowseInv, view.pc \in {"size", "type"}, ~Present, Absence, UNCHANGED gitVars,
           view.pc = "type" /\ view.asked # 0 => Present
    PROVE  BrowseInv'
<1>1. Single /\ view.kind \in {"repo", "blob"} /\ "done" \in Parts \cup {"done"}
    BY KindIs
<1>2. CASE view.kind = "blob"
    <2>1. Turned("done", "not found", view.try, view.saw)
        BY <1>1, <1>2, TurnsAre, PageIs, PageFields DEF Turned, Absence
    <2> QED
        BY <2>1, TurnHolds
<1>3. CASE view.kind = "repo"
    <2>0. /\ heads["main"] # 0 /\ ~Always(view.try)
          /\ \A i \in DOMAIN Candidates : Always(i) => view.try <= i
          /\ view.answer # "ok" /\ view.answer \in {"none", "ok", "empty", "not found", "error"}
        BY <1>1, <1>3, PageIs, PresentIs
    <2>1. /\ view.try \in 1 .. Len(Candidates) /\ Len(Candidates) \in Nat
          /\ DOMAIN Candidates = 1 .. Len(Candidates)
        BY PageFields, BrowseBounds
    <2>2. \A i \in DOMAIN Candidates : Always(i) => view.try + 1 <= i
        <3> SUFFICES ASSUME NEW i \in DOMAIN Candidates, Always(i) PROVE view.try + 1 <= i
            OBVIOUS
        <3>1. view.try <= i /\ view.try # i
            BY <2>0
        <3> QED
            BY <2>1, <3>1
    <2>3. CASE view.try < Len(Candidates)
        <3>1. view' = [view EXCEPT !.pc = "size", !.try = view.try + 1]
            BY <1>3, <2>3 DEF Absence
        <3> DEFINE n == view.try + 1
        <3>2. n \in DOMAIN Candidates /\ \A i \in DOMAIN Candidates : Always(i) => n <= i
            BY <2>1, <2>2, <2>3
        <3>3. view' = [view EXCEPT !.pc = "size", !.answer = view.answer, !.try = n,
                                   !.saw = view.saw]
            BY <3>1, PageFields DEF View
        <3> HIDE DEF n
        <3>4. "size" \in Parts \cup {"done"}
            BY DEF Parts
        <3>5. Turned("size", view.answer, n, view.saw)
            BY <1>1, <1>3, <2>0, <3>2, <3>3, <3>4 DEF Turned
        <3> QED
            BY <3>5, TurnHolds
    <2>4. CASE ~(view.try < Len(Candidates))
        <3>1. Turn("branches")
            BY <1>3, <2>4 DEF Absence
        <3>2. \A i \in DOMAIN Candidates : ~Always(i)
            BY <2>1, <2>2, <2>4
        <3>3. "branches" \in Parts \cup {"done"}
            BY DEF Parts
        <3>4. Turned("branches", view.answer, view.try, view.saw)
            BY <1>1, <1>3, <2>0, <3>1, <3>2, <3>3, TurnsAre, PageFields DEF Turned
        <3> QED
            BY <3>4, TurnHolds
    <2> QED
        BY <2>3, <2>4
<1> QED
    BY <1>1, <1>2, <1>3

LEMMA ProbesHold ==
    ASSUME BrowseInv, SizeProbe \/ TypeProbe
    PROVE  BrowseInv'
<1>1. /\ view.pc \in {"size", "type"} /\ UNCHANGED gitVars
      /\ Single /\ view.kind \in {"repo", "blob"}
    BY KindIs DEF SizeProbe, TypeProbe, ViewAt
<1>2. view.pc = "type" /\ view.asked # 0 => Present
    BY <1>1, PageIs, PresentIs
<1>3. CASE ~Present /\ Absence
    BY <1>1, <1>2, <1>3, AbsenceHolds
<1>4. ASSUME Present, NEW piece \in Parts, NEW pc \in {"type", "bytes"}, Saw(piece, pc)
      PROVE  BrowseInv'
    <2> DEFINE saw == view.saw \cup {<<piece, <<RevParse(view.ref[1])>>>>}
    <2>1. saw \subseteq view.saw \cup SeenNow
        BY DEF SeenNow
    <2>2. view' = [view EXCEPT !.pc = pc, !.answer = view.answer, !.try = view.try, !.saw = saw]
        BY <1>4, TurnsAre
    <2> HIDE DEF saw
    <2>3. pc \in Parts \cup {"done"}
        BY DEF Parts
    <2>4. view.kind = "repo" => heads["main"] # 0 /\ view.answer # "ok"
        BY <1>1, PageIs
    <2>5. view.asked # 0 => Candidates[view.try] \in tree[view.asked]
        BY <1>1, <1>4, PresentIs
    <2>6. Turned(pc, view.answer, view.try, saw)
        BY <1>1, <2>1, <2>2, <2>3, <2>4, <2>5, PageIs, PageFields DEF Turned
    <2> QED
        BY <2>6, TurnHolds
<1>5. "size" \in Parts /\ "type" \in Parts
    BY DEF Parts
<1> QED
    BY <1>3, <1>4, <1>5 DEF SizeProbe, TypeProbe

LEMMA ReadBytesHolds ==
    ASSUME BrowseInv, ReadBytes
    PROVE  BrowseInv'
<1> DEFINE seen == <<"bytes", <<RevParse(view.ref[1])>>>>
           saw  == view.saw \cup {seen}
<1>1. /\ view.pc = "bytes" /\ UNCHANGED gitVars /\ Single /\ view.kind \in {"repo", "blob"}
    BY KindIs DEF ReadBytes, ViewAt
<1>2. saw \subseteq view.saw \cup SeenNow /\ (\E s \in saw : s[1] = "bytes")
      /\ "branches" \in Parts /\ "done" \in Parts \cup {"done"}
    <2>1. seen[1] = "bytes" /\ seen \in saw
        OBVIOUS
    <2>2. seen \in SeenNow
        BY DEF SeenNow, Parts
    <2> QED
        BY <2>1, <2>2 DEF Parts
<1>3. view.asked # 0 => Present
    BY <1>1, PageIs, PresentIs
<1>4. CASE Present /\ view.kind = "repo" /\ Saw("bytes", "branches")
    <2>1. view' = [view EXCEPT !.pc = "branches", !.answer = view.answer, !.try = view.try,
                               !.saw = saw]
        BY <1>4, TurnsAre
    <2> HIDE DEF saw
    <2>2. heads["main"] # 0
        BY <1>1, <1>4, PageIs
    <2>3. Turned("branches", view.answer, view.try, saw)
        BY <1>1, <1>2, <1>4, <2>1, <2>2, PageIs, PageFields DEF Turned
    <2> QED
        BY <2>3, TurnHolds
<1>5. CASE /\ Present /\ view.kind = "blob"
           /\ view' = [view EXCEPT !.pc = "done", !.answer = "ok", !.saw = saw]
    <2>1. view' = [view EXCEPT !.pc = "done", !.answer = "ok", !.try = view.try, !.saw = saw]
        BY <1>5, PageFields DEF View
    <2> HIDE DEF saw
    <2>2. Turned("done", "ok", view.try, saw)
        BY <1>1, <1>2, <1>5, <2>1, PageFields DEF Turned
    <2> QED
        BY <2>2, TurnHolds
<1>6. CASE ~Present /\ Ends("error")
    <2>1. Turned("done", "error", view.try, view.saw)
        BY <1>1, <1>2, <1>3, <1>6, TurnsAre, PageIs, PageFields DEF Turned
    <2> QED
        BY <2>1, TurnHolds
<1> QED
    BY <1>1, <1>4, <1>5, <1>6 DEF ReadBytes

LEMMA ListsHold ==
    ASSUME BrowseInv, ListRecentCommits \/ ListTree
    PROVE  BrowseInv'
<1>1. /\ UNCHANGED gitVars /\ Single /\ view.pc \in {"log", "tree"}
      /\ view.kind \in {"repo", "tree"}
    BY KindIs DEF ListRecentCommits, ListTree, ViewAt
<1>2. view.kind = "repo" => /\ heads["main"] # 0
                            /\ \A i \in DOMAIN Candidates : Always(i) =>
                                  \E s \in view.saw : s[1] = "bytes"
    BY <1>1, PageIs
<1>3. CASE ListRecentCommits
    <2> DEFINE saw == view.saw \cup {<<"log", <<RevParse(view.ref[1])>>>>}
    <2>1. saw \subseteq view.saw \cup SeenNow /\ view.saw \subseteq saw /\ "tree" \in Parts
        BY DEF SeenNow, Parts
    <2>2. view' = [view EXCEPT !.pc = "tree", !.answer = view.answer, !.try = view.try,
                               !.saw = saw]
        BY <1>3, TurnsAre DEF ListRecentCommits
    <2>3. view.pc = "log"
        BY <1>3 DEF ListRecentCommits, ViewAt
    <2>4. view.kind = "repo"
        BY <2>3, KindIs
    <2> HIDE DEF saw
    <2>5. Turned("tree", view.answer, view.try, saw)
        BY <1>1, <1>2, <2>1, <2>2, <2>3, <2>4, PageIs, PageFields DEF Turned
    <2> QED
        BY <2>5, TurnHolds
<1>4. CASE ListTree
    <2> DEFINE saw == view.saw \cup {<<"tree", <<RevParse(view.ref[1])>>>>}
    <2>1. saw \subseteq view.saw \cup SeenNow /\ view.saw \subseteq saw
        BY DEF SeenNow, Parts
    <2>2. view' = [view EXCEPT !.pc = "done", !.answer = "ok", !.try = view.try, !.saw = saw]
        BY <1>4, PageFields DEF ListTree, View
    <2> HIDE DEF saw
    <2>3. "done" \in Parts \cup {"done"}
        OBVIOUS
    <2>4. Turned("done", "ok", view.try, saw)
        BY <1>1, <1>2, <2>1, <2>2, <2>3, PageIs, PageFields DEF Turned
    <2> QED
        BY <2>4, TurnHolds
<1> QED
    BY <1>3, <1>4

(* The page of a pull request. *)
LEMMA EndsAre ==
    ASSUME BrowseInv, view.kind = "pull"
    PROVE  LET ends == [i \in 1 .. 2 |-> RevParse(view.ref[i])]
           IN  /\ ends \in Seq(Nat) /\ DOMAIN ends = 1 .. 2
               /\ \A i \in 1 .. 2 : ends[i] <= Len(tree)
               /\ view.asked # 0 => /\ ends = <<first[view.asked], view.asked>>
                                    /\ first[view.asked] \in Nat
<1> DEFINE ends == [i \in 1 .. 2 |-> RevParse(view.ref[i])]
<1>1. /\ view.ref \in Seq(Asks) /\ Len(view.ref) = 2 /\ view.asked \in 0 .. Len(tree)
      /\ view.asked # 0 => view.ref = <<Sha(first[view.asked]), Sha(view.asked)>>
    BY PageFields, BrowseBounds DEF PullInv, ViewInv
<1>2. DOMAIN view.ref = 1 .. 2
    BY <1>1
<1>3. \A i \in 1 .. 2 : RevParse(view.ref[i]) \in Nat /\ RevParse(view.ref[i]) <= Len(tree)
    BY <1>2, RevParses, BrowseBounds
<1>4. ends \in [1 .. 2 -> Nat] /\ \A i \in 1 .. 2 : ends[i] = RevParse(view.ref[i])
    BY <1>3
<1>5. ASSUME view.asked # 0
      PROVE  ends = <<first[view.asked], view.asked>> /\ first[view.asked] \in Nat
    <2>1. /\ view.asked \in DOMAIN tree /\ first[view.asked] \in 0 .. MaxPushes + 1
          /\ view.asked \in 0 .. MaxPushes + 1
        BY <1>1, <1>5, BrowseBounds
    <2>2. /\ view.ref[1] = Sha(first[view.asked]) /\ view.ref[2] = Sha(view.asked)
        BY <1>1, <1>5
    <2>3. RevParse(view.ref[1]) = first[view.asked] /\ RevParse(view.ref[2]) = view.asked
        BY <2>1, <2>2, AskedIs
    <2> HIDE DEF ends
    <2>4. ends[1] = first[view.asked] /\ ends[2] = view.asked
        BY <1>4, <2>3
    <2> QED
        BY <1>4, <2>1, <2>4
<1> HIDE DEF ends
<1>6. ends \in Seq(Nat)
    BY <1>4, FunctionsAreSeqs
<1>7. DOMAIN ends = 1 .. 2
    BY <1>4
<1>8. \A i \in 1 .. 2 : ends[i] <= Len(tree)
    BY <1>3, <1>4
<1> QED
    BY <1>5, <1>6, <1>7, <1>8 DEF ends

LEMMA ReadPartHolds ==
    ASSUME BrowseInv, NEW piece \in Parts, ReadPart(piece)
    PROVE  BrowseInv'
<1> DEFINE ends  == [i \in 1 .. 2 |-> RevParse(view.ref[i])]
           files == piece \in {"numstat", "names"}
<1>1. /\ view.pc = "parts" /\ view.kind = "pull" /\ piece \in view.todo /\ UNCHANGED gitVars
      /\ piece = "names" => "numstat" \notin view.todo
    BY KindIs DEF ReadPart, ViewAt
<1>2. PICK related \in {TRUE, view.asked # 0} :
         LET there == (\A i \in 1 .. 2 : ends[i] # 0) /\ (piece = "ahead" \/ related)
         IN view' = [view EXCEPT
                !.todo = @ \ ({piece} \cup (IF files /\ ~there THEN {"names"} ELSE {})),
                !.saw  = CASE there -> @ \cup {<<piece, ends>>}
                           [] ~there /\ files -> {s \in @ : s[1] # "numstat"}
                           [] OTHER -> @]
    BY DEF ReadPart
<1> DEFINE there == (\A i \in 1 .. 2 : ends[i] # 0) /\ (piece = "ahead" \/ related)
           todo  == view.todo \ ({piece} \cup (IF files /\ ~there THEN {"names"} ELSE {}))
           saw   == CASE there -> view.saw \cup {<<piece, ends>>}
                      [] ~there /\ files -> {s \in view.saw : s[1] # "numstat"}
                      [] OTHER -> view.saw
           v     == [view EXCEPT !.todo = todo, !.saw = saw]
<1>3. view' = v
    BY <1>2
<1>4. /\ ends \in Seq(Nat) /\ DOMAIN ends = 1 .. 2 /\ \A i \in 1 .. 2 : ends[i] <= Len(tree)
      /\ view.asked # 0 => /\ ends = <<first[view.asked], view.asked>>
                           /\ first[view.asked] \in Nat /\ view.asked \in Nat
    BY <1>1, EndsAre, PageFields
<1> HIDE DEF ends
<1>5. there => saw = view.saw \cup {<<piece, ends>>} /\ todo = view.todo \ {piece}
    OBVIOUS
<1>6. ~there => saw \subseteq view.saw
    OBVIOUS
<1>7. todo \subseteq view.todo
    OBVIOUS
<1>8. view.asked # 0 => (there <=> first[view.asked] # 0)
    <2> SUFFICES ASSUME view.asked # 0 PROVE there <=> first[view.asked] # 0
        OBVIOUS
    <2>1. ends[1] = first[view.asked] /\ ends[2] = view.asked
        BY <1>4
    <2>2. related
        BY <1>2, Zenon
    <2> QED
        BY <2>1, <2>2
<1>9. saw \subseteq view.saw \cup {<<piece, ends>>}
    BY <1>5, <1>6
<1> HIDE DEF there, todo, saw
<1>10. saw \in SUBSET (Parts \X Seq(Nat)) /\ todo \in SUBSET Parts
    <2>1. <<piece, ends>> \in Parts \X Seq(Nat)
        BY <1>4
    <2>2. view.todo \in SUBSET Parts /\ view.saw \in SUBSET (Parts \X Seq(Nat))
        BY BrowseBounds DEF View
    <2> QED
        BY <1>7, <1>9, <2>1, <2>2
<1>11. /\ v \in View /\ v.kind = "pull" /\ v.asked = view.asked /\ v.ref = view.ref
       /\ v.pc = "parts" /\ v.todo = todo /\ v.saw = saw /\ v.answer = view.answer
    BY <1>1, <1>10, BrowseBounds DEF View
<1> HIDE DEF v
<1>12. ViewInv(view) /\ PullInv(view)
    BY <1>1, PageFields, BrowseBounds
<1>13. ASSUME NEW s \in saw
       PROVE  /\ \A i \in DOMAIN s[2] : s[2][i] <= Len(tree)
              /\ view.asked # 0 => s[2] = <<first[view.asked], view.asked>>
    <2>1. CASE s \in view.saw
        BY <1>12, <2>1 DEF ViewInv, PullInv
    <2>2. CASE s = <<piece, ends>>
        BY <1>4, <2>2
    <2> QED
        BY <1>9, <2>1, <2>2
<1>14. view.asked # 0 =>
          {s[1] : s \in saw} = IF first[view.asked] = 0 THEN {} ELSE All \ todo
    <2> SUFFICES ASSUME view.asked # 0
                 PROVE  {s[1] : s \in saw} = IF first[view.asked] = 0 THEN {} ELSE All \ todo
        OBVIOUS
    <2>0. {s[1] : s \in view.saw} = IF first[view.asked] = 0 THEN {} ELSE All \ view.todo
        BY <1>12 DEF PullInv
    <2>1. CASE first[view.asked] = 0
        <3>1. view.saw = {}
            BY <2>0, <2>1
        <3>2. saw = {}
            BY <1>6, <1>8, <2>1, <3>1
        <3> QED
            BY <2>1, <3>2
    <2>2. CASE first[view.asked] # 0
        <3>1. saw = view.saw \cup {<<piece, ends>>} /\ todo = view.todo \ {piece}
            BY <1>5, <1>8, <2>2
        <3>2. {s[1] : s \in saw} = {s[1] : s \in view.saw} \cup {piece}
            <4> DEFINE new == <<piece, ends>>
            <4>1. new[1] = piece
                OBVIOUS
            <4> HIDE DEF new
            <4>2. saw = view.saw \cup {new}
                BY <3>1 DEF new
            <4> QED
                BY <4>1, <4>2, Zenon
        <3>3. piece \in All /\ piece \in view.todo
            BY <1>1, <1>12 DEF PullInv
        <3> QED
            BY <2>0, <2>2, <3>1, <3>2, <3>3
    <2> QED
        BY <2>1, <2>2
<1>15. PullInv(v)
    BY <1>7, <1>11, <1>12, <1>13, <1>14 DEF PullInv
<1>16. ViewInv(v)
    <2>1. /\ v.asked \in 0 .. Len(tree) /\ Len(v.ref) <= 2
          /\ \A i \in DOMAIN v.ref : v.ref[i][1] = "commit" => v.ref[i][2] <= Len(tree)
        BY <1>11, <1>12 DEF ViewInv
    <2> QED
        BY <1>11, <1>13, <1>15, <2>1 DEF ViewInv
<1> QED
    BY <1>1, <1>3, <1>16, ViewStep

LEMMA RenderHolds ==
    ASSUME BrowseInv, Render
    PROVE  BrowseInv'
<1> DEFINE v == [view EXCEPT !.pc = "done", !.answer = "ok"]
<1>1. /\ view.pc = "parts" /\ view.kind = "pull" /\ view.todo = {} /\ UNCHANGED gitVars
      /\ view' = v
    BY KindIs DEF Render, ViewAt, Ends
<1>2. /\ v \in View /\ v.kind = "pull" /\ v.asked = view.asked /\ v.ref = view.ref
      /\ v.pc = "done" /\ v.todo = view.todo /\ v.saw = view.saw /\ v.answer = "ok"
    BY <1>1, BrowseBounds DEF View
<1> HIDE DEF v
<1>3. ViewInv(view) /\ PullInv(view)
    BY <1>1, PageFields, BrowseBounds
<1>4. PullInv(v)
    BY <1>1, <1>2, <1>3 DEF PullInv
<1>5. ViewInv(v)
    BY <1>2, <1>3, <1>4 DEF ViewInv
<1> QED
    BY <1>1, <1>5, ViewStep

LEMMA NoPageIs ==
    ASSUME Len(tree) \in Nat
    PROVE  NoPage \in View /\ ViewInv(NoPage)
<1>1. 1 \in DOMAIN Candidates /\ <<>> \in Seq(Asks) /\ Len(<<>>) = 0
    BY CandidatesAssumption
<1>2. NoPage \in View
    BY <1>1 DEF NoPage, View
<1>3. /\ NoPage.kind = "none" /\ NoPage.pc = "idle" /\ NoPage.asked = 0 /\ NoPage.ref = <<>>
      /\ NoPage.saw = {}
    BY DEF NoPage
<1>4. Len(NoPage.ref) <= 2 /\ DOMAIN NoPage.ref = {}
    BY <1>1, <1>3
<1> QED
    BY <1>2, <1>3, <1>4 DEF ViewInv

LEMMA BrowseInitHolds == BrowseInit => BrowseInv
<1> SUFFICES ASSUME BrowseInit PROVE BrowseInv
    OBVIOUS
<1>1. /\ Len(first) = 0 /\ Len(tree) = 0 /\ DOMAIN tree = {}
      /\ first \in Seq(Nat) /\ tree \in Seq(SUBSET Files)
    BY DEF BrowseInit
<1>2. MaxPushes \in Nat
    BY PushesAssumption
<1>3. heads \in [RefNames -> 0 .. Len(tree)] /\ request \in 0 .. Len(tree)
    BY <1>1 DEF BrowseInit
<1>4. CommitsInv
    BY <1>1, <1>2, <1>3 DEF CommitsInv
<1>5. ViewInv(view)
    BY <1>1, NoPageIs DEF BrowseInit
<1> QED
    BY <1>4, <1>5 DEF BrowseInv

LEMMA BrowseNextHolds == BrowseInv /\ [BrowseNext]_browseVars => BrowseInv'
<1> SUFFICES ASSUME BrowseInv, [BrowseNext]_browseVars PROVE BrowseInv'
    OBVIOUS
<1>1. CASE UNCHANGED browseVars
    BY <1>1 DEF browseVars, gitVars, BrowseInv, CommitsInv, ViewInv, RepoInv, PinnedInv, PullInv,
                Always
<1>2. CASE (\E b \in RefNames : Pushed(b)) \/ Deleted \/ MergeShas
    BY <1>2, OthersHold
<1>3. CASE OpenRepo
    BY <1>3, OpensHold
<1>4. CASE OpenPullPage
    BY <1>4, OpenPullHolds
<1>5. CASE \E ref \in {Branch(b) : b \in RefNames} \cup {Sha(c) : c \in DOMAIN tree} :
              OpenTree(ref) \/ \E i \in DOMAIN Candidates : OpenBlob(ref, i)
    BY <1>5, OpensHold
<1>6. CASE PageStep
    <2>1. CASE HasAnyCommits \/ ListBranches \/ SizeProbe \/ TypeProbe \/ ReadBytes
               \/ ListRecentCommits \/ ListTree
        BY <2>1, HasAnyHolds, ListBranchesHolds, ProbesHold, ReadBytesHolds, ListsHold
    <2>2. ASSUME NEW piece \in Parts, ReadPart(piece) PROVE BrowseInv'
        BY <2>2, ReadPartHolds
    <2>3. CASE Render
        BY <2>3, RenderHolds
    <2>4. CASE ClosePage
        BY <2>4, NoPageIs, ViewStep, BrowseBounds DEF ClosePage
    <2> QED
        BY <1>6, <2>1, <2>2, <2>3, <2>4 DEF PageStep
<1> QED
    BY <1>1, <1>2, <1>3, <1>4, <1>5, <1>6 DEF BrowseNext

LEMMA BrowseTyped == BrowseInv => BrowseTypeOK
<1> SUFFICES ASSUME BrowseInv PROVE BrowseTypeOK
    OBVIOUS
<1>1. \A c \in DOMAIN tree : first[c] \in 0 .. c - 1 /\ tree[c] \subseteq Files
    BY BrowseBounds
<1>2. ASSUME NEW s \in view.saw PROVE s[1] \in Parts /\ s[2] \in Seq(0 .. Len(tree))
    <2>1. s[1] \in Parts /\ s[2] \in Seq(Nat)
        BY PageFields
    <2>2. \A i \in DOMAIN s[2] : s[2][i] \in 0 .. Len(tree)
        <3>1. \A i \in DOMAIN s[2] : s[2][i] \in Nat /\ s[2][i] <= Len(tree)
            BY <2>1, BrowseBounds DEF ViewInv
        <3> QED
            BY <3>1, BrowseBounds
    <2>3. s[2] \in Seq(0 .. Len(tree))
        <3> DEFINE S == 0 .. Len(tree)
                   q == s[2]
        <3>1. q \in Seq(Nat) /\ \A i \in DOMAIN q : q[i] \in S
            BY <2>1, <2>2
        <3> HIDE DEF S, q
        <3>2. Len(q) \in Nat /\ DOMAIN q = 1 .. Len(q) /\ q = [i \in 1 .. Len(q) |-> q[i]]
            BY <3>1
        <3>3. q \in [1 .. Len(q) -> S]
            BY <3>1, <3>2
        <3> QED
            BY <3>2, <3>3, FunctionsAreSeqs DEF S, q
    <2> QED
        BY <2>1, <2>3
<1>3. /\ view.kind \in {"none", "repo", "tree", "blob", "pull"}
      /\ view.asked \in 0 .. Len(tree) /\ view.ref \in Seq(Asks) /\ Len(view.ref) <= 2
      /\ view.pc \in Parts \cup {"idle", "parts", "done"}
      /\ view.try \in DOMAIN Candidates /\ view.todo \subseteq Parts
      /\ view.answer \in {"none", "ok", "empty", "not found", "error"}
    BY BrowseBounds DEF View, ViewInv
<1> QED
    BY <1>1, <1>2, <1>3 DEF BrowseInv, CommitsInv, BrowseTypeOK

LEMMA BrowseKept == BrowseInv => PinnedPagesAreWhole /\ ReadmeIsFound
<1> SUFFICES ASSUME BrowseInv PROVE PinnedPagesAreWhole /\ ReadmeIsFound
    OBVIOUS
<1>1. ViewInv(view) /\ view \in View
    BY BrowseBounds
<1>2. PinnedPagesAreWhole
    <2> SUFFICES ASSUME view.pc = "done", view.asked # 0
                 PROVE  LET of == IF view.kind = "pull" THEN <<first[view.asked], view.asked>>
                                  ELSE <<view.asked>>
                        IN  /\ view.answer # "error" /\ \A s \in view.saw : s[2] = of
                            /\ view.kind = "pull" => {s[1] : s \in view.saw} \in {{}, All}
        BY DEF PinnedPagesAreWhole, All
    <2>1. CASE view.kind = "pull"
        <3>1. PullInv(view) /\ view.todo = {}
            BY <1>1, <2>1 DEF ViewInv, PullInv
        <3>2. {s[1] : s \in view.saw} \in {{}, All}
            BY <3>1 DEF PullInv
        <3> QED
            BY <2>1, <3>1, <3>2 DEF PullInv
    <2>2. CASE view.kind # "pull"
        <3>1. view.kind \in {"tree", "blob"}
            BY <1>1, <2>2 DEF ViewInv, View, RepoInv
        <3> QED
            BY <1>1, <2>2, <3>1 DEF ViewInv, PinnedInv
    <2> QED
        BY <2>1, <2>2
<1>3. ReadmeIsFound
    BY <1>1 DEF ViewInv, RepoInv, Always, ReadmeIsFound
<1> QED
    BY <1>2, <1>3

(* The repository and the page stay typed, whatever is pushed, deleted and  *)
(* merged while the page is being loaded.                                   *)
THEOREM BrowseTypes == BrowseSpec => []BrowseTypeOK
BY BrowseInitHolds, BrowseNextHolds, BrowseTyped, PTL DEF BrowseSpec

(* A page at a commit, and that of a merged request, is of that commit in   *)
(* all its parts and has all of them or, of a diff, none; and the page of a *)
(* repository shows a README when one name was in every commit.             *)
THEOREM PagesAreWhole == BrowseSpec => [](PinnedPagesAreWhole /\ ReadmeIsFound)
BY BrowseInitHolds, BrowseNextHolds, BrowseKept, PTL DEF BrowseSpec

-----------------------------------------------------------------------------
(* Issues.  A run at its gate has yet to read, and will read its comment;   *)
(* of a document that nothing went wrong with, every PUT under way has the  *)
(* latest revision; and shots that are nowhere else were kept off by two    *)
(* failures.  Comments alone move updated_at on without a change.           *)
Issue == [status : Statuses, rev : 0 .. MaxEdits + MaxNotes, edited : Nat]
Run   == [pc : {"none", "gate", "work", "upload", "answer", "over"}, note : 0 .. MaxNotes,
          heard : 0 .. MaxNotes, ends : {"running", "ok", "error"}]

RevInv ==
    /\ issue.edited <= issue.rev /\ issue.rev <= issue.edited + Len(notes)
    /\ issue.rev <= MaxEdits + Len(notes)

RowInv ==
    /\ issue \in Issue /\ RevInv /\ notes \in Seq(AgentRuns \cup {0}) /\ Len(notes) <= MaxNotes
    /\ form \in {"empty", "written", "sent"} /\ hitches \in 0 .. MaxHitches

RunInv(a) ==
    /\ a.note <= Len(notes) /\ a.heard <= Len(notes)
    /\ a.heard > 0 => a.heard >= a.note
    /\ a.pc \in {"none", "gate"} => a.heard = 0
    /\ a.note # 0 => notes[a.note] = 0
    /\ a.ends # "running" => a.pc = "over"
WillHear(a, n) == a.heard >= n \/ (a.pc = "gate" /\ a.note = n)
Heard == hitches = 0 =>
    \A n \in DOMAIN notes : notes[n] = 0 => \E r \in AgentRuns : WillHear(agent[r], n)

PodInv ==
    /\ puts \in SUBSET Put /\ copy \in [Documents -> Int] /\ spoiled \in SUBSET Documents
    /\ \A w \in puts : w.rev <= Latest(w.doc)
    /\ \A d \in Documents : copy[d] <= Latest(d)
    /\ \A d \in 0 .. Len(notes) : d \notin spoiled =>
          /\ \A w \in puts : w.doc = d => w.rev = Latest(d)
          /\ ~Waits(d) => copy[d] = Latest(d)

ShotInv(s) ==
    /\ "made" \in s /\ "host" \notin s => hitches >= 1
    /\ "made" \in s /\ s \cap {"work", "host", "pod"} = {} => hitches >= 2
ShotsInv ==
    /\ shots \in [AgentRuns -> SUBSET {"made", "work", "host", "pod"}]
    /\ \A r \in AgentRuns : ShotInv(shots[r])

IssueInv ==
    /\ RowInv /\ PodInv /\ ShotsInv /\ Heard
    /\ agent \in [AgentRuns -> Run] /\ \A r \in AgentRuns : RunInv(agent[r])

LEMMA IssueFacts ==
    ASSUME IssueInv
    PROVE  /\ MaxNotes \in Nat /\ MaxEdits \in Nat /\ MaxHitches \in Nat /\ 0 \notin AgentRuns
           /\ issue \in Issue /\ issue.rev \in Nat /\ issue.edited \in Nat /\ RevInv
           /\ issue.status \in Statuses
           /\ notes \in Seq(AgentRuns \cup {0}) /\ Len(notes) \in 0 .. MaxNotes
           /\ DOMAIN notes = 1 .. Len(notes) /\ hitches \in Nat /\ hitches <= MaxHitches
           /\ agent \in [AgentRuns -> Run]
           /\ \A r \in AgentRuns : agent[r] \in Run /\ RunInv(agent[r])
<1>1. /\ MaxNotes \in Nat /\ MaxEdits \in Nat /\ MaxHitches \in Nat /\ 0 \notin AgentRuns
    BY IssueNumbersAssumption
<1>2. /\ issue.rev \in 0 .. MaxEdits + MaxNotes /\ issue.status \in Statuses
      /\ issue.edited \in Nat
    BY DEF IssueInv, RowInv, Issue
<1> QED
    BY <1>1, <1>2 DEF IssueInv, RowInv

LEMMA RunFacts ==
    ASSUME NEW a \in Run
    PROVE  /\ a.note \in 0 .. MaxNotes /\ a.heard \in 0 .. MaxNotes
           /\ a.note \in Nat /\ a.heard \in Nat
BY IssueNumbersAssumption DEF Run

LEMMA HitchIs ==
    ASSUME IssueInv, Hitch
    PROVE  hitches' \in 0 .. MaxHitches /\ hitches' = hitches + 1 /\ hitches' # 0
BY IssueFacts DEF Hitch

(* The pod, when a row has changed and is mirrored. *)
LEMMA EditHolds ==
    ASSUME IssueInv, NEW status \in Statuses, UpdateIssue(status),
           Mirror(0, issue.rev + 1), UNCHANGED <<notes, agent, form, shots, hitches>>
    PROVE  IssueInv'
<1> DEFINE n == issue.rev + 1
           w == [doc |-> 0, rev |-> n]
<1>1. n \in Nat /\ n <= MaxEdits + Len(notes) /\ issue.edited <= n /\ issue.edited \in Nat
      /\ n \in 0 .. MaxEdits + MaxNotes /\ Len(notes) \in Nat
    BY IssueFacts DEF RevInv, UpdateIssue
<1>2. /\ issue' = [status |-> status, rev |-> n, edited |-> n]
      /\ puts' = puts \cup {w} /\ UNCHANGED copy
      /\ spoiled' = IF Waits(0) THEN spoiled \cup {0} ELSE spoiled
    BY DEF UpdateIssue, Mirror
<1> HIDE DEF n
<1>3. w \in Put /\ w.doc = 0 /\ w.rev = n
    BY <1>1, IssueFacts DEF Put, Documents
<1>4. issue' \in Issue /\ issue'.edited = n /\ RevInv'
    BY <1>1, <1>2 DEF Issue, RevInv
<1> HIDE DEF w
<1>5. /\ Latest(0)' = n /\ \A d : d # 0 => Latest(d)' = Latest(d)
      /\ \A d : Latest(d) \in Nat /\ Latest(d)' \in Nat /\ Latest(d) <= Latest(d)'
    BY <1>1, <1>4 DEF Latest
<1>6. RowInv' /\ Heard' /\ ShotsInv' /\ agent' \in [AgentRuns -> Run]
    BY <1>4 DEF IssueInv, RowInv, Heard, WillHear, ShotsInv, ShotInv
<1>7. \A r \in AgentRuns : RunInv(agent[r])'
    BY DEF IssueInv, RunInv
<1>8. PodInv'
    <2>0. PodInv
        BY DEF IssueInv
    <2>1. puts' \in SUBSET Put /\ copy' \in [Documents -> Int] /\ spoiled' \in SUBSET Documents
        BY <1>2, <1>3, <2>0, IssueFacts DEF PodInv, Documents
    <2>2. ASSUME NEW v \in puts' PROVE v.rev <= Latest(v.doc)'
        <3>1. CASE v = w
            BY <1>1, <1>3, <1>5, <3>1
        <3>2. CASE v \in puts
            <4>1. v.rev \in Nat /\ v.rev <= Latest(v.doc)
                BY <2>0, <3>2 DEF PodInv, Put
            <4> QED
                BY <1>5, <4>1
        <3> QED
            BY <1>2, <3>1, <3>2
    <2>3. ASSUME NEW d \in Documents PROVE copy'[d] <= Latest(d)'
        <3>1. copy[d] \in Int /\ copy[d] <= Latest(d)
            BY <2>0 DEF PodInv
        <3> QED
            BY <1>2, <1>5, <3>1
    <2>4. ASSUME NEW d \in 0 .. Len(notes'), d \notin spoiled'
          PROVE  /\ \A v \in puts' : v.doc = d => v.rev = Latest(d)'
                 /\ ~Waits(d)' => copy'[d] = Latest(d)'
        <3>1. CASE d = 0
            <4>1. ~Waits(0)
                BY <1>2, <2>4, <3>1
            <4>2. \A v \in puts' : v.doc = 0 => v = w
                BY <1>2, <4>1 DEF Waits
            <4>3. Waits(0)'
                BY <1>2, <1>3 DEF Waits
            <4> QED
                BY <1>3, <1>5, <3>1, <4>2, <4>3
        <3>2. CASE d # 0
            <4>1. d \notin spoiled /\ d \in 0 .. Len(notes)
                BY <1>2, <2>4
            <4>2. \A v \in puts' : v.doc = d => v \in puts
                BY <1>2, <1>3, <3>2
            <4>3. ~Waits(d)' => ~Waits(d)
                BY <1>2 DEF Waits
            <4> QED
                BY <1>2, <1>5, <2>0, <3>2, <4>1, <4>2, <4>3 DEF PodInv
        <3> QED
            BY <3>1, <3>2
    <2> QED
        BY <2>1, <2>2, <2>3, <2>4 DEF PodInv
<1> QED
    BY <1>6, <1>7, <1>8 DEF IssueInv

LEMMA NoteIsKept ==
    ASSUME IssueInv, NEW by \in AgentRuns \cup {0}, AddNote(by)
    PROVE  /\ PodInv' /\ issue' \in Issue /\ RevInv'
           /\ notes' \in Seq(AgentRuns \cup {0}) /\ Len(notes') <= MaxNotes
           /\ Len(notes') = Len(notes) + 1 /\ notes'[Len(notes) + 1] = by
           /\ DOMAIN notes' = 1 .. Len(notes) + 1
           /\ \A n \in DOMAIN notes : notes'[n] = notes[n]
<1> DEFINE k == Len(notes) + 1
           w == [doc |-> k, rev |-> 0]
<1>1. /\ notes' = Append(notes, by) /\ puts' = puts \cup {w} /\ UNCHANGED copy
      /\ Len(notes) < MaxNotes
      /\ spoiled' = IF Waits(k) THEN spoiled \cup {k} ELSE spoiled
    BY DEF AddNote, Mirror
<1>2. /\ k \in Nat /\ k # 0 /\ k \in Documents /\ Len(notes) \in Nat /\ k <= MaxNotes
    BY <1>1, IssueFacts DEF Documents
<1>3. /\ notes' \in Seq(AgentRuns \cup {0}) /\ Len(notes') = k /\ DOMAIN notes' = 1 .. k
      /\ notes'[k] = by /\ \A n \in DOMAIN notes : notes'[n] = notes[n]
    BY <1>1, IssueFacts
<1> HIDE DEF k
<1>0. /\ issue' \in Issue /\ issue'.rev = issue.rev + 1 /\ issue'.edited = issue.edited
      /\ RevInv'
    <2>1. PICK i \in Issue : i = issue
        BY IssueFacts
    <2> DEFINE j == [i EXCEPT !.rev = i.rev + 1]
    <2>2. issue' = j
        BY <2>1 DEF AddNote
    <2>3. /\ i.rev \in Nat /\ i.edited \in Nat /\ i.edited <= i.rev
          /\ i.rev <= i.edited + Len(notes) /\ i.rev <= MaxEdits + Len(notes)
        BY <2>1, IssueFacts DEF RevInv
    <2>4. /\ i.rev + 1 \in 0 .. MaxEdits + MaxNotes
        BY <1>1, <2>3, IssueFacts
    <2>5. j \in Issue /\ j.rev = i.rev + 1 /\ j.edited = i.edited
        BY <2>4 DEF Issue
    <2> HIDE DEF j
    <2>6. Len(notes') = Len(notes) + 1 /\ Len(notes) \in Nat /\ MaxEdits \in Nat
        BY <1>2, <1>3, IssueFacts DEF k
    <2> QED
        BY <2>1, <2>2, <2>3, <2>5, <2>6 DEF RevInv
<1>4. w \in Put /\ w.doc = k /\ w.rev = 0
    BY <1>2 DEF Put
<1> HIDE DEF w
<1>5. \A d : Latest(d)' = Latest(d) /\ Latest(d) \in Nat /\ (d # 0 => Latest(d) = 0)
    BY <1>0, IssueFacts DEF Latest
<1>6. PodInv'
    <2>0. PodInv
        BY DEF IssueInv
    <2>1. puts' \in SUBSET Put /\ copy' \in [Documents -> Int] /\ spoiled' \in SUBSET Documents
        BY <1>1, <1>2, <1>4, <2>0 DEF PodInv
    <2>2. ASSUME NEW v \in puts' PROVE v.rev <= Latest(v.doc)'
        BY <1>1, <1>2, <1>4, <1>5, <2>0 DEF PodInv
    <2>3. ASSUME NEW d \in Documents PROVE copy'[d] <= Latest(d)'
        BY <1>1, <1>5, <2>0 DEF PodInv
    <2>4. ASSUME NEW d \in 0 .. Len(notes'), d \notin spoiled'
          PROVE  /\ \A v \in puts' : v.doc = d => v.rev = Latest(d)'
                 /\ ~Waits(d)' => copy'[d] = Latest(d)'
        <3>1. CASE d = k
            <4>1. ~Waits(k)
                BY <1>1, <2>4, <3>1
            <4>2. \A v \in puts' : v.doc = k => v = w
                BY <1>1, <4>1 DEF Waits
            <4>3. Waits(d)'
                BY <1>1, <1>4, <3>1 DEF Waits
            <4> QED
                BY <1>2, <1>4, <1>5, <3>1, <4>2, <4>3
        <3>2. CASE d # k
            <4>1. d \notin spoiled /\ d \in 0 .. Len(notes)
                BY <1>1, <1>2, <1>3, <2>4, <3>2 DEF k
            <4>2. \A v \in puts' : v.doc = d => v \in puts
                BY <1>1, <1>4, <3>2
            <4>3. ~Waits(d)' => ~Waits(d)
                BY <1>1 DEF Waits
            <4> QED
                BY <1>1, <1>5, <2>0, <4>1, <4>2, <4>3 DEF PodInv
        <3> QED
            BY <3>1, <3>2
    <2> QED
        BY <2>1, <2>2, <2>3, <2>4 DEF PodInv
<1> QED
    BY <1>0, <1>2, <1>3, <1>6 DEF k

(* One run changes, and perhaps a comment is added. *)
LEMMA RunsMove ==
    ASSUME IssueInv, NEW r \in AgentRuns, NEW a \in Run, agent' = [agent EXCEPT ![r] = a],
           RunInv(a)', RowInv', PodInv', ShotsInv',
           Len(notes) <= Len(notes'), Len(notes') \in Nat, DOMAIN notes' = 1 .. Len(notes'),
           \A n \in DOMAIN notes : notes'[n] = notes[n],
           hitches' = 0 =>
              /\ hitches = 0
              /\ \A n \in DOMAIN notes : WillHear(agent[r], n) => WillHear(a, n)
              /\ \A n \in DOMAIN notes' \ DOMAIN notes : notes'[n] = 0 => WillHear(a, n)
    PROVE  IssueInv'
<1>1. agent' \in [AgentRuns -> Run] /\ agent'[r] = a
      /\ \A q \in AgentRuns \ {r} : agent'[q] = agent[q]
    BY IssueFacts
<1>2. ASSUME NEW q \in AgentRuns PROVE RunInv(agent[q])'
    <2>1. CASE q = r
        BY <1>1, <2>1
    <2>2. CASE q # r
        <3>1. PICK b \in Run : b = agent[q] /\ b = agent'[q]
            BY <1>1, <2>2, IssueFacts
        <3>2. RunInv(b)
            BY <3>1, IssueFacts
        <3>3. b.note \in Nat /\ b.heard \in Nat /\ Len(notes) \in Nat /\ DOMAIN notes = 1 .. Len(notes)
            BY RunFacts, IssueFacts
        <3>4. b.note # 0 => b.note \in DOMAIN notes
            BY <3>2, <3>3 DEF RunInv
        <3>5. RunInv(b)'
            BY <3>2, <3>3, <3>4 DEF RunInv
        <3> QED
            BY <3>1, <3>5
    <2> QED
        BY <2>1, <2>2
<1>3. Heard'
    <2> SUFFICES ASSUME hitches' = 0, NEW n \in DOMAIN notes', notes'[n] = 0
                 PROVE  \E q \in AgentRuns : WillHear(agent'[q], n)
        BY DEF Heard, WillHear
    <2>1. CASE n \in DOMAIN notes
        <3>1. PICK q \in AgentRuns : WillHear(agent[q], n)
            BY <2>1 DEF IssueInv, Heard
        <3>2. CASE q = r
            BY <1>1, <2>1, <3>1, <3>2
        <3>3. CASE q # r
            BY <1>1, <3>1, <3>3
        <3> QED
            BY <3>2, <3>3
    <2>2. CASE n \notin DOMAIN notes
        BY <1>1, <2>2
    <2> QED
        BY <2>1, <2>2
<1> QED
    BY <1>1, <1>2, <1>3 DEF IssueInv

LEMMA RunMovesAlone ==
    ASSUME IssueInv, NEW r \in AgentRuns, NEW a \in Run, agent' = [agent EXCEPT ![r] = a],
           RunInv(a), UNCHANGED <<issueRows, mirror, form>>, ShotsInv',
           UNCHANGED hitches \/ Hitch,
           \/ hitches' # 0
           \/ \A n \in DOMAIN notes : WillHear(agent[r], n) => WillHear(a, n)
    PROVE  IssueInv'
<1>1. UNCHANGED <<issue, notes, puts, copy, spoiled, form>>
    BY DEF issueRows, mirror
<1>2. hitches' \in 0 .. MaxHitches /\ (hitches' = 0 => hitches = 0)
    BY HitchIs, IssueFacts DEF IssueInv, RowInv
<1>3. RowInv'
    BY <1>1, <1>2 DEF IssueInv, RowInv, RevInv
<1>4. PodInv'
    BY <1>1 DEF IssueInv, PodInv, Latest, Waits
<1>5. RunInv(a)'
    BY <1>1 DEF RunInv
<1>6. /\ Len(notes) <= Len(notes') /\ Len(notes') \in Nat /\ DOMAIN notes' = 1 .. Len(notes')
      /\ \A n \in DOMAIN notes : notes'[n] = notes[n]
    BY <1>1, IssueFacts
<1>7. ASSUME hitches' = 0
      PROVE  /\ hitches = 0
             /\ \A n \in DOMAIN notes : WillHear(agent[r], n) => WillHear(a, n)
             /\ \A n \in DOMAIN notes' \ DOMAIN notes : notes'[n] = 0 => WillHear(a, n)
    BY <1>1, <1>2, <1>7
<1> QED
    BY <1>3, <1>4, <1>5, <1>6, <1>7, RunsMove

LEMMA StartedIs ==
    ASSUME IssueInv, NEW r \in AgentRuns, NEW n \in 0 .. MaxNotes
    PROVE  LET a == [NotRun EXCEPT !.pc = "gate", !.note = n]
           IN  a \in Run /\ a.pc = "gate" /\ a.note = n /\ a.heard = 0 /\ a.ends = "running"
<1>1. 0 \in 0 .. MaxNotes
    BY IssueFacts
<1> DEFINE a == [NotRun EXCEPT !.pc = "gate", !.note = n]
<1>2. a \in Run /\ a.note = n /\ a.heard = 0 /\ a.ends = "running" /\ a.pc = "gate"
    BY <1>1 DEF NotRun, Run
<1> QED
    BY <1>2

LEMMA RerunHolds ==
    ASSUME IssueInv, NEW r \in AgentRuns, Rerun(r)
    PROVE  IssueInv'
<1> DEFINE a == [NotRun EXCEPT !.pc = "gate", !.note = 0]
<1>1. a \in Run /\ a.pc = "gate" /\ a.note = 0 /\ a.heard = 0 /\ a.ends = "running"
    <2>1. 0 \in 0 .. MaxNotes
        BY IssueFacts
    <2> QED
        BY <2>1, StartedIs
<1>2. agent' = [agent EXCEPT ![r] = a] /\ agent[r].pc = "none"
      /\ UNCHANGED <<issueRows, mirror, form, shots, hitches>>
    BY DEF Rerun, Started, NextRun
<1> HIDE DEF a
<1>3. RunInv(a)
    BY <1>1, IssueFacts DEF RunInv
<1>4. \A n \in DOMAIN notes : ~WillHear(agent[r], n)
    BY <1>2, IssueFacts DEF WillHear, RunInv
<1>5. ShotsInv'
    BY <1>2 DEF IssueInv, ShotsInv, ShotInv
<1> QED
    BY <1>1, <1>2, <1>3, <1>4, <1>5, RunMovesAlone

LEMMA PostNoteHolds ==
    ASSUME IssueInv, NEW r \in AgentRuns, PostNote(r)
    PROVE  IssueInv'
<1> DEFINE k == Len(notes) + 1
           a == [NotRun EXCEPT !.pc = "gate", !.note = k]
<1>1. AddNote(0) /\ Len(notes) < MaxNotes
    BY DEF PostNote, AddNote
<1>2. /\ PodInv' /\ issue' \in Issue /\ RevInv' /\ notes' \in Seq(AgentRuns \cup {0}) /\ Len(notes') <= MaxNotes
      /\ Len(notes') = k /\ notes'[k] = 0 /\ DOMAIN notes' = 1 .. k
      /\ \A n \in DOMAIN notes : notes'[n] = notes[n]
    BY <1>1, NoteIsKept
<1>3. k \in Nat /\ k # 0 /\ k \in 0 .. MaxNotes /\ Len(notes) \in Nat /\ Len(notes) <= k
      /\ DOMAIN notes' \ DOMAIN notes = {k}
    BY <1>1, <1>2, IssueFacts
<1>4. a \in Run /\ a.pc = "gate" /\ a.note = k /\ a.heard = 0 /\ a.ends = "running"
    BY <1>3, StartedIs
<1>5. agent' = [agent EXCEPT ![r] = a] /\ agent[r].pc = "none"
      /\ UNCHANGED <<shots, hitches>> /\ form' = "sent"
    BY DEF PostNote, Started, NextRun
<1>6. PICK b \in Run : b = a
    BY <1>4
<1> HIDE DEF a, k
<1>7. RunInv(b)'
    BY <1>2, <1>3, <1>4, <1>6 DEF RunInv
<1>8. RowInv' /\ ShotsInv'
    BY <1>2, <1>5 DEF IssueInv, RowInv, ShotsInv, ShotInv
<1>9. \A n \in DOMAIN notes : ~WillHear(agent[r], n)
    BY <1>5, IssueFacts DEF WillHear, RunInv
<1>10. WillHear(b, k)
    BY <1>4, <1>6 DEF WillHear
<1> QED
    BY <1>2, <1>3, <1>5, <1>6, <1>7, <1>8, <1>9, <1>10, RunsMove

(* A run that goes on, or ends: what it has heard stays. *)
LEMMA OverIs ==
    ASSUME IssueInv, NEW r \in AgentRuns, NEW pc \in {"upload", "answer"}, NEW ends \in {"ok", "error"}
    PROVE  /\ Over(r, ends) =>
                 \E a \in Run : /\ agent' = [agent EXCEPT ![r] = a] /\ a.pc = "over"
                                /\ a.note = agent[r].note /\ a.heard = agent[r].heard
           /\ agent' = [agent EXCEPT ![r].pc = pc] =>
                 \E a \in Run : /\ agent' = [agent EXCEPT ![r] = a] /\ a.pc = pc
                                /\ a.note = agent[r].note /\ a.heard = agent[r].heard
                                /\ a.ends = agent[r].ends
<1>0. agent[r] \in Run /\ agent \in [AgentRuns -> Run]
    BY IssueFacts
<1>1. ASSUME Over(r, ends)
      PROVE  \E a \in Run : /\ agent' = [agent EXCEPT ![r] = a] /\ a.pc = "over"
                            /\ a.note = agent[r].note /\ a.heard = agent[r].heard
    <2> DEFINE a == [agent[r] EXCEPT !.pc = "over", !.ends = ends]
    <2>1. agent' = [agent EXCEPT ![r] = a]
        BY <1>0, <1>1 DEF Over
    <2>2. a \in Run /\ a.pc = "over" /\ a.note = agent[r].note /\ a.heard = agent[r].heard
        BY <1>0 DEF Run
    <2> QED
        BY <2>1, <2>2
<1>2. ASSUME agent' = [agent EXCEPT ![r].pc = pc]
      PROVE  \E a \in Run : /\ agent' = [agent EXCEPT ![r] = a] /\ a.pc = pc
                            /\ a.note = agent[r].note /\ a.heard = agent[r].heard
                            /\ a.ends = agent[r].ends
    <2> DEFINE a == [agent[r] EXCEPT !.pc = pc]
    <2>1. agent' = [agent EXCEPT ![r] = a]
        BY <1>0, <1>2
    <2>2. a \in Run /\ a.pc = pc /\ a.note = agent[r].note /\ a.heard = agent[r].heard
          /\ a.ends = agent[r].ends
        BY <1>0 DEF Run
    <2> QED
        BY <2>1, <2>2
<1> QED
    BY <1>1, <1>2

LEMMA RunGoesOn ==
    ASSUME IssueInv, NEW r \in AgentRuns, UNCHANGED <<issueRows, mirror, form>>, ShotsInv',
           UNCHANGED hitches \/ Hitch,
           agent[r].pc \notin {"none", "gate"} \/ (agent[r].pc = "gate" /\ Hitch),
           \/ \E ends \in {"ok", "error"} : Over(r, ends)
           \/ /\ agent[r].pc # "gate"  /\ agent[r].pc # "over"
              /\ \E pc \in {"upload", "answer"} : agent' = [agent EXCEPT ![r].pc = pc]
    PROVE  IssueInv'
<1>1. PICK a \in Run : /\ agent' = [agent EXCEPT ![r] = a] /\ a.pc \in {"over", "upload", "answer"}
                       /\ a.note = agent[r].note /\ a.heard = agent[r].heard
                       /\ a.pc = "over" \/ (a.ends = agent[r].ends /\ agent[r].pc # "over")
    BY OverIs
<1>2. RunInv(a)
    BY <1>1, IssueFacts DEF RunInv
<1>3. hitches' # 0 \/ \A n \in DOMAIN notes : WillHear(agent[r], n) => WillHear(a, n)
    BY <1>1, HitchIs DEF WillHear
<1> QED
    BY <1>1, <1>2, <1>3, RunMovesAlone

LEMMA ReadNotesHolds ==
    ASSUME IssueInv, NEW r \in AgentRuns, ReadNotes(r)
    PROVE  IssueInv'
<1> DEFINE n == Len(notes)
           a == [agent[r] EXCEPT !.pc = "work", !.heard = n]
<1>1. agent[r] \in Run /\ RunInv(agent[r]) /\ agent[r].pc = "gate" /\ n \in 0 .. MaxNotes
    BY IssueFacts DEF ReadNotes
<1>2. agent' = [agent EXCEPT ![r] = a] /\ UNCHANGED <<issueRows, mirror, form, shots, hitches>>
    BY <1>1, IssueFacts DEF ReadNotes
<1>3. DOMAIN notes = 1 .. n /\ agent[r].note <= n
    BY <1>1, IssueFacts DEF RunInv
<1> HIDE DEF n
<1>4. /\ a \in Run /\ a.pc = "work" /\ a.note = agent[r].note /\ a.heard = n
      /\ a.ends = agent[r].ends
    BY <1>1 DEF Run
<1> HIDE DEF a
<1>5. RunInv(a)
    BY <1>1, <1>3, <1>4 DEF RunInv, n
<1>6. \A m \in DOMAIN notes : WillHear(a, m)
    BY <1>1, <1>3, <1>4 DEF WillHear
<1>7. ShotsInv'
    BY <1>2 DEF IssueInv, ShotsInv, ShotInv
<1> QED
    BY <1>2, <1>4, <1>5, <1>6, <1>7, RunMovesAlone

(* The shots of one run. *)
LEMMA ShotsMove ==
    ASSUME IssueInv, NEW r \in AgentRuns, NEW s \in SUBSET {"made", "work", "host", "pod"},
           shots' = [shots EXCEPT ![r] = s], UNCHANGED hitches \/ Hitch, ShotInv(s)'
    PROVE  ShotsInv'
<1>1. shots \in [AgentRuns -> SUBSET {"made", "work", "host", "pod"}]
    BY DEF IssueInv, ShotsInv
<1>2. hitches' >= hitches /\ hitches \in Nat /\ hitches' \in Nat
    BY HitchIs, IssueFacts
<1>3. ASSUME NEW q \in AgentRuns PROVE ShotInv(shots[q])'
    <2>1. CASE q = r
        BY <1>1, <2>1
    <2>2. CASE q # r
        <3>1. PICK t \in SUBSET {"made", "work", "host", "pod"} : t = shots[q] /\ t = shots'[q]
            BY <1>1, <2>2
        <3>2. ShotInv(t)
            BY <3>1 DEF IssueInv, ShotsInv
        <3>3. ShotInv(t)'
            BY <1>2, <3>2 DEF ShotInv
        <3> QED
            BY <3>1, <3>3
    <2> QED
        BY <2>1, <2>2
<1> QED
    BY <1>1, <1>3 DEF ShotsInv

LEMMA ShotsStay ==
    ASSUME IssueInv, UNCHANGED shots, UNCHANGED hitches \/ Hitch
    PROVE  ShotsInv'
<1>1. hitches' >= hitches /\ hitches \in Nat /\ hitches' \in Nat
    BY HitchIs, IssueFacts
<1> QED
    BY <1>1 DEF IssueInv, ShotsInv, ShotInv

LEMMA CoderHolds ==
    ASSUME IssueInv, NEW r \in AgentRuns,
           GateRefuses(r) \/ WorkEnds(r) \/ Upload(r) \/ ScreenshotsOnly(r) \/ AnswerPull(r)
    PROVE  IssueInv'
<1>1. CASE GateRefuses(r)
    BY <1>1, RunGoesOn, ShotsStay DEF GateRefuses
<1>2. CASE WorkEnds(r)
    <2>1. agent[r].pc = "work" /\ UNCHANGED <<issueRows, mirror, form>>
        BY <1>2 DEF WorkEnds
    <2>2. CASE UNCHANGED <<shots, hitches>>
        BY <1>2, <2>1, <2>2, RunGoesOn, ShotsStay DEF WorkEnds
    <2>3. CASE /\ agent' = [agent EXCEPT ![r].pc = "upload"]
               /\ shots' = [shots EXCEPT ![r] = {"made", "work", "host"}] /\ UNCHANGED hitches
        <3>1. ShotInv({"made", "work", "host"})'
            BY DEF ShotInv
        <3>2. ShotsInv'
            BY <2>3, <3>1, ShotsMove
        <3> QED
            BY <2>1, <2>3, <3>2, RunGoesOn
    <2>4. CASE /\ agent' = [agent EXCEPT ![r].pc = "upload"]
               /\ shots' = [shots EXCEPT ![r] = {"made", "work"}] /\ Hitch
        <3>1. ShotInv({"made", "work"})'
            BY <2>4, HitchIs, IssueFacts DEF ShotInv
        <3>2. ShotsInv'
            BY <2>4, <3>1, ShotsMove
        <3> QED
            BY <2>1, <2>4, <3>2, RunGoesOn
    <2> QED
        BY <1>2, <2>2, <2>3, <2>4 DEF WorkEnds
<1>3. CASE Upload(r)
    <2>1. /\ agent[r].pc = "upload" /\ UNCHANGED <<issueRows, mirror, form>>
          /\ agent' = [agent EXCEPT ![r].pc = "answer"] /\ (UNCHANGED hitches \/ Hitch)
        BY <1>3 DEF Upload
    <2>2. PICK s \in SUBSET {"made", "work", "host", "pod"} : s = shots[r]
        BY DEF IssueInv, ShotsInv
    <2>3. ShotInv(s) /\ shots \in [AgentRuns -> SUBSET {"made", "work", "host", "pod"}]
        BY <2>2 DEF IssueInv, ShotsInv
    <2>4. CASE shots' = [shots EXCEPT ![r] = (s \ {"work"}) \cup {"pod"}] /\ UNCHANGED hitches
        <3>1. ShotInv((s \ {"work"}) \cup {"pod"})'
            BY <2>3, <2>4 DEF ShotInv
        <3> QED
            BY <2>1, <2>4, <3>1, ShotsMove, RunGoesOn
    <2>5. CASE shots' = [shots EXCEPT ![r] = s \ {"work"}] /\ Hitch
        <3>1. hitches' = hitches + 1 /\ hitches \in Nat
            BY <2>5, HitchIs, IssueFacts
        <3>2. ShotInv(s \ {"work"})'
            BY <2>3, <3>1 DEF ShotInv
        <3> QED
            BY <2>1, <2>5, <3>2, ShotsMove, RunGoesOn
    <2> QED
        BY <1>3, <2>2, <2>3, <2>4, <2>5 DEF Upload
<1>4. CASE ScreenshotsOnly(r) \/ AnswerPull(r)
    BY <1>4, RunGoesOn, ShotsStay DEF ScreenshotsOnly, AnswerPull
<1> QED
    BY <1>1, <1>2, <1>3, <1>4

LEMMA AnswerNoteHolds ==
    ASSUME IssueInv, NEW r \in AgentRuns, AnswerNote(r)
    PROVE  IssueInv'
<1> DEFINE k == Len(notes) + 1
<1>1. AddNote(r) /\ UNCHANGED <<form, shots, hitches>> /\ Len(notes) < MaxNotes
      /\ agent[r].pc = "answer" /\ Over(r, "ok")
    BY DEF AnswerNote, AddNote
<1>2. /\ PodInv' /\ issue' \in Issue /\ RevInv' /\ notes' \in Seq(AgentRuns \cup {0}) /\ Len(notes') <= MaxNotes
      /\ Len(notes') = k /\ notes'[k] = r /\ DOMAIN notes' = 1 .. k
      /\ \A n \in DOMAIN notes : notes'[n] = notes[n]
    BY <1>1, NoteIsKept
<1>3. k \in Nat /\ k # 0 /\ k \in 0 .. MaxNotes /\ Len(notes) \in Nat /\ Len(notes) <= k
      /\ DOMAIN notes' \ DOMAIN notes = {k} /\ DOMAIN notes = 1 .. Len(notes) /\ r # 0
    BY <1>1, <1>2, IssueFacts
<1>4. PICK a \in Run : /\ agent' = [agent EXCEPT ![r] = a] /\ a.pc = "over"
                       /\ a.note = agent[r].note /\ a.heard = agent[r].heard
    BY <1>1, OverIs
<1> HIDE DEF k
<1>5. RunInv(a)'
    <2>1. RunInv(agent[r]) /\ a.note \in Nat /\ a.heard \in Nat
        BY RunFacts, IssueFacts
    <2>2. a.note # 0 => a.note \in DOMAIN notes
        BY <1>3, <1>4, <2>1 DEF RunInv
    <2> QED
        BY <1>2, <1>3, <1>4, <2>1, <2>2 DEF RunInv
<1>6. RowInv' /\ ShotsInv'
    BY <1>1, <1>2 DEF IssueInv, RowInv, ShotsInv, ShotInv
<1>7. \A n \in DOMAIN notes : WillHear(agent[r], n) => WillHear(a, n)
    BY <1>1, <1>4 DEF WillHear
<1> QED
    BY <1>1, <1>2, <1>3, <1>4, <1>5, <1>6, <1>7, RunsMove

(* The PUTs, the form and the restart. *)
LEMMA WritesHold ==
    ASSUME IssueInv, NEW w \in puts, Write(w) \/ WriteFails(w)
    PROVE  IssueInv'
<1>1. /\ PodInv /\ w \in Put /\ w.doc \in Documents /\ w.rev \in Nat /\ puts' = puts \ {w}
      /\ UNCHANGED <<issue, notes, agent, form, shots>> /\ (UNCHANGED hitches \/ Hitch)
    BY DEF IssueInv, PodInv, Put, Write, WriteFails, issueRows
<1>2. RowInv' /\ Heard'
    BY <1>1, HitchIs DEF IssueInv, RowInv, RevInv, Heard, WillHear
<1>3. ShotsInv'
    BY <1>1, ShotsStay
<1>4. \A d : Latest(d)' = Latest(d)
    BY <1>1 DEF Latest
<1>5. PodInv'
    <2>1. CASE copy' = [copy EXCEPT ![w.doc] = w.rev] /\ UNCHANGED spoiled
        <3>1. /\ copy' \in [Documents -> Int] /\ copy'[w.doc] = w.rev
              /\ \A d \in Documents \ {w.doc} : copy'[d] = copy[d]
            BY <1>1, <2>1 DEF PodInv
        <3>2. ASSUME NEW d \in 0 .. Len(notes'), d \notin spoiled', ~Waits(d)'
              PROVE  copy'[d] = Latest(d)'
            <4>1. d \in Documents
                BY <1>1, IssueFacts DEF Documents
            <4>2. CASE w.doc = d
                BY <1>1, <1>4, <2>1, <3>1, <3>2, <4>2 DEF PodInv
            <4>3. CASE w.doc # d
                <5>1. ~Waits(d)
                    BY <1>1, <3>2, <4>3 DEF Waits
                <5> QED
                    BY <1>1, <1>4, <2>1, <3>1, <3>2, <4>1, <4>3, <5>1 DEF PodInv
            <4> QED
                BY <4>2, <4>3
        <3>3. \A d \in Documents : copy'[d] <= Latest(d)'
            BY <1>1, <1>4, <3>1 DEF PodInv
        <3>4. /\ \A v \in puts' : v.rev <= Latest(v.doc)'
              /\ \A d \in 0 .. Len(notes') : d \notin spoiled' =>
                    \A v \in puts' : v.doc = d => v.rev = Latest(d)'
            BY <1>1, <1>4, <2>1 DEF PodInv
        <3> QED
            BY <1>1, <2>1, <3>1, <3>2, <3>3, <3>4 DEF PodInv
    <2>2. CASE UNCHANGED copy /\ spoiled' = spoiled \cup {w.doc}
        <3>1. ASSUME NEW d \in 0 .. Len(notes'), d \notin spoiled', ~Waits(d)'
              PROVE  copy'[d] = Latest(d)'
            <4>1. ~Waits(d) /\ d \notin spoiled
                BY <1>1, <2>2, <3>1 DEF Waits
            <4> QED
                BY <1>1, <1>4, <2>2, <4>1 DEF PodInv
        <3>2. /\ \A v \in puts' : v.rev <= Latest(v.doc)'
              /\ \A d \in 0 .. Len(notes') : d \notin spoiled' =>
                    \A v \in puts' : v.doc = d => v.rev = Latest(d)'
            BY <1>1, <1>4, <2>2 DEF PodInv
        <3>3. /\ spoiled' \in SUBSET Documents /\ copy' \in [Documents -> Int]
              /\ \A d \in Documents : copy'[d] <= Latest(d)'
            BY <1>1, <1>4, <2>2 DEF PodInv
        <3> QED
            BY <1>1, <3>1, <3>2, <3>3 DEF PodInv
    <2> QED
        BY <2>1, <2>2 DEF Write, WriteFails
<1> QED
    BY <1>1, <1>2, <1>3, <1>5 DEF IssueInv, RunInv

LEMMA FormHolds ==
    ASSUME IssueInv, WriteNote \/ NoteAnswered \/ AnswerIsLost
    PROVE  IssueInv'
<1>1. /\ UNCHANGED <<issue, notes, agent, puts, copy, spoiled, shots>>
      /\ form' \in {"empty", "written", "sent"} /\ (UNCHANGED hitches \/ Hitch)
    BY DEF WriteNote, NoteAnswered, AnswerIsLost, issueRows, mirror
<1>2. RowInv' /\ Heard'
    BY <1>1, HitchIs DEF IssueInv, RowInv, RevInv, Heard, WillHear
<1>3. ShotsInv'
    BY <1>1, ShotsStay
<1>4. PodInv'
    BY <1>1 DEF IssueInv, PodInv, Latest, Waits
<1> QED
    BY <1>1, <1>2, <1>3, <1>4 DEF IssueInv, RunInv

LEMMA RestartHolds ==
    ASSUME IssueInv, RestartBridge
    PROVE  IssueInv'
<1>1. /\ Hitch /\ puts' = {} /\ spoiled' = spoiled \cup {w.doc : w \in puts}
      /\ UNCHANGED <<issue, notes, copy, form, shots>>
      /\ agent' = [r \in AgentRuns |-> IF agent[r].pc = "none" THEN agent[r]
                                       ELSE [agent[r] EXCEPT !.pc = "over"]]
    BY DEF RestartBridge, issueRows
<1>2. RowInv' /\ Heard' /\ ShotsInv'
    BY <1>1, HitchIs, ShotsStay DEF IssueInv, RowInv, RevInv, Heard
<1>3. PodInv'
    <2>0. PodInv /\ \A d : Latest(d)' = Latest(d)
        BY <1>1 DEF IssueInv, Latest
    <2>1. ASSUME NEW d \in 0 .. Len(notes'), d \notin spoiled' PROVE copy'[d] = Latest(d)'
        <3>1. ~Waits(d) /\ d \notin spoiled
            BY <1>1, <2>1 DEF Waits
        <3> QED
            BY <1>1, <2>0, <3>1 DEF PodInv
    <2>2. spoiled' \in SUBSET Documents
        BY <1>1, <2>0 DEF PodInv, Put
    <2> QED
        BY <1>1, <2>0, <2>1, <2>2 DEF PodInv
<1>4. ASSUME NEW r \in AgentRuns PROVE agent'[r] \in Run /\ RunInv(agent[r])'
    <2>1. PICK a \in Run : a = agent[r] /\ RunInv(a)
        BY IssueFacts
    <2> DEFINE b == IF a.pc = "none" THEN a ELSE [a EXCEPT !.pc = "over"]
    <2>2. agent'[r] = b
        BY <1>1, <2>1
    <2>3. b \in Run /\ b.note = a.note /\ b.heard = a.heard /\ b.ends = a.ends
          /\ b.pc = (IF a.pc = "none" THEN "none" ELSE "over")
        BY DEF Run
    <2> HIDE DEF b
    <2>4. PICK c \in Run : c = b
        BY <2>3
    <2>5. RunInv(c)'
        BY <1>1, <2>1, <2>3, <2>4 DEF RunInv
    <2> QED
        BY <2>2, <2>3, <2>4, <2>5
<1>5. agent' \in [AgentRuns -> Run]
    BY <1>1, <1>4
<1> QED
    BY <1>2, <1>3, <1>4, <1>5 DEF IssueInv

LEMMA IssueInitHolds ==
    ASSUME IssuesInit
    PROVE  IssueInv
<1>1. /\ issue = [status |-> "open", rev |-> 0, edited |-> 0] /\ notes = <<>> /\ form = "empty" /\ hitches = 0
      /\ agent = [r \in AgentRuns |-> IF r = 1 THEN [NotRun EXCEPT !.pc = "gate"] ELSE NotRun]
      /\ puts = {[doc |-> 0, rev |-> 0]} /\ copy = [d \in Documents |-> -1] /\ spoiled = {}
      /\ shots = [r \in AgentRuns |-> {}]
    BY DEF IssuesInit
<1>2. /\ MaxNotes \in Nat /\ MaxEdits \in Nat /\ MaxHitches \in Nat
      /\ 0 \in 0 .. MaxNotes /\ 0 \in 0 .. MaxEdits + MaxNotes /\ 0 \in 0 .. MaxHitches /\ 0 \in Documents
    BY IssueNumbersAssumption DEF Documents
<1>3. Len(notes) = 0 /\ DOMAIN notes = {} /\ notes \in Seq(AgentRuns \cup {0})
    BY <1>1
<1>4. RowInv /\ Heard
    <2>1. issue \in Issue /\ issue.rev = 0 /\ issue.edited = 0
        BY <1>1, <1>2 DEF Issue, Statuses
    <2> QED
        BY <1>1, <1>2, <1>3, <2>1 DEF RowInv, RevInv, Heard
<1>5. ShotsInv
    BY <1>1 DEF ShotsInv, ShotInv
<1>6. PodInv
    <2>1. \A d \in Documents : Latest(d) = 0 /\ copy[d] = -1
        BY <1>1 DEF Latest
    <2>2. \A w \in puts : w \in Put /\ w.doc = 0 /\ w.rev = 0 /\ Waits(0)
        BY <1>1, <1>2 DEF Put, Waits
    <2>3. 0 .. Len(notes) = {0} /\ Latest(0) = 0
        BY <1>1, <1>3 DEF Latest
    <2>4. Waits(0)
        BY <1>1, <2>2
    <2>5. copy \in [Documents -> Int] /\ spoiled \in SUBSET Documents
        BY <1>1
    <2> QED
        BY <2>1, <2>2, <2>3, <2>4, <2>5 DEF PodInv
<1>7. ASSUME NEW r \in AgentRuns PROVE agent[r] \in Run /\ RunInv(agent[r])
    <2>1. NotRun \in Run /\ NotRun.note = 0 /\ NotRun.heard = 0 /\ NotRun.ends = "running"
          /\ NotRun.pc = "none"
        BY <1>2 DEF NotRun, Run
    <2> DEFINE b == [NotRun EXCEPT !.pc = "gate"]
    <2>2. b \in Run /\ b.note = 0 /\ b.heard = 0 /\ b.ends = "running" /\ b.pc = "gate"
        BY <1>2 DEF NotRun, Run
    <2>3. agent[r] = IF r = 1 THEN b ELSE NotRun
        BY <1>1
    <2> HIDE DEF b
    <2>4. agent[r] \in Run /\ agent[r].note = 0 /\ agent[r].heard = 0
          /\ agent[r].ends = "running"
        BY <2>1, <2>2, <2>3
    <2> QED
        BY <1>3, <2>4 DEF RunInv
<1>8. agent \in [AgentRuns -> Run]
    <2>1. agent = [r \in AgentRuns |-> agent[r]]
        BY <1>1
    <2> QED
        BY <1>7, <2>1
<1> QED
    BY <1>4, <1>5, <1>6, <1>7, <1>8 DEF IssueInv

LEMMA IssueNextHolds ==
    ASSUME IssueInv, [IssuesNext]_issueVars
    PROVE  IssueInv'
<1>1. CASE \E w \in puts : Write(w) \/ WriteFails(w)
    BY <1>1, WritesHold
<1>2. CASE Toggle
    BY <1>2, EditHolds DEF Toggle, Patch
<1>3. CASE MergeCloses
    <2>1. "closed" \in Statuses
        BY DEF Statuses
    <2> QED
        BY <1>3, <2>1, EditHolds DEF MergeCloses
<1>4. CASE WriteNote \/ NoteAnswered \/ AnswerIsLost
    BY <1>4, FormHolds
<1>5. ASSUME NEW r \in AgentRuns,
             \/ PostNote(r) \/ Rerun(r) \/ GateRefuses(r) \/ ReadNotes(r) \/ WorkEnds(r)
             \/ Upload(r) \/ ScreenshotsOnly(r) \/ AnswerNote(r) \/ AnswerPull(r)
      PROVE  IssueInv'
    BY <1>5, PostNoteHolds, RerunHolds, ReadNotesHolds, CoderHolds, AnswerNoteHolds
<1>6. CASE RestartBridge
    BY <1>6, RestartHolds
<1>7. CASE UNCHANGED issueVars
    <2>1. UNCHANGED <<issue, notes, agent, puts, copy, spoiled, form, shots, hitches>>
        BY <1>7 DEF issueVars, issueRows, mirror
    <2>2. RowInv' /\ PodInv' /\ ShotsInv' /\ Heard'
        BY <2>1 DEF IssueInv, RowInv, RevInv, PodInv, Waits, Latest, ShotsInv, ShotInv, Heard, WillHear
    <2>3. agent' \in [AgentRuns -> Run] /\ \A r \in AgentRuns : RunInv(agent[r])'
        BY <2>1 DEF IssueInv, RunInv
    <2> QED
        BY <2>2, <2>3 DEF IssueInv
<1> QED
    BY <1>1, <1>2, <1>3, <1>4, <1>5, <1>6, <1>7 DEF IssuesNext

LEMMA IssueTyped ==
    ASSUME IssueInv
    PROVE  IssuesTypeOK
<1>1. \A d \in Documents : copy[d] <= Latest(d)
    BY DEF IssueInv, PodInv
<1> QED
    BY <1>1 DEF IssueInv, RowInv, RevInv, RunInv, PodInv, ShotsInv, IssuesTypeOK, Issue, Run

(* What the conversation, the pod and the shots owe to the invariant. *)
LEMMA IssuePromises ==
    ASSUME IssueInv
    PROVE  ConversationIsKept /\ PodKeepsUp
<1>1. \A r \in AgentRuns : agent[r].heard > 0 => agent[r].heard >= agent[r].note
    BY DEF IssueInv, RunInv
<1>2. ASSUME hitches = 0, \A r \in AgentRuns : agent[r].pc \in {"none", "over"},
             NEW n \in DOMAIN notes, notes[n] = 0
      PROVE  \E r \in AgentRuns : agent[r].heard >= n
    BY <1>2 DEF IssueInv, Heard, WillHear
<1>3. EveryNoteIsHeard
    BY <1>1, <1>2 DEF EveryNoteIsHeard
<1>4. AgentsDoNotTalkToThemselves
    BY DEF IssueInv, RunInv, AgentsDoNotTalkToThemselves
<1>5. PodFollows
    <2>1. \A d \in 0 .. Len(notes) : ~Waits(d) /\ d \notin spoiled => copy[d] = Latest(d)
        BY DEF IssueInv, PodInv
    <2>2. issue.rev - Latest(0) \in 0 .. Len(notes)
        BY IssueFacts DEF Latest, RevInv
    <2> QED
        BY <2>1, <2>2 DEF PodFollows
<1>6. ShotsSurvive
    <2> SUFFICES ASSUME NEW r \in AgentRuns, "made" \in shots[r], hitches < 2
                 PROVE  shots[r] \cap {"work", "host", "pod"} # {}
        BY DEF ShotsSurvive
    <2>1. ShotInv(shots[r]) /\ hitches \in Nat
        BY IssueFacts DEF IssueInv, ShotsInv
    <2> QED
        BY <2>1 DEF ShotInv
<1> QED
    BY <1>3, <1>4, <1>5, <1>6 DEF ConversationIsKept, PodKeepsUp

(* Whatever the owner edits, comments and runs again, whatever fails and    *)
(* whenever the bridge is restarted, rows, runs, the mirror and the shots   *)
(* stay of their types, and the pod is never ahead of the registry.         *)
THEOREM IssuesTypes == IssuesSpec => []IssuesTypeOK
<1>1. IssuesInit => IssueInv
    BY IssueInitHolds
<1>2. IssueInv /\ [IssuesNext]_issueVars => IssueInv'
    BY IssueNextHolds
<1>3. IssueInv => IssuesTypeOK
    BY IssueTyped
<1> QED
    BY <1>1, <1>2, <1>3, PTL DEF IssuesSpec

(* A run for a comment has that comment in its prompt, the agent is never   *)
(* started by a comment of its own, and once all is quiet and nothing went  *)
(* wrong no comment of the owner is in no prompt (comments/route.ts).       *)
THEOREM ConversationStaysWhole == IssuesSpec => []ConversationIsKept
<1>1. IssuesInit => IssueInv
    BY IssueInitHolds
<1>2. IssueInv /\ [IssuesNext]_issueVars => IssueInv'
    BY IssueNextHolds
<1>3. IssueInv => ConversationIsKept
    BY IssuePromises
<1> QED
    BY <1>1, <1>2, <1>3, PTL DEF IssuesSpec

(* The pod has every comment as it is and the issue as its last change made *)
(* it (behind in dcterms:modified by comments only), once no PUT is under   *)
(* way, of every document that nothing went wrong with; and no single failure loses the   *)
(* screenshots of a run (lib/solid/issues.ts, coder.ts).                    *)
THEOREM PodStaysUp == IssuesSpec => []PodKeepsUp
<1>1. IssuesInit => IssueInv
    BY IssueInitHolds
<1>2. IssueInv /\ [IssuesNext]_issueVars => IssueInv'
    BY IssueNextHolds
<1>3. IssueInv => PodKeepsUp
    BY IssuePromises
<1> QED
    BY <1>1, <1>2, <1>3, PTL DEF IssuesSpec

-----------------------------------------------------------------------------
(* Drafts.  Whoever is present in a room and has not come in late is among  *)
(* what a connection of his own in that room has tracked: so the close of   *)
(* the others leaves him, and that of his last one takes him out.  Who has  *)
(* come in late is among what all have tracked who were connected then.  A  *)
(* page that is ready has stored what it has.                               *)
Page == [at : {"closed", "loading", "ready"}, view : {"rich", "markdown"},
         md : SUBSET Words, touched : BOOLEAN]
Conn == [peer : Peers \cup {0}, room : Conns \cup {0}, owned : SUBSET Peers,
         edits : SUBSET Docs, cursor : SUBSET Peers,
         at : {"unused", "open", "dead", "closing", "gone"}]
Room == [doc : Docs, present : SUBSET Peers, late : SUBSET Peers]

ClientInv ==
    /\ doc \in [Peers -> Docs] /\ stored \in [Peers -> Docs] /\ page \in [Peers -> Page]
    /\ \A p \in Peers : page[p].at = "ready" => stored[p] = doc[p]
    /\ turns \in 0 .. MaxTurns /\ breaks \in 0 .. MaxBreaks

(* A connection in use has a page and a room, and rooms are named after     *)
(* connections that have been used.                                         *)
RelayTypes ==
    /\ room \in Conns \cup {0} /\ held \in [Conns -> Room] /\ conn \in [Conns -> Conn]
    /\ \A c \in Conns : conn[c].at # "unused" => conn[c].room # 0 /\ conn[c].peer # 0
    /\ \A b, c \in Conns : conn[b].room = c => conn[c].at # "unused"

OneEach == \A p \in Peers : \A b, c \in OpenOf(p) : b = c

Tracked(p, r) == \E c \in ConnsOf(r) : conn[c].peer = p /\ p \in conn[c].owned
Held(p, r)    == \E c \in ConnsOf(r) : p \in conn[c].owned
Presence      == \A r \in Conns : \A p \in held[r].present :
                    /\ p \notin held[r].late => Tracked(p, r)
                    /\ ConnsOf(r) # {} => Held(p, r)

RelayInv == RelayTypes /\ OneEach /\ Presence /\ RoomsAreDropped
DraftInv == ClientInv /\ RelayInv

LEMMA DraftFacts ==
    ASSUME ClientInv
    PROVE  /\ MaxTurns \in Nat /\ MaxBreaks \in Nat /\ turns \in Nat /\ breaks \in Nat
           /\ 0 \notin Peers /\ 0 \notin Conns
           /\ \A p \in Peers : doc[p] \in Docs /\ stored[p] \in Docs /\ page[p] \in Page
BY NumbersAssumption DEF ClientInv

(* What a document has can only be added to: its items, and the newest of   *)
(* the writes of its kind.                                                  *)
Grows(a, b) ==
    /\ a.ins \subseteq b.ins /\ a.del \subseteq b.del
    /\ ~Newer(a.kind, b.kind)

LEMMA KindFacts ==
    ASSUME NEW a \in Docs
    PROVE  /\ a.ins \in SUBSET Items /\ a.del \in SUBSET Items
           /\ a.kind \in [stamp : Nat, by : Peers \cup {0}, val : Kinds]
           /\ a.kind.stamp \in Nat /\ a.kind.by \in Nat /\ a.kind.by \in Peers \cup {0}
           /\ a.kind.val \in Kinds
<1>1. a.ins \in SUBSET Items /\ a.del \in SUBSET Items
      /\ a.kind \in [stamp : Nat, by : Peers \cup {0}, val : Kinds]
    BY DEF Docs
<1>2. a.kind.stamp \in Nat /\ a.kind.by \in Peers \cup {0} /\ a.kind.val \in Kinds
    BY <1>1
<1>3. Peers \subseteq Nat /\ 0 \in Nat
    BY NumbersAssumption
<1>4. a.kind.by \in Nat
    BY <1>2, <1>3, Zenon
<1> QED
    BY <1>1, <1>2, <1>4

LEMMA GrowsIsOrder ==
    ASSUME NEW a \in Docs, NEW b \in Docs, NEW c \in Docs
    PROVE  Grows(a, a) /\ (Grows(a, b) /\ Grows(b, c) => Grows(a, c))
BY KindFacts DEF Grows, Newer

(* The join has both, and it has no more than what both are in. *)
LEMMA JoinGrows ==
    ASSUME NEW a \in Docs, NEW b \in Docs
    PROVE  /\ Join(a, b) \in Docs
           /\ Grows(a, Join(a, b)) /\ Grows(b, Join(a, b))
           /\ Grows(a, b) => Join(a, b) = b
<1>1. PICK j : j = Join(a, b)
    OBVIOUS
<1>2. /\ j.ins = a.ins \cup b.ins /\ j.del = a.del \cup b.del
      /\ j.kind = IF Newer(a.kind, b.kind) THEN a.kind ELSE b.kind
    BY <1>1 DEF Join
<1>3. j \in Docs
    BY <1>1, KindFacts DEF Join, Docs
<1>4. Grows(a, j) /\ Grows(b, j)
    BY <1>2, KindFacts DEF Grows, Newer
<1>5. ASSUME Grows(a, b) PROVE Join(a, b) = b
    <2>1. b = [ins |-> b.ins, del |-> b.del, kind |-> b.kind]
        BY DEF Docs
    <2>2. /\ a.ins \cup b.ins = b.ins /\ a.del \cup b.del = b.del
          /\ ~Newer(a.kind, b.kind)
        BY <1>5 DEF Grows
    <2> QED
        BY <2>1, <2>2 DEF Join
<1> QED
    BY <1>1, <1>3, <1>4, <1>5

LEMMA KindIsSet ==
    ASSUME NEW p \in Peers, NEW d \in Docs, NEW val \in Kinds
    PROVE  SetKind(p, d, val) \in Docs /\ Grows(d, SetKind(p, d, val))
<1> DEFINE n == d.kind.stamp + 1
           k == [stamp |-> n, by |-> p, val |-> val]
           e == [d EXCEPT !.kind = k]
<1>1. n \in Nat /\ n > d.kind.stamp /\ d.kind.stamp \in Nat
    BY KindFacts
<1>2. SetKind(p, d, val) = e
    BY DEF SetKind
<1> HIDE DEF n
<1>3. k \in [stamp : Nat, by : Peers \cup {0}, val : Kinds] /\ k.stamp = n
    BY <1>1
<1> HIDE DEF k
<1>4. e \in Docs /\ e.ins = d.ins /\ e.del = d.del /\ e.kind = k
    BY <1>3 DEF Docs
<1> HIDE DEF e
<1>5. Grows(d, e)
    BY <1>1, <1>3, <1>4 DEF Grows, Newer
<1> QED
    BY <1>2, <1>4, <1>5

LEMMA KindIsPreset ==
    ASSUME ClientInv, NEW p \in Peers, NEW d \in Docs
    PROVE  PresetKind(p, d) \in Docs /\ Grows(d, PresetKind(p, d))
<1>1. Suggested(d) \in Kinds
    BY DEF Suggested, Kinds
<1>2. Grows(d, d)
    BY GrowsIsOrder
<1>3. SetKind(p, d, Suggested(d)) \in Docs /\ Grows(d, SetKind(p, d, Suggested(d)))
    BY <1>1, KindIsSet
<1> QED
    BY <1>2, <1>3 DEF PresetKind

-----------------------------------------------------------------------------
(* The composer's steps. *)
Kept == \A p \in Peers : Grows(stored[p], stored'[p])
WithinBounds == turns' \in 0 .. MaxTurns /\ breaks' \in 0 .. MaxBreaks

LEMMA StoredStays ==
    ASSUME ClientInv, UNCHANGED stored
    PROVE  Kept
BY GrowsIsOrder, DraftFacts DEF Kept

LEMMA SetDocHolds ==
    ASSUME ClientInv, NEW p \in Peers, NEW d \in Docs, Grows(doc[p], d), SetDoc(p, d),
           page' \in [Peers -> Page],
           \A q \in Peers : page'[q].at = "ready" => page[q].at = "ready",
           WithinBounds
    PROVE  ClientInv' /\ Kept
<1>1. /\ doc \in [Peers -> Docs] /\ stored \in [Peers -> Docs] /\ doc' = [doc EXCEPT ![p] = d]
      /\ stored' = IF page[p].at = "ready" THEN [stored EXCEPT ![p] = d] ELSE stored
      /\ \A q \in Peers : page[q].at = "ready" => stored[q] = doc[q]
    BY DEF ClientInv, SetDoc
<1>2. /\ doc' \in [Peers -> Docs] /\ stored' \in [Peers -> Docs]
      /\ \A q \in Peers : doc'[q] = IF q = p THEN d ELSE doc[q]
      /\ \A q \in Peers : stored'[q] = IF q = p /\ page[p].at = "ready" THEN d ELSE stored[q]
    BY <1>1
<1>3. ASSUME NEW q \in Peers, page'[q].at = "ready" PROVE stored'[q] = doc'[q]
    BY <1>1, <1>2, <1>3
<1>4. Kept
    <2> SUFFICES ASSUME NEW q \in Peers PROVE Grows(stored[q], stored'[q])
        BY DEF Kept
    <2>1. CASE q = p /\ page[p].at = "ready"
        BY <1>1, <1>2, <2>1
    <2>2. CASE ~(q = p /\ page[p].at = "ready")
        BY <1>2, <2>2, GrowsIsOrder, DraftFacts
    <2> QED
        BY <2>1, <2>2
<1> QED
    BY <1>2, <1>3, <1>4 DEF ClientInv, WithinBounds

LEMMA EditHasGrown ==
    ASSUME ClientInv, NEW p \in Peers, NEW d \in Docs, Grows(doc[p], d), Edit(p, d),
           page' \in [Peers -> Page],
           \A q \in Peers : page'[q].at = "ready" => page[q].at = "ready",
           WithinBounds
    PROVE  ClientInv' /\ Kept
<1>1. PICK e \in Docs : e = PresetKind(p, d)
    BY KindIsPreset
<1>2. Grows(d, e) /\ SetDoc(p, e) /\ doc[p] \in Docs
    BY <1>1, KindIsPreset, DraftFacts DEF Edit
<1>3. Grows(doc[p], e)
    BY <1>2, GrowsIsOrder
<1> QED
    BY <1>2, <1>3, SetDocHolds

(* One page turns, and the documents stay. *)
LEMMA PageTurns ==
    ASSUME ClientInv, NEW p \in Peers, NEW v \in Page, page' = [page EXCEPT ![p] = v],
           v.at = "ready" => page[p].at = "ready", UNCHANGED <<doc, stored>>, WithinBounds
    PROVE  ClientInv' /\ Kept
<1>1. /\ page' \in [Peers -> Page]
      /\ \A q \in Peers : page'[q].at = "ready" => page[q].at = "ready"
    BY DEF ClientInv
<1> QED
    BY <1>1, StoredStays DEF ClientInv, WithinBounds

LEMMA BoundsStay ==
    ASSUME ClientInv
    PROVE  /\ UNCHANGED bounds => WithinBounds
           /\ Break /\ UNCHANGED turns => WithinBounds
           /\ turns < MaxTurns /\ turns' = turns + 1 /\ UNCHANGED breaks => WithinBounds
BY DraftFacts DEF ClientInv, WithinBounds, bounds, Break

LEMMA ComposerOpens ==
    ASSUME ClientInv, NEW p \in Peers, OpenPage(p)
    PROVE  ClientInv' /\ Kept
<1> DEFINE v == [page[p] EXCEPT !.at = "loading"]
<1>1. page[p] \in Page /\ page' = [page EXCEPT ![p] = v] /\ UNCHANGED <<doc, stored>>
    BY DraftFacts DEF OpenPage
<1>2. v \in Page /\ v.at = "loading"
    BY <1>1 DEF Page
<1>3. WithinBounds
    BY BoundsStay DEF OpenPage
<1> QED
    BY <1>1, <1>2, <1>3, PageTurns

LEMMA LoadHolds ==
    ASSUME ClientInv, NEW p \in Peers, Load(p)
    PROVE  ClientInv' /\ Kept
<1> DEFINE v == [page[p] EXCEPT !.at = "ready"]
<1>1. PICK both \in Docs : both = Join(doc[p], stored[p])
    BY JoinGrows, DraftFacts
<1>2. PICK all \in Docs : all = PresetKind(p, both)
    BY KindIsPreset
<1>3. /\ page' = [page EXCEPT ![p] = v] /\ page[p] \in Page /\ stored[p] \in Docs
      /\ doc' = [doc EXCEPT ![p] = all] /\ stored' = [stored EXCEPT ![p] = all]
      /\ UNCHANGED bounds
    BY <1>1, <1>2, DraftFacts DEF Load, ClientInv
<1>4. v \in Page
    BY <1>3 DEF Page
<1>5. Grows(stored[p], both) /\ Grows(both, all)
    BY <1>1, <1>2, JoinGrows, KindIsPreset, DraftFacts
<1>6. Grows(stored[p], all)
    BY <1>3, <1>5, GrowsIsOrder
<1>7. WithinBounds
    BY <1>3, BoundsStay
<1> HIDE DEF v
<1>8. /\ doc \in [Peers -> Docs] /\ stored \in [Peers -> Docs] /\ page \in [Peers -> Page]
      /\ \A q \in Peers : page[q].at = "ready" => stored[q] = doc[q]
    BY DEF ClientInv
<1>9. /\ doc' \in [Peers -> Docs] /\ stored' \in [Peers -> Docs] /\ page' \in [Peers -> Page]
      /\ \A q \in Peers : page'[q].at = "ready" => stored'[q] = doc'[q]
    BY <1>3, <1>4, <1>8
<1>10. Kept
    <2> SUFFICES ASSUME NEW q \in Peers PROVE Grows(stored[q], stored'[q])
        BY DEF Kept
    <2>1. CASE q = p
        BY <1>3, <1>6, <1>8, <2>1
    <2>2. CASE q # p
        BY <1>3, <1>8, <2>2, GrowsIsOrder, DraftFacts
    <2> QED
        BY <2>1, <2>2
<1> QED
    BY <1>7, <1>9, <1>10 DEF ClientInv, WithinBounds

LEMMA ItemsFit ==
    ASSUME NEW d \in Docs, NEW i \in SUBSET Items, NEW x \in SUBSET Items
    PROVE  LET e == [d EXCEPT !.ins = @ \cup i, !.del = @ \cup x]
           IN  e \in Docs /\ Grows(d, e)
<1> DEFINE e == [d EXCEPT !.ins = @ \cup i, !.del = @ \cup x]
<1>1. d.ins \in SUBSET Items /\ d.del \in SUBSET Items
    BY KindFacts
<1>2. e \in Docs /\ e.ins = d.ins \cup i /\ e.del = d.del \cup x /\ e.kind = d.kind
    BY <1>1 DEF Docs
<1> HIDE DEF e
<1>3. Grows(d, e)
    BY <1>2, KindFacts DEF Grows, Newer
<1> QED
    BY <1>2, <1>3 DEF e

LEMMA TypeHolds ==
    ASSUME ClientInv, NEW p \in Peers, NEW w \in Words, Type(p, w)
    PROVE  ClientInv' /\ Kept
<1>1. doc[p] \in Docs
    BY DraftFacts
<1>2. PICK e : e = [doc[p] EXCEPT !.ins = @ \cup {<<w, 0>>}]
    OBVIOUS
<1>3. {<<w, 0>>} \in SUBSET Items
    BY DraftFacts DEF Items
<1>4. doc[p].ins \in SUBSET Items
    BY <1>1, KindFacts
<1>5. /\ e \in Docs /\ e.ins = doc[p].ins \cup {<<w, 0>>} /\ e.del = doc[p].del
      /\ e.kind = doc[p].kind
    BY <1>1, <1>2, <1>3, <1>4 DEF Docs
<1>6. Grows(doc[p], e)
    BY <1>1, <1>5, KindFacts DEF Grows, Newer
<1>7. Edit(p, e) /\ UNCHANGED <<page, bounds>>
    BY <1>2 DEF Type
<1>8. page' \in [Peers -> Page] /\ WithinBounds
      /\ \A q \in Peers : page'[q].at = "ready" => page[q].at = "ready"
    BY <1>7, BoundsStay DEF ClientInv
<1> QED
    BY <1>5, <1>6, <1>7, <1>8, EditHasGrown

LEMMA PickKindHolds ==
    ASSUME ClientInv, NEW p \in Peers, NEW k \in Kinds, PickKind(p, k)
    PROVE  ClientInv' /\ Kept
<1> DEFINE v == [page[p] EXCEPT !.touched = TRUE]
<1>1. PICK d \in Docs : d = SetKind(p, doc[p], k)
    BY KindIsSet, DraftFacts
<1>2. Grows(doc[p], d)
    BY <1>1, KindIsSet, DraftFacts
<1>3. SetDoc(p, d) /\ page' = [page EXCEPT ![p] = v] /\ page[p] \in Page
    BY <1>1, DraftFacts DEF PickKind
<1>4. v \in Page /\ v.at = page[p].at
    BY <1>3 DEF Page
<1> HIDE DEF v
<1>5. page' \in [Peers -> Page]
      /\ \A q \in Peers : page'[q].at = "ready" => page[q].at = "ready"
    BY <1>3, <1>4 DEF ClientInv
<1>6. WithinBounds
    BY BoundsStay DEF PickKind
<1> QED
    BY <1>2, <1>3, <1>5, <1>6, SetDocHolds

LEMMA TextIsWords ==
    ASSUME NEW d \in Docs
    PROVE  Text(d) \in SUBSET Words
BY KindFacts DEF Text, Visible, Items

LEMMA MarkdownHolds ==
    ASSUME ClientInv, NEW p \in Peers,
           ToMarkdown(p) \/ \E w \in Words : TypeMarkdown(p, w)
    PROVE  ClientInv' /\ Kept
<1>1. page[p] \in Page /\ doc[p] \in Docs
    BY DraftFacts
<1>2. UNCHANGED <<doc, stored, bounds>>
    BY DEF ToMarkdown, TypeMarkdown
<1>3. CASE ToMarkdown(p)
    <2> DEFINE v == [page[p] EXCEPT !.view = "markdown", !.md = Text(doc[p])]
    <2>1. page' = [page EXCEPT ![p] = v]
        BY <1>1, <1>3 DEF ToMarkdown, ClientInv
    <2>2. v \in Page /\ v.at = page[p].at
        BY <1>1, TextIsWords DEF Page
    <2> HIDE DEF v
    <2> QED
        BY <1>2, <2>1, <2>2, PageTurns, BoundsStay
<1>4. ASSUME NEW w \in Words, TypeMarkdown(p, w)
      PROVE  ClientInv' /\ Kept
    <2> DEFINE v == [page[p] EXCEPT !.md = @ \cup {w}]
    <2>1. page' = [page EXCEPT ![p] = v]
        BY <1>1, <1>4 DEF TypeMarkdown, ClientInv
    <2>2. v \in Page /\ v.at = page[p].at
        BY <1>1 DEF Page
    <2> HIDE DEF v
    <2> QED
        BY <1>2, <2>1, <2>2, PageTurns, BoundsStay
<1> QED
    BY <1>3, <1>4

LEMMA ToRichHolds ==
    ASSUME ClientInv, NEW p \in Peers, ToRich(p)
    PROVE  ClientInv' /\ Kept
<1> DEFINE n == turns + 1
           i == {<<w, n>> : w \in page[p].md \ Text(doc[p])}
           x == {z \in Visible(doc[p]) : z[1] \notin page[p].md}
           v == [page[p] EXCEPT !.view = "rich", !.md = {}]
<1>1. page[p] \in Page /\ doc[p] \in Docs /\ page[p].md \in SUBSET Words
    BY DraftFacts DEF Page
<1>2. n \in 0 .. MaxTurns /\ turns < MaxTurns /\ turns' = n /\ UNCHANGED breaks
    BY DraftFacts DEF ToRich
<1>3. i \in SUBSET Items /\ x \in SUBSET Items
    BY <1>1, <1>2, KindFacts DEF Items, Visible
<1>4. PICK e : e = [doc[p] EXCEPT !.ins = @ \cup i, !.del = @ \cup x]
    OBVIOUS
<1>5. Edit(p, e) /\ page' = [page EXCEPT ![p] = v]
    BY <1>1, <1>4 DEF ToRich, ClientInv
<1>6. v \in Page /\ v.at = page[p].at
    BY <1>1 DEF Page
<1> HIDE DEF v, i, x, n
<1>7. e \in Docs /\ Grows(doc[p], e)
    BY <1>1, <1>3, <1>4, ItemsFit
<1>8. page' \in [Peers -> Page]
      /\ \A q \in Peers : page'[q].at = "ready" => page[q].at = "ready"
    BY <1>5, <1>6 DEF ClientInv
<1>9. WithinBounds
    BY <1>2, BoundsStay DEF n
<1> QED
    BY <1>5, <1>7, <1>8, <1>9, EditHasGrown

LEMMA LeavesHold ==
    ASSUME ClientInv, NEW p \in Peers, Leave(p)
    PROVE  ClientInv' /\ Kept
<1>1. /\ page' = [page EXCEPT ![p] = ClosedPage] /\ doc' = [doc EXCEPT ![p] = Empty]
      /\ UNCHANGED stored /\ Break /\ UNCHANGED turns
    BY DEF Leave
<1>2. ClosedPage \in Page /\ ClosedPage.at = "closed"
    BY DEF ClosedPage, Page
<1>3. Empty \in Docs
    <2>1. [stamp |-> 0, by |-> 0, val |-> "issue"] \in [stamp : Nat, by : Peers \cup {0}, val : Kinds]
        BY DEF Kinds
    <2> QED
        BY <2>1 DEF Empty, Docs
<1>4. /\ doc' \in [Peers -> Docs] /\ page' \in [Peers -> Page]
      /\ \A q \in Peers : page'[q].at = "ready" => stored'[q] = doc'[q]
    BY <1>1, <1>2, <1>3 DEF ClientInv
<1> QED
    BY <1>1, <1>4, BoundsStay, StoredStays DEF ClientInv, WithinBounds

-----------------------------------------------------------------------------
(* The relay's steps.  Where a connection is, and of whom, never changes    *)
(* while it is one of its room.                                             *)
LEMMA RelayFacts ==
    ASSUME RelayInv
    PROVE  /\ 0 \notin Peers /\ 0 \notin Conns
           /\ \A c \in Conns : conn[c] \in Conn /\ held[c] \in Room
           /\ \A c \in Conns : conn[c].at # "unused" => conn[c].room \in Conns /\ conn[c].peer \in Peers
           /\ \A r \in Conns : /\ held[r].present \in SUBSET Peers /\ held[r].late \in SUBSET Peers
                               /\ held[r].doc \in Docs
           /\ \A c \in Conns : /\ conn[c].owned \in SUBSET Peers /\ conn[c].cursor \in SUBSET Peers
                               /\ conn[c].edits \in SUBSET Docs
           /\ \A c \in Conns : conn[c].room \in Conns \cup {0} /\ conn[c].peer \in Peers \cup {0}
<1>1. /\ held \in [Conns -> Room] /\ conn \in [Conns -> Conn]
      /\ \A c \in Conns : conn[c].at # "unused" => conn[c].room # 0 /\ conn[c].peer # 0
    BY DEF RelayInv, RelayTypes
<1>2. \A c \in Conns : conn[c] \in Conn /\ held[c] \in Room
    BY <1>1
<1>3. \A c \in Conns : /\ conn[c].owned \in SUBSET Peers /\ conn[c].cursor \in SUBSET Peers
                       /\ conn[c].edits \in SUBSET Docs
                       /\ conn[c].room \in Conns \cup {0} /\ conn[c].peer \in Peers \cup {0}
    BY <1>2 DEF Conn
<1>4. \A c \in Conns : /\ held[c].present \in SUBSET Peers /\ held[c].late \in SUBSET Peers
                       /\ held[c].doc \in Docs
    BY <1>2 DEF Room
<1> QED
    BY <1>1, <1>2, <1>3, <1>4, NumbersAssumption

LEMMA EmptyRoom ==
    NoRoom \in Room /\ NoRoom.present = {} /\ NoRoom.late = {}
<1>1. [stamp |-> 0, by |-> 0, val |-> "issue"] \in [stamp : Nat, by : Peers \cup {0}, val : Kinds]
    BY DEF Kinds
<1> QED
    BY <1>1 DEF NoRoom, Room, Empty, Docs

LEMMA UnusedIsConn ==
    /\ Unused \in Conn /\ Unused.at = "unused" /\ Unused.room = 0 /\ Unused.peer = 0
    /\ Unused.owned = {}
BY DEF Unused, Conn

(* A connection of a page that has none: into the room, or the first of one. *)
LEMMA ConnectHolds ==
    ASSUME RelayInv, NEW p \in Peers, NEW c \in Conns, Connect(p, c)
    PROVE  RelayInv'
<1>1. /\ OpenOf(p) = {} /\ conn[c].at = "unused" /\ UNCHANGED held
      /\ room' = IF room = 0 THEN c ELSE room
      /\ conn' = [conn EXCEPT ![c] = [Unused EXCEPT !.peer = p, !.room = room', !.at = "open"]]
    BY DEF Connect
<1>2. room' \in Conns /\ room' # 0 /\ room' \in Conns \cup {0}
    BY <1>1, RelayFacts DEF RelayInv, RelayTypes
<1>3. PICK k \in Conn : /\ k = [Unused EXCEPT !.peer = p, !.room = room', !.at = "open"]
                        /\ k.peer = p /\ k.room = room' /\ k.at = "open"
    <2>1. PICK q \in Conns \cup {0} : q = room'
        BY <1>2
    <2> DEFINE v == [Unused EXCEPT !.peer = p, !.room = q, !.at = "open"]
    <2>2. v \in Conn /\ v.peer = p /\ v.room = q /\ v.at = "open"
        BY <2>1, UnusedIsConn DEF Conn
    <2> QED
        BY <2>1, <2>2
<1>4. conn' = [conn EXCEPT ![c] = k]
    BY <1>1, <1>3
<1>5. /\ conn' \in [Conns -> Conn] /\ conn'[c] = k
      /\ \A b \in Conns \ {c} : conn'[b] = conn[b]
    BY <1>4 DEF RelayInv, RelayTypes
<1>6. RelayTypes'
    <2>1. ASSUME NEW b \in Conns PROVE conn'[b].room = room' \/ conn'[b].room = conn[b].room
        BY <1>3, <1>5
    <2>2. conn'[room'].at # "unused"
        <3>1. CASE room = 0
            BY <1>1, <1>3, <1>5, <3>1
        <3>2. CASE room # 0
            <4>1. room \in Conns /\ ConnsOf(room) # {} /\ room' = room
                BY <1>1, <3>2 DEF RelayInv, RelayTypes, RoomsAreDropped
            <4>2. conn[room].at # "unused"
                BY <4>1 DEF RelayInv, RelayTypes, ConnsOf
            <4> QED
                BY <1>1, <1>5, <4>1, <4>2
        <3> QED
            BY <3>1, <3>2
    <2>3. \A b \in Conns : conn[b].at # "unused" => conn'[b].at # "unused"
        BY <1>1, <1>5
    <2>4. \A b, d \in Conns : conn'[b].room = d => conn'[d].at # "unused"
        BY <2>1, <2>2, <2>3 DEF RelayInv, RelayTypes
    <2>5. \A b \in Conns : conn'[b].at # "unused" => conn'[b].room # 0 /\ conn'[b].peer # 0
        BY <1>2, <1>3, <1>5, RelayFacts DEF RelayInv, RelayTypes
    <2>6. held' \in [Conns -> Room]
        BY <1>1 DEF RelayInv, RelayTypes
    <2> QED
        BY <1>2, <1>5, <2>4, <2>5, <2>6 DEF RelayTypes
<1>7. OneEach'
    <2>1. \A q \in Peers : OpenOf(q)' = IF q = p THEN {c} ELSE OpenOf(q)
        BY <1>1, <1>3, <1>5 DEF OpenOf
    <2> QED
        BY <2>1 DEF RelayInv, OneEach
<1>8. /\ \A r \in Conns : ConnsOf(r)' = IF r = room' THEN ConnsOf(r) \cup {c} ELSE ConnsOf(r)
      /\ \A r \in Conns : c \notin ConnsOf(r)
    BY <1>1, <1>3, <1>5 DEF ConnsOf
<1>9. \A r \in Conns : SocketsOf(r) \subseteq SocketsOf(r)'
    BY <1>1, <1>5 DEF SocketsOf
<1>10. ASSUME NEW r \in Conns, NEW b \in ConnsOf(r)
       PROVE  b \in ConnsOf(r)' /\ conn'[b] = conn[b]
    <2>1. b \in Conns /\ b # c
        BY <1>8 DEF ConnsOf
    <2> QED
        BY <1>5, <1>8, <2>1
<1>11. Presence'
    <2> SUFFICES ASSUME NEW r \in Conns, NEW q \in held'[r].present
                 PROVE  /\ q \notin held'[r].late => Tracked(q, r)'
                        /\ ConnsOf(r)' # {} => Held(q, r)'
        BY DEF Presence
    <2>1. q \in held[r].present /\ held'[r].late = held[r].late
        BY <1>1
    <2>2. Tracked(q, r) => Tracked(q, r)'
        BY <1>10 DEF Tracked
    <2>3. Held(q, r) => Held(q, r)'
        BY <1>10 DEF Held
    <2>4. ConnsOf(r)' # {} => ConnsOf(r) # {}
        <3>1. CASE r # room'
            BY <1>8, <3>1
        <3>2. CASE r = room' /\ room # 0
            BY <1>1, <3>2 DEF RelayInv, RoomsAreDropped
        <3>3. CASE r = room' /\ room = 0
            <4>1. r = c
                BY <1>1, <3>3
            <4>2. SocketsOf(c) = {}
                BY <1>1 DEF RelayInv, RelayTypes, SocketsOf
            <4> QED
                BY <2>1, <4>1, <4>2, EmptyRoom DEF RelayInv, RoomsAreDropped
        <3> QED
            BY <3>1, <3>2, <3>3
    <2> QED
        BY <2>1, <2>2, <2>3, <2>4 DEF RelayInv, Presence
<1>12. RoomsAreDropped'
    BY <1>1, <1>2, <1>8, <1>9 DEF RelayInv, RoomsAreDropped
<1> QED
    BY <1>6, <1>7, <1>11, <1>12 DEF RelayInv

(* A presence that comes in is tracked by all who are connected. *)
LEMMA SeenHolds ==
    ASSUME RelayInv, NEW p \in Peers, NEW c \in Conns,
           conn[c].at \in {"open", "dead", "closing"}, Seen(p, c), UNCHANGED room
    PROVE  RelayInv'
<1>1. PICK r \in Conns : r = conn[c].room
    BY RelayFacts
<1>2. PICK here \in BOOLEAN : here <=> \E b \in ConnsOf(r) : conn[b].peer = p
    OBVIOUS
<1>3. PICK late \in SUBSET Peers : late = IF here THEN held[r].late \ {p} ELSE held[r].late \cup {p}
    <2>1. held[r].late \in SUBSET Peers
        BY RelayFacts
    <2> QED
        BY <2>1
<1>4. PICK k \in Room : /\ k = [held[r] EXCEPT !.present = @ \cup {p}, !.late = late]
                        /\ k.present = held[r].present \cup {p} /\ k.late = late
    <2>1. held[r] \in Room /\ held[r].present \in SUBSET Peers
        BY RelayFacts
    <2>2. PICK s \in SUBSET Peers : s = held[r].present \cup {p}
        BY <2>1
    <2> DEFINE v == [held[r] EXCEPT !.present = s, !.late = late]
    <2>3. v \in Room /\ v.present = s /\ v.late = late
        BY <2>1 DEF Room
    <2> QED
        BY <2>2, <2>3
<1>5. /\ held' \in [Conns -> Room] /\ held'[r] = k
      /\ \A q \in Conns \ {r} : held'[q] = held[q]
    <2>1. held' = [held EXCEPT ![r] = k]
        BY <1>1, <1>2, <1>3, <1>4 DEF Seen, RelayInv, RelayTypes
    <2> QED
        BY <2>1 DEF RelayInv, RelayTypes
<1>6. ASSUME NEW b \in Conns
      PROVE  /\ conn'[b] \in Conn /\ conn'[b].peer = conn[b].peer /\ conn'[b].room = conn[b].room
             /\ conn'[b].at = conn[b].at /\ conn[b].owned \subseteq conn'[b].owned
             /\ b \in ConnsOf(r) => p \in conn'[b].owned
    <2>1. conn[b] \in Conn /\ conn[b].owned \in SUBSET Peers /\ conn[b].cursor \in SUBSET Peers
        BY RelayFacts
    <2>2. PICK o \in SUBSET Peers : o = IF b \in ConnsOf(r) THEN conn[b].owned \cup {p}
                                        ELSE conn[b].owned
        BY <2>1
    <2>3. PICK u \in SUBSET Peers : u = IF conn[b].room = r /\ b <= c THEN conn[b].cursor \ {p}
                                        ELSE conn[b].cursor
        BY <2>1
    <2> DEFINE v == [conn[b] EXCEPT !.owned = o, !.cursor = u]
    <2>4. conn'[b] = v
        BY <1>1, <2>2, <2>3 DEF Seen
    <2>5. /\ v \in Conn /\ v.peer = conn[b].peer /\ v.room = conn[b].room /\ v.at = conn[b].at
          /\ v.owned = o
        BY <2>1 DEF Conn
    <2> HIDE DEF v
    <2> QED
        BY <2>2, <2>4, <2>5
<1>7. conn' \in [Conns -> Conn]
    BY <1>6 DEF Seen
<1>8. /\ \A q : ConnsOf(q)' = ConnsOf(q)
      /\ \A q : OpenOf(q)' = OpenOf(q)
      /\ \A q : SocketsOf(q)' = SocketsOf(q)
    BY <1>6 DEF ConnsOf, OpenOf, SocketsOf
<1>9. RelayTypes' /\ OneEach'
    BY <1>5, <1>6, <1>7, <1>8 DEF RelayInv, RelayTypes, OneEach
<1>10. \A s : ConnsOf(s) \subseteq Conns
    BY DEF ConnsOf
<1>11. Presence'
    <2> SUFFICES ASSUME NEW s \in Conns, NEW q \in held'[s].present
                 PROVE  /\ q \notin held'[s].late => Tracked(q, s)'
                        /\ ConnsOf(s)' # {} => Held(q, s)'
        BY DEF Presence
    <2>1. (Tracked(q, s) => Tracked(q, s)') /\ (Held(q, s) => Held(q, s)')
        BY <1>6, <1>8, <1>10 DEF Tracked, Held
    <2>2. CASE s = r /\ q = p
        <3>1. ConnsOf(s)' # {} => Held(q, s)'
            BY <1>6, <1>8, <1>10, <2>2 DEF Held
        <3>2. q \notin held'[s].late => here
            BY <1>3, <1>4, <1>5, <2>2
        <3>3. here => Tracked(q, s)'
            BY <1>2, <1>6, <1>8, <1>10, <2>2 DEF Tracked
        <3> QED
            BY <3>1, <3>2, <3>3
    <2>3. CASE ~(s = r /\ q = p)
        <3>1. q \in held[s].present /\ (q \notin held'[s].late => q \notin held[s].late)
            <4>1. CASE s = r
                BY <1>3, <1>4, <1>5, <2>3, <4>1
            <4>2. CASE s # r
                BY <1>5, <4>2
            <4> QED
                BY <4>1, <4>2
        <3> QED
            BY <1>8, <2>1, <3>1 DEF RelayInv, Presence
    <2> QED
        BY <2>2, <2>3
<1>12. RoomsAreDropped'
    <2>1. c \in SocketsOf(r)
        BY <1>1 DEF SocketsOf
    <2>2. ASSUME NEW s \in Conns, SocketsOf(s)' = {} PROVE held'[s] = NoRoom
        BY <1>5, <1>8, <2>1, <2>2 DEF RelayInv, RoomsAreDropped
    <2> QED
        BY <1>8, <2>2 DEF RelayInv, RoomsAreDropped
<1> QED
    BY <1>9, <1>11, <1>12 DEF RelayInv

(* The document of a room that somebody is connected to, or was just now,   *)
(* takes an update; connections stay as they are, but for what is still on  *)
(* its way.                                                                 *)
LEMMA UpdateHolds ==
    ASSUME RelayInv, NEW r \in Conns, NEW d \in Docs, SocketsOf(r) # {},
           held' = [held EXCEPT ![r].doc = d], UNCHANGED room, conn' \in [Conns -> Conn],
           \A b \in Conns : /\ conn'[b].peer = conn[b].peer /\ conn'[b].room = conn[b].room
                            /\ conn'[b].at = conn[b].at /\ conn'[b].owned = conn[b].owned
    PROVE  RelayInv'
<1>1. PICK k \in Room : /\ k = [held[r] EXCEPT !.doc = d]
                        /\ k.present = held[r].present /\ k.late = held[r].late
    <2> DEFINE v == [held[r] EXCEPT !.doc = d]
    <2>1. held[r] \in Room
        BY RelayFacts
    <2>2. v \in Room /\ v.present = held[r].present /\ v.late = held[r].late
        BY <2>1 DEF Room
    <2> QED
        BY <2>2
<1>2. /\ held' \in [Conns -> Room] /\ held'[r] = k
      /\ \A q \in Conns \ {r} : held'[q] = held[q]
    BY <1>1 DEF RelayInv, RelayTypes
<1>3. /\ \A q : ConnsOf(q)' = ConnsOf(q)
      /\ \A q : OpenOf(q)' = OpenOf(q)
      /\ \A q : SocketsOf(q)' = SocketsOf(q)
    BY DEF ConnsOf, OpenOf, SocketsOf
<1>4. RelayTypes' /\ OneEach'
    BY <1>2, <1>3 DEF RelayInv, RelayTypes, OneEach
<1>5. \A s : ConnsOf(s) \subseteq Conns
    BY DEF ConnsOf
<1>6. Presence'
    <2>1. \A s \in Conns : held'[s].present = held[s].present /\ held'[s].late = held[s].late
        BY <1>1, <1>2
    <2>2. \A s, q : (Tracked(q, s) => Tracked(q, s)') /\ (Held(q, s) => Held(q, s)')
        BY <1>3, <1>5 DEF Tracked, Held
    <2> QED
        BY <1>3, <2>1, <2>2 DEF RelayInv, Presence
<1>7. RoomsAreDropped'
    BY <1>2, <1>3 DEF RelayInv, RoomsAreDropped
<1> QED
    BY <1>4, <1>6, <1>7 DEF RelayInv

LEMMA SyncHolds ==
    ASSUME ClientInv, RelayInv, NEW p \in Peers, Sync(p)
    PROVE  ClientInv' /\ Kept /\ RelayInv'
<1> DEFINE Joined(r, all) ==
             /\ held' = [held EXCEPT ![r].doc = all]
             /\ Edit(p, all) /\ UNCHANGED <<page, room, conn, bounds>>
<1>0. PICK c \in OpenOf(p) : Joined(conn[c].room, Join(held[conn[c].room].doc, doc[p]))
    BY DEF Sync
<1>1. PICK r \in Conns : r = conn[c].room /\ Joined(r, Join(held[r].doc, doc[p]))
    <2>1. conn[c].room \in Conns
        BY RelayFacts DEF OpenOf
    <2> QED
        BY <1>0, <2>1
<1>2. c \in SocketsOf(r)
    BY <1>1 DEF OpenOf, SocketsOf
<1>3. held[r].doc \in Docs /\ doc[p] \in Docs
    BY RelayFacts, DraftFacts
<1>4. PICK all \in Docs : all = Join(held[r].doc, doc[p])
    BY <1>3, JoinGrows
<1>5. Grows(doc[p], all)
    BY <1>3, <1>4, JoinGrows
<1>6. ClientInv' /\ Kept
    <2>1. page' \in [Peers -> Page] /\ WithinBounds
          /\ \A q \in Peers : page'[q].at = "ready" => page[q].at = "ready"
        BY <1>1, BoundsStay DEF ClientInv
    <2> QED
        BY <1>1, <1>4, <1>5, <2>1, EditHasGrown
<1>7. RelayInv'
    <2>1. conn' = conn /\ conn' \in [Conns -> Conn]
        BY <1>1 DEF RelayInv, RelayTypes
    <2> QED
        BY <1>1, <1>2, <1>4, <2>1, UpdateHolds
<1> QED
    BY <1>6, <1>7

(* The frames of a connection that is lost. *)
LEMMA LateHolds ==
    ASSUME RelayInv, NEW c \in Conns, LateEdit(c) \/ LateCursor(c)
    PROVE  RelayInv'
<1>1. CASE LateCursor(c)
    <2>1. PICK p \in conn[c].cursor : Seen(p, c)
        BY <1>1 DEF LateCursor
    <2>2. p \in Peers
        BY <2>1, RelayFacts
    <2> QED
        BY <1>1, <2>1, <2>2, SeenHolds DEF LateCursor
<1>2. CASE LateEdit(c)
    <2>1. PICK r \in Conns : r = conn[c].room
        BY <1>2, RelayFacts DEF LateEdit
    <2>2. PICK e \in conn[c].edits : held' = [held EXCEPT ![r].doc = Join(@, e)]
        BY <1>2, <2>1 DEF LateEdit
    <2>3. e \in Docs /\ held[r].doc \in Docs /\ held \in [Conns -> Room]
        BY RelayFacts DEF RelayInv, RelayTypes
    <2>4. PICK d \in Docs : d = Join(held[r].doc, e)
        BY <2>3, JoinGrows
    <2>5. held' = [held EXCEPT ![r].doc = d]
        BY <2>2, <2>3, <2>4
    <2>6. c \in SocketsOf(r)
        BY <1>2, <2>1 DEF LateEdit, SocketsOf
    <2> DEFINE v == [conn[c] EXCEPT !.edits = {}]
    <2>7. conn' = [conn EXCEPT ![c] = v] /\ conn[c] \in Conn /\ UNCHANGED room
        BY <1>2, RelayFacts DEF LateEdit, RelayInv, RelayTypes
    <2>8. /\ v \in Conn /\ v.peer = conn[c].peer /\ v.room = conn[c].room /\ v.at = conn[c].at
          /\ v.owned = conn[c].owned
        BY <2>7 DEF Conn
    <2> HIDE DEF v
    <2>9. conn' \in [Conns -> Conn] /\ conn'[c] = v /\ \A b \in Conns \ {c} : conn'[b] = conn[b]
        BY <2>7, <2>8 DEF RelayInv, RelayTypes
    <2>10. \A b \in Conns : /\ conn'[b].peer = conn[b].peer /\ conn'[b].room = conn[b].room
                            /\ conn'[b].at = conn[b].at /\ conn'[b].owned = conn[b].owned
        BY <2>8, <2>9
    <2> QED
        BY <2>4, <2>5, <2>6, <2>7, <2>9, <2>10, UpdateHolds
<1> QED
    BY <1>1, <1>2

LEMMA InFlightIsConn ==
    ASSUME ClientInv, RelayInv, NEW c \in Conns, conn[c].at = "open"
    PROVE  LET k == InFlight(c)
           IN  /\ k \in Conn /\ k.peer = conn[c].peer /\ k.room = conn[c].room
               /\ k.owned = conn[c].owned /\ k.at = "open"
<1>1. conn[c] \in Conn /\ conn[c].peer \in Peers /\ doc[conn[c].peer] \in Docs
    BY RelayFacts, DraftFacts
<1>2. PICK u \in SUBSET Peers : u = {conn[c].peer}
    BY <1>1
<1>3. PICK e \in SUBSET Docs :
         e = IF Join(held[conn[c].room].doc, doc[conn[c].peer]) = held[conn[c].room].doc
             THEN {} ELSE {doc[conn[c].peer]}
    BY <1>1
<1> DEFINE v == [conn[c] EXCEPT !.edits = e, !.cursor = u]
<1>4. InFlight(c) = v
    BY <1>2, <1>3 DEF InFlight
<1>5. /\ v \in Conn /\ v.peer = conn[c].peer /\ v.room = conn[c].room
      /\ v.owned = conn[c].owned /\ v.at = "open"
    BY <1>1 DEF Conn
<1> HIDE DEF v
<1> QED
    BY <1>4, <1>5

(* A connection dies, or none does. *)
LEMMA DeathHolds ==
    ASSUME ClientInv, RelayInv, NEW c \in Conns, conn[c].at = "open", Dies(c),
           UNCHANGED <<room, held>>
    PROVE  RelayInv'
<1>1. PICK k \in Conn : /\ k = InFlight(c) /\ k.peer = conn[c].peer /\ k.room = conn[c].room
                        /\ k.owned = conn[c].owned
    BY InFlightIsConn
<1> DEFINE v == [k EXCEPT !.at = "dead"]
<1>2. conn' = [conn EXCEPT ![c] = v]
    BY <1>1 DEF Dies
<1>3. /\ v \in Conn /\ v.peer = conn[c].peer /\ v.room = conn[c].room /\ v.owned = conn[c].owned
      /\ v.at = "dead"
    BY <1>1 DEF Conn
<1> HIDE DEF v
<1>4. /\ conn' \in [Conns -> Conn] /\ conn'[c] = v
      /\ \A b \in Conns \ {c} : conn'[b] = conn[b]
    BY <1>2, <1>3 DEF RelayInv, RelayTypes
<1>5. ASSUME NEW b \in Conns
      PROVE  /\ conn'[b].peer = conn[b].peer /\ conn'[b].room = conn[b].room
             /\ conn'[b].owned = conn[b].owned
             /\ conn'[b].at \in {"open", "dead"} <=> conn[b].at \in {"open", "dead"}
             /\ conn'[b].at = "open" => conn[b].at = "open"
             /\ conn'[b].at = "closing" <=> conn[b].at = "closing"
             /\ conn'[b].at = "unused" <=> conn[b].at = "unused"
    BY <1>3, <1>4
<1>6. (\A r : ConnsOf(r)' = ConnsOf(r)) /\ (\A r : SocketsOf(r)' = SocketsOf(r))
    BY <1>5 DEF ConnsOf, SocketsOf
<1>7. \A q : OpenOf(q)' \subseteq OpenOf(q)
    BY <1>5 DEF OpenOf
<1>8. RelayTypes' /\ OneEach'
    BY <1>4, <1>5, <1>7 DEF RelayInv, RelayTypes, OneEach
<1>9. Presence'
    <2>1. \A s : ConnsOf(s) \subseteq Conns
        BY DEF ConnsOf
    <2>2. \A s, q : (Tracked(q, s) => Tracked(q, s)') /\ (Held(q, s) => Held(q, s)')
        BY <1>5, <1>6, <2>1 DEF Tracked, Held
    <2> QED
        BY <1>6, <2>2 DEF RelayInv, Presence
<1>10. RoomsAreDropped'
    BY <1>6 DEF RelayInv, RoomsAreDropped
<1> QED
    BY <1>8, <1>9, <1>10 DEF RelayInv

LEMMA RemovedFacts ==
    ASSUME RelayInv, NEW r \in Conns, NEW ps \in SUBSET Peers
    PROVE  LET k == Removed(r, ps)
           IN  k \in Room /\ k.present = held[r].present \ ps /\ k.late = held[r].late \ ps
<1>1. held[r] \in Room /\ held[r].present \in SUBSET Peers /\ held[r].late \in SUBSET Peers
    BY RelayFacts
<1>2. PICK s \in SUBSET Peers : s = held[r].present \ ps
    BY <1>1
<1>3. PICK l \in SUBSET Peers : l = held[r].late \ ps
    BY <1>1
<1> DEFINE v == [held[r] EXCEPT !.present = s, !.late = l]
<1>4. Removed(r, ps) = v
    BY <1>2, <1>3 DEF Removed
<1>5. v \in Room /\ v.present = s /\ v.late = l
    BY <1>1 DEF Room
<1> HIDE DEF v
<1> QED
    BY <1>2, <1>3, <1>4, <1>5

(* Presences leave a room, of which at most one connection is taken out:    *)
(* who stays is not among what it had tracked.                              *)
LEMMA RemovalHolds ==
    ASSUME RelayInv, NEW r \in Conns, NEW ps \in SUBSET Peers, NEW out \in SUBSET Conns,
           \A q \in Conns : ConnsOf(q)' = ConnsOf(q) \ out,
           \A q \in Conns \ {r} : out \cap ConnsOf(q) = {} /\ held'[q] = held[q],
           \A b \in out : conn[b].owned \subseteq ps,
           \A b \in Conns \ out :
              /\ conn'[b].peer = conn[b].peer
              /\ conn'[b].owned = IF b \in ConnsOf(r) THEN conn[b].owned \ ps ELSE conn[b].owned,
           held'[r].present \subseteq held[r].present \ ps,
           held'[r].present \cap held[r].late \subseteq held'[r].late
    PROVE  Presence'
<1> SUFFICES ASSUME NEW s \in Conns, NEW q \in held'[s].present
             PROVE  /\ q \notin held'[s].late => Tracked(q, s)'
                    /\ ConnsOf(s)' # {} => Held(q, s)'
    BY DEF Presence
<1>1. /\ q \in held[s].present /\ (q \notin held'[s].late => q \notin held[s].late)
      /\ (s = r => q \notin ps)
    OBVIOUS
<1>2. ASSUME NEW b \in ConnsOf(s), q \in conn[b].owned
      PROVE  b \in ConnsOf(s)' /\ q \in conn'[b].owned /\ conn'[b].peer = conn[b].peer
    <2>1. b \in Conns
        BY DEF ConnsOf
    <2>2. b \notin out
        BY <1>1, <1>2
    <2>3. b \in ConnsOf(r) => s = r
        BY DEF ConnsOf
    <2> QED
        BY <1>1, <1>2, <2>1, <2>2, <2>3
<1>3. Tracked(q, s) => Tracked(q, s)'
    BY <1>2 DEF Tracked
<1>4. Held(q, s) => Held(q, s)'
    BY <1>2 DEF Held
<1>5. ConnsOf(s)' # {} => ConnsOf(s) # {}
    OBVIOUS
<1> QED
    BY <1>1, <1>3, <1>4, <1>5 DEF RelayInv, Presence

LEMMA ExpireHolds ==
    ASSUME RelayInv, NEW r \in Conns, NEW p \in Peers, Expire(r, p)
    PROVE  RelayInv'
<1>1. /\ held' = [held EXCEPT ![r] = Removed(r, {p})] /\ UNCHANGED room /\ ConnsOf(r) # {}
      /\ conn' = [b \in Conns |-> IF b \in ConnsOf(r) THEN [conn[b] EXCEPT !.owned = @ \ {p}]
                                  ELSE conn[b]]
    BY DEF Expire
<1>2. PICK ps \in SUBSET Peers : ps = {p}
    OBVIOUS
<1>3. PICK k \in Room : k = Removed(r, ps) /\ k.present = held[r].present \ ps
                        /\ k.late = held[r].late \ ps
    BY RemovedFacts
<1>4. /\ held' \in [Conns -> Room] /\ held'[r] = k
      /\ \A q \in Conns \ {r} : held'[q] = held[q]
    BY <1>1, <1>2, <1>3 DEF RelayInv, RelayTypes
<1>5. ASSUME NEW b \in Conns
      PROVE  /\ conn'[b] \in Conn /\ conn'[b].peer = conn[b].peer /\ conn'[b].room = conn[b].room
             /\ conn'[b].at = conn[b].at
             /\ conn'[b].owned = IF b \in ConnsOf(r) THEN conn[b].owned \ ps ELSE conn[b].owned
    <2>1. conn[b] \in Conn /\ conn[b].owned \in SUBSET Peers
        BY RelayFacts
    <2> DEFINE w == [conn[b] EXCEPT !.owned = @ \ ps]
    <2>2. /\ w \in Conn /\ w.peer = conn[b].peer /\ w.room = conn[b].room /\ w.at = conn[b].at
          /\ w.owned = conn[b].owned \ ps
        BY <2>1 DEF Conn
    <2>3. conn'[b] = IF b \in ConnsOf(r) THEN w ELSE conn[b]
        BY <1>1, <1>2
    <2> HIDE DEF w
    <2> QED
        BY <2>1, <2>2, <2>3
<1>6. conn' \in [Conns -> Conn]
    BY <1>1, <1>5
<1>7. /\ \A q : ConnsOf(q)' = ConnsOf(q)
      /\ \A q : OpenOf(q)' = OpenOf(q)
      /\ \A q : SocketsOf(q)' = SocketsOf(q)
    BY <1>5 DEF ConnsOf, OpenOf, SocketsOf
<1>8. RelayTypes' /\ OneEach'
    BY <1>1, <1>4, <1>5, <1>6, <1>7 DEF RelayInv, RelayTypes, OneEach
<1>9. Presence'
    <2>1. PICK out \in SUBSET Conns : out = {}
        OBVIOUS
    <2>2. /\ \A s \in Conns : ConnsOf(s)' = ConnsOf(s) \ out
          /\ \A s \in Conns \ {r} : out \cap ConnsOf(s) = {} /\ held'[s] = held[s]
          /\ \A b \in out : conn[b].owned \subseteq ps
        BY <1>4, <1>7, <2>1
    <2>3. \A b \in Conns \ out :
             /\ conn'[b].peer = conn[b].peer
             /\ conn'[b].owned = IF b \in ConnsOf(r) THEN conn[b].owned \ ps
                                 ELSE conn[b].owned
        BY <1>5, <2>1
    <2>4. /\ held'[r].present \subseteq held[r].present \ ps
          /\ held'[r].present \cap held[r].late \subseteq held'[r].late
        BY <1>3, <1>4
    <2> QED
        BY <2>2, <2>3, <2>4, RemovalHolds
<1>10. RoomsAreDropped'
    <2>1. SocketsOf(r) # {}
        BY <1>1 DEF ConnsOf, SocketsOf
    <2> QED
        BY <1>1, <1>4, <1>7, <2>1 DEF RelayInv, RoomsAreDropped
<1> QED
    BY <1>8, <1>9, <1>10 DEF RelayInv

(* The close of a connection: the last one of its room takes the room.      *)
LEMMA CloseHolds ==
    ASSUME RelayInv, NEW c \in Conns, NEW k \in Conn, conn[c].at \in {"open", "dead", "closing"},
           k.peer = conn[c].peer, k.room = conn[c].room, k.at \in {"closing", "gone"},
           CloseConn(c, k)
    PROVE  RelayInv'
<1>1. PICK r \in Conns : r = conn[c].room
    BY RelayFacts
<1>2. PICK owned \in SUBSET Peers : owned = conn[c].owned
    BY RelayFacts
<1>3. PICK last \in BOOLEAN : last <=> ConnsOf(r) \subseteq {c}
    OBVIOUS
<1>4. /\ conn' = [b \in Conns |->
                    IF b = c THEN k
                    ELSE IF b \in ConnsOf(r) THEN [conn[b] EXCEPT !.owned = @ \ owned]
                    ELSE conn[b]]
      /\ held' = [held EXCEPT ![r] = IF last THEN NoRoom ELSE Removed(r, owned)]
      /\ room' = IF last THEN 0 ELSE room
    BY <1>1, <1>2, <1>3 DEF CloseConn
<1>5. ASSUME NEW b \in Conns
      PROVE  /\ conn'[b] \in Conn /\ conn'[b].peer = conn[b].peer /\ conn'[b].room = conn[b].room
             /\ conn'[b].at = IF b = c THEN k.at ELSE conn[b].at
             /\ b # c => conn'[b].owned = IF b \in ConnsOf(r) THEN conn[b].owned \ owned
                                          ELSE conn[b].owned
    <2>1. conn[b] \in Conn /\ conn[b].owned \in SUBSET Peers
        BY RelayFacts
    <2> DEFINE w == [conn[b] EXCEPT !.owned = @ \ owned]
    <2>2. /\ w \in Conn /\ w.peer = conn[b].peer /\ w.room = conn[b].room /\ w.at = conn[b].at
          /\ w.owned = conn[b].owned \ owned
        BY <2>1 DEF Conn
    <2>3. conn'[b] = IF b = c THEN k ELSE IF b \in ConnsOf(r) THEN w ELSE conn[b]
        BY <1>4
    <2> HIDE DEF w
    <2> QED
        BY <2>1, <2>2, <2>3
<1>6. conn' \in [Conns -> Conn]
    BY <1>4, <1>5
<1>7. \A q \in Conns : ConnsOf(q)' = ConnsOf(q) \ {c}
    BY <1>5 DEF ConnsOf
<1>8. \A q : OpenOf(q)' \subseteq OpenOf(q)
    BY <1>5 DEF OpenOf
<1>9. \A q \in Conns \ {r} : c \notin ConnsOf(q) /\ SocketsOf(q)' = SocketsOf(q)
    BY <1>1, <1>5 DEF ConnsOf, SocketsOf
<1>10. PICK h \in Room : /\ h = IF last THEN NoRoom ELSE Removed(r, owned)
                         /\ last => h.present = {}
                         /\ ~last => h.present = held[r].present \ owned
                                     /\ h.late = held[r].late \ owned
    <2>1. CASE last
        BY <2>1, EmptyRoom
    <2>2. CASE ~last
        BY <2>2, RemovedFacts
    <2> QED
        BY <2>1, <2>2
<1>11. /\ held' \in [Conns -> Room] /\ held'[r] = h
       /\ \A q \in Conns \ {r} : held'[q] = held[q]
    BY <1>4, <1>10 DEF RelayInv, RelayTypes
<1>12. RelayTypes' /\ OneEach'
    <2>1. room' \in Conns \cup {0}
        BY <1>4 DEF RelayInv, RelayTypes
    <2>2. \A b \in Conns : conn'[b].at = "unused" <=> conn[b].at = "unused"
        BY <1>5
    <2>3. \A b \in Conns : conn'[b].at # "unused" => conn'[b].room # 0 /\ conn'[b].peer # 0
        BY <1>5, <2>2 DEF RelayInv, RelayTypes
    <2>4. ASSUME NEW b \in Conns, NEW d \in Conns, conn'[b].room = d
          PROVE  conn'[d].at # "unused"
        <3>1. conn[b].room = d
            BY <1>5, <2>4
        <3>2. conn[d].at # "unused"
            BY <3>1 DEF RelayInv, RelayTypes
        <3> QED
            BY <2>2, <3>2
    <2> QED
        BY <1>6, <1>8, <1>11, <2>1, <2>3, <2>4 DEF RelayInv, RelayTypes, OneEach
<1>13. Presence'
    <2>1. PICK out \in SUBSET Conns : out = {c}
        OBVIOUS
    <2>2. /\ \A q \in Conns : ConnsOf(q)' = ConnsOf(q) \ out
          /\ \A q \in Conns \ {r} : out \cap ConnsOf(q) = {} /\ held'[q] = held[q]
          /\ \A b \in out : conn[b].owned \subseteq owned
        BY <1>2, <1>7, <1>9, <1>11, <2>1
    <2>3. \A b \in Conns \ out :
             /\ conn'[b].peer = conn[b].peer
             /\ conn'[b].owned = IF b \in ConnsOf(r) THEN conn[b].owned \ owned
                                 ELSE conn[b].owned
        BY <1>5, <2>1
    <2>4. /\ held'[r].present \subseteq held[r].present \ owned
          /\ held'[r].present \cap held[r].late \subseteq held'[r].late
        BY <1>10, <1>11
    <2> QED
        BY <2>2, <2>3, <2>4, RemovalHolds
<1>14. RoomsAreDropped'
    <2>1. ASSUME room' # 0
          PROVE  ConnsOf(room)' # {}
        <3>1. /\ ~last /\ room' = room /\ room \in Conns /\ ConnsOf(room) # {}
            BY <1>4, <2>1 DEF RelayInv, RelayTypes, RoomsAreDropped
        <3>2. PICK q \in Conns : q = room /\ q = room' /\ ConnsOf(q) # {}
            BY <3>1
        <3>3. ConnsOf(q)' # {}
            BY <1>3, <1>7, <1>9, <3>1, <3>2
        <3> QED
            BY <3>2, <3>3 DEF ConnsOf
    <2>2. ASSUME NEW s \in Conns, SocketsOf(s)' = {} PROVE held'[s] = NoRoom
        <3>1. CASE s = r
            <4>1. ConnsOf(r)' = {}
                BY <2>2, <3>1 DEF ConnsOf, SocketsOf
            <4> QED
                BY <1>3, <1>7, <1>10, <1>11, <3>1, <4>1
        <3>2. CASE s # r
            BY <1>9, <1>11, <2>2, <3>2 DEF RelayInv, RoomsAreDropped
        <3> QED
            BY <3>1, <3>2
    <2> QED
        BY <2>1, <2>2 DEF RoomsAreDropped
<1> QED
    BY <1>12, <1>13, <1>14 DEF RelayInv

LEMMA GoneIsConn ==
    ASSUME NEW k \in Conn
    PROVE  /\ Gone(k) \in Conn /\ Gone(k).peer = k.peer /\ Gone(k).room = k.room
           /\ Gone(k).at = "gone"
           /\ Closing(k) \in Conn /\ Closing(k).peer = k.peer /\ Closing(k).room = k.room
           /\ Closing(k).at = "closing"
<1>1. k.peer \in Peers \cup {0} /\ k.room \in Conns \cup {0}
    BY DEF Conn
<1>2. PICK q \in Peers \cup {0} : q = k.peer
    BY <1>1
<1>3. PICK r \in Conns \cup {0} : r = k.room
    BY <1>1
<1> DEFINE v == [Unused EXCEPT !.peer = q, !.room = r, !.at = "gone"]
           w == [k EXCEPT !.at = "closing", !.owned = {}]
<1>4. v \in Conn /\ v.peer = q /\ v.room = r /\ v.at = "gone"
    BY UnusedIsConn DEF Conn
<1>5. w \in Conn /\ w.peer = k.peer /\ w.room = k.room /\ w.at = "closing"
    BY DEF Conn
<1>6. Gone(k) = v /\ Closing(k) = w
    BY <1>2, <1>3 DEF Gone, Closing
<1> HIDE DEF v, w
<1> QED
    BY <1>2, <1>3, <1>4, <1>5, <1>6

(* The three ways in which closeConn is called. *)
LEMMA ClosesHold ==
    ASSUME ClientInv, RelayInv, NEW c \in Conns, CloseEvent(c) \/ PingTimeout(c) \/ Oust(c)
    PROVE  RelayInv'
<1>1. conn[c] \in Conn
    BY RelayFacts
<1>2. CASE CloseEvent(c) \/ PingTimeout(c)
    <2>1. CASE CloseEvent(c)
        BY <1>1, <2>1, GoneIsConn, CloseHolds DEF CloseEvent
    <2>2. CASE PingTimeout(c)
        BY <1>1, <2>2, GoneIsConn, CloseHolds DEF PingTimeout
    <2> QED
        BY <1>2, <2>1, <2>2
<1>3. CASE Oust(c)
    <2>1. conn[c].at = "open" /\ CloseConn(c, Closing(InFlight(c)))
        BY <1>3 DEF Oust
    <2>2. PICK k \in Conn : k = InFlight(c) /\ k.peer = conn[c].peer /\ k.room = conn[c].room
        BY <2>1, InFlightIsConn
    <2>3. PICK l \in Conn : /\ l = Closing(k) /\ l.peer = k.peer /\ l.room = k.room
                            /\ l.at = "closing"
        BY GoneIsConn
    <2> QED
        BY <2>1, <2>2, <2>3, CloseHolds
<1> QED
    BY <1>2, <1>3

LEMMA RelayRestarts ==
    ASSUME ClientInv, RelayInv, RestartRelay
    PROVE  ClientInv' /\ Kept /\ RelayInv'
<1>1. /\ room' = 0 /\ held' = [c \in Conns |-> NoRoom] /\ Break /\ UNCHANGED <<doc, stored, page, turns>>
      /\ conn' = [c \in Conns |-> IF conn[c].at = "unused" THEN conn[c] ELSE Gone(conn[c])]
    BY DEF RestartRelay, client
<1>2. ASSUME NEW c \in Conns
      PROVE  /\ conn'[c] \in Conn /\ conn'[c].room = conn[c].room
             /\ conn'[c].peer = conn[c].peer
             /\ conn'[c].at \in {"unused", "gone"}
             /\ conn'[c].at = "unused" <=> conn[c].at = "unused"
    <2>1. conn[c] \in Conn
        BY RelayFacts
    <2>2. PICK v \in Conn : /\ v = Gone(conn[c]) /\ v.room = conn[c].room
                            /\ v.peer = conn[c].peer /\ v.at = "gone"
        BY <2>1, GoneIsConn
    <2>3. conn'[c] = IF conn[c].at = "unused" THEN conn[c] ELSE v
        BY <1>1, <2>2
    <2> QED
        BY <2>1, <2>2, <2>3
<1>3. RelayTypes'
    <2>1. \A c \in Conns : conn'[c].at # "unused" => conn'[c].room # 0 /\ conn'[c].peer # 0
        BY <1>2 DEF RelayInv, RelayTypes
    <2>2. \A b, c \in Conns : conn'[b].room = c => conn'[c].at # "unused"
        BY <1>2 DEF RelayInv, RelayTypes
    <2>3. conn' \in [Conns -> Conn] /\ held' \in [Conns -> Room]
        BY <1>1, <1>2, EmptyRoom
    <2> QED
        BY <1>1, <2>1, <2>2, <2>3 DEF RelayTypes
<1>4. OneEach'
    BY <1>2 DEF OneEach, OpenOf
<1>5. \A r \in Conns : held'[r] = NoRoom /\ held'[r].present = {}
    BY <1>1, EmptyRoom
<1>6. Presence' /\ RoomsAreDropped'
    BY <1>1, <1>5 DEF Presence, RoomsAreDropped
<1>7. ClientInv' /\ Kept
    BY <1>1, BoundsStay, StoredStays DEF ClientInv, WithinBounds
<1> QED
    BY <1>3, <1>4, <1>6, <1>7 DEF RelayInv

LEMMA RelayRests ==
    ASSUME RelayInv, UNCHANGED relay
    PROVE  RelayInv'
<1>1. UNCHANGED <<room, held, conn>>
    BY DEF relay
<1>2. /\ \A q : OpenOf(q)' = OpenOf(q)
      /\ \A r : ConnsOf(r)' = ConnsOf(r)
      /\ \A r : SocketsOf(r)' = SocketsOf(r)
    BY <1>1 DEF OpenOf, ConnsOf, SocketsOf
<1> QED
    BY <1>1, <1>2 DEF RelayInv, RelayTypes, OneEach, Presence, Tracked, Held, RoomsAreDropped

LEMMA ClientRests ==
    ASSUME ClientInv, UNCHANGED client, WithinBounds
    PROVE  ClientInv' /\ Kept
BY StoredStays DEF ClientInv, WithinBounds, client

LEMMA DropsHold ==
    ASSUME ClientInv, RelayInv, NEW p \in Peers, Leave(p) \/ Drop(p)
    PROVE  ClientInv' /\ Kept /\ RelayInv'
<1>1. ClientInv' /\ Kept
    <2>1. CASE Leave(p)
        BY <2>1, LeavesHold
    <2>2. CASE Drop(p)
        BY <2>2, ClientRests, BoundsStay DEF Drop
    <2> QED
        BY <2>1, <2>2
<1>2. UNCHANGED <<room, held>> /\ (UNCHANGED conn \/ \E c \in OpenOf(p) : Dies(c))
    BY DEF Leave, Drop
<1>3. ASSUME NEW c \in OpenOf(p), Dies(c)
      PROVE  RelayInv'
    <2>1. c \in Conns /\ conn[c].at = "open"
        BY <1>3 DEF OpenOf
    <2> QED
        BY <1>2, <1>3, <2>1, DeathHolds
<1>4. ASSUME UNCHANGED conn
      PROVE  RelayInv'
    <2>1. UNCHANGED relay
        BY <1>2, <1>4 DEF relay
    <2> QED
        BY <2>1, RelayRests
<1>5. RelayInv'
    BY <1>2, <1>3, <1>4
<1> QED
    BY <1>1, <1>5

LEMMA DraftInitHolds ==
    ASSUME DraftsInit
    PROVE  DraftInv
<1>1. /\ doc = [p \in Peers |-> Empty] /\ stored = [p \in Peers |-> Empty]
      /\ page = [p \in Peers |-> ClosedPage] /\ turns = 0 /\ breaks = 0
      /\ room = 0 /\ held = [c \in Conns |-> NoRoom] /\ conn = [c \in Conns |-> Unused]
    BY DEF DraftsInit
<1>2. ClosedPage \in Page /\ Unused \in Conn /\ Unused.at = "unused" /\ Unused.room = 0
    BY UnusedIsConn DEF ClosedPage, Page
<1>3. NoRoom \in Room /\ NoRoom.present = {} /\ Empty \in Docs
    <2>1. [stamp |-> 0, by |-> 0, val |-> "issue"] \in [stamp : Nat, by : Peers \cup {0}, val : Kinds]
        BY DEF Kinds
    <2> QED
        BY <2>1, EmptyRoom DEF Empty, Docs
<1>4. MaxTurns \in Nat /\ MaxBreaks \in Nat
    BY NumbersAssumption
<1>5. ClientInv
    BY <1>1, <1>2, <1>3, <1>4 DEF ClientInv
<1>6. RelayTypes /\ OneEach
    BY <1>1, <1>2, <1>3, NumbersAssumption DEF RelayTypes, OneEach, OpenOf
<1>7. \A r \in Conns : held[r] = NoRoom /\ held[r].present = {}
    BY <1>1, <1>3
<1>8. Presence /\ RoomsAreDropped
    BY <1>1, <1>7 DEF Presence, RoomsAreDropped
<1> QED
    BY <1>5, <1>6, <1>8 DEF DraftInv, RelayInv

LEMMA DraftNextHolds ==
    ASSUME DraftInv, [DraftsNext]_draftVars
    PROVE  DraftInv' /\ Kept
<1>0. ClientInv /\ RelayInv
    BY DEF DraftInv
<1>1. ASSUME NEW p \in Peers,
             \/ OpenPage(p) \/ Load(p) \/ ToMarkdown(p) \/ ToRich(p)
             \/ \E w \in Words : Type(p, w) \/ TypeMarkdown(p, w)
             \/ \E k \in Kinds : PickKind(p, k)
      PROVE  DraftInv' /\ Kept
    <2>1. ClientInv' /\ Kept
        BY <1>0, <1>1, ComposerOpens, LoadHolds, MarkdownHolds, ToRichHolds, TypeHolds,
           PickKindHolds
    <2>2. UNCHANGED relay
        BY <1>1 DEF OpenPage, Load, ToMarkdown, ToRich, Type, TypeMarkdown, PickKind
    <2> QED
        BY <1>0, <2>1, <2>2, RelayRests DEF DraftInv
<1>2. ASSUME NEW p \in Peers, Sync(p) \/ Leave(p) \/ Drop(p)
      PROVE  DraftInv' /\ Kept
    BY <1>0, <1>2, SyncHolds, DropsHold DEF DraftInv
<1>6. ASSUME NEW p \in Peers, Announce(p)
      PROVE  DraftInv' /\ Kept
    <2>1. PICK c \in OpenOf(p) : Seen(p, c)
        BY <1>6 DEF Announce
    <2>2. c \in Conns /\ conn[c].at = "open"
        BY DEF OpenOf
    <2>3. UNCHANGED <<client, room>> /\ WithinBounds
        BY <1>0, <1>6, BoundsStay DEF Announce
    <2> QED
        BY <1>0, <2>1, <2>2, <2>3, SeenHolds, ClientRests DEF DraftInv
<1>3. ASSUME NEW c \in Conns,
             \/ CloseEvent(c) \/ PingTimeout(c) \/ Oust(c) \/ LateEdit(c) \/ LateCursor(c)
             \/ \E p \in Peers : Connect(p, c) \/ Expire(c, p)
      PROVE  DraftInv' /\ Kept
    <2>1. UNCHANGED client /\ WithinBounds
        BY <1>0, <1>3, BoundsStay
           DEF CloseEvent, PingTimeout, Oust, LateEdit, LateCursor, Connect, Expire
    <2>2. RelayInv'
        BY <1>0, <1>3, ClosesHold, LateHolds, ConnectHolds, ExpireHolds
    <2> QED
        BY <1>0, <2>1, <2>2, ClientRests DEF DraftInv
<1>4. CASE RestartRelay
    BY <1>0, <1>4, RelayRestarts DEF DraftInv
<1>5. CASE UNCHANGED draftVars
    BY <1>0, <1>5, ClientRests, RelayRests, BoundsStay DEF DraftInv, draftVars
<1> QED
    BY <1>1, <1>2, <1>3, <1>4, <1>5, <1>6 DEF DraftsNext

LEMMA DraftTyped ==
    ASSUME DraftInv
    PROVE  DraftsTypeOK
<1>1. ASSUME NEW p \in Peers PROVE Cardinality(OpenOf(p)) <= 1
    <2>1. CASE OpenOf(p) = {}
        BY <2>1, FS_EmptySet
    <2>2. CASE OpenOf(p) # {}
        <3>1. \A b, c \in OpenOf(p) : b = c
            BY DEF DraftInv, RelayInv, OneEach
        <3>2. PICK c : OpenOf(p) = {c}
            BY <2>2, <3>1
        <3>3. Cardinality({c}) = 1
            BY FS_Singleton
        <3> QED
            BY <3>2, <3>3
    <2> QED
        BY <2>1, <2>2
<1> QED
    BY <1>1 DEF DraftInv, ClientInv, RelayInv, RelayTypes, DraftsTypeOK, Page, Room, Conn

LEMMA DraftPromises ==
    ASSUME DraftInv
    PROVE  RelayIsClean
BY DEF DraftInv, RelayInv, Presence, Tracked, Held, RelayIsClean, NoGhosts, PresenceIsTracked

(* Whoever writes, connects, leaves or is cut off, and whenever the relay   *)
(* restarts: documents stay of their type, a page that is ready has stored  *)
(* what it shows, and no page has two open connections.                     *)
THEOREM DraftsTypes == DraftsSpec => []DraftsTypeOK
<1>1. DraftsInit => DraftInv
    BY DraftInitHolds
<1>2. DraftInv /\ [DraftsNext]_draftVars => DraftInv'
    BY DraftNextHolds
<1>3. DraftInv => DraftsTypeOK
    BY DraftTyped
<1> QED
    BY <1>1, <1>2, <1>3, PTL DEF DraftsSpec

(* Whoever is present in a room has a connection in it, unless a frame of   *)
(* his was handled after closeConn; whoever is present is tracked by a      *)
(* connection of the room, which takes him along; and nothing is held of a  *)
(* room whose sockets are gone: in whatever order frames, close events and  *)
(* pings that were not answered come (relay/server.ts).                     *)
THEOREM RelayStaysClean == DraftsSpec => []RelayIsClean
<1>1. DraftsInit => DraftInv
    BY DraftInitHolds
<1>2. DraftInv /\ [DraftsNext]_draftVars => DraftInv'
    BY DraftNextHolds
<1>3. DraftInv => RelayIsClean
    BY DraftPromises
<1> QED
    BY <1>1, <1>2, <1>3, PTL DEF DraftsSpec

(* What a browser has stored of the draft is only added to: by what is      *)
(* typed, by what comes in before it was read, and by a reload              *)
(* (collaborative-draft.tsx).                                               *)
THEOREM StoredStaysAndGrows == DraftsSpec => StoredOnlyGrows
<1>1. DraftsInit => DraftInv
    BY DraftInitHolds
<1>2. DraftInv /\ [DraftsNext]_draftVars => DraftInv'
    BY DraftNextHolds
<1>3. DraftInv /\ [DraftsNext]_draftVars
      => [\A p \in Peers : Join(stored[p], stored'[p]) = stored'[p]]_draftVars
    <2> SUFFICES ASSUME DraftInv, [DraftsNext]_draftVars, NEW p \in Peers
                 PROVE  Join(stored[p], stored'[p]) = stored'[p]
        OBVIOUS
    <2>1. stored[p] \in Docs /\ stored'[p] \in Docs /\ Grows(stored[p], stored'[p])
        BY DraftNextHolds DEF DraftInv, ClientInv, Kept
    <2> QED
        BY <2>1, JoinGrows
<1> QED
    BY <1>1, <1>2, <1>3, PTL DEF DraftsSpec, StoredOnlyGrows

-----------------------------------------------------------------------------
(* The six of them in one browser.  A step of one leaves the variables of   *)
(* the others, so all the invariants are kept by every step.                *)
BrowserInv ==
    /\ part \in {"drafts", "issues", "log", "providers", "accounts", "browse"}
    /\ DraftInv /\ IssueInv /\ LogInv /\ AiInv /\ AccInv /\ BrowseInv

LEMMA BrowserInitHolds == BrowserInit => BrowserInv
BY DraftInitHolds, IssueInitHolds, LogInitHolds, AiInitHolds, AccInitHolds, BrowseInitHolds
   DEF BrowserInit, BrowserInv

LEMMA PartsStep ==
    ASSUME [BrowserNext]_allVars
    PROVE  /\ [DraftsNext]_draftVars /\ [IssuesNext]_issueVars /\ [LogNext]_logVars
           /\ [AiNext]_aiVars /\ [AccountsNext]_accountVars /\ [BrowseNext]_browseVars
           /\ UNCHANGED part
BY DEF BrowserNext, allVars

LEMMA BrowserNextHolds == BrowserInv /\ [BrowserNext]_allVars => BrowserInv'
<1> SUFFICES ASSUME BrowserInv, [BrowserNext]_allVars PROVE BrowserInv'
    OBVIOUS
<1>1. DraftInv' /\ IssueInv'
    BY PartsStep, DraftNextHolds, IssueNextHolds DEF BrowserInv
<1>2. LogInv' /\ AiInv' /\ AccInv' /\ BrowseInv'
    BY PartsStep, LogNextHolds, AiNextHolds, AccNextHolds, BrowseNextHolds DEF BrowserInv
<1> QED
    BY <1>1, <1>2, PartsStep DEF BrowserInv

(* Whichever of the six is at work, its state stays typed. *)
THEOREM BrowserTypes == BrowserSpec => []BrowserTypeOK
<1>1. BrowserInv => BrowserTypeOK
    BY DraftTyped, IssueTyped, LogTyped, AiTyped, AccTyped, BrowseTyped
       DEF BrowserInv, BrowserTypeOK
<1> QED
    BY <1>1, BrowserInitHolds, BrowserNextHolds, PTL DEF BrowserSpec

(* Cards, pages at a commit and READMEs show what there is. *)
THEOREM PagesTell == BrowserSpec => []PagesTellWhatIs
<1>1. BrowserInv => PagesTellWhatIs
    BY LogKept, BrowseKept DEF BrowserInv, PagesTellWhatIs
<1> QED
    BY <1>1, BrowserInitHolds, BrowserNextHolds, PTL DEF BrowserSpec

(* And what the six promise one by one they promise together. *)
THEOREM BrowserPromises ==
    BrowserSpec => [](/\ RelayIsClean /\ ConversationIsKept /\ PodKeepsUp
                      /\ KeysAreRespected /\ AccountsDoNotMix)
<1>1. BrowserInv => /\ RelayIsClean /\ ConversationIsKept /\ PodKeepsUp
                    /\ KeysAreRespected /\ AccountsDoNotMix
    BY DraftPromises, IssuePromises, AiKept, AccKept DEF BrowserInv
<1> QED
    BY <1>1, BrowserInitHolds, BrowserNextHolds, PTL DEF BrowserSpec
=============================================================================
