------------------------------ MODULE Accounts ------------------------------
(***************************************************************************)
(* Signing up, in and out in the tabs of one browser: the sign-up route,   *)
(* which makes an account of the pod server in steps of its own            *)
(* (src/src/app/api/signup/route.ts), the password login that walks        *)
(* through the OIDC prompts for the owner (app/api/auth/login/route.ts,    *)
(* lib/solid/css-account.ts), the popup for other pods, which is matched   *)
(* with its flow by a cookie that the tabs share (app/api/auth/start and   *)
(* callback), and the two cookies of a session (lib/auth/session.ts).      *)
(*                                                                         *)
(* A WebID is the handle of its pod.  Tokens and their refresh are in      *)
(* Sessions; limits on the rate of requests and on their origin only       *)
(* refuse, and are left out.                                               *)
(***************************************************************************)
EXTENDS Naturals

CONSTANTS
    Tabs,        \* tabs of the browser
    Emails, Handles,
    NoPod,       \* an account with a password and no pod
    NoHandle,    \* no account, no WebID
    Elsewhere,   \* the WebID on another server that a popup may sign in
    MaxTries,    \* bound: forms that are sent and popups that are opened
    MaxMishaps   \* bound: calls that fail, answers that are lost

ASSUME AccountBoundsAssumption == {MaxTries, MaxMishaps} \subseteq Nat
ASSUME NamesAssumption ==
    /\ {NoPod, NoHandle, Elsewhere} \cap Handles = {} /\ NoHandle \notin Emails \cup Tabs
    /\ NoPod # NoHandle /\ NoHandle # Elsewhere

VARIABLES
    account,   \* the pod server: the pod of the account with this e-mail
    users,     \* the table: handle and e-mail
    proven,    \* WebIDs of which a flow was completed: table identities
    panel,     \* what each tab is doing, in the browser or in its request
    jar,       \* the cookies: session, its csrf twin, mc-oidc-session
    issued,    \* sessions issued: each has a nonce of its own
    popups,    \* tabs that have opened a popup
    tries, mishaps

server      == <<account, users, proven, issued>>
accountUsed == <<tries, mishaps>>
accountVars == <<server, panel, jar, popups, accountUsed>>

WebIds   == Handles \cup {Elsewhere}
Row      == [slug : Handles, email : Emails]
NoTab    == NoHandle
IdleTab  == [pc |-> "idle", email |-> NoHandle, handle |-> NoHandle, right |-> FALSE, nonce |-> 0]
NoCookie == [webId |-> NoHandle, nonce |-> 0, csrf |-> 0, flow |-> NoTab]
Told     == {"refused", "incorrect", "failed", "overtaken"}

AccountsTypeOK ==
    /\ account \in [Emails -> Handles \cup {NoPod, NoHandle}]
    /\ users \subseteq Row /\ proven \subseteq WebIds /\ popups \subseteq Tabs
    /\ panel \in [Tabs -> [pc : {"idle", "blank", "password", "pod", "row", "login", "walk",
                                 "complete", "popup", "callback", "answer"} \cup Told,
                           email : Emails \cup {NoHandle}, handle : WebIds \cup {NoHandle},
                           right : BOOLEAN, nonce : 0 .. issued]]
    /\ jar \in [webId : WebIds \cup {NoHandle}, nonce : 0 .. issued, csrf : 0 .. issued,
                flow : Tabs \cup {NoTab}]
    /\ tries \in 0 .. MaxTries /\ mishaps \in 0 .. MaxMishaps

AccountsInit ==
    /\ account = [e \in Emails |-> NoHandle]
    /\ users = {} /\ proven = {} /\ popups = {}
    /\ panel = [t \in Tabs |-> IdleTab]
    /\ jar = NoCookie
    /\ issued = 0 /\ tries = 0 /\ mishaps = 0

At(t, pc)   == panel[t].pc = pc
Moves(t, pc) == panel' = [panel EXCEPT ![t].pc = pc]
(* The tab shows what it was told, and its form can be sent again. *)
Says(t, told) == panel' = [panel EXCEPT ![t] = [IdleTab EXCEPT !.pc = told]]
Ready(t)    == panel[t].pc \in {"idle"} \cup Told /\ tries < MaxTries /\ tries' = tries + 1
Mishap      == mishaps < MaxMishaps /\ mishaps' = mishaps + 1
(* A call of a tab's request fails, and nothing was changed by it. *)
CallFails(t) ==
    /\ Mishap /\ Says(t, "failed")
    /\ UNCHANGED <<server, jar, popups, tries>>

-----------------------------------------------------------------------------
(* The register panel sends e-mail, password and handle. *)
SignUp(t) ==
    /\ Ready(t)
    /\ \E e \in Emails, h \in Handles :
          panel' = [panel EXCEPT ![t] = [IdleTab EXCEPT !.pc = "blank", !.email = e,
                                                        !.handle = h, !.right = TRUE]]
    /\ UNCHANGED <<server, jar, popups, mishaps>>

(* A blank account and its controls: nobody can find it without its cookie. *)
Blank(t) ==
    \/ /\ At(t, "blank") /\ Moves(t, "password")
       /\ UNCHANGED <<server, jar, popups, accountUsed>>
    \/ At(t, "blank") /\ CallFails(t)

(* The password: an e-mail has one account. *)
AttachPassword(t) ==
    LET e == panel[t].email IN
    /\ At(t, "password")
    /\ \/ /\ account[e] # NoHandle /\ Says(t, "refused")
          /\ UNCHANGED <<account, mishaps>>
       \/ /\ account[e] = NoHandle
          /\ account' = [account EXCEPT ![e] = NoPod]
          /\ \/ Moves(t, "pod") /\ UNCHANGED mishaps
             \/ Says(t, "failed") /\ Mishap
    /\ UNCHANGED <<users, proven, issued, jar, popups, tries>>

(* The pod with its WebID; a refusal leaves the account as it is, with the  *)
(* e-mail.                                                                  *)
CreatePod(t) ==
    LET e == panel[t].email
        h == panel[t].handle IN
    /\ At(t, "pod")
    /\ \/ /\ \E f \in Emails : account[f] = h
          /\ Says(t, "refused")
          /\ UNCHANGED <<account, mishaps>>
       \/ /\ \A f \in Emails : account[f] # h
          /\ account' = [account EXCEPT ![e] = h]
          /\ \/ Moves(t, "row") /\ UNCHANGED mishaps
             \/ Says(t, "failed") /\ Mishap
    /\ UNCHANGED <<users, proven, issued, jar, popups, tries>>

(* createUser; a failure is logged only.  The panel then signs in. *)
InsertUser(t) ==
    /\ At(t, "row")
    /\ \/ users' = users \cup {[slug |-> panel[t].handle, email |-> panel[t].email]}
          /\ UNCHANGED mishaps
       \/ Mishap /\ UNCHANGED users
    /\ Moves(t, "login")
    /\ UNCHANGED <<account, proven, issued, jar, popups, tries>>

-----------------------------------------------------------------------------
(* The login panel sends e-mail and password. *)
SignIn(t) ==
    /\ Ready(t)
    /\ \E e \in Emails, right \in BOOLEAN :
          panel' = [panel EXCEPT ![t] = [IdleTab EXCEPT !.pc = "login", !.email = e,
                                                        !.right = right]]
    /\ UNCHANGED <<server, jar, popups, mishaps>>

(* startAuthFlow: the flow is kept by the request.                          *)
StartLogin(t) ==
    \/ /\ At(t, "login") /\ Moves(t, "walk")
       /\ UNCHANGED <<server, jar, popups, accountUsed>>
    \/ At(t, "login") /\ CallFails(t)

PasswordLogin(t) == panel[t].right /\ account[panel[t].email] # NoHandle
PickWebId(t)     == account[panel[t].email] \in Handles

(* runPasswordLoginOidcFlow.  Every refusal by the pod server, that of an   *)
(* account without a pod too, is told as a wrong password.                  *)
Walk(t) ==
    \/ /\ At(t, "walk")
       /\ IF PasswordLogin(t) /\ PickWebId(t)
          THEN panel' = [panel EXCEPT ![t].pc = "complete", ![t].handle = account[panel[t].email]]
          ELSE Says(t, "incorrect")
       /\ UNCHANGED <<server, jar, popups, accountUsed>>
    \/ At(t, "walk") /\ CallFails(t)

(* issueSession: a nonce for the session and for its twin. *)
IssueSession(t) ==
    /\ issued' = issued + 1
    /\ panel' = [panel EXCEPT ![t].pc = "answer", ![t].nonce = issued + 1]

(* completeAuthFlow exchanges the code and saves the identity.              *)
Complete(t) ==
    \/ /\ At(t, "complete")
       /\ proven' = proven \cup {panel[t].handle}
       /\ IssueSession(t)
       /\ UNCHANGED <<account, users, jar, popups, accountUsed>>
    \/ At(t, "complete") /\ CallFails(t)

-----------------------------------------------------------------------------
(* The start route, and the popup: its answer puts the flow into the cookie *)
(* of all tabs.                                                             *)
StartPopup(t) ==
    /\ Ready(t)
    /\ \/ /\ jar' = [jar EXCEPT !.flow = t]
          /\ panel' = [panel EXCEPT ![t] = [IdleTab EXCEPT !.pc = "popup"]]
          /\ popups' = popups \cup {t}
          /\ UNCHANGED mishaps
       \/ Mishap /\ Says(t, "failed") /\ UNCHANGED <<jar, popups>>
    /\ UNCHANGED server

(* The pod server signs somebody in and redirects, or the popup is closed. *)
Authorize(t) ==
    /\ At(t, "popup")
    /\ \/ \E w \in {Elsewhere} \cup {account[e] : e \in {f \in Emails : account[f] \in Handles}} :
             panel' = [panel EXCEPT ![t].pc = "callback", ![t].handle = w]
       \/ panel' = [panel EXCEPT ![t] = IdleTab]
    /\ UNCHANGED <<server, jar, popups, accountUsed>>

(* The callback: the flow of the cookie must be the one that the code is    *)
(* for, or the storage has no state for it.                                 *)
Callback(t) ==
    \/ /\ At(t, "callback") /\ jar.flow = t
       /\ proven' = proven \cup {panel[t].handle}
       /\ IssueSession(t)
       /\ UNCHANGED <<account, users, jar, popups, accountUsed>>
    \/ /\ At(t, "callback") /\ jar.flow # t /\ Says(t, "overtaken")
       /\ UNCHANGED <<server, jar, popups, accountUsed>>
    \/ At(t, "callback") /\ CallFails(t)

-----------------------------------------------------------------------------
(* The answer sets both cookies; that of the callback, whose tab has sent   *)
(* no e-mail, deletes the flow's.  Slip: the twin is set when there is none.*)
AnswerKeepingTwin(t) ==
    /\ At(t, "answer")
    /\ jar' = [jar EXCEPT !.webId = panel[t].handle, !.nonce = panel[t].nonce,
                          !.csrf = IF @ = 0 THEN panel[t].nonce ELSE @,
                          !.flow = IF panel[t].email = NoHandle THEN NoTab ELSE @]
    /\ panel' = [panel EXCEPT ![t] = IdleTab]
    /\ UNCHANGED <<server, popups, accountUsed>>

Answer(t) ==
    \/ /\ At(t, "answer")
       /\ jar' = [jar EXCEPT !.webId = panel[t].handle, !.nonce = panel[t].nonce,
                             !.csrf = panel[t].nonce,
                             !.flow = IF panel[t].email = NoHandle THEN NoTab ELSE @]
       /\ panel' = [panel EXCEPT ![t] = IdleTab]
       /\ UNCHANGED <<server, popups, accountUsed>>
    \/ At(t, "answer") /\ CallFails(t)

(* readSession, as the pages and the routes do. *)
SignedIn == jar.webId # NoHandle

(* Sign out: clearSession. *)
SignOut ==
    /\ SignedIn
    /\ jar' = [NoCookie EXCEPT !.flow = jar.flow]
    /\ UNCHANGED <<server, panel, popups, accountUsed>>

AccountsNext ==
    \/ SignOut
    \/ \E t \in Tabs : SignUp(t) \/ Blank(t) \/ AttachPassword(t) \/ CreatePod(t) \/ InsertUser(t)
                       \/ SignIn(t) \/ StartLogin(t) \/ Walk(t) \/ Complete(t)
                       \/ StartPopup(t) \/ Authorize(t) \/ Callback(t) \/ Answer(t)

AccountsSpec == AccountsInit /\ [][AccountsNext]_accountVars

-----------------------------------------------------------------------------
(* Whoever is signed in has proved the WebID to its issuer, and a request   *)
(* of any tab has the nonce that the session has, whichever answers came    *)
(* last: the cookies of two sign-ins never mix.                             *)
SessionIsProven ==
    /\ SignedIn => jar.webId \in proven
    /\ jar.csrf = jar.nonce /\ (jar.nonce = 0 <=> ~SignedIn)

(* A row of users is for a pod that its e-mail's account has, whoever else  *)
(* wanted the handle at the same time.                                      *)
RowsHavePods ==
    \A u \in users : account[u.email] = u.slug /\ \A v \in users : v.slug = u.slug => v = u

(* A popup is only overtaken by another popup: sign-ups and logins in other *)
(* tabs do not disturb it.                                                  *)
OnlyPopupsOvertake ==
    \A t \in Tabs : panel[t].pc = "overtaken" => \E s \in popups : s # t

(* Sign-ups and sign-ins at once do not mix: neither sessions, nor accounts,*)
(* nor flows.                                                               *)
AccountsDoNotMix == SessionIsProven /\ RowsHavePods /\ OnlyPopupsOvertake
=============================================================================
