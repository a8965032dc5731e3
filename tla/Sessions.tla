------------------------------ MODULE Sessions ------------------------------
(***************************************************************************)
(* The bridge's grant to write to the pod of one WebID:                    *)
(* loadAuthedFetchForWebId with its cache and its coalescing of refreshes  *)
(* (src/src/lib/solid/oidc-server.ts), the identities row and the KV rows  *)
(* of its session (src/src/lib/registry/identities.ts), connecting and     *)
(* disconnecting.  Every map of the code is keyed by the WebID, so other   *)
(* WebIDs have no part in it.                                              *)
(*                                                                         *)
(* A refresh token is a number: the issuer accepts the last one it gave    *)
(* out for the session, once, and gives out the next.  0 is no token.      *)
(***************************************************************************)
EXTENDS Integers

CONSTANTS
    Sessions,    \* ids of authorization flows; each runs once
    Callers,     \* calls of loadAuthedFetchForWebId
    None,        \* no session
    MaxLapses,   \* bound: access tokens that near their expiry
    MaxFaults,   \* bound: failures of the network or of the issuer
    MaxCrashes   \* bound: restarts of the bridge

ASSUME SessionsAssumption == None \notin Sessions \cup Callers
ASSUME BoundsAssumption ==
    MaxLapses \in Nat /\ MaxFaults \in Nat /\ MaxCrashes \in Nat

VARIABLES
    flow,       \* the connect flow of each session
    identity,   \* identities: the session of the WebID, or None
    stored,     \* identity_storage: the refresh token of each session
    issued,     \* the issuer: the token it will accept next
    cache,      \* sessionCache: a session, and whether its access token lasts
    inFlight,   \* inFlightRefresh: the caller whose refresh is running, or None
    caller,     \* the local state of each call
    lapses, faults, crashes    \* used-up bounds

grantVars == <<flow, identity>>
tokenVars == <<stored, issued>>
bounds    == <<lapses, faults, crashes>>
vars == <<grantVars, tokenVars, cache, inFlight, caller, bounds>>

NoCache == [session |-> None, fresh |-> FALSE]

(* seen: the session of the identity as the call read it.  from: the        *)
(* session of the fetch, or of the refresh that failed.  by: the call whose *)
(* refresh it waits for.  token: what its own refresh read or was given.    *)
IdleCaller == [pc |-> "idle", seen |-> None, from |-> None, by |-> None, token |-> 0]

CallerStates ==
    [pc : {"idle", "read", "send", "persist", "settle", "refuse", "wait",
           "cached", "fetch", "reauth", "null"},
     seen : Sessions \cup {None}, from : Sessions \cup {None},
     by : Callers \cup {None}, token : Nat]

Refreshing(c) == caller[c].pc \in {"read", "send", "persist", "settle", "refuse"}

TypeOK ==
    /\ flow \in [Sessions -> {"new", "started", "exchanged", "saved", "over"}]
    /\ identity \in {s \in Sessions : flow[s] = "saved"} \cup {None}
    /\ stored \in [Sessions -> Nat] /\ issued \in [Sessions -> Nat]
    /\ \A s \in Sessions : stored[s] <= issued[s]
    /\ cache \in [session : Sessions, fresh : BOOLEAN] \cup {NoCache}
    /\ caller \in [Callers -> CallerStates]
    /\ inFlight \in {c \in Callers : Refreshing(c)} \cup {None}
    /\ lapses \in 0 .. MaxLapses /\ faults \in 0 .. MaxFaults /\ crashes \in 0 .. MaxCrashes

Init ==
    /\ flow = [s \in Sessions |-> "new"]
    /\ identity = None
    /\ stored = [s \in Sessions |-> 0] /\ issued = [s \in Sessions |-> 0]
    /\ cache = NoCache
    /\ inFlight = None
    /\ caller = [c \in Callers |-> IdleCaller]
    /\ lapses = 0 /\ faults = 0 /\ crashes = 0

Fault == faults < MaxFaults /\ faults' = faults + 1

CallerAt(c, pc) == caller[c].pc = pc
Goes(c, pc) == caller' = [caller EXCEPT ![c].pc = pc]

-----------------------------------------------------------------------------
(* startAuthFlow: the session has KV rows from now on, but no token. *)
StartAuthFlow(s) ==
    /\ flow[s] = "new"
    /\ flow' = [flow EXCEPT ![s] = "started"]
    /\ UNCHANGED <<identity, tokenVars, cache, inFlight, caller, bounds>>

(* completeAuthFlow: the code is exchanged, and the token stored ... *)
Exchange(s) ==
    /\ flow[s] = "started"
    /\ \/ /\ flow' = [flow EXCEPT ![s] = "exchanged"]
          /\ issued' = [issued EXCEPT ![s] = 1]
          /\ stored' = [stored EXCEPT ![s] = 1]
          /\ UNCHANGED faults
       \/ /\ Fault
          /\ flow' = [flow EXCEPT ![s] = "over"]
          /\ UNCHANGED tokenVars
    /\ UNCHANGED <<identity, cache, inFlight, caller, lapses, crashes>>

(* ... and saveIdentity replaces the session of the WebID. *)
SaveIdentity(s) ==
    /\ flow[s] = "exchanged"
    /\ flow' = [flow EXCEPT ![s] = "saved"]
    /\ identity' = s
    /\ stored' = [t \in Sessions |-> IF t = identity THEN 0 ELSE stored[t]]
    /\ UNCHANGED <<issued, cache, inFlight, caller, bounds>>

(* DELETE identities: deleteIdentity and clearCachedSession. *)
Disconnect ==
    /\ identity # None
    /\ identity' = None
    /\ stored' = [stored EXCEPT ![identity] = 0]
    /\ cache' = NoCache
    /\ UNCHANGED <<flow, issued, inFlight, caller, bounds>>

(* The access token in the cache comes within a minute of its expiry. *)
Lapse ==
    /\ cache.fresh
    /\ lapses < MaxLapses
    /\ lapses' = lapses + 1
    /\ cache' = [session |-> cache.session, fresh |-> FALSE]
    /\ UNCHANGED <<grantVars, tokenVars, inFlight, caller, faults, crashes>>

-----------------------------------------------------------------------------
Hit    == cache.fresh /\ cache.session = identity
Missed == cache' = NoCache

NoIdentity(c) ==
    /\ identity = None
    /\ Goes(c, "null")
    /\ UNCHANGED <<cache, inFlight>>

FromCache(c) ==
    /\ caller' = [caller EXCEPT ![c].pc = "cached", ![c].seen = identity,
                                ![c].from = cache.session]
    /\ UNCHANGED <<cache, inFlight>>

Join(c) ==
    /\ inFlight # None
    /\ Missed
    /\ caller' = [caller EXCEPT ![c].pc = "wait", ![c].seen = identity,
                                ![c].from = caller[inFlight].from, ![c].by = inFlight]
    /\ UNCHANGED inFlight

Begin(c) ==
    /\ Missed
    /\ caller' = [caller EXCEPT ![c].pc = "read", ![c].seen = identity,
                                ![c].from = identity, ![c].by = c]
    /\ inFlight' = c

(* Slip: no inFlightRefresh. *)
LoadUncoalesced(c) ==
    /\ CallerAt(c, "idle")
    /\ \/ NoIdentity(c)
       \/ identity # None /\ Hit /\ FromCache(c)
       \/ identity # None /\ ~Hit /\ Begin(c)
    /\ UNCHANGED <<grantVars, tokenVars, bounds>>

(* loadAuthedFetchForWebId up to its first wait. *)
Load(c) ==
    /\ CallerAt(c, "idle")
    /\ \/ NoIdentity(c)
       \/ identity # None /\ Hit /\ FromCache(c)
       \/ identity # None /\ ~Hit /\ Join(c)
       \/ identity # None /\ ~Hit /\ inFlight = None /\ Begin(c)
    /\ UNCHANGED <<grantVars, tokenVars, bounds>>

(* getSessionFromStorage reads the session; without a token nobody is       *)
(* logged in.                                                               *)
ReadToken(c) ==
    /\ CallerAt(c, "read")
    /\ LET token == stored[caller[c].from] IN
       caller' = [caller EXCEPT ![c].token = token,
                                ![c].pc = IF token = 0 THEN "refuse" ELSE "send"]
    /\ UNCHANGED <<grantVars, tokenVars, cache, inFlight, bounds>>

(* The token is spent at the issuer.  A failure of the network comes before *)
(* the issuer has seen it, or after.                                        *)
Spend(c) ==
    LET s == caller[c].from
        accepted == caller[c].token = issued[s] IN
    /\ CallerAt(c, "send")
    /\ \/ /\ accepted
          /\ issued' = [issued EXCEPT ![s] = @ + 1]
          /\ \/ /\ caller' = [caller EXCEPT ![c].pc = "persist", ![c].token = @ + 1]
                /\ UNCHANGED faults
             \/ Fault /\ Goes(c, "refuse")
       \/ /\ ~accepted
          /\ Goes(c, "refuse")
          /\ UNCHANGED <<issued, faults>>
       \/ /\ Fault
          /\ Goes(c, "refuse")
          /\ UNCHANGED issued
    /\ UNCHANGED <<grantVars, stored, cache, inFlight, lapses, crashes>>

(* Slip: the SDK's storage is a copy, and the rotated token stays in it. *)
PersistNothing(c) ==
    /\ CallerAt(c, "persist")
    /\ Goes(c, "settle")
    /\ UNCHANGED <<grantVars, tokenVars, cache, inFlight, bounds>>

(* The rotated token is stored: a row that is gone is inserted again. *)
Persist(c) ==
    /\ CallerAt(c, "persist")
    /\ stored' = [stored EXCEPT ![caller[c].from] = caller[c].token]
    /\ Goes(c, "settle")
    /\ UNCHANGED <<grantVars, issued, cache, inFlight, bounds>>

(* The promise settles for all who wait for it, and leaves inFlightRefresh. *)
Answers(c, pc) ==
    caller' = [d \in Callers |->
                  IF d = c \/ (CallerAt(d, "wait") /\ caller[d].by = c)
                  THEN [caller[d] EXCEPT !.pc = pc, !.by = None, !.token = 0]
                  ELSE caller[d]]

Settles(c, pc) == Answers(c, pc) /\ inFlight' = None

(* Slip: only the call that began the refresh is answered. *)
SettleAlone(c) ==
    /\ CallerAt(c, "settle")
    /\ cache' = [session |-> caller[c].from, fresh |-> TRUE]
    /\ Goes(c, "fetch")
    /\ inFlight' = None
    /\ UNCHANGED <<grantVars, tokenVars, bounds>>

Settle(c) ==
    /\ CallerAt(c, "settle")
    /\ cache' = [session |-> caller[c].from, fresh |-> TRUE]
    /\ Settles(c, "fetch")
    /\ UNCHANGED <<grantVars, tokenVars, bounds>>

(* Slip: inFlightRefresh is left as it is when the refresh fails. *)
RefuseKeeps(c) ==
    /\ CallerAt(c, "refuse")
    /\ Answers(c, "reauth")
    /\ UNCHANGED <<grantVars, tokenVars, cache, inFlight, bounds>>

(* OidcRefreshFailedError: "needs reauthorization". *)
RefuseAll(c) ==
    /\ CallerAt(c, "refuse")
    /\ Settles(c, "reauth")
    /\ UNCHANGED <<grantVars, tokenVars, cache, bounds>>

(* The bridge is restarted.  A flow that has not come back from the issuer  *)
(* goes on afterwards.                                                      *)
Crash ==
    /\ crashes < MaxCrashes
    /\ crashes' = crashes + 1
    /\ cache' = NoCache /\ inFlight' = None
    /\ caller' = [c \in Callers |-> IF Refreshing(c) \/ CallerAt(c, "wait") THEN IdleCaller
                                    ELSE caller[c]]
    /\ flow' = [s \in Sessions |-> IF flow[s] = "exchanged" THEN "over" ELSE flow[s]]
    /\ UNCHANGED <<identity, tokenVars, lapses, faults>>

Refresh(c) == ReadToken(c) \/ Spend(c) \/ Persist(c) \/ Settle(c) \/ RefuseAll(c)

Next ==
    \/ \E s \in Sessions : StartAuthFlow(s) \/ Exchange(s) \/ SaveIdentity(s)
    \/ Disconnect
    \/ Lapse
    \/ \E c \in Callers : Load(c) \/ Refresh(c)
    \/ Crash

Spec == Init /\ [][Next]_vars

(* The storage and the issuer answer, or the request fails. *)
FairSpec == Spec /\ \A c \in Callers : WF_vars(Refresh(c))

-----------------------------------------------------------------------------
Undisturbed == faults + crashes = 0

(* No call ever presents a token that is spent, as long as nothing was lost *)
(* between the issuer and the storage: the cold cache that several callers  *)
(* hit at once, a re-connect in the middle of a refresh.                    *)
SpentOnce ==
    \A c \in Callers :
        CallerAt(c, "send") /\ Undisturbed => caller[c].token = issued[caller[c].from]

(* The owner is asked to connect again only for a session that has been     *)
(* replaced or disconnected, or after a failure or a restart.               *)
AsksOnlyWhenLost ==
    \A c \in Callers :
        CallerAt(c, "reauth") /\ Undisturbed => caller[c].from # identity

(* Every call that waits for somebody else's refresh is answered, or dies   *)
(* with the bridge.                                                         *)
WaitersAreAnswered ==
    \A c \in Callers : CallerAt(c, "wait") ~> ~CallerAt(c, "wait")
=============================================================================
