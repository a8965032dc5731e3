------------------------- MODULE Credentials_proofs -------------------------
(***************************************************************************)
(* Proofs about the two places where the bridge lets somebody in with a    *)
(* credential: the sessions of owners at their issuer, and the tokens of   *)
(* git clients.  The two modules share no variable.                        *)
(*                                                                         *)
(* Sessions, for every number of sessions, calls, failures and restarts.   *)
(* SessionsInv is the inductive invariant: a refresh that is running is    *)
(* the one in inFlightRefresh and the calls that wait, wait for it; so     *)
(* only it can change what the issuer accepts, and what is stored lags     *)
(* behind by the one token it has not stored yet.                          *)
(*                                                                         *)
(* GitHttp, for every number of requests, tokens, failures and refills.    *)
(* The bound on the credentials that are tried is not inductive:           *)
(* ThrottleInv counts what the bound leaves open, the failures that were   *)
(* recorded in an empty bucket, and shows that each time the bucket        *)
(* empties only the requests that had looked at it before can add to them. *)
(***************************************************************************)
EXTENDS Sessions, GitHttp, FiniteSetTheorems, TLAPS

-----------------------------------------------------------------------------
(* Sessions. *)


(* The running refresh is in inFlightRefresh, and is waited for. *)
OneRefresh ==
    /\ \A c \in Callers :
          Refreshing(c) => inFlight = c /\ caller[c].from \in Sessions
    /\ \A c \in Callers :
          CallerAt(c, "wait") => /\ inFlight \in Callers
                                 /\ caller[c].by = inFlight
                                 /\ caller[c].from = caller[inFlight].from

(* What a call has to do with is a session that was saved. *)
FromSaved ==
    \A c \in Callers :
        /\ caller[c].from # None => flow[caller[c].from] = "saved"
        /\ CallerAt(c, "reauth") => caller[c].from # None

(* The token a refresh was given is the one the issuer accepts next. *)
Rotated ==
    \A c \in Callers : CallerAt(c, "persist") => caller[c].token = issued[caller[c].from]

Persisting(s) == \E c \in Callers : CallerAt(c, "persist") /\ caller[c].from = s

(* What is stored for a saved session is what the issuer accepts, unless it *)
(* was dropped or the rotated token is on its way.                          *)
StoredIsLive ==
    \A s \in Sessions :
        /\ flow[s] = "exchanged" => stored[s] = issued[s] /\ issued[s] > 0
        /\ flow[s] = "saved" => issued[s] > 0
        /\ flow[s] = "saved" /\ ~Persisting(s) => stored[s] \in {0, issued[s]}
        /\ identity = s /\ ~Persisting(s) => stored[s] = issued[s]

(* A refresh that is about to fail is of a session that was dropped. *)
FailsWhenDropped ==
    \A c \in Callers : CallerAt(c, "refuse") => caller[c].from # identity

NothingLost == StoredIsLive /\ SpentOnce /\ FailsWhenDropped /\ AsksOnlyWhenLost

SessionsInv ==
    /\ TypeOK
    /\ OneRefresh
    /\ FromSaved
    /\ Rotated
    /\ (Undisturbed => NothingLost)

-----------------------------------------------------------------------------
LEMMA InitHolds == Init => SessionsInv
<1> SUFFICES ASSUME Init PROVE SessionsInv
    OBVIOUS
<1>1. \A c \in Callers : caller[c] = IdleCaller
    BY DEF Init
<1>2. TypeOK
    <2>1. IdleCaller \in CallerStates
        BY DEF IdleCaller, CallerStates
    <2> QED
        BY <2>1, BoundsAssumption DEF Init, TypeOK
<1>3. OneRefresh /\ FromSaved /\ Rotated
    BY <1>1 DEF OneRefresh, FromSaved, Rotated, IdleCaller, Refreshing, CallerAt
<1>4. NothingLost
    <2>1. StoredIsLive
        BY SessionsAssumption DEF Init, StoredIsLive
    <2> QED
        BY <1>1, <2>1
        DEF NothingLost, SpentOnce, FailsWhenDropped, AsksOnlyWhenLost, IdleCaller, CallerAt
<1> QED
    BY <1>2, <1>3, <1>4 DEF SessionsInv

(* Connecting: the session has no part in any refresh yet. *)
LEMMA StartHolds ==
    ASSUME NEW s \in Sessions, SessionsInv, StartAuthFlow(s)
    PROVE  SessionsInv'
<1> USE DEF StartAuthFlow, SessionsInv, tokenVars, bounds
<1>1. TypeOK'
    BY DEF TypeOK, Refreshing
<1>2. OneRefresh' /\ Rotated'
    BY DEF OneRefresh, Rotated, Refreshing, CallerAt
<1>3. FromSaved'
    BY DEF FromSaved, TypeOK, CallerStates, CallerAt
<1>4. Undisturbed' => NothingLost'
    <2> SUFFICES ASSUME Undisturbed PROVE NothingLost'
        BY DEF Undisturbed
    <2>1. StoredIsLive'
        BY DEF NothingLost, StoredIsLive, Persisting, CallerAt, TypeOK
    <2> QED
        BY <2>1 DEF NothingLost, SpentOnce, FailsWhenDropped, AsksOnlyWhenLost, CallerAt
<1> QED
    BY <1>1, <1>2, <1>3, <1>4

LEMMA ExchangeHolds ==
    ASSUME NEW s \in Sessions, SessionsInv, Exchange(s)
    PROVE  SessionsInv'
<1> USE DEF Exchange, SessionsInv, tokenVars
<1>1. TypeOK'
    BY BoundsAssumption DEF TypeOK, Refreshing, Fault
<1>2. OneRefresh'
    BY DEF OneRefresh, Refreshing, CallerAt
<1>3. FromSaved'
    BY DEF FromSaved, TypeOK, CallerStates, CallerAt
<1>4. \A c \in Callers : caller[c].from # None => caller[c].from \in Sessions \ {s}
    BY DEF FromSaved, TypeOK, CallerStates, CallerAt
<1>5. Rotated'
    <2>1. \A c \in Callers : CallerAt(c, "persist") => caller[c].from # None
        BY SessionsAssumption DEF OneRefresh, Refreshing, CallerAt
    <2> QED
        BY <1>4, <2>1 DEF Rotated, TypeOK, CallerAt
<1>6. Undisturbed' => NothingLost'
    <2> SUFFICES ASSUME Undisturbed' PROVE NothingLost'
        OBVIOUS
    <2>1. Undisturbed /\ faults' = faults
        BY DEF Undisturbed, Fault, TypeOK
    <2>2. /\ flow' = [flow EXCEPT ![s] = "exchanged"]
          /\ issued' = [issued EXCEPT ![s] = 1]
          /\ stored' = [stored EXCEPT ![s] = 1]
        BY <2>1 DEF Fault, TypeOK
    <2>3. \A t \in Sessions : Persisting(t)' <=> Persisting(t)
        BY DEF Persisting, CallerAt
    <2>4. StoredIsLive'
        BY <2>1, <2>2, <2>3 DEF NothingLost, StoredIsLive, TypeOK
    <2>5. SpentOnce'
        <3>1. \A c \in Callers : CallerAt(c, "send") => caller[c].from \in Sessions \ {s}
            BY <1>4, SessionsAssumption DEF OneRefresh, Refreshing, CallerAt
        <3> QED
            BY <2>1, <2>2, <3>1 DEF NothingLost, SpentOnce, TypeOK, CallerAt
    <2> QED
        BY <2>1, <2>4, <2>5 DEF NothingLost, FailsWhenDropped, AsksOnlyWhenLost, CallerAt
<1> QED
    BY <1>1, <1>2, <1>3, <1>5, <1>6

LEMMA SaveHolds ==
    ASSUME NEW s \in Sessions, SessionsInv, SaveIdentity(s)
    PROVE  SessionsInv'
<1> USE DEF SaveIdentity, SessionsInv, bounds
<1>1. TypeOK'
    BY DEF TypeOK, Refreshing
<1>2. OneRefresh' /\ Rotated'
    BY DEF OneRefresh, Rotated, Refreshing, CallerAt
<1>3. FromSaved'
    BY DEF FromSaved, TypeOK, CallerStates, CallerAt
<1>4. \A c \in Callers : caller[c].from # s
    BY SessionsAssumption DEF FromSaved
<1>5. Undisturbed' => NothingLost'
    <2> SUFFICES ASSUME Undisturbed PROVE NothingLost'
        BY DEF Undisturbed
    <2>1. \A t \in Sessions : Persisting(t)' <=> Persisting(t)
        BY DEF Persisting, CallerAt
    <2>2. ~Persisting(s)
        BY <1>4 DEF Persisting
    <2>3. identity # s
        BY SessionsAssumption DEF TypeOK
    <2>4. StoredIsLive'
        BY <2>1, <2>2, <2>3, SessionsAssumption DEF NothingLost, StoredIsLive, TypeOK
    <2> QED
        BY <1>4, <2>4 DEF NothingLost, SpentOnce, FailsWhenDropped, AsksOnlyWhenLost, CallerAt
<1> QED
    BY <1>1, <1>2, <1>3, <1>5

LEMMA DisconnectHolds == SessionsInv /\ Disconnect => SessionsInv'
<1> SUFFICES ASSUME SessionsInv, Disconnect PROVE SessionsInv'
    OBVIOUS
<1> USE DEF Disconnect, SessionsInv, bounds
<1>1. TypeOK'
    BY DEF TypeOK, Refreshing, NoCache
<1>2. OneRefresh' /\ Rotated' /\ FromSaved'
    BY DEF OneRefresh, Rotated, FromSaved, Refreshing, CallerAt
<1>3. Undisturbed' => NothingLost'
    <2> SUFFICES ASSUME Undisturbed PROVE NothingLost'
        BY DEF Undisturbed
    <2>1. \A t \in Sessions : Persisting(t)' <=> Persisting(t)
        BY DEF Persisting, CallerAt
    <2>2. StoredIsLive'
        BY <2>1, SessionsAssumption DEF NothingLost, StoredIsLive, TypeOK
    <2>3. \A c \in Callers : CallerAt(c, "refuse") => caller[c].from # None
        BY SessionsAssumption DEF OneRefresh, Refreshing, CallerAt
    <2>4. \A c \in Callers : CallerAt(c, "reauth") => caller[c].from # None
        BY DEF FromSaved
    <2> QED
        BY <2>2, <2>3, <2>4
        DEF NothingLost, SpentOnce, FailsWhenDropped, AsksOnlyWhenLost, CallerAt
<1> QED
    BY <1>1, <1>2, <1>3

LEMMA LapseHolds == SessionsInv /\ Lapse => SessionsInv'
<1> SUFFICES ASSUME SessionsInv, Lapse PROVE SessionsInv'
    OBVIOUS
<1> USE DEF Lapse, SessionsInv, grantVars, tokenVars
<1>1. TypeOK'
    BY BoundsAssumption DEF TypeOK, Refreshing, NoCache
<1>2. OneRefresh' /\ Rotated' /\ FromSaved'
    BY DEF OneRefresh, Rotated, FromSaved, Refreshing, CallerAt
<1>3. Undisturbed' => NothingLost'
    BY DEF Undisturbed, NothingLost, StoredIsLive, Persisting, SpentOnce, FailsWhenDropped,
           AsksOnlyWhenLost, CallerAt
<1> QED
    BY <1>1, <1>2, <1>3

(* The record of a call with other sessions and another refresh. *)
LEMMA CallerUpdate ==
    ASSUME NEW r \in CallerStates, NEW seen \in Sessions \cup {None},
           NEW from \in Sessions \cup {None}, NEW by \in Callers \cup {None},
           NEW pc \in {"read", "wait", "cached"}
    PROVE  /\ [r EXCEPT !.pc = pc, !.seen = seen, !.from = from, !.by = by] \in CallerStates
           /\ [r EXCEPT !.pc = pc, !.seen = seen, !.from = from] \in CallerStates
BY DEF CallerStates

(* A call that begins, joins or is answered at once changes no token. *)
LEMMA LoadHolds ==
    ASSUME NEW c \in Callers, SessionsInv, Load(c)
    PROVE  SessionsInv'
<1> USE DEF Load, SessionsInv, grantVars, tokenVars, bounds
<1>0. UNCHANGED <<flow, identity, stored, issued, faults, crashes, lapses>>
    OBVIOUS
<1>1. CASE NoIdentity(c)
    <2>1. /\ caller' = [caller EXCEPT ![c].pc = "null"]
          /\ UNCHANGED <<cache, inFlight>>
        BY <1>1 DEF NoIdentity, Goes
    <2>2. TypeOK'
        BY <1>0, <2>1 DEF TypeOK, CallerStates, Refreshing, CallerAt
    <2>3. OneRefresh' /\ Rotated' /\ FromSaved'
        BY <1>0, <2>1, <2>2
        DEF TypeOK, CallerStates, OneRefresh, Rotated, FromSaved, Refreshing, CallerAt
    <2>4. Undisturbed' => NothingLost'
        BY <1>0, <2>1
        DEF TypeOK, CallerStates, Undisturbed, NothingLost, StoredIsLive, Persisting, SpentOnce,
            FailsWhenDropped, AsksOnlyWhenLost, CallerAt
    <2> QED
        BY <2>2, <2>3, <2>4
<1>2. CASE identity # None /\ Hit /\ FromCache(c)
    <2>1. /\ caller' = [caller EXCEPT ![c].pc = "cached", ![c].seen = identity,
                                      ![c].from = identity]
          /\ UNCHANGED <<cache, inFlight>>
        BY <1>2 DEF Hit, FromCache
    <2>2. TypeOK'
        <3>1. caller' \in [Callers -> CallerStates]
            <4>1. /\ caller \in [Callers -> CallerStates] /\ caller[c] \in CallerStates
                  /\ identity \in Sessions \cup {None}
                BY DEF TypeOK
            <4>2. [caller[c] EXCEPT !.pc = "cached", !.seen = identity,
                                    !.from = identity] \in CallerStates
                BY <4>1, CallerUpdate, SessionsAssumption
            <4> HIDE DEF SessionsInv, Load
            <4> QED
                BY <2>1, <4>1, <4>2
        <3>2. inFlight \in {d \in Callers : Refreshing(d)'} \cup {None}
            BY <2>1 DEF TypeOK, Refreshing, CallerAt
        <3> QED
            BY <1>0, <2>1, <3>1, <3>2 DEF TypeOK
    <2>3. OneRefresh' /\ Rotated' /\ FromSaved'
        BY <1>0, <2>1, <1>2
        DEF TypeOK, CallerStates, OneRefresh, Rotated, FromSaved, Refreshing, CallerAt
    <2>4. Undisturbed' => NothingLost'
        BY <1>0, <2>1
        DEF TypeOK, CallerStates, Undisturbed, NothingLost, StoredIsLive, Persisting, SpentOnce,
            FailsWhenDropped, AsksOnlyWhenLost, CallerAt
    <2> QED
        BY <2>2, <2>3, <2>4
<1>3. CASE identity # None /\ Join(c)
    <2>1. /\ caller' = [caller EXCEPT ![c].pc = "wait", ![c].seen = identity,
                                      ![c].from = caller[inFlight].from, ![c].by = inFlight]
          /\ cache' = NoCache /\ inFlight' = inFlight
          /\ inFlight \in Callers /\ Refreshing(inFlight) /\ inFlight # c
        BY <1>3 DEF Join, Missed, TypeOK, Refreshing, CallerAt
    <2>2. caller[inFlight].from \in Sessions
        BY <2>1 DEF OneRefresh
    <2>3. TypeOK'
        <3>1. caller' \in [Callers -> CallerStates]
            <4>1. /\ caller \in [Callers -> CallerStates] /\ caller[c] \in CallerStates
                  /\ identity \in Sessions \cup {None}
                BY DEF TypeOK
            <4>2. [caller[c] EXCEPT !.pc = "wait", !.seen = identity,
                                    !.from = caller[inFlight].from, !.by = inFlight]
                      \in CallerStates
                BY <2>1, <2>2, <4>1, CallerUpdate
            <4> HIDE DEF SessionsInv, Load
            <4> QED
                BY <2>1, <4>1, <4>2
        <3>2. inFlight' \in {d \in Callers : Refreshing(d)'} \cup {None}
            BY <2>1 DEF TypeOK, Refreshing
        <3> QED
            BY <1>0, <2>1, <3>1, <3>2 DEF TypeOK
    <2>4. OneRefresh' /\ Rotated' /\ FromSaved'
        BY <1>0, <2>1, <2>2, SessionsAssumption
        DEF TypeOK, CallerStates, OneRefresh, Rotated, FromSaved, Refreshing, CallerAt
    <2>5. Undisturbed' => NothingLost'
        BY <1>0, <2>1
        DEF TypeOK, CallerStates, Undisturbed, NothingLost, StoredIsLive, Persisting, SpentOnce,
            FailsWhenDropped, AsksOnlyWhenLost, CallerAt
    <2> QED
        BY <2>3, <2>4, <2>5
<1>4. CASE identity # None /\ inFlight = None /\ Begin(c)
    <2>1. /\ caller' = [caller EXCEPT ![c].pc = "read", ![c].seen = identity,
                                      ![c].from = identity, ![c].by = c]
          /\ cache' = NoCache /\ inFlight' = c
        BY <1>4 DEF Begin, Missed
    <2>2. \A d \in Callers : ~Refreshing(d) /\ ~CallerAt(d, "wait")
        BY <1>4, SessionsAssumption DEF OneRefresh
    <2>3. TypeOK'
        <3>1. caller' \in [Callers -> CallerStates]
            <4>1. /\ caller \in [Callers -> CallerStates] /\ caller[c] \in CallerStates
                  /\ identity \in Sessions \cup {None}
                BY DEF TypeOK
            <4>2. [caller[c] EXCEPT !.pc = "read", !.seen = identity,
                                    !.from = identity, !.by = c] \in CallerStates
                BY <4>1, CallerUpdate
            <4> HIDE DEF SessionsInv, Load
            <4> QED
                BY <2>1, <4>1, <4>2
        <3>2. inFlight' \in {d \in Callers : Refreshing(d)'} \cup {None}
            BY <2>1 DEF TypeOK, Refreshing
        <3> QED
            BY <1>0, <2>1, <3>1, <3>2 DEF TypeOK
    <2>4. OneRefresh' /\ Rotated' /\ FromSaved'
        BY <1>0, <1>4, <2>1, <2>2
        DEF TypeOK, CallerStates, OneRefresh, Rotated, FromSaved, Refreshing, CallerAt
    <2>5. Undisturbed' => NothingLost'
        BY <1>0, <2>1
        DEF TypeOK, CallerStates, Undisturbed, NothingLost, StoredIsLive, Persisting, SpentOnce,
            FailsWhenDropped, AsksOnlyWhenLost, CallerAt
    <2> QED
        BY <2>3, <2>4, <2>5
<1> QED
    BY <1>1, <1>2, <1>3, <1>4

(* The running refresh is alone. *)
LEMMA Alone ==
    ASSUME SessionsInv, NEW c \in Callers, Refreshing(c)
    PROVE  /\ inFlight = c
           /\ caller[c].from \in Sessions /\ flow[caller[c].from] = "saved"
           /\ \A d \in Callers \ {c} : ~Refreshing(d)
           /\ \A d \in Callers : CallerAt(d, "wait") => /\ caller[d].by = c
                                                        /\ caller[d].from = caller[c].from
BY SessionsAssumption DEF SessionsInv, OneRefresh, FromSaved

LEMMA ReadHolds ==
    ASSUME NEW c \in Callers, SessionsInv, ReadToken(c)
    PROVE  SessionsInv'
<1> DEFINE token == stored[caller[c].from]
           pc == IF token = 0 THEN "refuse" ELSE "send"
<1>1. /\ CallerAt(c, "read")
      /\ caller' = [caller EXCEPT ![c].token = token, ![c].pc = pc]
      /\ UNCHANGED <<flow, identity, stored, issued, cache, inFlight, lapses, faults, crashes>>
    BY DEF ReadToken, grantVars, tokenVars, bounds
<1>2. /\ inFlight = c
      /\ caller[c].from \in Sessions /\ flow[caller[c].from] = "saved"
      /\ \A d \in Callers \ {c} : ~Refreshing(d)
      /\ \A d \in Callers : CallerAt(d, "wait") => /\ caller[d].by = c
                                                   /\ caller[d].from = caller[c].from
    BY <1>1, Alone DEF Refreshing, CallerAt
<1>3. token \in Nat /\ pc \in {"refuse", "send"} /\ (pc = "refuse" <=> token = 0)
    BY <1>2 DEF SessionsInv, TypeOK
<1> HIDE DEF token, pc
<1>4. caller \in [Callers -> CallerStates]
    BY DEF SessionsInv, TypeOK
<1>5. TypeOK'
    <2>1. caller' \in [Callers -> CallerStates]
        <3>1. [caller[c] EXCEPT !.token = token, !.pc = pc] \in CallerStates
            BY <1>3, <1>4 DEF CallerStates
        <3> QED
            BY <1>1, <1>4, <3>1
    <2>2. inFlight \in {d \in Callers : Refreshing(d)'} \cup {None}
        BY <1>1, <1>2, <1>3, <1>4 DEF Refreshing, CallerStates
    <2> QED
        BY <1>1, <2>1, <2>2 DEF SessionsInv, TypeOK
<1>6. OneRefresh'
    BY <1>1, <1>2, <1>3, <1>4 DEF OneRefresh, Refreshing, CallerAt, CallerStates
<1>7. Rotated' /\ FromSaved'
    BY <1>1, <1>2, <1>3, <1>4 DEF SessionsInv, Rotated, FromSaved, CallerAt, CallerStates
<1>8. Undisturbed' => NothingLost'
    <2> SUFFICES ASSUME Undisturbed PROVE NothingLost'
        BY <1>1 DEF Undisturbed
    <2>1. StoredIsLive /\ SpentOnce /\ FailsWhenDropped /\ AsksOnlyWhenLost
        BY DEF SessionsInv, NothingLost
    <2>2. \A s \in Sessions : ~Persisting(s) /\ ~Persisting(s)'
        BY <1>1, <1>2, <1>3, <1>4 DEF Persisting, Refreshing, CallerAt, CallerStates
    <2>3. StoredIsLive'
        BY <1>1, <2>1, <2>2 DEF StoredIsLive
    <2>4. /\ token = 0 => caller[c].from # identity
          /\ token # 0 => token = issued[caller[c].from]
        BY <1>2, <2>1, <2>2 DEF StoredIsLive, token
    <2>5. SpentOnce'
        BY <1>1, <1>3, <1>4, <2>1, <2>4 DEF SpentOnce, CallerAt, CallerStates, Undisturbed
    <2>6. FailsWhenDropped' /\ AsksOnlyWhenLost'
        BY <1>1, <1>3, <1>4, <2>1, <2>4
        DEF FailsWhenDropped, AsksOnlyWhenLost, CallerAt, CallerStates, Undisturbed
    <2> QED
        BY <2>3, <2>5, <2>6 DEF NothingLost
<1> QED
    BY <1>5, <1>6, <1>7, <1>8 DEF SessionsInv

LEMMA SpendHolds ==
    ASSUME NEW c \in Callers, SessionsInv, Spend(c)
    PROVE  SessionsInv'
<1> DEFINE s == caller[c].from
<1>1. /\ CallerAt(c, "send")
      /\ UNCHANGED <<flow, identity, stored, cache, inFlight, lapses, crashes>>
    BY DEF Spend, grantVars
<1>2. /\ inFlight = c
      /\ s \in Sessions /\ flow[s] = "saved"
      /\ \A d \in Callers \ {c} : ~Refreshing(d)
      /\ \A d \in Callers : CallerAt(d, "wait") => caller[d].by = c /\ caller[d].from = s
    BY <1>1, Alone DEF Refreshing, CallerAt
<1>3. /\ caller \in [Callers -> CallerStates] /\ issued \in [Sessions -> Nat]
      /\ stored \in [Sessions -> Nat] /\ (\A t \in Sessions : stored[t] <= issued[t])
      /\ faults \in Nat /\ crashes \in Nat
    BY BoundsAssumption DEF SessionsInv, TypeOK
<1>4. CASE /\ caller[c].token = issued[s]
           /\ issued' = [issued EXCEPT ![s] = @ + 1]
           /\ caller' = [caller EXCEPT ![c].pc = "persist", ![c].token = @ + 1]
           /\ UNCHANGED faults
    <2>1. TypeOK'
        <3>1. caller' \in [Callers -> CallerStates] /\ issued' \in [Sessions -> Nat]
            BY <1>3, <1>4 DEF CallerStates
        <3>2. inFlight \in {d \in Callers : Refreshing(d)'} \cup {None}
            BY <1>2, <1>3, <1>4 DEF Refreshing, CallerStates
        <3>3. \A t \in Sessions : stored[t] <= issued'[t]
            BY <1>2, <1>3, <1>4
        <3> QED
            BY <1>1, <1>4, <3>1, <3>2, <3>3 DEF SessionsInv, TypeOK
    <2>2. OneRefresh'
        BY <1>1, <1>2, <1>3, <1>4 DEF OneRefresh, Refreshing, CallerAt, CallerStates
    <2>3. Rotated' /\ FromSaved'
        BY <1>1, <1>2, <1>3, <1>4
        DEF SessionsInv, Rotated, FromSaved, Refreshing, CallerAt, CallerStates
    <2>4. Undisturbed' => NothingLost'
        <3> SUFFICES ASSUME Undisturbed PROVE NothingLost'
            BY <1>1, <1>4 DEF Undisturbed
        <3>1. StoredIsLive /\ FailsWhenDropped /\ AsksOnlyWhenLost
            BY DEF SessionsInv, NothingLost
        <3>2. /\ Persisting(s)'
              /\ \A t \in Sessions \ {s} : ~Persisting(t) /\ ~Persisting(t)'
            BY <1>1, <1>2, <1>3, <1>4 DEF Persisting, Refreshing, CallerAt, CallerStates
        <3>3. StoredIsLive'
            BY <1>1, <1>2, <1>3, <1>4, <3>1, <3>2 DEF StoredIsLive
        <3>4. SpentOnce'
            BY <1>2, <1>3, <1>4 DEF SpentOnce, Refreshing, CallerAt, CallerStates
        <3>5. FailsWhenDropped' /\ AsksOnlyWhenLost'
            BY <1>1, <1>3, <1>4, <3>1
            DEF FailsWhenDropped, AsksOnlyWhenLost, CallerAt, CallerStates, Undisturbed
        <3> QED
            BY <3>3, <3>4, <3>5 DEF NothingLost
    <2> QED
        BY <2>1, <2>2, <2>3, <2>4 DEF SessionsInv
<1>5. CASE /\ \/ Fault /\ issued' = [issued EXCEPT ![s] = @ + 1]
              \/ Fault /\ issued' = issued
              \/ caller[c].token # issued[s] /\ issued' = issued /\ UNCHANGED faults
           /\ caller' = [caller EXCEPT ![c].pc = "refuse"]
    <2>1. TypeOK'
        <3>1. caller' \in [Callers -> CallerStates] /\ issued' \in [Sessions -> Nat]
            BY <1>3, <1>5 DEF CallerStates
        <3>2. inFlight \in {d \in Callers : Refreshing(d)'} \cup {None}
            BY <1>2, <1>3, <1>5 DEF Refreshing, CallerStates
        <3>3. \A t \in Sessions : stored[t] <= issued'[t]
            BY <1>2, <1>3, <1>5
        <3>4. faults' \in 0 .. MaxFaults
            BY <1>5, BoundsAssumption DEF SessionsInv, TypeOK, Fault
        <3> QED
            BY <1>1, <3>1, <3>2, <3>3, <3>4 DEF SessionsInv, TypeOK
    <2>2. OneRefresh'
        BY <1>1, <1>2, <1>3, <1>5 DEF OneRefresh, Refreshing, CallerAt, CallerStates
    <2>3. Rotated' /\ FromSaved'
        BY <1>1, <1>2, <1>3, <1>5
        DEF SessionsInv, Rotated, FromSaved, Refreshing, CallerAt, CallerStates
    <2>4. ~Undisturbed'
        <3>1. CASE Fault
            BY <1>1, <1>3, <3>1 DEF Fault, Undisturbed
        <3>2. CASE caller[c].token # issued[s]
            BY <1>1, <1>3, <1>5, <3>2
            DEF SessionsInv, NothingLost, SpentOnce, Undisturbed, Fault
        <3> QED
            BY <1>5, <3>1, <3>2
    <2> QED
        BY <2>1, <2>2, <2>3, <2>4 DEF SessionsInv
<1> QED
    BY <1>4, <1>5 DEF Spend, Goes

LEMMA PersistHolds ==
    ASSUME NEW c \in Callers, SessionsInv, Persist(c)
    PROVE  SessionsInv'
<1> DEFINE s == caller[c].from
<1>1. /\ CallerAt(c, "persist")
      /\ caller' = [caller EXCEPT ![c].pc = "settle"]
      /\ stored' = [stored EXCEPT ![s] = caller[c].token]
      /\ UNCHANGED <<flow, identity, issued, cache, inFlight, lapses, faults, crashes>>
    BY DEF Persist, Goes, grantVars, bounds
<1>2. /\ inFlight = c
      /\ s \in Sessions /\ flow[s] = "saved"
      /\ \A d \in Callers \ {c} : ~Refreshing(d)
      /\ \A d \in Callers : CallerAt(d, "wait") => caller[d].by = c /\ caller[d].from = s
    BY <1>1, Alone DEF Refreshing, CallerAt
<1>3. /\ caller \in [Callers -> CallerStates] /\ issued \in [Sessions -> Nat]
      /\ stored \in [Sessions -> Nat] /\ (\A t \in Sessions : stored[t] <= issued[t])
      /\ caller[c].token = issued[s]
    BY <1>1 DEF SessionsInv, TypeOK, Rotated
<1>4. TypeOK'
    <2>1. caller' \in [Callers -> CallerStates] /\ stored' \in [Sessions -> Nat]
        BY <1>1, <1>2, <1>3 DEF CallerStates
    <2>2. inFlight \in {d \in Callers : Refreshing(d)'} \cup {None}
        BY <1>1, <1>2, <1>3 DEF Refreshing, CallerStates
    <2>3. \A t \in Sessions : stored'[t] <= issued[t]
        BY <1>1, <1>2, <1>3
    <2> QED
        BY <1>1, <2>1, <2>2, <2>3 DEF SessionsInv, TypeOK
<1>5. OneRefresh'
    BY <1>1, <1>2, <1>3 DEF OneRefresh, Refreshing, CallerAt, CallerStates
<1>6. Rotated' /\ FromSaved'
    BY <1>1, <1>2, <1>3 DEF SessionsInv, Rotated, FromSaved, Refreshing, CallerAt, CallerStates
<1>7. Undisturbed' => NothingLost'
    <2> SUFFICES ASSUME Undisturbed PROVE NothingLost'
        BY <1>1 DEF Undisturbed
    <2>1. StoredIsLive /\ FailsWhenDropped /\ AsksOnlyWhenLost
        BY DEF SessionsInv, NothingLost
    <2>2. \A t \in Sessions \ {s} : ~Persisting(t)
        BY <1>1, <1>2 DEF Persisting, Refreshing, CallerAt
    <2>3. StoredIsLive'
        BY <1>1, <1>2, <1>3, <2>1, <2>2 DEF StoredIsLive
    <2>4. SpentOnce'
        BY <1>1, <1>2, <1>3 DEF SpentOnce, Refreshing, CallerAt, CallerStates
    <2>5. FailsWhenDropped' /\ AsksOnlyWhenLost'
        BY <1>1, <1>3, <2>1
        DEF FailsWhenDropped, AsksOnlyWhenLost, CallerAt, CallerStates, Undisturbed
    <2> QED
        BY <2>3, <2>4, <2>5 DEF NothingLost
<1> QED
    BY <1>4, <1>5, <1>6, <1>7 DEF SessionsInv

(* A refresh ends, well or not, for every call that waits for it. *)
LEMMA AnswersHold ==
    ASSUME NEW c \in Callers, SessionsInv, Refreshing(c), ~CallerAt(c, "persist"),
           NEW pc \in {"fetch", "reauth"}, Settles(c, pc),
           pc = "reauth" => CallerAt(c, "refuse"),
           cache' \in [session : Sessions, fresh : BOOLEAN] \cup {NoCache},
           UNCHANGED <<flow, identity, stored, issued, lapses, faults, crashes>>
    PROVE  SessionsInv'
<1> DEFINE s == caller[c].from
<1>1. /\ s \in Sessions /\ flow[s] = "saved"
      /\ \A d \in Callers \ {c} : ~Refreshing(d)
      /\ \A d \in Callers : CallerAt(d, "wait") => caller[d].by = c /\ caller[d].from = s
    BY Alone
<1>2. caller \in [Callers -> CallerStates]
    BY DEF SessionsInv, TypeOK
<1>3. /\ inFlight' = None
      /\ caller' = [d \in Callers |->
                       IF d = c \/ CallerAt(d, "wait")
                       THEN [caller[d] EXCEPT !.pc = pc, !.by = None, !.token = 0]
                       ELSE caller[d]]
    BY <1>1 DEF Settles, Answers
<1>4. \A d \in Callers :
          /\ caller'[d] \in CallerStates
          /\ caller'[d].from = caller[d].from
          /\ \/ caller'[d].pc = pc /\ caller[d].from = s
             \/ caller'[d] = caller[d] /\ ~Refreshing(d) /\ ~CallerAt(d, "wait")
    <2> TAKE d \in Callers
    <2>1. CASE d = c \/ CallerAt(d, "wait")
        <3>1. caller'[d] = [caller[d] EXCEPT !.pc = pc, !.by = None, !.token = 0]
            BY <1>3, <2>1
        <3>2. [caller[d] EXCEPT !.pc = pc, !.by = None, !.token = 0] \in CallerStates
            BY <1>2 DEF CallerStates
        <3>3. caller[d].from = s
            BY <1>1, <2>1
        <3> QED
            BY <1>2, <3>1, <3>2, <3>3 DEF CallerStates
    <2>2. CASE ~(d = c \/ CallerAt(d, "wait"))
        BY <1>1, <1>2, <1>3, <2>2
    <2> QED
        BY <2>1, <2>2
<1>5. \A d \in Callers : ~Refreshing(d)' /\ ~CallerAt(d, "wait")'
    BY <1>4 DEF Refreshing, CallerAt
<1>6. TypeOK'
    <2>1. caller' \in [Callers -> CallerStates]
        BY <1>3, <1>4
    <2> QED
        BY <1>3, <2>1 DEF SessionsInv, TypeOK
<1>7. OneRefresh' /\ Rotated' /\ FromSaved'
    <2>1. OneRefresh'
        BY <1>5 DEF OneRefresh
    <2>2. Rotated'
        BY <1>5 DEF Rotated, Refreshing, CallerAt
    <2>3. FromSaved'
        BY <1>1, <1>4, SessionsAssumption DEF SessionsInv, FromSaved, CallerAt
    <2> QED
        BY <2>1, <2>2, <2>3
<1>8. Undisturbed' => NothingLost'
    <2> SUFFICES ASSUME Undisturbed PROVE NothingLost'
        BY DEF Undisturbed
    <2>1. StoredIsLive /\ FailsWhenDropped /\ AsksOnlyWhenLost
        BY DEF SessionsInv, NothingLost
    <2>2. \A t \in Sessions : ~Persisting(t) /\ ~Persisting(t)'
        BY <1>1, <1>5 DEF Persisting, Refreshing, CallerAt
    <2>3. StoredIsLive'
        BY <2>1, <2>2 DEF StoredIsLive
    <2>4. SpentOnce' /\ FailsWhenDropped'
        BY <1>5 DEF SpentOnce, FailsWhenDropped, Refreshing, CallerAt
    <2>5. AsksOnlyWhenLost'
        BY <1>4, <2>1 DEF AsksOnlyWhenLost, FailsWhenDropped, CallerAt, Undisturbed
    <2> QED
        BY <2>3, <2>4, <2>5 DEF NothingLost
<1> QED
    BY <1>6, <1>7, <1>8 DEF SessionsInv

LEMMA SettleHolds ==
    ASSUME NEW c \in Callers, SessionsInv, Settle(c)
    PROVE  SessionsInv'
<1>1. /\ Refreshing(c) /\ ~CallerAt(c, "persist")
      /\ cache' = [session |-> caller[c].from, fresh |-> TRUE]
      /\ Settles(c, "fetch")
      /\ UNCHANGED <<flow, identity, stored, issued, lapses, faults, crashes>>
    BY DEF Settle, Refreshing, CallerAt, grantVars, tokenVars, bounds
<1>2. cache' \in [session : Sessions, fresh : BOOLEAN] \cup {NoCache}
    BY <1>1, Alone
<1> QED
    BY <1>1, <1>2, AnswersHold

LEMMA RefuseHolds ==
    ASSUME NEW c \in Callers, SessionsInv, RefuseAll(c)
    PROVE  SessionsInv'
<1>1. /\ Refreshing(c) /\ ~CallerAt(c, "persist") /\ CallerAt(c, "refuse")
      /\ cache' = cache
      /\ Settles(c, "reauth")
      /\ UNCHANGED <<flow, identity, stored, issued, lapses, faults, crashes>>
    BY DEF RefuseAll, Refreshing, CallerAt, grantVars, tokenVars, bounds
<1>2. cache' \in [session : Sessions, fresh : BOOLEAN] \cup {NoCache}
    BY <1>1 DEF SessionsInv, TypeOK
<1> QED
    BY <1>1, <1>2, AnswersHold

LEMMA CrashHolds == SessionsInv /\ Crash => SessionsInv'
<1> SUFFICES ASSUME SessionsInv, Crash PROVE SessionsInv'
    OBVIOUS
<1>1. /\ cache' = NoCache /\ inFlight' = None /\ crashes' = crashes + 1
      /\ crashes < MaxCrashes
      /\ UNCHANGED <<identity, stored, issued, lapses, faults>>
    BY DEF Crash, tokenVars
<1>2. /\ caller \in [Callers -> CallerStates] /\ crashes \in Nat /\ faults \in Nat
      /\ flow \in [Sessions -> {"new", "started", "exchanged", "saved", "over"}]
    BY BoundsAssumption DEF SessionsInv, TypeOK
<1>3. IdleCaller \in CallerStates
    BY DEF IdleCaller, CallerStates
<1>4. \A d \in Callers :
          /\ caller'[d] \in CallerStates
          /\ \/ caller'[d] = IdleCaller
             \/ caller'[d] = caller[d] /\ ~Refreshing(d) /\ ~CallerAt(d, "wait")
    BY <1>2, <1>3 DEF Crash
<1>5. \A d \in Callers : ~Refreshing(d)' /\ ~CallerAt(d, "wait")'
    BY <1>4 DEF Refreshing, CallerAt, IdleCaller
<1>6. /\ flow' \in [Sessions -> {"new", "started", "exchanged", "saved", "over"}]
      /\ \A s \in Sessions : flow[s] = "saved" => flow'[s] = "saved"
    BY <1>2 DEF Crash
<1>7. TypeOK'
    <2>1. caller' \in [Callers -> CallerStates]
        BY <1>4 DEF Crash
    <2>2. crashes' \in 0 .. MaxCrashes
        BY <1>1, <1>2, BoundsAssumption
    <2> QED
        BY <1>1, <1>6, <2>1, <2>2 DEF SessionsInv, TypeOK
<1>8. OneRefresh' /\ Rotated' /\ FromSaved'
    <2>1. OneRefresh'
        BY <1>5 DEF OneRefresh
    <2>2. Rotated'
        BY <1>5 DEF Rotated, Refreshing, CallerAt
    <2>3. FromSaved'
        BY <1>2, <1>4, <1>6 DEF SessionsInv, FromSaved, CallerAt, CallerStates, IdleCaller
    <2> QED
        BY <2>1, <2>2, <2>3
<1>9. ~Undisturbed'
    BY <1>1, <1>2 DEF Undisturbed
<1> QED
    BY <1>7, <1>8, <1>9 DEF SessionsInv

LEMMA StutterHolds == SessionsInv /\ UNCHANGED vars => SessionsInv'
BY DEF SessionsInv, vars, grantVars, tokenVars, bounds, TypeOK, OneRefresh, FromSaved, Rotated,
       Undisturbed, NothingLost, StoredIsLive, Persisting, SpentOnce, FailsWhenDropped,
       AsksOnlyWhenLost, Refreshing, CallerAt

LEMMA NextHolds == SessionsInv /\ [Next]_vars => SessionsInv'
<1> SUFFICES ASSUME SessionsInv, [Next]_vars PROVE SessionsInv'
    OBVIOUS
<1>1. ASSUME NEW s \in Sessions, StartAuthFlow(s) \/ Exchange(s) \/ SaveIdentity(s)
      PROVE  SessionsInv'
    BY <1>1, StartHolds, ExchangeHolds, SaveHolds
<1>2. ASSUME NEW c \in Callers, Load(c) \/ Refresh(c)
      PROVE  SessionsInv'
    BY <1>2, LoadHolds, ReadHolds, SpendHolds, PersistHolds, SettleHolds, RefuseHolds
    DEF Refresh
<1>3. CASE Disconnect \/ Lapse \/ Crash
    BY <1>3, DisconnectHolds, LapseHolds, CrashHolds
<1>4. CASE UNCHANGED vars
    BY <1>4, StutterHolds
<1> QED
    BY <1>1, <1>2, <1>3, <1>4 DEF Next

THEOREM SessionsInvariant == Spec => []SessionsInv
BY InitHolds, NextHolds, PTL DEF Spec

(* The types of the sessions, the tokens and the calls. *)
THEOREM SessionsTypes == Spec => []TypeOK
<1>1. SessionsInv => TypeOK
    BY DEF SessionsInv
<1> QED
    BY <1>1, SessionsInvariant, PTL

(* A single-use refresh token is presented once, while nothing fails: the   *)
(* coalescing in inFlightRefresh does what its comment says.                *)
THEOREM TokensAreSpentOnce == Spec => []SpentOnce
<1>1. SessionsInv => SpentOnce
    BY DEF SessionsInv, NothingLost, SpentOnce
<1> QED
    BY <1>1, SessionsInvariant, PTL

(* "needs reauthorization" is the answer only for a session that was        *)
(* replaced or disconnected, while nothing fails.                           *)
THEOREM AsksOnlyForDropped == Spec => []AsksOnlyWhenLost
<1>1. SessionsInv => AsksOnlyWhenLost
    BY DEF SessionsInv, NothingLost, AsksOnlyWhenLost
<1> QED
    BY <1>1, SessionsInvariant, PTL

-----------------------------------------------------------------------------
(* GitHttp. *)


Under(pcs) == {r \in Requests : req[r].pc \in pcs}

(* The requests with a wrong credential that is not recorded yet, and those *)
(* that may still find one to be wrong: they are past the look at the bucket. *)
Recording == Under({"record"})
Pending   == Under({"verify", "record"})
Others    == Cardinality(Requests) - 1

(* Failures that were recorded and that took nothing from the bucket. *)
Wasted == (guesses - Cardinality(Recording)) - (Capacity + refills - bucket)

WasteIsBounded ==
    /\ bucket = 0 => Wasted + Cardinality(Pending) <= refills * Others + Others
    /\ bucket > 0 => Wasted <= refills * Others
    /\ bucket < Capacity => Requests # {}

(* What is left in the queue of a stream was put there by the child. *)
QueueIsSent == \A r \in Requests : cgi[r].queue <= cgi[r].sent

ThrottleInv == GitTypeOK /\ QueueIsSent /\ WasteIsBounded

(* The types of the local states. *)
ReqStates ==
    [pc : {"idle", "peek", "verify", "record", "probe", "sized", "body", "cgi"},
     kind : Kinds \cup {"none"}, token : Tokens \cup {NoToken},
     bytes : 0 .. MaxDisk + Cardinality(Requests)]

CgiStates ==
    [child : {"none", "runs", "gone"}, clean : BOOLEAN, stdout : {"open", "ended", "threw"},
     closed : BOOLEAN, answer : {"pending", "resolved", "rejected"},
     body : {"readable", "closed", "errored", "cancelled"}, ending : BOOLEAN,
     queue : 0 .. MaxChunks, sent : 0 .. MaxChunks, killed : BOOLEAN]

GateTypes ==
    /\ tokens \subseteq Tokens /\ Cardinality(tokens) <= MaxTokens
    /\ bucket \in 0 .. Capacity
    /\ size \in 0 .. MaxDisk + Cardinality(Requests)
    /\ cached \in 0 .. MaxDisk + Cardinality(Requests) \cup {Unknown}
    /\ guesses \in Nat /\ refills \in 0 .. MaxRefills /\ served \in 0 .. MaxServed

ReqTypes == req \in [Requests -> ReqStates]
CgiTypes == cgi \in [Requests -> CgiStates] /\ QueueIsSent

-----------------------------------------------------------------------------
LEMMA TypesSplit == (GitTypeOK /\ QueueIsSent) <=> (GateTypes /\ ReqTypes /\ CgiTypes)
BY DEF GitTypeOK, GateTypes, ReqTypes, CgiTypes, ReqStates, CgiStates

LEMMA NumbersAreNatural ==
    /\ Cardinality(Requests) \in Nat
    /\ MaxTokens \in Nat /\ MaxDisk \in Nat /\ MaxChunks \in Nat
    /\ MaxRefills \in Nat /\ MaxServed \in Nat /\ Capacity \in Nat /\ Capacity > 0
BY GitBoundsAssumption, FS_CardinalityType

LEMMA IdleIsTyped == Idle \in ReqStates
BY NumbersAreNatural DEF Idle, ReqStates, NoToken

LEMMA NoCgiIsTyped == NoCgi \in CgiStates
BY NumbersAreNatural DEF NoCgi, CgiStates

(* A request moves on: its local state stays of its type. *)
LEMMA ReqMoves ==
    ASSUME ReqTypes, NEW r \in Requests, NEW s \in ReqStates,
           req' = [req EXCEPT ![r] = s]
    PROVE  ReqTypes'
BY DEF ReqTypes

(* The same of the child process. *)
LEMMA CgiMoves ==
    ASSUME CgiTypes, NEW r \in Requests, NEW s \in CgiStates, s.queue <= s.sent,
           cgi' = [cgi EXCEPT ![r] = s]
    PROVE  CgiTypes'
BY DEF CgiTypes, QueueIsSent

LEMMA ReqIsRecord ==
    ASSUME ReqTypes, NEW r \in Requests
    PROVE  /\ req[r] \in ReqStates
           /\ req[r].bytes \in 0 .. MaxDisk + Cardinality(Requests)
BY DEF ReqTypes, ReqStates

LEMMA CgiIsRecord ==
    ASSUME CgiTypes, NEW r \in Requests
    PROVE  /\ cgi[r] \in CgiStates
           /\ cgi[r].queue \in Nat /\ cgi[r].sent \in 0 .. MaxChunks
           /\ cgi[r].queue <= cgi[r].sent
BY NumbersAreNatural DEF CgiTypes, CgiStates, QueueIsSent

(* Serve, Refuse and GitGoes. *)
LEMMA GoesIsTyped ==
    ASSUME ReqTypes, NEW r \in Requests,
           NEW pc \in {"idle", "peek", "verify", "record", "probe", "sized", "body", "cgi"},
           GitGoes(r, pc)
    PROVE  ReqTypes'
<1>1. [req[r] EXCEPT !.pc = pc] \in ReqStates
    BY ReqIsRecord DEF ReqStates
<1>2. req' = [req EXCEPT ![r] = [req[r] EXCEPT !.pc = pc]]
    BY DEF GitGoes, ReqTypes
<1> QED
    BY <1>1, <1>2, ReqMoves

LEMMA EndsIsTyped ==
    ASSUME ReqTypes, NEW r \in Requests, Ends(r)
    PROVE  ReqTypes'
BY IdleIsTyped, ReqMoves DEF Ends

LEMMA StartIsTyped ==
    ASSUME CgiTypes, NEW r \in Requests, cgi' = [cgi EXCEPT ![r].child = "runs"]
    PROVE  CgiTypes'
<1>1. [cgi[r] EXCEPT !.child = "runs"] \in CgiStates
    BY CgiIsRecord DEF CgiStates
<1>2. [cgi[r] EXCEPT !.child = "runs"].queue <= [cgi[r] EXCEPT !.child = "runs"].sent
    BY CgiIsRecord DEF CgiStates
<1>3. cgi' = [cgi EXCEPT ![r] = [cgi[r] EXCEPT !.child = "runs"]]
    BY DEF CgiTypes
<1> QED
    BY <1>1, <1>2, <1>3, CgiMoves

LEMMA ServeIsTyped ==
    ASSUME ReqTypes, CgiTypes, NEW r \in Requests, Serve(r)
    PROVE  ReqTypes' /\ CgiTypes'
<1>1. [req[r] EXCEPT !.pc = "cgi", !.token = NoToken, !.bytes = 0] \in ReqStates
    <2>1. req[r] \in ReqStates /\ 0 \in 0 .. MaxDisk + Cardinality(Requests)
        BY ReqIsRecord, NumbersAreNatural
    <2> QED
        BY <2>1 DEF ReqStates
<1>2. req' = [req EXCEPT ![r] = [req[r] EXCEPT !.pc = "cgi", !.token = NoToken, !.bytes = 0]]
    BY DEF Serve, ReqTypes
<1>3. ReqTypes'
    BY <1>1, <1>2, ReqMoves
<1> QED
    BY <1>3, StartIsTyped DEF Serve

LEMMA DecideIsTyped ==
    ASSUME ReqTypes, CgiTypes, NEW r \in Requests, NEW bytes, Decide(r, bytes)
    PROVE  ReqTypes' /\ CgiTypes'
<1>1. CASE Refuse(r)
    BY <1>1, EndsIsTyped DEF Refuse, CgiTypes, QueueIsSent
<1>2. CASE Serve(r)
    BY <1>2, ServeIsTyped
<1> QED
    BY <1>1, <1>2 DEF Decide

-----------------------------------------------------------------------------
Types == GateTypes /\ ReqTypes /\ CgiTypes

LEMMA InitIsTyped == GitInit => Types
<1> SUFFICES ASSUME GitInit PROVE Types
    OBVIOUS
<1>1. GateTypes
    <2>1. Cardinality({}) = 0
        BY FS_EmptySet
    <2> QED
        BY <2>1, NumbersAreNatural DEF GitInit, GateTypes, Unknown
<1>2. ReqTypes
    BY IdleIsTyped DEF GitInit, ReqTypes
<1>3. CgiTypes
    <2>1. NoCgi.queue <= NoCgi.sent
        BY DEF NoCgi
    <2> QED
        BY <2>1, NoCgiIsTyped DEF GitInit, CgiTypes, QueueIsSent
<1> QED
    BY <1>1, <1>2, <1>3 DEF Types

(* A step that changes the local state of one request, or its child, only. *)
LEMMA GateStays ==
    ASSUME Types, UNCHANGED gate, served' = served \/ (served < MaxServed /\ served' = served + 1)
    PROVE  GateTypes'
BY NumbersAreNatural DEF Types, GateTypes, gate

LEMMA CgiStays ==
    ASSUME Types, UNCHANGED cgi
    PROVE  CgiTypes'
BY DEF Types, CgiTypes, QueueIsSent

(* The token that is minted keeps the table within its quota: between the *)
(* look at it and the insert nothing waits.                               *)
LEMMA MintIsTyped ==
    ASSUME NEW r \in Requests, Types, Mint(r)
    PROVE  Types'
<1>1. ReqTypes' /\ CgiTypes'
    BY EndsIsTyped, CgiStays DEF Types, Mint
<1>2. GateTypes'
    <2>1. IsFiniteSet(tokens) /\ Cardinality(tokens) \in Nat
        BY GitBoundsAssumption, FS_Subset, FS_CardinalityType DEF Types, GateTypes
    <2>2. CASE CanMint
        <3>1. PICK t \in Tokens \ tokens : tokens' = tokens \cup {t}
            BY <2>2 DEF Mint, NewToken
        <3>2. Cardinality(tokens \cup {t}) = Cardinality(tokens) + 1
            BY <2>1, <3>1, FS_AddElement
        <3> QED
            BY <2>1, <2>2, <3>1, <3>2, NumbersAreNatural DEF Types, GateTypes, CanMint, Mint
    <2>3. CASE ~CanMint
        BY <2>3 DEF Types, GateTypes, Mint
    <2> QED
        BY <2>2, <2>3
<1> QED
    BY <1>1, <1>2 DEF Types

LEMMA RevokeIsTyped ==
    ASSUME NEW t \in Tokens, Types, Revoke(t)
    PROVE  Types'
<1>1. Cardinality(tokens \ {t}) <= MaxTokens
    <2>1. IsFiniteSet(tokens) /\ Cardinality(tokens) \in Nat
        BY GitBoundsAssumption, FS_Subset, FS_CardinalityType DEF Types, GateTypes
    <2>2. Cardinality(tokens \ {t}) = Cardinality(tokens) - 1
        BY <2>1, FS_RemoveElement DEF Revoke
    <2> QED
        BY <2>1, <2>2, NumbersAreNatural DEF Types, GateTypes
<1> QED
    BY <1>1 DEF Revoke, Types, GateTypes, ReqTypes, CgiTypes, QueueIsSent

(* A request arrives: to mint a token, or for the repository. *)
LEMMA ArrivalIsTyped ==
    ASSUME NEW r \in Requests, Types,
           AskMint(r) \/ \E k \in Kinds \ {"mint"}, t \in Tokens : Arrive(r, k, t)
    PROVE  Types'
<1>1. GateTypes'
    BY GateStays DEF AskMint, Arrive
<1>2. CASE AskMint(r)
    <2>1. [Idle EXCEPT !.pc = "body", !.kind = "mint"] \in ReqStates
        BY IdleIsTyped DEF ReqStates, Kinds
    <2> QED
        BY <1>1, <1>2, <2>1, ReqMoves, CgiStays DEF AskMint, Types
<1>3. CASE \E k \in Kinds \ {"mint"}, t \in Tokens : Arrive(r, k, t)
    <2>1. PICK k \in Kinds \ {"mint"}, t \in Tokens : Arrive(r, k, t)
        BY <1>3
    <2> DEFINE state == [Idle EXCEPT !.kind = k, !.token = t]
    <2>2. state \in ReqStates
        BY IdleIsTyped DEF ReqStates
    <2>3. CASE RequiresAuth(k)
        <3>1. [state EXCEPT !.pc = "peek"] \in ReqStates
            BY <2>2 DEF ReqStates
        <3>2. req' = [req EXCEPT ![r] = [state EXCEPT !.pc = "peek"]] /\ UNCHANGED cgi
            BY <2>1, <2>3 DEF Arrive
        <3> HIDE DEF state
        <3> QED
            BY <1>1, <3>1, <3>2, ReqMoves, CgiStays DEF Types
    <2>4. CASE ~RequiresAuth(k)
        <3>1. [state EXCEPT !.pc = "cgi", !.token = NoToken] \in ReqStates
            BY <2>2 DEF ReqStates
        <3>2. /\ req' = [req EXCEPT ![r] = [state EXCEPT !.pc = "cgi", !.token = NoToken]]
              /\ cgi' = [cgi EXCEPT ![r].child = "runs"]
            BY <2>1, <2>4 DEF Arrive
        <3> HIDE DEF state
        <3> QED
            BY <1>1, <3>1, <3>2, ReqMoves, StartIsTyped DEF Types
    <2> QED
        BY <2>3, <2>4
<1> QED
    BY <1>2, <1>3

(* The gate: the look at the bucket, the token, the record of a failure. *)
LEMMA ThrottleIsTyped ==
    ASSUME NEW r \in Requests, Types, Peek(r) \/ Verify(r) \/ RecordFailure(r)
    PROVE  Types'
<1>1. CASE Peek(r)
    <2>1. GateTypes' /\ CgiTypes'
        BY <1>1, GateStays, CgiStays DEF Peek
    <2>2. ReqTypes'
        BY <1>1, GoesIsTyped, EndsIsTyped DEF Peek, Types
    <2> QED
        BY <2>1, <2>2 DEF Types
<1>2. CASE Verify(r)
    <2>1. GateTypes'
        BY <1>2 DEF Verify, Types, GateTypes
    <2>2. ReqTypes' /\ CgiTypes'
        <3>1. CASE ~Valid(req[r].token)
            <4>1. [Idle EXCEPT !.pc = "record"] \in ReqStates
                BY IdleIsTyped DEF ReqStates
            <4>2. req' = [req EXCEPT ![r] = [Idle EXCEPT !.pc = "record"]] /\ UNCHANGED cgi
                BY <1>2, <3>1 DEF Verify
            <4> QED
                BY <4>1, <4>2, ReqMoves, CgiStays DEF Types
        <3>2. CASE Valid(req[r].token) /\ IsPush(req[r].kind)
            BY <1>2, <3>2, GoesIsTyped, CgiStays DEF Verify, Types
        <3>3. CASE Valid(req[r].token) /\ ~IsPush(req[r].kind)
            BY <1>2, <3>3, ServeIsTyped DEF Verify, Types
        <3> QED
            BY <3>1, <3>2, <3>3
    <2> QED
        BY <2>1, <2>2 DEF Types
<1>3. CASE RecordFailure(r)
    <2>1. ReqTypes' /\ CgiTypes'
        BY <1>3, EndsIsTyped, CgiStays DEF RecordFailure, Types
    <2>2. GateTypes'
        BY <1>3, NumbersAreNatural DEF RecordFailure, Take, Types, GateTypes
    <2> QED
        BY <2>1, <2>2 DEF Types
<1> QED
    BY <1>1, <1>2, <1>3

(* The quota: the size that was cached or measured. *)
LEMMA QuotaIsTyped ==
    ASSUME NEW r \in Requests, Types, Probe(r) \/ Sized(r)
    PROVE  Types'
<1>1. CASE Probe(r)
    <2>1. GateTypes'
        BY <1>1, GateStays DEF Probe
    <2>2. CASE cached # Unknown
        BY <1>1, <2>1, <2>2, DecideIsTyped DEF Probe, Types
    <2>3. CASE cached = Unknown
        <3>1. [req[r] EXCEPT !.pc = "sized", !.bytes = size] \in ReqStates
            <4>1. req[r] \in ReqStates /\ size \in 0 .. MaxDisk + Cardinality(Requests)
                BY ReqIsRecord DEF Types, GateTypes
            <4> QED
                BY <4>1 DEF ReqStates
        <3>2. req' = [req EXCEPT ![r] = [req[r] EXCEPT !.pc = "sized", !.bytes = size]]
            BY <1>1, <2>3 DEF Probe, Types, ReqTypes
        <3> QED
            BY <1>1, <2>1, <2>3, <3>1, <3>2, ReqMoves, CgiStays DEF Probe, Types
    <2> QED
        BY <2>2, <2>3
<1>2. CASE Sized(r)
    <2>1. ReqTypes' /\ CgiTypes'
        BY <1>2, DecideIsTyped DEF Sized, Types
    <2>2. GateTypes'
        BY <1>2, ReqIsRecord DEF Sized, Types, GateTypes
    <2> QED
        BY <2>1, <2>2 DEF Types
<1> QED
    BY <1>1, <1>2

(* The steps of the child, its answer and the client. *)
CgiStep(r) ==
    \/ ReceivePack(r) \/ Headers(r) \/ Output(r) \/ ReadChunk(r)
    \/ \E clean \in BOOLEAN : Exit(r, clean)
    \/ EndOfOutput(r) \/ Close(r)
    \/ Timeout(r) \/ Escalate(r) \/ Cancel(r)

LEMMA DrainedIsTyped ==
    ASSUME NEW s \in CgiStates
    PROVE  Drained(s) \in CgiStates /\ Drained(s).queue = s.queue /\ Drained(s).sent = s.sent
BY DEF Drained, CgiStates

(* Each of them leaves a child and a stream of their types, with no more in *)
(* the queue than was sent.                                                 *)
LEMMA CgiStepIsTyped ==
    ASSUME NEW r \in Requests, CgiTypes, CgiStep(r)
    PROVE  CgiTypes'
<1> DEFINE c == cgi[r]
<1>0. /\ c \in CgiStates /\ c.queue \in 0 .. MaxChunks /\ c.sent \in 0 .. MaxChunks
      /\ c.queue <= c.sent /\ cgi \in [Requests -> CgiStates] /\ MaxChunks \in Nat
    BY CgiIsRecord, NumbersAreNatural DEF CgiTypes, CgiStates
<1> SUFFICES \E s \in CgiStates : s.queue <= s.sent /\ cgi' = [cgi EXCEPT ![r] = s]
    BY CgiMoves
<1>1. CASE ReceivePack(r) \/ Headers(r)
    <2> DEFINE s == [c EXCEPT !.answer = "resolved"]
    <2>1. s \in CgiStates /\ s.queue <= s.sent
        BY <1>0 DEF CgiStates
    <2>2. cgi' = [cgi EXCEPT ![r] = s]
        BY <1>0, <1>1 DEF ReceivePack, Headers
    <2> QED
        BY <2>1, <2>2
<1>2. CASE Output(r)
    <2> DEFINE q == IF c.body = "readable" THEN c.queue + 1 ELSE c.queue
               s == [c EXCEPT !.sent = c.sent + 1, !.queue = q]
    <2>1. c.sent + 1 \in 0 .. MaxChunks /\ q \in 0 .. MaxChunks /\ q <= c.sent + 1
        BY <1>0, <1>2 DEF Output
    <2>2. s \in CgiStates /\ s.queue = q /\ s.sent = c.sent + 1
        <3> HIDE DEF q
        <3> QED
            BY <1>0, <2>1 DEF CgiStates
    <2>3. cgi' = [cgi EXCEPT ![r] = s]
        BY <1>0, <1>2 DEF Output
    <2> QED
        BY <2>1, <2>2, <2>3
<1>3. CASE ReadChunk(r)
    <2> DEFINE s == [cgi[r] EXCEPT !.queue = @ - 1]
    <2>1. s \in CgiStates /\ s.queue <= s.sent
        <3>1. c.queue - 1 \in 0 .. MaxChunks /\ c.queue - 1 <= c.sent
            BY <1>0, <1>3 DEF ReadChunk
        <3> QED
            BY <1>0, <3>1 DEF CgiStates
    <2>2. cgi' = [cgi EXCEPT ![r] = Drained(s)]
        BY <1>0, <1>3, Zenon DEF ReadChunk, CgiTypes
    <2> HIDE DEF s
    <2> QED
        BY <2>1, <2>2, DrainedIsTyped
<1>4. CASE (\E clean \in BOOLEAN : Exit(r, clean)) \/ Escalate(r)
    <2>1. PICK clean \in BOOLEAN : Exit(r, clean)
        BY <1>4 DEF Escalate
    <2> DEFINE s == [c EXCEPT !.child = "gone", !.clean = clean]
    <2>2. s \in CgiStates /\ s.queue <= s.sent
        BY <1>0 DEF CgiStates
    <2>3. cgi' = [cgi EXCEPT ![r] = s]
        BY <1>0, <2>1 DEF Exit
    <2> QED
        BY <2>2, <2>3
<1>5. CASE EndOfOutput(r) /\ cgi[r].body # "cancelled"
    <2> DEFINE a == IF cgi[r].answer = "pending" THEN "rejected" ELSE cgi[r].answer
               e == a = "resolved"
               s == [cgi[r] EXCEPT !.stdout = "ended", !.answer = a, !.ending = e]
    <2>1. s \in CgiStates /\ s.queue <= s.sent
        <3>1. e \in BOOLEAN /\ a \in {"pending", "resolved", "rejected"}
            BY <1>0 DEF CgiStates
        <3> HIDE DEF e, a
        <3> QED
            BY <1>0, <3>1 DEF CgiStates
    <2>2. cgi' = [cgi EXCEPT ![r] = Drained(s)]
        BY <1>0, <1>5, Zenon DEF EndOfOutput
    <2> HIDE DEF s
    <2> QED
        BY <2>1, <2>2, DrainedIsTyped
<1>9. CASE EndOfOutput(r) /\ cgi[r].body = "cancelled"
    <2> DEFINE s == [c EXCEPT !.stdout = "threw"]
    <2>1. s \in CgiStates /\ s.queue <= s.sent
        BY <1>0 DEF CgiStates
    <2>2. cgi' = [cgi EXCEPT ![r] = s]
        BY <1>0, <1>9 DEF EndOfOutput
    <2> QED
        BY <2>1, <2>2
<1>6. CASE Close(r)
    <2> DEFINE b == IF ~c.clean /\ c.body = "readable" THEN "errored" ELSE c.body
               q == IF ~c.clean THEN 0 ELSE c.queue
               s == [c EXCEPT !.closed = TRUE, !.body = b, !.queue = q]
    <2>1. s \in CgiStates /\ s.queue <= s.sent
        <3>1. /\ b \in {"readable", "closed", "errored", "cancelled"}
              /\ q \in 0 .. MaxChunks /\ q <= c.sent
            BY <1>0 DEF CgiStates
        <3> HIDE DEF b, q
        <3> QED
            BY <1>0, <3>1 DEF CgiStates
    <2>2. cgi' = [cgi EXCEPT ![r] = s]
        BY <1>0, <1>6 DEF Close
    <2> QED
        BY <2>1, <2>2
<1>7. CASE Timeout(r)
    <2> DEFINE s == [c EXCEPT !.killed = TRUE]
    <2>1. s \in CgiStates /\ s.queue <= s.sent
        BY <1>0 DEF CgiStates
    <2>2. cgi' = [cgi EXCEPT ![r] = s]
        BY <1>0, <1>7 DEF Timeout, KillGroup
    <2> QED
        BY <2>1, <2>2
<1>8. CASE Cancel(r)
    <2> DEFINE s == [c EXCEPT !.body = "cancelled", !.queue = 0, !.killed = TRUE]
    <2>1. s \in CgiStates /\ s.queue <= s.sent
        <3>1. 0 \in 0 .. MaxChunks /\ 0 <= c.sent
            BY <1>0
        <3> QED
            BY <1>0, <3>1 DEF CgiStates
    <2>2. cgi' = [cgi EXCEPT ![r] = s]
        BY <1>0, <1>8 DEF Cancel
    <2> QED
        BY <2>1, <2>2
<1> QED
    BY <1>1, <1>2, <1>3, <1>4, <1>5, <1>6, <1>7, <1>8, <1>9 DEF CgiStep

LEMMA NextIsTyped == Types /\ [GitNext]_gitVars => Types'
<1> SUFFICES ASSUME Types, [GitNext]_gitVars PROVE Types'
    OBVIOUS
<1>1. ASSUME NEW r \in Requests, CgiStep(r) PROVE Types'
    <2>1. CgiTypes'
        BY <1>1, CgiStepIsTyped DEF Types
    <2>2. CASE ReceivePack(r)
        BY <2>1, <2>2, NumbersAreNatural DEF ReceivePack, Types, GateTypes, ReqTypes
    <2>3. CASE ~ReceivePack(r)
        <3>1. UNCHANGED <<gate, req, served>>
            BY <1>1, <2>3 DEF CgiStep, Headers, Output, ReadChunk, Exit, EndOfOutput, Close,
                              Timeout, Escalate, Cancel, InCgi
        <3> QED
            BY <2>1, <3>1, GateStays DEF Types, ReqTypes
    <2> QED
        BY <2>2, <2>3
<1>2. ASSUME NEW r \in Requests, Done(r) PROVE Types'
    <2>1. NoCgi \in CgiStates /\ NoCgi.queue <= NoCgi.sent
        BY NoCgiIsTyped DEF NoCgi
    <2>2. cgi' = [cgi EXCEPT ![r] = NoCgi]
        BY <1>2 DEF Done
    <2>3. CgiTypes'
        BY <2>1, <2>2, CgiMoves DEF Types
    <2> QED
        BY <1>2, <2>3, GateStays, EndsIsTyped DEF Done, Types
<1>3. CASE Refill
    BY <1>3, NumbersAreNatural DEF Refill, Types, GateTypes, ReqTypes, CgiTypes, QueueIsSent
<1>4. CASE Expire
    BY <1>4 DEF Expire, Types, GateTypes, ReqTypes, CgiTypes, QueueIsSent
<1>5. CASE Restart
    <2>1. NoCgi.queue <= NoCgi.sent
        BY DEF NoCgi
    <2>2. GateTypes'
        BY <1>5, NumbersAreNatural DEF Restart, Types, GateTypes
    <2> QED
        BY <1>5, <2>1, <2>2, IdleIsTyped, NoCgiIsTyped
        DEF Restart, Types, ReqTypes, CgiTypes, QueueIsSent
<1>6. CASE UNCHANGED gitVars
    BY <1>6 DEF gitVars, Types, GateTypes, ReqTypes, CgiTypes, QueueIsSent
<1> QED
    BY <1>1, <1>2, <1>3, <1>4, <1>5, <1>6, ArrivalIsTyped, MintIsTyped, ThrottleIsTyped,
       QuotaIsTyped, RevokeIsTyped
    DEF GitNext, CgiStep

-----------------------------------------------------------------------------
(* The numbers of the throttle. *)
LEMMA CountsAreNatural ==
    /\ IsFiniteSet(Recording) /\ IsFiniteSet(Pending)
    /\ Cardinality(Recording) \in Nat /\ Cardinality(Pending) \in Nat
    /\ Cardinality(Recording) <= Cardinality(Pending)
    /\ Cardinality(Pending) <= Cardinality(Requests)
    /\ (Requests # {} => Others \in Nat)
<1>1. Pending \subseteq Requests /\ Recording \subseteq Pending
    BY DEF Pending, Recording, Under
<1>2. /\ IsFiniteSet(Pending) /\ Cardinality(Pending) <= Cardinality(Requests)
      /\ IsFiniteSet(Requests) /\ Cardinality(Requests) \in Nat
    BY <1>1, GitBoundsAssumption, FS_Subset, FS_CardinalityType
<1>3. /\ IsFiniteSet(Recording) /\ Cardinality(Recording) <= Cardinality(Pending)
      /\ Cardinality(Pending) \in Nat /\ Cardinality(Recording) \in Nat
    BY <1>1, <1>2, FS_Subset, FS_CardinalityType
<1>4. Requests # {} => Others \in Nat
    BY <1>2, FS_EmptySet DEF Others
<1> QED
    BY <1>2, <1>3, <1>4

(* The product in the bound is a number, and grows by one refill's share. *)
LEMMA Shares ==
    ASSUME NEW n \in Nat, NEW k \in Int
    PROVE  n * k \in Int /\ (n + 1) * k = n * k + k /\ (1 + n) * k = n * k + k
OBVIOUS

LEMMA OthersIsInt == Others \in Int
BY NumbersAreNatural DEF Others

(* A step that counts no failure and lets nobody past the bucket. *)
LEMMA QuietStep ==
    ASSUME Types, WasteIsBounded, UNCHANGED <<bucket, guesses, refills>>,
           Pending' \subseteq Pending, Recording' = Recording
    PROVE  WasteIsBounded'
<1>1. /\ Cardinality(Pending) \in Nat /\ Cardinality(Pending') \in Nat
      /\ Cardinality(Pending') <= Cardinality(Pending)
      /\ Cardinality(Recording) \in Nat
    BY CountsAreNatural, FS_Subset, FS_CardinalityType
<1>2. refills * Others \in Int /\ Others \in Int
    BY OthersIsInt, Shares DEF Types, GateTypes
<1>3. Wasted \in Int /\ Wasted' = Wasted
    BY <1>1, NumbersAreNatural DEF Wasted, Types, GateTypes
<1> QED
    BY <1>1, <1>2, <1>3 DEF WasteIsBounded, Others

(* What a change of one request does to the two sets. *)
LEMMA OneMoves ==
    ASSUME NEW r \in Requests, \A q \in Requests \ {r} : req'[q].pc = req[q].pc
    PROVE  /\ req'[r].pc \notin {"verify", "record"} => Pending' = Pending \ {r}
           /\ req'[r].pc \in {"verify", "record"} => Pending' = Pending \cup {r}
           /\ req'[r].pc # "record" => Recording' = Recording \ {r}
           /\ req'[r].pc = "record" => Recording' = Recording \cup {r}
BY DEF Pending, Recording, Under

LEMMA PeekHolds ==
    ASSUME NEW r \in Requests, Types, WasteIsBounded, Peek(r)
    PROVE  WasteIsBounded'
<1>1. req[r].pc = "peek" /\ UNCHANGED <<bucket, guesses, refills>> /\ req \in [Requests -> ReqStates]
    BY DEF Peek, At, gate, Types, ReqTypes
<1>2. r \notin Recording
    BY <1>1 DEF Recording, Under
<1>3. CASE LockedOut
    <2>1. req' = [req EXCEPT ![r] = Idle] /\ Idle.pc = "idle"
        BY <1>3 DEF Peek, Ends, Idle
    <2>2. Pending' = Pending \ {r} /\ Recording' = Recording \ {r}
        BY <1>1, <2>1, OneMoves
    <2> QED
        BY <1>1, <1>2, <2>2, QuietStep
<1>4. CASE ~LockedOut
    <2>1. bucket > 0
        BY <1>4 DEF LockedOut, Types, GateTypes
    <2>2. req' = [req EXCEPT ![r].pc = "verify"]
        BY <1>4 DEF Peek, GitGoes
    <2>3. Recording' = Recording
        BY <1>1, <1>2, <2>2, OneMoves
    <2> QED
        BY <1>1, <2>1, <2>3 DEF WasteIsBounded, Wasted, Others, Types, GateTypes
<1> QED
    BY <1>3, <1>4

LEMMA VerifyHolds ==
    ASSUME NEW r \in Requests, Types, WasteIsBounded, Verify(r)
    PROVE  WasteIsBounded'
<1>1. /\ req[r].pc = "verify" /\ UNCHANGED <<bucket, refills>>
      /\ req \in [Requests -> ReqStates]
    BY DEF Verify, At, Types, ReqTypes
<1>2. r \notin Recording /\ r \in Pending
    BY <1>1 DEF Recording, Pending, Under
<1>3. CASE ~Valid(req[r].token)
    <2>1. /\ req' = [req EXCEPT ![r] = [Idle EXCEPT !.pc = "record"]]
          /\ guesses' = guesses + 1
        BY <1>3 DEF Verify
    <2>2. [Idle EXCEPT !.pc = "record"].pc = "record"
        BY DEF Idle
    <2>3. Pending' = Pending /\ Recording' = Recording \cup {r}
        BY <1>1, <1>2, <2>1, <2>2, OneMoves
    <2>4. Cardinality(Recording') = Cardinality(Recording) + 1
        BY <1>2, <2>3, CountsAreNatural, FS_AddElement
    <2>5. Wasted' = Wasted
        BY <1>1, <2>1, <2>4, CountsAreNatural, NumbersAreNatural DEF Wasted, Types, GateTypes
    <2> QED
        BY <1>1, <2>3, <2>5 DEF WasteIsBounded, Others
<1>4. CASE Valid(req[r].token)
    <2>1. req'[r].pc \in {"probe", "cgi"} /\ \A q \in Requests \ {r} : req'[q] = req[q]
        BY <1>1, <1>4 DEF Verify, GitGoes, Serve, ReqStates
    <2>2. Pending' = Pending \ {r} /\ Recording' = Recording \ {r}
        BY <2>1, OneMoves
    <2> QED
        BY <1>1, <1>2, <1>4, <2>2, QuietStep DEF Verify
<1> QED
    BY <1>3, <1>4

(* The step that wastes a failure, or empties the bucket. *)
LEMMA RecordHolds ==
    ASSUME NEW r \in Requests, Types, WasteIsBounded, RecordFailure(r)
    PROVE  WasteIsBounded'
<1>1. /\ req[r].pc = "record" /\ UNCHANGED <<guesses, refills>>
      /\ req' = [req EXCEPT ![r] = Idle] /\ Idle.pc = "idle"
      /\ req \in [Requests -> ReqStates]
    BY DEF RecordFailure, At, Ends, Idle, Types, ReqTypes
<1>2. r \in Recording /\ r \in Pending
    BY <1>1 DEF Recording, Pending, Under
<1>3. Pending' = Pending \ {r} /\ Recording' = Recording \ {r}
    BY <1>1, OneMoves
<1>4. /\ Cardinality(Recording') = Cardinality(Recording) - 1
      /\ Cardinality(Pending') = Cardinality(Pending) - 1
    BY <1>2, <1>3, CountsAreNatural, FS_RemoveElement
<1> DEFINE share == refills * Others
<1>5. /\ share \in Int /\ Others \in Nat /\ share' = share /\ Others' = Others
      /\ Cardinality(Pending) - 1 <= Others
    <2>1. Requests # {} /\ refills \in Nat
        BY DEF Types, GateTypes
    <2> QED
        BY <1>1, <2>1, CountsAreNatural, Shares, OthersIsInt, NumbersAreNatural DEF Others
<1>6. /\ bucket \in 0 .. Capacity /\ guesses \in Nat /\ refills \in Nat /\ Capacity \in Nat
      /\ Cardinality(Recording) \in Nat /\ Cardinality(Pending) \in Nat
    BY CountsAreNatural, NumbersAreNatural DEF Types, GateTypes
<1>7. Requests # {}
    OBVIOUS
<1> HIDE DEF share
<1>8. CASE bucket = 0
    <2>1. bucket' = 0
        BY <1>8 DEF RecordFailure, Take
    <2>2. Wasted' = Wasted + 1 /\ Wasted \in Int
        BY <1>1, <1>4, <1>6, <1>8, <2>1 DEF Wasted
    <2>3. Wasted' + Cardinality(Pending') <= share + Others
        BY <1>4, <1>5, <1>6, <1>8, <2>2 DEF WasteIsBounded, share
    <2> QED
        BY <1>5, <1>7, <2>1, <2>3 DEF WasteIsBounded, share
<1>9. CASE bucket > 0
    <2>1. bucket' = bucket - 1
        BY <1>6, <1>9 DEF RecordFailure, Take
    <2>2. Wasted' = Wasted /\ Wasted \in Int
        BY <1>1, <1>4, <1>6, <1>9, <2>1 DEF Wasted
    <2>3. Wasted' <= share
        BY <1>9, <2>2 DEF WasteIsBounded, share
    <2>4. Wasted' + Cardinality(Pending') <= share + Others
        BY <1>4, <1>5, <1>6, <2>2, <2>3
    <2> QED
        BY <1>5, <1>7, <2>3, <2>4 DEF WasteIsBounded, share
<1> QED
    BY <1>6, <1>8, <1>9

(* A refill forgives one failure, and opens the bucket to all others again. *)
LEMMA RefillHolds == Types /\ WasteIsBounded /\ Refill => WasteIsBounded'
<1> SUFFICES ASSUME Types, WasteIsBounded, Refill PROVE WasteIsBounded'
    OBVIOUS
<1> DEFINE share == refills * Others
<1>1. /\ bucket \in 0 .. Capacity /\ guesses \in Nat /\ refills \in Nat /\ Capacity \in Nat
      /\ Cardinality(Recording) \in Nat /\ Cardinality(Pending) \in Nat
    BY CountsAreNatural, NumbersAreNatural DEF Types, GateTypes
<1>2. Requests # {} /\ Others \in Nat
    BY CountsAreNatural DEF WasteIsBounded, Refill
<1>3. share \in Int /\ refills' * Others' = share + Others
    BY <1>1, <1>2, Shares DEF Refill, Others
<1>4. Cardinality(Recording') = Cardinality(Recording) /\ bucket' = bucket + 1
    BY DEF Refill, Recording, Under
<1>5. Wasted' = Wasted /\ Wasted \in Int
    BY <1>1, <1>4 DEF Wasted, Refill
<1> HIDE DEF share
<1>6. Wasted <= share + Others
    BY <1>1, <1>2, <1>3, <1>5 DEF WasteIsBounded, share
<1> QED
    BY <1>1, <1>2, <1>3, <1>4, <1>5, <1>6 DEF WasteIsBounded

(* Nothing is counted yet, or any more. *)
LEMMA FreshHolds ==
    ASSUME bucket = Capacity, guesses = 0, refills = 0, req = [r \in Requests |-> Idle]
    PROVE  WasteIsBounded
<1>1. Recording = {}
    BY DEF Recording, Under, Idle
<1>2. Cardinality(Recording) = 0
    BY <1>1, FS_EmptySet
<1>3. Wasted = 0 /\ bucket > 0
    BY <1>2, NumbersAreNatural DEF Wasted
<1>4. refills * Others = 0
    BY OthersIsInt
<1> QED
    BY <1>3, <1>4, NumbersAreNatural DEF WasteIsBounded

LEMMA RestartHolds == Restart => WasteIsBounded'
<1> SUFFICES ASSUME Restart PROVE WasteIsBounded'
    OBVIOUS
<1>1. /\ bucket' = Capacity /\ guesses' = 0 /\ refills' = 0
      /\ req' = [r \in Requests |-> Idle]
    BY DEF Restart
<1>2. Recording' = {}
    BY <1>1 DEF Recording, Under, Idle
<1>3. Cardinality(Recording') = 0
    BY <1>2, FS_EmptySet
<1>4. Wasted' = 0 /\ bucket' > 0
    BY <1>1, <1>3, NumbersAreNatural DEF Wasted
<1>5. refills' * Others' = 0
    BY <1>1, OthersIsInt DEF Others
<1> QED
    BY <1>1, <1>4, <1>5, NumbersAreNatural DEF WasteIsBounded

(* The other steps of a request neither begin nor end at the throttle. *)
LEMMA OtherStepHolds ==
    ASSUME NEW r \in Requests, Types, WasteIsBounded,
           \/ AskMint(r) \/ Mint(r)
           \/ \E k \in Kinds \ {"mint"}, t \in Tokens : Arrive(r, k, t)
           \/ Probe(r) \/ Sized(r) \/ CgiStep(r) \/ Done(r)
    PROVE  WasteIsBounded'
<1>1. req \in [Requests -> ReqStates] /\ Idle.pc = "idle"
    BY DEF Types, ReqTypes, Idle
<1>2. UNCHANGED <<bucket, guesses, refills>>
    BY DEF AskMint, Mint, Arrive, Probe, Sized, CgiStep, ReceivePack, Headers, Output, ReadChunk,
           Exit, EndOfOutput, Close, Timeout, Escalate, Cancel, Done, InCgi, gate
<1>3. CASE CgiStep(r)
    <2>1. UNCHANGED req
        BY <1>3 DEF CgiStep, ReceivePack, Headers, Output, ReadChunk, Exit, EndOfOutput, Close,
                    Timeout, Escalate, Cancel, InCgi
    <2> QED
        BY <1>2, <2>1, QuietStep DEF Pending, Recording, Under
<1>4. CASE ~CgiStep(r)
    <2>1. req[r].pc \in {"idle", "body", "probe", "sized", "cgi"}
        BY <1>4 DEF AskMint, Mint, Arrive, Probe, Sized, Done, At
    <2>2. /\ req'[r].pc \in {"idle", "body", "peek", "sized", "cgi"}
          /\ \A q \in Requests \ {r} : req'[q] = req[q]
        <3>1. CASE AskMint(r) \/ Mint(r) \/ Done(r)
            BY <1>1, <3>1 DEF AskMint, Mint, Done, Ends, Idle
        <3>2. CASE \E k \in Kinds \ {"mint"}, t \in Tokens : Arrive(r, k, t)
            <4>1. PICK k \in Kinds \ {"mint"}, t \in Tokens : Arrive(r, k, t)
                BY <3>2
            <4> QED
                BY <1>1, <4>1 DEF Arrive, Idle
        <3>3. CASE Probe(r) \/ Sized(r)
            BY <1>1, <3>3 DEF Probe, Sized, Decide, Refuse, Serve, Ends, ReqStates
        <3> QED
            BY <1>4, <3>1, <3>2, <3>3
    <2>3. r \notin Pending /\ r \notin Recording
        BY <2>1 DEF Pending, Recording, Under
    <2>4. Pending' = Pending \ {r} /\ Recording' = Recording \ {r}
        BY <2>2, OneMoves
    <2> QED
        BY <1>2, <2>3, <2>4, QuietStep
<1> QED
    BY <1>3, <1>4

LEMMA ThrottleHolds == Types /\ WasteIsBounded /\ [GitNext]_gitVars => WasteIsBounded'
<1> SUFFICES ASSUME Types, WasteIsBounded, [GitNext]_gitVars PROVE WasteIsBounded'
    OBVIOUS
<1>1. CASE (\E t \in Tokens : Revoke(t)) \/ Expire \/ UNCHANGED gitVars
    <2>1. UNCHANGED <<bucket, guesses, refills, req>>
        BY <1>1 DEF Revoke, Expire, gitVars
    <2> QED
        BY <2>1, QuietStep DEF Pending, Recording, Under
<1> QED
    BY <1>1, PeekHolds, VerifyHolds, RecordHolds, RefillHolds, RestartHolds, OtherStepHolds
    DEF GitNext, CgiStep

-----------------------------------------------------------------------------
(* The invariant holds in every state: the types, queues that hold what was *)
(* sent, and the failures that an empty bucket did not count.               *)
THEOREM ThrottleInvariant == GitSpec => []ThrottleInv
<1>1. GitInit => Types /\ WasteIsBounded
    BY InitIsTyped, FreshHolds DEF GitInit
<1>2. (Types /\ WasteIsBounded) /\ [GitNext]_gitVars => (Types /\ WasteIsBounded)'
    BY NextIsTyped, ThrottleHolds
<1>3. Types /\ WasteIsBounded => ThrottleInv
    BY TypesSplit DEF Types, ThrottleInv
<1> QED
    BY <1>1, <1>2, <1>3, PTL DEF GitSpec

(* The types of the tokens, the bucket, the requests and their children;    *)
(* the push tokens of a repository never exceed their quota.                *)
THEOREM GitHttpTypes == GitSpec => []GitTypeOK
<1>1. ThrottleInv => GitTypeOK
    BY DEF ThrottleInv
<1> QED
    BY <1>1, ThrottleInvariant, PTL

(* However many requests are under way, and however they interleave between *)
(* the look at the bucket and the record of a failure, no more credentials  *)
(* are tried than the bucket and its refills allow and one for each other   *)
(* request each time the bucket empties.                                    *)
THEOREM GuessesStayBounded == GitSpec => []GuessesAreBounded
<1>1. ThrottleInv => GuessesAreBounded
    <2> SUFFICES ASSUME ThrottleInv PROVE GuessesAreBounded
        OBVIOUS
    <2> DEFINE share == refills * Others
               r == Cardinality(Recording)
               p == Cardinality(Pending)
    <2>1. /\ bucket \in 0 .. Capacity /\ guesses \in Nat /\ refills \in Nat
          /\ Capacity \in Nat /\ Capacity > 0 /\ r \in Nat /\ p \in Nat /\ r <= p /\ p <= Others + 1
        BY CountsAreNatural, NumbersAreNatural DEF ThrottleInv, GitTypeOK, Others
    <2>2. share \in Int /\ Others \in Int /\ (1 + refills) * Others = share + Others
        BY <2>1, OthersIsInt, Shares
    <2>3. WasteIsBounded
        BY DEF ThrottleInv
    <2> HIDE DEF share, r, p
    <2>4. guesses <= Capacity + refills + (share + Others)
        <3>1. Wasted = (guesses - r) - (Capacity + refills - bucket)
            BY DEF Wasted, r
        <3>2. CASE bucket = 0
            <4>1. Wasted + p <= share + Others
                BY <2>3, <3>2 DEF WasteIsBounded, share, p
            <4> QED
                BY <2>1, <2>2, <3>1, <3>2, <4>1
        <3>3. CASE bucket > 0
            <4>1. Wasted <= share
                BY <2>3, <3>3 DEF WasteIsBounded, share
            <4> QED
                BY <2>1, <2>2, <3>1, <3>3, <4>1
        <3> QED
            BY <2>1, <3>2, <3>3
    <2> QED
        BY <2>2, <2>4 DEF GuessesAreBounded, Others
<1> QED
    BY <1>1, ThrottleInvariant, PTL
=============================================================================
