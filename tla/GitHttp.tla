-------------------------------- MODULE GitHttp --------------------------------
(***************************************************************************)
(* Git over HTTP (src/src/app/api/git/[owner]/[repo]/[...path]): the push  *)
(* tokens of one repository (lib/registry/tokens), the throttle on wrong   *)
(* ones (lib/rate-limit), the quota on its size (lib/git/backend), and the *)
(* supervision of git http-backend, whose output becomes the answer        *)
(* (lib/git/http-cgi).                                                     *)
(*                                                                         *)
(* All requests come from one address.  Time is in the actions that let a  *)
(* timer fire: Refill, Expire, Timeout and Escalate.                       *)
(***************************************************************************)
EXTENDS Integers, FiniteSets

CONSTANTS
    Requests,    \* requests the bridge serves at once
    Tokens,      \* push tokens that can be minted
    MaxTokens,   \* QUOTAS.maxTokensPerRepo
    Capacity,    \* RATE_LIMITS.gitPushAuthFailure.capacity
    MaxDisk,     \* QUOTAS.maxDiskPerRepoBytes; a push adds one
    Private,     \* the visibility of the repository
    MaxChunks,   \* bound: chunks of one answer
    MaxRefills,  \* bound: failures that are forgiven with time
    MaxServed    \* bound: requests that are served

ASSUME GitBoundsAssumption ==
    /\ {MaxTokens, MaxDisk, MaxChunks, MaxRefills, MaxServed} \subseteq Nat
    /\ Capacity \in Nat \ {0} /\ Private \in BOOLEAN
    /\ IsFiniteSet(Requests) /\ IsFiniteSet(Tokens)

VARIABLES
    tokens,    \* push_tokens
    bucket,    \* what is left in the bucket of the throttle; full when there is none
    size,      \* the bytes of the bare repository
    cached,    \* diskSizeCache, or Unknown
    req,       \* the local state of each request
    cgi,       \* its child process, its answer and the stream of its body
    guesses,   \* history: credentials found wrong since the bridge started
    refills,   \* history: how often the bucket was filled up by one
    served     \* used-up bound

gitVars == <<tokens, bucket, size, cached, req, cgi, guesses, refills, served>>
gate == <<tokens, bucket, size, cached, guesses, refills>>

Unknown == -1
NoToken == "none"

Idle  == [pc |-> "idle", kind |-> "none", token |-> NoToken, bytes |-> 0]
NoCgi == [child |-> "none", clean |-> TRUE, stdout |-> "open", closed |-> FALSE,
          answer |-> "pending", body |-> "readable", ending |-> FALSE,
          queue |-> 0, sent |-> 0, killed |-> FALSE]

Kinds == {"advertise", "receive", "upload", "mint"}

GitTypeOK ==
    /\ tokens \subseteq Tokens /\ Cardinality(tokens) <= MaxTokens
    /\ bucket \in 0 .. Capacity
    /\ size \in 0 .. MaxDisk + Cardinality(Requests)
    /\ cached \in 0 .. MaxDisk + Cardinality(Requests) \cup {Unknown}
    /\ req \in [Requests ->
          [pc : {"idle", "peek", "verify", "record", "probe", "sized", "body", "cgi"},
           kind : Kinds \cup {"none"}, token : Tokens \cup {NoToken},
           bytes : 0 .. MaxDisk + Cardinality(Requests)]]
    /\ cgi \in [Requests ->
          [child : {"none", "runs", "gone"}, clean : BOOLEAN, stdout : {"open", "ended", "threw"},
           closed : BOOLEAN, answer : {"pending", "resolved", "rejected"},
           body : {"readable", "closed", "errored", "cancelled"}, ending : BOOLEAN,
           queue : 0 .. MaxChunks, sent : 0 .. MaxChunks, killed : BOOLEAN]]
    /\ guesses \in Nat /\ refills \in 0 .. MaxRefills /\ served \in 0 .. MaxServed

GitInit ==
    /\ tokens = {} /\ bucket = Capacity /\ size = 0 /\ cached = Unknown
    /\ req = [r \in Requests |-> Idle] /\ cgi = [r \in Requests |-> NoCgi]
    /\ guesses = 0 /\ refills = 0 /\ served = 0

At(r, pc)   == req[r].pc = pc
GitGoes(r, pc) == req' = [req EXCEPT ![r].pc = pc]
Ends(r)     == req' = [req EXCEPT ![r] = Idle]

(* The request is refused, or git http-backend is started for it. *)
Refuse(r) == Ends(r) /\ UNCHANGED cgi
Serve(r)  ==
    /\ req' = [req EXCEPT ![r].pc = "cgi", ![r].token = NoToken, ![r].bytes = 0]
    /\ cgi' = [cgi EXCEPT ![r].child = "runs"]

-----------------------------------------------------------------------------
(* createPushToken. *)
NewToken == \E t \in Tokens \ tokens : tokens' = tokens \cup {t}

(* Slip: the number of tokens was looked at before the body was read. *)
MintOnOldCount(r) ==
    /\ At(r, "body")
    /\ NewToken
    /\ Ends(r)
    /\ UNCHANGED <<bucket, size, cached, cgi, guesses, refills, served>>

(* POST tokens, up to the wait for the session and the body. *)
AskMint(r) ==
    /\ At(r, "idle") /\ served < MaxServed
    /\ req' = [req EXCEPT ![r] = [Idle EXCEPT !.pc = "body", !.kind = "mint"]]
    /\ served' = served + 1
    /\ UNCHANGED <<gate, cgi>>

(* assertCanMintToken. *)
CanMint == Cardinality(tokens) < MaxTokens

(* The body is there: from here on nothing waits. *)
Mint(r) ==
    /\ At(r, "body")
    /\ IF CanMint THEN NewToken ELSE UNCHANGED tokens
    /\ Ends(r)
    /\ UNCHANGED <<bucket, size, cached, cgi, guesses, refills, served>>

(* DELETE of a token. *)
Revoke(t) ==
    /\ t \in tokens
    /\ tokens' = tokens \ {t}
    /\ UNCHANGED <<bucket, size, cached, req, cgi, guesses, refills, served>>

-----------------------------------------------------------------------------
(* What counts as a push, and what needs a token. *)
IsPush(kind)       == kind \in {"advertise", "receive"}
RequiresAuth(kind) == IsPush(kind) \/ Private

Arrive(r, kind, token) ==
    /\ At(r, "idle") /\ served < MaxServed
    /\ LET state == [Idle EXCEPT !.kind = kind, !.token = token] IN
       \/ /\ RequiresAuth(kind)
          /\ req' = [req EXCEPT ![r] = [state EXCEPT !.pc = "peek"]]
          /\ UNCHANGED cgi
       \/ /\ ~RequiresAuth(kind)
          /\ req' = [req EXCEPT ![r] = [state EXCEPT !.pc = "cgi", !.token = NoToken]]
          /\ cgi' = [cgi EXCEPT ![r].child = "runs"]
    /\ served' = served + 1
    /\ UNCHANGED gate

(* Slip: the bucket is empty only when it is overdrawn. *)
LockedOutLate == bucket < 0

(* isLockedOut: it takes nothing from the bucket. *)
LockedOut == bucket < 1

Peek(r) ==
    /\ At(r, "peek")
    /\ IF LockedOut THEN Ends(r) ELSE GitGoes(r, "verify")
    /\ UNCHANGED <<gate, cgi, served>>

(* verifyPushToken: the table as it is now. *)
Valid(token) == token \in tokens

Verify(r) ==
    /\ At(r, "verify")
    /\ \/ /\ ~Valid(req[r].token)
          /\ req' = [req EXCEPT ![r] = [Idle EXCEPT !.pc = "record"]]
          /\ guesses' = guesses + 1 /\ UNCHANGED cgi
       \/ /\ Valid(req[r].token) /\ UNCHANGED guesses
          /\ IF IsPush(req[r].kind) THEN GitGoes(r, "probe") /\ UNCHANGED cgi ELSE Serve(r)
    /\ UNCHANGED <<tokens, bucket, size, cached, refills, served>>

(* recordFailure, one wait later: take. *)
Take == bucket' = IF bucket < 1 THEN bucket ELSE bucket - 1

RecordFailure(r) ==
    /\ At(r, "record")
    /\ Take
    /\ Ends(r)
    /\ UNCHANGED <<tokens, size, cached, cgi, guesses, refills, served>>

(* Time fills the bucket up. *)
Refill ==
    /\ bucket < Capacity /\ refills < MaxRefills
    /\ bucket' = bucket + 1 /\ refills' = refills + 1
    /\ UNCHANGED <<tokens, size, cached, req, cgi, guesses, served>>

(* getRepoDiskBytes: the cached size, or that which du finds. *)
Decide(r, bytes) == IF bytes >= MaxDisk THEN Refuse(r) ELSE Serve(r)

Probe(r) ==
    /\ At(r, "probe")
    /\ IF cached # Unknown
       THEN Decide(r, cached)
       ELSE req' = [req EXCEPT ![r].pc = "sized", ![r].bytes = size] /\ UNCHANGED cgi
    /\ UNCHANGED <<gate, served>>

Sized(r) ==
    /\ At(r, "sized")
    /\ cached' = req[r].bytes
    /\ Decide(r, req[r].bytes)
    /\ UNCHANGED <<tokens, bucket, size, guesses, refills, served>>

Expire ==
    /\ cached # Unknown
    /\ cached' = Unknown
    /\ UNCHANGED <<tokens, bucket, size, req, cgi, guesses, refills, served>>

-----------------------------------------------------------------------------
(* runGitHttpBackend.  The events of the child: output, the end of its      *)
(* stdout, its exit, and close, which comes after both.                     *)
Child(r, state) == cgi[r].child = state
InCgi == UNCHANGED <<gate, req, served>>

(* receive-pack updates the refs; the repository grows. *)
ReceivePack(r) ==
    /\ Child(r, "runs") /\ req[r].kind = "receive" /\ cgi[r].sent = 0
    /\ cgi[r].answer = "pending"
    /\ size < MaxDisk + Cardinality(Requests)
    /\ size' = size + 1
    /\ cgi' = [cgi EXCEPT ![r].answer = "resolved"]
    /\ UNCHANGED <<tokens, bucket, cached, req, guesses, refills, served>>

(* tryParseHeaders finds the blank line: the client gets an answer, and     *)
(* its body will follow.                                                    *)
Headers(r) ==
    /\ Child(r, "runs") /\ cgi[r].answer = "pending" /\ req[r].kind # "receive"
    /\ cgi' = [cgi EXCEPT ![r].answer = "resolved"]
    /\ InCgi

(* A chunk is put into the queue.  Of a stream that was cancelled, enqueue  *)
(* throws: the process lives on, Next logs what nobody caught, the chunk is *)
(* lost and Node reads on.                                                  *)
Output(r) ==
    /\ Child(r, "runs") /\ cgi[r].answer = "resolved" /\ cgi[r].sent < MaxChunks
    /\ cgi' = [cgi EXCEPT ![r].sent = @ + 1,
                   ![r].queue = IF cgi[r].body = "readable" THEN @ + 1 ELSE @]
    /\ InCgi

(* The client reads; a stream that was closed ends with its last chunk. *)
Drained(s) == IF s.ending /\ s.queue = 0 /\ s.body = "readable" THEN [s EXCEPT !.body = "closed"] ELSE s

ReadChunk(r) ==
    /\ cgi[r].queue > 0 /\ cgi[r].body = "readable"
    /\ cgi' = [cgi EXCEPT ![r] = Drained([cgi[r] EXCEPT !.queue = @ - 1])]
    /\ InCgi

(* The child exits: by itself, in order or not, or because it was killed. *)
Exit(r, clean) ==
    /\ Child(r, "runs")
    /\ cgi' = [cgi EXCEPT ![r].child = "gone", ![r].clean = clean]
    /\ InCgi

(* stdout ends: the body is closed, or there never was one; but close       *)
(* throws when the stream was cancelled, and an exception in a listener of  *)
(* end keeps Node from destroying stdout, without which close never comes:  *)
(* the child stays in liveChildren.                                         *)
EndOfOutput(r) ==
    /\ Child(r, "gone") /\ cgi[r].stdout = "open"
    /\ LET answer == IF cgi[r].answer = "pending" THEN "rejected" ELSE cgi[r].answer IN
       IF cgi[r].body = "cancelled"
       THEN cgi' = [cgi EXCEPT ![r].stdout = "threw"]
       ELSE cgi' = [cgi EXCEPT ![r] = Drained([cgi[r] EXCEPT
                       !.stdout = "ended", !.answer = answer, !.ending = answer = "resolved"])]
    /\ InCgi

(* close: the timeout is cleared and the child leaves liveChildren.  An     *)
(* exit code other than zero is an error of the stream, which a stream that *)
(* has been closed or cancelled does not notice.                            *)
Close(r) ==
    /\ Child(r, "gone") /\ cgi[r].stdout = "ended" /\ ~cgi[r].closed
    /\ cgi' = [cgi EXCEPT ![r].closed = TRUE,
                   ![r].body = IF ~cgi[r].clean /\ @ = "readable" THEN "errored" ELSE @,
                   ![r].queue = IF ~cgi[r].clean THEN 0 ELSE @]
    /\ InCgi

(* Slip: no SIGKILL follows the SIGTERM. *)
NeverEscalates(r) == FALSE /\ UNCHANGED gitVars

(* killGroup: one SIGTERM, after which the child may Exit or not, and       *)
(* SIGKILL five seconds later.                                              *)
KillGroup(r) == cgi' = [cgi EXCEPT ![r].killed = TRUE]

(* The timeout of the request, or its signal: the client has gone. *)
Timeout(r) ==
    /\ Child(r, "runs") /\ ~cgi[r].killed
    /\ KillGroup(r)
    /\ InCgi

Escalate(r) ==
    /\ cgi[r].killed
    /\ Exit(r, FALSE)

(* The client does not want the rest of the answer: cancel of the body.     *)
Cancel(r) ==
    /\ cgi[r].answer = "resolved" /\ cgi[r].body = "readable"
    /\ cgi' = [cgi EXCEPT ![r].body = "cancelled", ![r].queue = 0, ![r].killed = TRUE]
    /\ InCgi

(* The request is over. *)
Answered(r) == cgi[r].answer = "rejected" \/ cgi[r].body \in {"closed", "errored", "cancelled"}

Done(r) ==
    /\ At(r, "cgi") /\ Answered(r)
    /\ cgi[r].closed \/ cgi[r].stdout = "threw"
    /\ Ends(r)
    /\ cgi' = [cgi EXCEPT ![r] = NoCgi]
    /\ UNCHANGED <<gate, served>>

(* SIGTERM: the groups of all children are killed and the bridge ends; the  *)
(* bucket, the cache and the requests go with it.                           *)
Restart ==
    /\ served < MaxServed /\ served' = served + 1
    /\ bucket' = Capacity /\ cached' = Unknown
    /\ req' = [r \in Requests |-> Idle] /\ cgi' = [r \in Requests |-> NoCgi]
    /\ guesses' = 0 /\ refills' = 0
    /\ UNCHANGED <<tokens, size>>

GitNext ==
    \/ \E r \in Requests :
          \/ AskMint(r) \/ Mint(r)
          \/ \E k \in Kinds \ {"mint"}, t \in Tokens : Arrive(r, k, t)
          \/ Peek(r) \/ Verify(r) \/ RecordFailure(r) \/ Probe(r) \/ Sized(r)
          \/ ReceivePack(r) \/ Headers(r) \/ Output(r) \/ ReadChunk(r)
          \/ \E clean \in BOOLEAN : Exit(r, clean)
          \/ EndOfOutput(r) \/ Close(r)
          \/ Timeout(r) \/ Escalate(r) \/ Cancel(r) \/ Done(r)
    \/ \E t \in Tokens : Revoke(t)
    \/ Refill \/ Expire \/ Restart

(* Timers fire, and Node delivers the events of a child that is gone; close *)
(* only when stdout was destroyed.                                          *)
Fairness ==
    \A r \in Requests :
        /\ WF_gitVars(Timeout(r)) /\ WF_gitVars(Escalate(r))
        /\ WF_gitVars(EndOfOutput(r)) /\ WF_gitVars(Close(r))

GitSpec == GitInit /\ [][GitNext]_gitVars /\ Fairness

-----------------------------------------------------------------------------
(* The throttle is looked at before the token and charged after it, with    *)
(* waits between, so requests at once get past an empty bucket; but each    *)
(* time it empties, no more than all the others that were under way: the    *)
(* credentials that are tried do not grow with the number of requests.      *)
GuessesAreBounded ==
    guesses <= Capacity + refills + (1 + refills) * (Cardinality(Requests) - 1)

(* No child outlives its request for ever: one that hangs, or ignores the   *)
(* SIGTERM, or whose client has gone, is killed; and it leaves liveChildren *)
(* and clears its timeout, unless its client cancelled the body before the  *)
(* end of stdout.                                                           *)
ChildrenAreReaped ==
    \A r \in Requests :
        Child(r, "runs") ~>
            \/ Child(r, "none")
            \/ Child(r, "gone") /\ (cgi[r].closed \/ cgi[r].stdout = "threw")
=============================================================================
