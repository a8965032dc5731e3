------------------------------ MODULE Packages ------------------------------
(***************************************************************************)
(* The package registry of one repository: the OCI endpoints               *)
(* (src/src/app/v2), npm publish and install (app/api/packages/npm), plain *)
(* files (app/api/repos/.../files), all of which put their bytes into the  *)
(* content-addressed store on the owner's pod (lib/packages/content-store) *)
(* and a row into the index (lib/packages/store).                          *)
(*                                                                         *)
(* A blob is the sequence of its chunks, and is its own digest.  The pod   *)
(* maps digests to what is found there, which another application of the   *)
(* owner may have overwritten.  A request that is not authorised, or whose *)
(* name or version is malformed, is refused before it changes anything and *)
(* is left out.                                                            *)
(***************************************************************************)
EXTENDS Integers, Sequences, FiniteSetsExt, Functions

CONSTANTS
    Calls,       \* requests the bridge serves at once
    Uploads,     \* ids of upload sessions, each handed out once
    Chunks,      \* pieces a blob is made of, each of size one
    Tags,        \* tags of an image
    Versions,    \* versions of an npm package or of a file
    MaxBlob,     \* QUOTAS.maxPackageBlobBytes
    MaxRepo,     \* QUOTAS.maxPackageBytesPerRepo
    Bodies,      \* bodies of requests about uploads
    Artifacts,   \* manifests, tarballs and files
    Claims,      \* digests and references by digest that a client sends
    MaxFailures   \* bound: failures of the pod, restarts of the bridge, and writes
                 \* by other applications of the owner, taken together

ASSUME PackageBoundsAssumption ==
    {MaxBlob, MaxRepo, MaxFailures} \subseteq Nat
ASSUME BodiesAssumption == Bodies \cup Artifacts \subseteq Seq(Chunks)

Blobs == UNION {[1 .. n -> Chunks] : n \in 0 .. MaxBlob}
ASSUME ClaimsAssumption == Claims \subseteq Blobs

(* repo_id is fixed and there is one package of each type: a row is named by *)
(* its type and its version, which is a tag or a digest for an image.        *)
References == Tags \cup Claims
Keys == ({"oci"} \X (Tags \cup Blobs)) \cup ({"npm", "file"} \X Versions)

VARIABLES
    sessions,   \* __mc_oci_uploads__: the chunks of the sessions that are there
    minted,     \* ids that startUpload has handed out
    store,        \* the blobs of the content store, by digest
    index,      \* the packages table
    call,       \* the local state of each request
    acked,      \* history: what PATCH has answered 202 for, by upload
    closed,     \* history: the blob each upload was closed with by a 201
    touched,    \* history: digests another application has written to
    failures     \* used-up bound

memory  == <<sessions, minted>>
history == <<acked, closed, touched>>
packageVars    == <<memory, store, index, call, history, failures>>

(* kind: what is asked.  upload: the session it names.  blob: its body, and *)
(* from then on the bytes it is about.  key: the row it writes or reads.    *)
NoUpload == "none"
NoKey    == <<"none", "none">>
NoCall == [pc |-> "idle", kind |-> "none", upload |-> NoUpload, blob |-> <<>>,
         claim |-> <<>>, key |-> NoKey]

Kinds == {"patch", "close", "blob", "manifest", "npm", "file", "read", "none"}

CallStates ==
    [pc : {"idle", "body", "owner", "has", "path", "put", "stored", "open", "served"},
     kind : Kinds, upload : Uploads \cup {NoUpload}, blob : Bodies \cup Blobs,
     claim : Blobs, key : Keys \cup {NoKey}]

(* Nothing that waits in memory is larger than one artifact may be. *)
PackagesTypeOK ==
    /\ minted \subseteq Uploads
    /\ DOMAIN sessions \subseteq minted
    /\ \A u \in DOMAIN sessions : sessions[u] \in Blobs
    /\ DOMAIN store \subseteq Blobs /\ \A d \in DOMAIN store : store[d] \in Blobs
    /\ DOMAIN index \subseteq Keys /\ \A k \in DOMAIN index : index[k] \in Blobs
    /\ call \in [Calls -> CallStates]
    /\ acked \in [Uploads -> Blobs]
    /\ DOMAIN closed \subseteq minted /\ \A u \in DOMAIN closed : closed[u] \in Blobs
    /\ touched \subseteq Blobs
    /\ failures \in 0 .. MaxFailures

Empty == [x \in {} |-> <<>>]

PackagesInit ==
    /\ sessions = Empty /\ minted = {}
    /\ store = Empty /\ index = Empty
    /\ call = [c \in Calls |-> NoCall]
    /\ acked = [u \in Uploads |-> <<>>] /\ closed = Empty /\ touched = {}
    /\ failures = 0

PutAt(f, x, v) == [y \in DOMAIN f \cup {x} |-> IF y = x THEN v ELSE f[y]]
Drop(f, x)   == Restrict(f, DOMAIN f \ {x})

CallAt(c, pc) == call[c].pc = pc
CallGoes(c, pc) == call' = [call EXCEPT ![c].pc = pc]
CallEnds(c)     == call' = [call EXCEPT ![c] = NoCall]
PodFailure      == failures < MaxFailures /\ failures' = failures + 1

(* sumPackageBytesForRepo and assertCanStorePackage: what the rows name is  *)
(* summed, a blob once for every row of it.                                 *)
Used == MapThenSumSet(LAMBDA k : Len(index[k]), DOMAIN index)
CanStore(blob) == Len(blob) <= MaxBlob /\ Used + Len(blob) <= MaxRepo

-----------------------------------------------------------------------------
(* startUpload, appendChunk, finishUpload and abortUpload on the Map. *)
NewSession(u)   == minted' = minted \cup {u} /\ sessions' = PutAt(sessions, u, <<>>)
Chunked(u, body) == sessions[u] \o body
Abort(u)        == sessions' = Drop(sessions, u)

(* POST without a digest, or with one and an empty body. *)
StartUpload(u) ==
    /\ u \notin minted
    /\ NewSession(u)
    /\ UNCHANGED <<store, index, call, history, failures>>

(* The head of a request about a session is there: PATCH, or the closing    *)
(* PUT.  A Content-Length over the limit aborts the session and nobody      *)
(* waits for the body.  A length may also be missing or wrong.              *)
ArriveAtSession(c, kind, u, body, claim) ==
    /\ CallAt(c, "idle")
    /\ u \in minted
    /\ \/ /\ Len(body) > MaxBlob
          /\ Abort(u)
          /\ UNCHANGED call
       \/ /\ call' = [call EXCEPT ![c] = [NoCall EXCEPT !.pc = "body", !.kind = kind,
                          !.upload = u, !.blob = body, !.claim = claim]]
          /\ UNCHANGED sessions
    /\ UNCHANGED <<minted, store, index, history, failures>>

(* PATCH: the body is there and appendChunk adds it, if the session still   *)
(* is.  One that has become too large is dropped.                           *)
AppendChunk(c) ==
    /\ CallAt(c, "body") /\ call[c].kind = "patch"
    /\ LET u   == call[c].upload
           all == Chunked(u, call[c].blob) IN
       \/ u \notin DOMAIN sessions /\ UNCHANGED <<sessions, acked>>
       \/ u \in DOMAIN sessions /\ Len(all) > MaxBlob /\ Abort(u) /\ UNCHANGED acked
       \/ /\ u \in DOMAIN sessions /\ Len(all) <= MaxBlob
          /\ sessions' = PutAt(sessions, u, all)
          /\ acked' = [acked EXCEPT ![u] = @ \o call[c].blob]
    /\ CallEnds(c)
    /\ UNCHANGED <<minted, store, index, closed, touched, failures>>

(* finalizeBlob up to its first wait: the quota, and the digest. *)
Accepts(c, blob) ==
    \/ /\ CanStore(blob) /\ blob = call[c].claim
       /\ call' = [call EXCEPT ![c].pc = "owner", ![c].blob = blob, ![c].claim = <<>>]
    \/ ~(CanStore(blob) /\ blob = call[c].claim) /\ CallEnds(c)

(* Slip: the session stays until the blob is stored. *)
CloseLater(c) ==
    /\ CallAt(c, "body") /\ call[c].kind = "close"
    /\ LET u == call[c].upload IN
       IF u \in DOMAIN sessions THEN Accepts(c, Chunked(u, call[c].blob)) ELSE CallEnds(c)
    /\ UNCHANGED <<memory, store, index, history, failures>>

(* The closing PUT: finishUpload takes the session, whatever finalizeBlob   *)
(* then says.                                                               *)
CloseUpload(c) ==
    /\ CallAt(c, "body") /\ call[c].kind = "close"
    /\ LET u == call[c].upload IN
       \/ u \notin DOMAIN sessions /\ CallEnds(c) /\ UNCHANGED sessions
       \/ u \in DOMAIN sessions /\ Abort(u) /\ Accepts(c, Chunked(u, call[c].blob))
    /\ UNCHANGED <<minted, store, index, history, failures>>

(* POST with a digest and a body: the whole blob at once. *)
PostBlob(c, body, claim) ==
    /\ CallAt(c, "idle")
    /\ body # <<>>
    /\ \/ Len(body) > MaxBlob /\ UNCHANGED call
       \/ call' = [call EXCEPT ![c] = [NoCall EXCEPT !.pc = "body", !.kind = "blob",
                       !.blob = body, !.claim = claim]]
    /\ UNCHANGED <<memory, store, index, history, failures>>

ReadBlob(c) ==
    /\ CallAt(c, "body") /\ call[c].kind = "blob"
    /\ Accepts(c, call[c].blob)
    /\ UNCHANGED <<memory, store, index, history, failures>>

(* putManifest, and the PUTs of an npm package and of a file, when the body *)
(* is there and has been parsed, up to the wait for the owner's fetch.  The *)
(* bytes are not compared with anything the client claims.  A file may not  *)
(* be empty.                                                                *)
Publishes(c, kind, key, body) ==
    /\ CallAt(c, "idle")
    /\ kind = "file" => body # <<>>
    /\ CanStore(body)
    /\ call' = [call EXCEPT ![c] = [NoCall EXCEPT !.pc = "owner", !.kind = kind,
                    !.blob = body, !.key = key]]
    /\ UNCHANGED <<memory, store, index, history, failures>>

PublishManifest(c, ref, body) == Publishes(c, "manifest", <<"oci", ref>>, body)
PublishNpm(c, v, body)  == Publishes(c, "npm", <<"npm", v>>, body)
PublishFile(c, v, body) == Publishes(c, "file", <<"file", v>>, body)

(* getOwnerFetch answers, or the owner has to connect again (503). *)
OwnerFetch(c) ==
    /\ CallAt(c, "owner")
    /\ \/ CallGoes(c, "has") /\ UNCHANGED failures
       \/ PodFailure /\ CallEnds(c)
    /\ UNCHANGED <<memory, store, index, history>>

(* HEAD of the blob: only a 2xx says that it is there.  The request may     *)
(* also throw.                                                              *)
Has(c) ==
    /\ CallAt(c, "has")
    /\ \/ CallGoes(c, IF call[c].blob \in DOMAIN store THEN "stored" ELSE "path") /\ UNCHANGED failures
       \/ PodFailure /\ CallGoes(c, "path")
       \/ PodFailure /\ CallEnds(c)
    /\ UNCHANGED <<memory, store, index, history>>

(* ensureBlobPath: a chain of containers that are made when they are not    *)
(* there.                                                                   *)
EnsureBlobPath(c) ==
    /\ CallAt(c, "path")
    /\ \/ CallGoes(c, "put") /\ UNCHANGED failures
       \/ PodFailure /\ CallEnds(c)
    /\ UNCHANGED <<memory, store, index, history>>

(* The PUT: done, or refused with a 409 because a racing *)
(* writer has created it, or failed before or after it took effect.         *)
Save(c) ==
    /\ CallAt(c, "put")
    /\ \/ store' = PutAt(store, call[c].blob, call[c].blob) /\ CallGoes(c, "stored") /\ UNCHANGED failures
       \/ call[c].blob \in DOMAIN store /\ CallGoes(c, "stored") /\ UNCHANGED <<store, failures>>
       \/ store' = PutAt(store, call[c].blob, call[c].blob) /\ PodFailure /\ CallEnds(c)
       \/ PodFailure /\ CallEnds(c) /\ UNCHANGED store
    /\ UNCHANGED <<memory, index, history>>

(* The rows of what was pushed: a manifest is indexed by the reference it   *)
(* was pushed under, and by its digest.                                     *)
Rows(c) ==
    [k \in CASE call[c].kind = "manifest" -> {call[c].key, <<"oci", call[c].blob>>}
             [] call[c].kind \in {"npm", "file"} -> {call[c].key}
             [] OTHER -> {} |-> call[c].blob]

(* upsertPackageVersion, and 201.  A row of that name is pointed to the new *)
(* blob.                                                                    *)
Record(c) ==
    /\ CallAt(c, "stored")
    /\ index' = [k \in DOMAIN Rows(c) \cup DOMAIN index |->
                    IF k \in DOMAIN Rows(c) THEN Rows(c)[k] ELSE index[k]]
    /\ closed' = IF call[c].kind = "close" THEN PutAt(closed, call[c].upload, call[c].blob)
                 ELSE closed
    /\ CallEnds(c)
    /\ UNCHANGED <<memory, store, acked, touched, failures>>

-----------------------------------------------------------------------------
(* The row names the digest to open; for a blob the client does. *)
ReadRow(c, k) ==
    /\ CallAt(c, "idle")
    /\ k \in DOMAIN index
    /\ call' = [call EXCEPT ![c] = [NoCall EXCEPT !.pc = "open", !.kind = "read", !.claim = index[k]]]
    /\ UNCHANGED <<memory, store, index, history, failures>>

GetManifest(c) == \E ref \in References : ReadRow(c, <<"oci", ref>>)
GetTarball(c)  == \E v \in Versions : ReadRow(c, <<"npm", v>>)
GetFile(c)     == \E v \in Versions : ReadRow(c, <<"file", v>>)

GetBlob(c, digest) ==
    /\ CallAt(c, "idle")
    /\ call' = [call EXCEPT ![c] = [NoCall EXCEPT !.pc = "open", !.kind = "read", !.claim = digest]]
    /\ UNCHANGED <<memory, store, index, history, failures>>

(* PodContentStore.open: 404 if it is gone, an error if its bytes do not    *)
(* have the digest.                                                         *)
Open(c) ==
    /\ CallAt(c, "open")
    /\ LET digest == call[c].claim IN
       IF digest \in DOMAIN store /\ store[digest] = digest
       THEN call' = [call EXCEPT ![c].pc = "served", ![c].blob = digest]
       ELSE CallEnds(c)
    /\ UNCHANGED <<memory, store, index, history, failures>>

Answer(c) ==
    /\ CallAt(c, "served")
    /\ CallEnds(c)
    /\ UNCHANGED <<memory, store, index, history, failures>>

-----------------------------------------------------------------------------
(* Another application writes other bytes where a blob is. *)
Tamper(d, bytes) ==
    /\ PodFailure
    /\ d \in DOMAIN store /\ bytes # d
    /\ store' = [store EXCEPT ![d] = bytes]
    /\ touched' = touched \cup {d}
    /\ UNCHANGED <<memory, index, call, acked, closed>>

(* The bridge restarts: sessions and requests are gone. *)
Crash ==
    /\ PodFailure
    /\ sessions' = Empty
    /\ call' = [c \in Calls |-> NoCall]
    /\ UNCHANGED <<minted, store, index, history>>

PackagesNext ==
    \/ \E u \in Uploads : StartUpload(u)
    \/ \E c \in Calls :
          \/ \E u \in Uploads, b \in Bodies : ArriveAtSession(c, "patch", u, b, <<>>)
          \/ \E u \in Uploads, b \in Bodies, d \in Claims : ArriveAtSession(c, "close", u, b, d)
          \/ \E b \in Bodies, d \in Claims : PostBlob(c, b, d)
          \/ \E b \in Artifacts, r \in References : PublishManifest(c, r, b)
          \/ \E b \in Artifacts, v \in Versions : PublishNpm(c, v, b) \/ PublishFile(c, v, b)
          \/ AppendChunk(c) \/ CloseUpload(c) \/ ReadBlob(c)
          \/ OwnerFetch(c) \/ Has(c) \/ EnsureBlobPath(c) \/ Save(c) \/ Record(c)
          \/ GetManifest(c) \/ GetTarball(c) \/ GetFile(c)
          \/ \E d \in Claims : GetBlob(c, d)
          \/ Open(c) \/ Answer(c)
    \/ \E d \in DOMAIN store, b \in Claims : Tamper(d, b)
    \/ Crash

PackagesSpec == PackagesInit /\ [][PackagesNext]_packageVars

-----------------------------------------------------------------------------
(* A chunk that PATCH has answered 202 for is in the blob that a 201 for    *)
(* the closing PUT of its upload stands for, however the requests of the    *)
(* upload overlap: no client is told that bytes were taken which then are   *)
(* in no blob.                                                              *)
AckedIsInBlob ==
    \A u \in DOMAIN closed :
        /\ Len(acked[u]) <= Len(closed[u])
        /\ SubSeq(closed[u], 1, Len(acked[u])) = acked[u]

(* Every row of the index names a blob that is on the pod, although the row *)
(* is written after a wait, the pod fails and the bridge restarts; and the  *)
(* blob has its bytes unless somebody else has written them.                *)
IndexedIsStored ==
    \A k \in DOMAIN index :
        /\ index[k] \in DOMAIN store
        /\ index[k] \notin touched => store[index[k]] = index[k]

(* What a client is given is what it asked for by digest, or what the row   *)
(* named when it asked, and never bytes another application put there.      *)
PulledIsNamed == \A c \in Calls : CallAt(c, "served") => call[c].blob = call[c].claim

(* What the registry says it has taken is there and is what it serves. *)
RegistryKeepsItsWord == AckedIsInBlob /\ IndexedIsStored /\ PulledIsNamed
=============================================================================
