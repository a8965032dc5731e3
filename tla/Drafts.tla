------------------------------- MODULE Drafts -------------------------------
(***************************************************************************)
(* Writing the draft of an issue together: the composer in each browser    *)
(* (src/src/app/repos/.../issues/draft/[draftId]/collaborative-draft.tsx   *)
(* and lib/collab), its copy in IndexedDB, and the relay that brokers the  *)
(* Yjs documents of a room (src/relay/server.ts).  There is one draft, so  *)
(* one name of a room.                                                     *)
(*                                                                         *)
(* A Yjs document only grows: items that were inserted, items that were    *)
(* deleted, and the last write of the kind.  Two of them are merged by     *)
(* joining, in whatever order and however often updates arrive, so an      *)
(* update under way is left out: it may come later, or with the handshake  *)
(* of the next connection.  An item is a word and the number of the        *)
(* setContent that has put it there, 0 when it was typed.                  *)
(***************************************************************************)
EXTENDS Integers, FiniteSets

CONSTANTS
    Peers,       \* browsers, numbered by their Yjs client ids
    Words,       \* what is typed, each word once
    Grouping,    \* words that make suggestKind see an epic
    Conns,       \* connections to the relay, in the order they are opened
    MaxTurns,    \* bound: switches back from the markdown tab, choices of the kind
    MaxBreaks    \* bound: connections that break, restarts of the relay, reloads

ASSUME NumbersAssumption ==
    /\ Peers \subseteq Nat \ {0} /\ Conns \subseteq Nat \ {0}
    /\ {MaxTurns, MaxBreaks} \subseteq Nat
ASSUME WordsAssumption == Grouping \subseteq Words

VARIABLES
    doc,      \* the Y.Doc of each page
    stored,   \* its copy in the browser's IndexedDB
    page,     \* the rest of the composer's state
    room,     \* rooms.get(name): the connection the room was made for, or 0
    held,     \* the documents and the presence of rooms, by that connection
    conn,     \* connections as the relay has them
    turns, breaks   \* used-up bounds

client == <<doc, stored, page>>
relay  == <<room, held, conn>>
bounds == <<turns, breaks>>
draftVars == <<client, relay, bounds>>

Items == Words \X (0 .. MaxTurns)
Kinds == {"issue", "epic"}
Docs  == [ins : SUBSET Items, del : SUBSET Items,
          kind : [stamp : Nat, by : Peers \cup {0}, val : Kinds]]

(* readDraftMeta fills in "issue" for a kind that was never set. *)
Empty == [ins |-> {}, del |-> {}, kind |-> [stamp |-> 0, by |-> 0, val |-> "issue"]]

Newer(a, b) == a.stamp > b.stamp \/ (a.stamp = b.stamp /\ a.by > b.by)
Join(a, b)  == [ins |-> a.ins \cup b.ins, del |-> a.del \cup b.del,
                kind |-> IF Newer(a.kind, b.kind) THEN a.kind ELSE b.kind]

Visible(d) == d.ins \ d.del
Text(d)    == {i[1] : i \in Visible(d)}

ClosedPage == [at |-> "closed", view |-> "rich", md |-> {}, touched |-> FALSE]

(* late is a history variable: presences that came after closeConn. *)
NoRoom == [doc |-> Empty, present |-> {}, late |-> {}]

(* What is on its way when a connection is lost is handled when it comes:   *)
(* edits is an update of the document, cursor the peer's own presence.      *)
Unused == [peer |-> 0, room |-> 0, at |-> "unused", owned |-> {}, edits |-> {}, cursor |-> {}]

(* The connections in conns of a room: a dead one stays until it is noticed, *)
(* one that is closing is out, and its frames still come.                    *)
ConnsOf(r)   == {c \in Conns : conn[c].room = r /\ conn[c].at \in {"open", "dead"}}
SocketsOf(r) == {c \in Conns : conn[c].room = r /\ conn[c].at \in {"open", "dead", "closing"}}
OpenOf(p)    == {c \in Conns : conn[c].peer = p /\ conn[c].at = "open"}

DraftsTypeOK ==
    /\ doc \in [Peers -> Docs] /\ stored \in [Peers -> Docs]
    /\ \A p \in Peers : page[p].at = "ready" => stored[p] = doc[p]
    /\ page \in [Peers -> [at : {"closed", "loading", "ready"}, view : {"rich", "markdown"},
                           md : SUBSET Words, touched : BOOLEAN]]
    /\ room \in Conns \cup {0}
    /\ held \in [Conns -> [doc : Docs, present : SUBSET Peers, late : SUBSET Peers]]
    /\ conn \in [Conns -> [peer : Peers \cup {0}, room : Conns \cup {0}, owned : SUBSET Peers,
                           edits : SUBSET Docs, cursor : SUBSET Peers,
                           at : {"unused", "open", "dead", "closing", "gone"}]]
    /\ \A p \in Peers : Cardinality(OpenOf(p)) <= 1
    /\ turns \in 0 .. MaxTurns /\ breaks \in 0 .. MaxBreaks

DraftsInit ==
    /\ doc = [p \in Peers |-> Empty] /\ stored = [p \in Peers |-> Empty]
    /\ page = [p \in Peers |-> ClosedPage]
    /\ room = 0 /\ held = [c \in Conns |-> NoRoom] /\ conn = [c \in Conns |-> Unused]
    /\ turns = 0 /\ breaks = 0

Break == breaks < MaxBreaks /\ breaks' = breaks + 1

(* Slip: an update is not stored. *)
SetDocOnly(p, d) == doc' = [doc EXCEPT ![p] = d] /\ UNCHANGED stored

(* Every update of a document that has been loaded is stored. *)
SetDoc(p, d) ==
    /\ doc' = [doc EXCEPT ![p] = d]
    /\ stored' = IF page[p].at = "ready" THEN [stored EXCEPT ![p] = d] ELSE stored

SetKind(p, d, val) ==
    [d EXCEPT !.kind = [stamp |-> d.kind.stamp + 1, by |-> p, val |-> val]]

(* The effect that pre-sets the kind: it runs when the text has changed,    *)
(* and only a choice made in this browser holds it back.                    *)
Suggested(d) == IF Text(d) \cap Grouping # {} THEN "epic" ELSE "issue"

PresetKind(p, d) ==
    IF page[p].touched \/ Text(d) = Text(doc[p]) \/ Suggested(d) = d.kind.val
    THEN d ELSE SetKind(p, d, Suggested(d))

Edit(p, d) == SetDoc(p, PresetKind(p, d))

-----------------------------------------------------------------------------
(* The composer. *)
OpenPage(p) ==
    /\ page[p].at = "closed"
    /\ page' = [page EXCEPT ![p].at = "loading"]
    /\ UNCHANGED <<doc, stored, relay, bounds>>

(* Slip: the new document is stored over the old one. *)
StoreOver(p) ==
    /\ page[p].at = "loading"
    /\ page' = [page EXCEPT ![p].at = "ready"]
    /\ stored' = [stored EXCEPT ![p] = doc[p]]
    /\ UNCHANGED <<doc, relay, bounds>>

(* whenSynced: what is in IndexedDB joins what has come in meanwhile. *)
Load(p) ==
    /\ page[p].at = "loading"
    /\ page' = [page EXCEPT ![p].at = "ready"]
    /\ LET all == PresetKind(p, Join(doc[p], stored[p])) IN
       doc' = [doc EXCEPT ![p] = all] /\ stored' = [stored EXCEPT ![p] = all]
    /\ UNCHANGED <<relay, bounds>>

Type(p, w) ==
    /\ page[p].at # "closed" /\ page[p].view = "rich"
    /\ \A q \in Peers : <<w, 0>> \notin doc[q].ins \cup stored[q].ins /\ w \notin page[q].md
    /\ Edit(p, [doc[p] EXCEPT !.ins = @ \cup {<<w, 0>>}])
    /\ UNCHANGED <<page, relay, bounds>>

(* The user's own choice of the kind. *)
PickKind(p, k) ==
    /\ page[p].at # "closed" /\ k # doc[p].kind.val
    /\ turns < MaxTurns /\ turns' = turns + 1
    /\ SetDoc(p, SetKind(p, doc[p], k))
    /\ page' = [page EXCEPT ![p].touched = TRUE]
    /\ UNCHANGED <<relay, breaks>>

(* onViewChange: the markdown tab shows a copy of the text. *)
ToMarkdown(p) ==
    /\ page[p].at = "ready" /\ page[p].view = "rich" /\ turns < MaxTurns
    /\ page' = [page EXCEPT ![p].view = "markdown", ![p].md = Text(doc[p])]
    /\ UNCHANGED <<doc, stored, relay, bounds>>

TypeMarkdown(p, w) ==
    /\ page[p].view = "markdown" /\ w \notin page[p].md
    /\ \A q \in Peers : <<w, 0>> \notin doc[q].ins \cup stored[q].ins
    /\ page' = [page EXCEPT ![p].md = @ \cup {w}]
    /\ UNCHANGED <<doc, stored, relay, bounds>>

(* setContent makes the shared text what the tab has: what is not there is  *)
(* deleted, although somebody else may have written it since.               *)
ToRich(p) ==
    /\ page[p].view = "markdown" /\ turns < MaxTurns
    /\ turns' = turns + 1
    /\ LET d   == doc[p]
           new == [d EXCEPT
                     !.ins = @ \cup {<<w, turns + 1>> : w \in page[p].md \ Text(d)},
                     !.del = @ \cup {i \in Visible(d) : i[1] \notin page[p].md}] IN
       Edit(p, new)
    /\ page' = [page EXCEPT ![p].view = "rich", ![p].md = {}]
    /\ UNCHANGED <<relay, breaks>>

-----------------------------------------------------------------------------
(* The relay.  getRoom and setupConnection. *)
Connect(p, c) ==
    /\ page[p].at # "closed" /\ OpenOf(p) = {}
    /\ conn[c].at = "unused" /\ \A b \in Conns : b < c => conn[b].at # "unused"
    /\ room' = IF room = 0 THEN c ELSE room
    /\ conn' = [conn EXCEPT ![c] = [Unused EXCEPT !.peer = p, !.room = room', !.at = "open"]]
    /\ UNCHANGED <<client, held, bounds>>

(* What a connected page and its room tell each other of the document, at    *)
(* the handshake and after.                                                 *)
Sync(p) ==
    \E c \in OpenOf(p) :
       LET r   == conn[c].room
           all == Join(held[r].doc, doc[p]) IN
       /\ all # doc[p] \/ all # held[r].doc
       /\ held' = [held EXCEPT ![r].doc = all]
       /\ Edit(p, all)
       /\ UNCHANGED <<page, room, conn, bounds>>

(* A presence comes in by c.  trackAwareness does not look at where it comes *)
(* from: every connection of the room has it among its own.  What was sent   *)
(* by earlier connections has an older clock and counts no more.             *)
Seen(p, c) ==
    LET r == conn[c].room IN
    /\ held' = [held EXCEPT ![r].present = @ \cup {p},
                            ![r].late = IF \E b \in ConnsOf(r) : conn[b].peer = p
                                        THEN @ \ {p} ELSE @ \cup {p}]
    /\ conn' = [b \in Conns |->
                  [conn[b] EXCEPT
                     !.owned  = IF b \in ConnsOf(r) THEN @ \cup {p} ELSE @,
                     !.cursor = IF conn[b].room = r /\ b <= c THEN @ \ {p} ELSE @]]

(* A page makes itself known: at the handshake, when its cursor moves, every *)
(* 15 seconds, and when it hears that it was removed.                        *)
Announce(p) ==
    /\ \E c \in OpenOf(p) : Seen(p, c)
    /\ UNCHANGED <<client, room, bounds>>

(* The frames of a connection that is lost: the 'message' handler stays, also *)
(* after closeConn, and applies them to the room of the connection.           *)
LateCursor(c) ==
    /\ conn[c].at \in {"dead", "closing"}
    /\ \E p \in conn[c].cursor : Seen(p, c)
    /\ UNCHANGED <<client, room, bounds>>

LateEdit(c) ==
    /\ conn[c].at \in {"dead", "closing"}
    /\ \E d \in conn[c].edits : held' = [held EXCEPT ![conn[c].room].doc = Join(@, d)]
    /\ conn' = [conn EXCEPT ![c].edits = {}]
    /\ UNCHANGED <<client, room, bounds>>

InFlight(c) ==
    LET d == doc[conn[c].peer] IN
    [conn[c] EXCEPT !.edits  = IF Join(held[conn[c].room].doc, d) = held[conn[c].room].doc
                               THEN {} ELSE {d},
                    !.cursor = {conn[c].peer}]

Closing(k) == [k EXCEPT !.at = "closing", !.owned = {}]
Gone(k)    == [Unused EXCEPT !.peer = k.peer, !.room = k.room, !.at = "gone"]

Removed(r, ps) == [held[r] EXCEPT !.present = @ \ ps, !.late = @ \ ps]

(* Slips: the presence stays; the room stays. *)
CloseSilently(c, k) ==
    LET r    == conn[c].room
        last == ConnsOf(r) \subseteq {c} IN
    /\ conn' = [conn EXCEPT ![c] = k]
    /\ held' = IF last THEN [held EXCEPT ![r] = NoRoom] ELSE held
    /\ room' = IF last THEN 0 ELSE room

(* closeConn and maybeDropRoom: k is what is left of the connection.  A room *)
(* without connections is taken from rooms by its name.                      *)
CloseConn(c, k) ==
    LET r     == conn[c].room
        owned == conn[c].owned
        last  == ConnsOf(r) \subseteq {c} IN
    /\ conn' = [b \in Conns |->
                  IF b = c THEN k
                  ELSE IF b \in ConnsOf(r) THEN [conn[b] EXCEPT !.owned = @ \ owned]
                  ELSE conn[b]]
    /\ held' = [held EXCEPT ![r] = IF last THEN NoRoom ELSE Removed(r, owned)]
    /\ room' = IF last THEN 0 ELSE room

(* y-protocols drops a presence that was not refreshed for 30 seconds.       *)
Expire(r, p) ==
    /\ p \in held[r].present /\ ConnsOf(r) # {}
    /\ held' = [held EXCEPT ![r] = Removed(r, {p})]
    /\ conn' = [b \in Conns |-> IF b \in ConnsOf(r) THEN [conn[b] EXCEPT !.owned = @ \ {p}]
                                ELSE conn[b]]
    /\ UNCHANGED <<client, room, bounds>>

Dies(c) == conn' = [conn EXCEPT ![c] = [InFlight(c) EXCEPT !.at = "dead"]]

(* destroy: the page is left, or the issue has been created from it. *)
Leave(p) ==
    /\ page[p].at # "closed" /\ Break
    /\ page' = [page EXCEPT ![p] = ClosedPage]
    /\ doc' = [doc EXCEPT ![p] = Empty]
    /\ IF OpenOf(p) = {} THEN UNCHANGED conn ELSE \E c \in OpenOf(p) : Dies(c)
    /\ UNCHANGED <<stored, room, held, turns>>

(* The network breaks under a connection; the page notices and reconnects. *)
Drop(p) ==
    /\ Break
    /\ \E c \in OpenOf(p) : Dies(c)
    /\ UNCHANGED <<client, room, held, turns>>

(* The relay's end of a dead connection: the close event comes, or first    *)
(* the ping that was not answered, or an error, and the close event later.  *)
CloseEvent(c) ==
    /\ conn[c].at \in {"dead", "closing"}
    /\ CloseConn(c, Gone(conn[c]))
    /\ UNCHANGED <<client, bounds>>

PingTimeout(c) ==
    /\ conn[c].at \in {"dead", "closing"}
    /\ CloseConn(c, Closing(conn[c]))
    /\ UNCHANGED <<client, bounds>>

(* closeConn of a connection that the page has open: a frame that cannot be *)
(* read, or a ping whose answer is late.  The page notices and reconnects.  *)
Oust(c) ==
    /\ conn[c].at = "open" /\ Break
    /\ CloseConn(c, Closing(InFlight(c)))
    /\ UNCHANGED <<client, turns>>

(* Rooms are in memory only. *)
RestartRelay ==
    /\ Break
    /\ room' = 0 /\ held' = [c \in Conns |-> NoRoom]
    /\ conn' = [c \in Conns |-> IF conn[c].at = "unused" THEN conn[c]
                                ELSE Gone(conn[c])]
    /\ UNCHANGED <<client, turns>>

DraftsNext ==
    \/ \E p \in Peers :
          \/ OpenPage(p) \/ Load(p) \/ ToMarkdown(p) \/ ToRich(p)
          \/ \E w \in Words : Type(p, w) \/ TypeMarkdown(p, w)
          \/ \E k \in Kinds : PickKind(p, k)
          \/ Sync(p) \/ Announce(p) \/ Leave(p) \/ Drop(p)
    \/ \E c \in Conns :
          \/ CloseEvent(c) \/ PingTimeout(c) \/ Oust(c) \/ LateEdit(c) \/ LateCursor(c)
          \/ \E p \in Peers : Connect(p, c) \/ Expire(c, p)
    \/ RestartRelay

DraftsSpec == DraftsInit /\ [][DraftsNext]_draftVars

-----------------------------------------------------------------------------
Together(p, q) == \E c \in OpenOf(p), d \in OpenOf(q) : conn[c].room = conn[d].room

(* What a browser has stored of the draft stays: reloads, and documents     *)
(* that come in before it has been read, only add to it.                    *)
StoredOnlyGrows ==
    [][\A p \in Peers : Join(stored[p], stored'[p]) = stored'[p]]_draftVars

(* A cursor of somebody who has left has come in by a frame of his that was  *)
(* handled after closeConn: whoever else is present in a room has a          *)
(* connection in it, if one that is dead and not yet noticed.                *)
NoGhosts ==
    \A r \in Conns : \A p \in held[r].present \ held[r].late :
       \E c \in ConnsOf(r) : conn[c].peer = p

(* And no presence is left without somebody who takes it along: each is one *)
(* that a connection of the room has tracked, and goes with it at last.     *)
PresenceIsTracked ==
    \A r \in Conns : ConnsOf(r) # {} =>
       \A p \in held[r].present : \E c \in ConnsOf(r) : p \in conn[c].owned

(* "The room doc is GC'd when the last peer leaves" (server.ts:21): the room *)
(* of the name has somebody in it, and nothing is held of a room whose       *)
(* sockets are all gone.                                                     *)
RoomsAreDropped ==
    /\ room # 0 => ConnsOf(room) # {}
    /\ \A r \in Conns : SocketsOf(r) = {} => held[r] = NoRoom

(* "One in-memory Y.Doc + Awareness per room" (server.ts:13): two pages     *)
(* that are connected to the draft are in one room.                         *)
OneRoom == \A p, q \in Peers : OpenOf(p) # {} /\ OpenOf(q) # {} => Together(p, q)

(* The relay holds what is used: presences of those who are connected, or    *)
(* late and on their way out with the others, and rooms that somebody is in. *)
RelayIsClean == NoGhosts /\ PresenceIsTracked /\ RoomsAreDropped
=============================================================================
