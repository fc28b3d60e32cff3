---------------------------- MODULE SessionEvents ----------------------------
(***************************************************************************)
(* The hash-chained session events of platform/dolt_store.py.  An append   *)
(* is three autocommitted statements: the hash of the latest event, the    *)
(* next order, and the INSERT.  Connections are not serialized, so two     *)
(* appends interleave between statements, and so does a reseed, which      *)
(* deletes every event and appends the demo session's first ones again.    *)
(*                                                                         *)
(* stable_hash is collision free: a hash is the position, in the sequence  *)
(* of everything hashed so far, of the content it was computed from, which *)
(* holds the event's name, session, order and previous hash.               *)
(***************************************************************************)
EXTENDS Integers, Sequences

CONSTANTS Writers, Sessions,
          DemoSession,  \* the session seed_demo fills
          SeedEvents,   \* the events it appends: 3 in the code
          MaxHashes,    \* bound of the instance: contents hashed
          MaxReseeds    \* bound of the instance: reseeds

ASSUME EventsAssumption ==
  /\ DemoSession \in Sessions /\ SeedEvents \in Nat
  /\ MaxHashes \in Nat /\ MaxReseeds \in Nat

NoHash == 0  \* prev_event_hash NULL

Content ==
  [name : Nat, session : Sessions, order : Nat, prev : Nat]

Row ==
  [name : Nat, session : Sessions, order : Nat, prev : Nat, hash : Nat]

VARIABLES rows,    \* table session_events
          hashed,  \* the contents hashed so far
          reseeds, \* how often the tables have been reseeded
          pc,      \* the next statement of each writer
          loc      \* each writer's arguments and what it has read

vars == <<rows, hashed, reseeds, pc, loc>>

(* Rows 1..SeedEvents of the demo session have fixed event ids; the others *)
(* have fresh ones, named 0 until they are inserted.                       *)
Fresh == 0

Blank == [name |-> Fresh, session |-> DemoSession, order |-> 0, prev |-> NoHash]

Init ==
  /\ rows = {}
  /\ hashed = <<>>
  /\ reseeds = 0
  /\ pc = [w \in Writers |-> "idle"]
  /\ loc = [w \in Writers |-> Blank]

-----------------------------------------------------------------------------
Of(s) == {e \in rows : e.session = s}

Latest(s) == {e \in Of(s) : \A f \in Of(s) : f.order <= e.order}

(* Variant of LatestEventHashes: the latest event of any session.          *)
LatestEventHashesAnywhere(s) ==
  IF rows = {} THEN {NoHash}
  ELSE {e.hash : e \in {f \in rows : \A g \in rows : g.order <= f.order}}

(* _latest_event_hash: created_at, the tie-breaker among events of equal   *)
(* order, counts whole seconds, so any of them may come first.             *)
LatestEventHashes(s) ==
  IF Of(s) = {} THEN {NoHash} ELSE {e.hash : e \in Latest(s)}

(* Variants of NextEventOrder: the maximum itself, and one more than the   *)
(* maximum over all sessions.                                              *)
LastEventOrder(s) ==
  IF Of(s) = {} THEN 1 ELSE (CHOOSE e \in Latest(s) : TRUE).order

NextOrderAnywhere(s) ==
  IF rows = {} THEN 1
  ELSE (CHOOSE e \in rows : \A f \in rows : f.order <= e.order).order + 1

(* _next_event_order: COALESCE(MAX(event_order), 0) + 1.                   *)
NextEventOrder(s) ==
  IF Of(s) = {} THEN 1 ELSE (CHOOSE e \in Latest(s) : TRUE).order + 1

Goto(w, label, locals) ==
  /\ pc' = [pc EXCEPT ![w] = label]
  /\ loc' = [loc EXCEPT ![w] = locals]

(* Begin an append of a fresh event.                                       *)
AppendEvent(w, s) ==
  /\ pc[w] = "idle"
  /\ Len(hashed) < MaxHashes
  /\ Goto(w, "previous", [Blank EXCEPT !.session = s])
  /\ UNCHANGED <<rows, hashed, reseeds>>

(* seed_demo: DELETE FROM session_events, then the demo events in turn.    *)
Reseed(w) ==
  /\ pc[w] = "idle"
  /\ Len(hashed) < MaxHashes /\ reseeds < MaxReseeds /\ SeedEvents > 0
  /\ rows' = {}
  /\ reseeds' = reseeds + 1
  /\ Goto(w, "previous", [Blank EXCEPT !.name = 1])
  /\ UNCHANGED hashed

ReadPrevious(w) ==
  /\ pc[w] = "previous"
  /\ \E h \in LatestEventHashes(loc[w].session) :
       Goto(w, "order", [loc[w] EXCEPT !.prev = h])
  /\ UNCHANGED <<rows, hashed, reseeds>>

ReadOrder(w) ==
  /\ pc[w] = "order"
  /\ Goto(w, "insert", [loc[w] EXCEPT !.order = NextEventOrder(loc[w].session)])
  /\ UNCHANGED <<rows, hashed, reseeds>>

(* stable_hash of a fresh event is a new hash; that of a seeded event is   *)
(* the one it had before if it is linked and ordered as before.            *)
HashesOf(content) == {h \in 1..Len(hashed) : hashed[h] = content}

HashAndInsert(content) ==
  LET new == HashesOf(content) = {}
      h   == IF new THEN Len(hashed) + 1 ELSE CHOOSE i \in HashesOf(content) : TRUE
  IN
  /\ hashed' = IF new THEN Append(hashed, content) ELSE hashed
  /\ rows' = rows \cup
       {[name |-> content.name, session |-> content.session,
         order |-> content.order, prev |-> content.prev, hash |-> h]}

Seeding(w) == loc[w].name # Fresh

InsertFresh(w) ==
  /\ pc[w] = "insert"
  /\ ~Seeding(w)
  /\ Len(hashed) < MaxHashes
  /\ HashAndInsert([loc[w] EXCEPT !.name = SeedEvents + Len(hashed) + 1])
  /\ Goto(w, "idle", Blank)
  /\ UNCHANGED reseeds

InsertSeeded(w) ==
  /\ pc[w] = "insert"
  /\ Seeding(w)
  /\ Len(hashed) < MaxHashes
  /\ \A e \in rows : e.name # loc[w].name
  /\ HashAndInsert(loc[w])
  /\ UNCHANGED reseeds
  /\ \/ /\ loc[w].name < SeedEvents
        /\ Goto(w, "previous", [Blank EXCEPT !.name = loc[w].name + 1])
     \/ /\ loc[w].name = SeedEvents
        /\ Goto(w, "idle", Blank)

(* Another reseed has inserted the same primary key: the INSERT raises and *)
(* the rest of the seed is not written.                                    *)
InsertSeededFails(w) ==
  /\ pc[w] = "insert"
  /\ Seeding(w)
  /\ \E e \in rows : e.name = loc[w].name
  /\ Goto(w, "idle", Blank)
  /\ UNCHANGED <<rows, hashed, reseeds>>

Next ==
  \E w \in Writers :
    \/ \E s \in Sessions : AppendEvent(w, s)
    \/ Reseed(w) \/ ReadPrevious(w) \/ ReadOrder(w)
    \/ InsertFresh(w) \/ InsertSeeded(w) \/ InsertSeededFails(w)

Spec == Init /\ [][Next]_vars
-----------------------------------------------------------------------------
(* The table and the writers' locals are well formed.                      *)
TypeOK ==
  /\ rows \subseteq Row
  /\ hashed \in Seq(Content)
  /\ reseeds \in Nat
  /\ pc \in [Writers -> {"idle", "previous", "order", "insert"}]
  /\ loc \in [Writers -> Content]

(* Until a reseed, and however appends interleave, an event links to an   *)
(* event of its own session that the audit view, which sorts by order,     *)
(* shows strictly before it: the hash is read before the order is.         *)
PredecessorComesFirst ==
  reseeds = 0 =>
    \A e \in rows : e.prev # NoHash =>
      \E p \in rows : p.hash = e.prev /\ p.session = e.session /\ p.order < e.order

(* No link ever leaves its session and no two events share a hash, not     *)
(* even when reseeds erase the events that racing appends link to.         *)
LinksStayInSession ==
  \A e \in rows :
    /\ hashed[e.hash].session = e.session
    /\ e.prev # NoHash => hashed[e.prev].session = e.session
    /\ \A f \in rows : f.hash = e.hash => f = e

(* RFC-05, audit invariants: every event hash links to the prior session   *)
(* event.  The events of a session are numbered without gaps or ties, and  *)
(* each links to the one before it.                                        *)
ChainIsLinear ==
  \A e \in rows :
    /\ \A f \in Of(e.session) : f.order = e.order => f = e
    /\ IF e.prev = NoHash THEN e.order = 1
       ELSE \E p \in Of(e.session) : p.hash = e.prev /\ p.order = e.order - 1
=============================================================================
