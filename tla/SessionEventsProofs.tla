------------------------ MODULE SessionEventsProofs ------------------------
(* Proofs about the session event chain for any number of writers and      *)
(* sessions and any bounds: what holds however they interleave, and what   *)
(* holds as long as they run one after the other.                          *)
EXTENDS MCSessionEvents, SequenceTheorems, TLAPS

(* Until a reseed the hash a writer holds is that of a row of its session, *)
(* and the order it holds, read later, is greater than that row's.         *)
HoldsLink(w) ==
  /\ pc[w] = "order" /\ loc[w].prev # NoHash =>
       \E p \in Of(loc[w].session) : p.hash = loc[w].prev
  /\ pc[w] = "insert" /\ loc[w].prev # NoHash =>
       \E p \in Of(loc[w].session) : p.hash = loc[w].prev /\ p.order < loc[w].order

(* A session with events has one of greatest order.                        *)
HasLatest == \A s \in Sessions : Of(s) # {} => Latest(s) # {}

IInv ==
  /\ TypeOK
  /\ PredecessorComesFirst
  /\ HasLatest
  /\ reseeds = 0 => \A w \in Writers : HoldsLink(w)

LEMMA BlankIsContent == Blank \in Content
BY EventsAssumption DEF Blank, Content, Fresh, NoHash

LEMMA InitOK == Init => IInv
<1> SUFFICES ASSUME Init PROVE IInv
  OBVIOUS
<1>1. TypeOK
  BY BlankIsContent, EmptySeq DEF Init, TypeOK
<1>2. PredecessorComesFirst /\ HasLatest
  BY DEF Init, PredecessorComesFirst, HasLatest, Of
<1>3. \A w \in Writers : HoldsLink(w)
  BY DEF Init, HoldsLink
<1> QED BY <1>1, <1>2, <1>3 DEF IInv

(* A step of one writer that leaves the table alone.                       *)
LEMMA ReadStepOK ==
  ASSUME IInv, NEW w \in Writers,
         NEW label \in {"idle", "previous", "order", "insert"}, NEW mine \in Content,
         Goto(w, label, mine), UNCHANGED <<rows, hashed, reseeds>>,
         reseeds = 0 /\ label = "order" /\ mine.prev # NoHash =>
           \E p \in Of(mine.session) : p.hash = mine.prev,
         reseeds = 0 /\ label = "insert" /\ mine.prev # NoHash =>
           \E p \in Of(mine.session) : p.hash = mine.prev /\ p.order < mine.order
  PROVE  IInv'
<1>1. /\ pc'[w] = label /\ loc'[w] = mine
      /\ \A u \in Writers \ {w} : pc'[u] = pc[u] /\ loc'[u] = loc[u]
  BY DEF IInv, TypeOK, Goto
<1>2. TypeOK'
  BY DEF IInv, TypeOK, Goto
<1>3. PredecessorComesFirst' /\ HasLatest'
  BY DEF IInv, PredecessorComesFirst, HasLatest, Of, Latest
<1>4. ASSUME reseeds' = 0, NEW u \in Writers PROVE HoldsLink(u)'
  BY <1>1, <1>4 DEF IInv, HoldsLink, Of
<1> QED BY <1>2, <1>3, <1>4 DEF IInv

LEMMA ReadPreviousOK ==
  ASSUME IInv, NEW w \in Writers, ReadPrevious(w) PROVE IInv'
<1> DEFINE s == loc[w].session
<1>1. PICK h \in LatestEventHashes(s) :
        /\ Goto(w, "order", [loc[w] EXCEPT !.prev = h])
        /\ UNCHANGED <<rows, hashed, reseeds>>
  BY DEF ReadPrevious
<1>2. h \in Nat /\ (h # NoHash => \E p \in Of(s) : p.hash = h)
  BY DEF IInv, TypeOK, Row, LatestEventHashes, Latest, Of, NoHash
<1> DEFINE mine == [loc[w] EXCEPT !.prev = h]
<1>3. mine \in Content /\ mine.prev = h /\ mine.session = s
  BY <1>2 DEF IInv, TypeOK, Content
<1> HIDE DEF mine
<1> QED BY <1>1, <1>2, <1>3, ReadStepOK DEF mine

LEMMA ReadOrderOK ==
  ASSUME IInv, NEW w \in Writers, ReadOrder(w) PROVE IInv'
<1> DEFINE s == loc[w].session
           n == NextEventOrder(s)
           mine == [loc[w] EXCEPT !.order = n]
<1>1. loc[w] \in Content /\ s \in Sessions
  BY DEF IInv, TypeOK, Content
<1>2. n \in Nat /\ \A p \in Of(s) : p.order < n
  <2>1. CASE Of(s) = {}
    BY <2>1 DEF NextEventOrder
  <2>2. CASE Of(s) # {}
    <3> DEFINE e == CHOOSE x \in Latest(s) : TRUE
    <3>1. e \in Latest(s)
      BY <1>1, <2>2 DEF IInv, HasLatest
    <3>2. e \in Of(s) /\ \A p \in Of(s) : p.order <= e.order
      BY <3>1 DEF Latest
    <3>3. \A p \in Of(s) : p.order \in Nat
      BY DEF Of, IInv, TypeOK, Row
    <3>4. n = e.order + 1
      BY <2>2 DEF NextEventOrder
    <3> HIDE DEF e, n
    <3> QED BY <3>2, <3>3, <3>4
  <2> QED BY <2>1, <2>2
<1>3. /\ mine \in Content /\ mine.prev = loc[w].prev
      /\ mine.session = s /\ mine.order = n
  BY <1>1, <1>2 DEF Content
<1>4. reseeds = 0 /\ loc[w].prev # NoHash => \E p \in Of(s) : p.hash = loc[w].prev /\ p.order < n
  BY <1>2 DEF IInv, HoldsLink, ReadOrder
<1>5. Goto(w, "insert", mine) /\ UNCHANGED <<rows, hashed, reseeds>>
  BY DEF ReadOrder
<1> HIDE DEF mine, n
<1> QED BY <1>3, <1>4, <1>5, ReadStepOK

(* Either insert: the content goes into a new row and the writer moves on. *)
LEMMA InsertOK ==
  ASSUME IInv, NEW w \in Writers, NEW content \in Content,
         NEW label \in {"idle", "previous"}, NEW mine \in Content,
         HashAndInsert(content), Goto(w, label, mine), UNCHANGED reseeds,
         reseeds = 0 =>
           /\ content.prev = loc[w].prev /\ content.order = loc[w].order
           /\ content.session = loc[w].session /\ pc[w] = "insert"
  PROVE  IInv'
<1> DEFINE s == content.session
<1>1. hashed \in Seq(Content) /\ Len(hashed) \in Nat
  BY LenProperties DEF IInv, TypeOK
<1>3. s \in Sessions /\ content.name \in Nat /\ content.order \in Nat /\ content.prev \in Nat
  BY DEF Content
<1>5. PICK row \in Row :
        /\ rows' = rows \cup {row} /\ hashed' \in Seq(Content)
        /\ row.session = s /\ row.order = content.order /\ row.prev = content.prev
  <2> DEFINE new == HashesOf(content) = {}
             h == IF new THEN Len(hashed) + 1 ELSE CHOOSE i \in HashesOf(content) : TRUE
             row == [name |-> content.name, session |-> content.session,
                     order |-> content.order, prev |-> content.prev, hash |-> h]
  <2>1. h \in Nat
    BY <1>1 DEF HashesOf
  <2>2. row \in Row
    BY <1>3, <2>1 DEF Content, Row
  <2>3. rows' = rows \cup {row} /\ hashed' = IF new THEN Append(hashed, content) ELSE hashed
    BY DEF HashAndInsert
  <2>4. hashed' \in Seq(Content)
    BY <1>1, <2>3, AppendProperties
  <2> QED BY <1>3, <2>2, <2>3, <2>4
<1>6. /\ pc'[w] = label
      /\ \A u \in Writers \ {w} : pc'[u] = pc[u] /\ loc'[u] = loc[u]
  BY DEF IInv, TypeOK, Goto
<1>7. TypeOK'
  BY <1>5 DEF IInv, TypeOK, Goto
<1>8. PredecessorComesFirst'
  <2>1. reseeds = 0 /\ row.prev # NoHash =>
          \E p \in rows : p.hash = row.prev /\ p.session = row.session /\ p.order < row.order
    BY <1>5 DEF IInv, HoldsLink, Of
  <2> QED BY <1>5, <2>1 DEF IInv, PredecessorComesFirst
<1>9. HasLatest'
  <2> SUFFICES ASSUME NEW z \in Sessions, Of(z)' # {} PROVE Latest(z)' # {}
    BY DEF HasLatest
  <2>1. \A x \in rows \cup {row} : x.order \in Nat
    BY DEF IInv, TypeOK, Row
  <2>2. Of(z)' = Of(z) \cup (IF row.session = z THEN {row} ELSE {})
    BY <1>5 DEF Of
  <2>3. CASE Of(z) = {}
    <3>1. row \in Latest(z)'
      BY <2>1, <2>2, <2>3 DEF Latest
    <3> QED BY <3>1
  <2>4. CASE Of(z) # {}
    <3>1. PICK e \in Latest(z) : TRUE
      BY <2>4 DEF IInv, HasLatest
    <3>2. e \in rows /\ e \in Of(z) /\ \A x \in Of(z) : x.order <= e.order
      BY <3>1 DEF Latest, Of
    <3>3. \A x \in Of(z) : x \in rows
      BY DEF Of
    <3>4. e \in Latest(z)' \/ row \in Latest(z)'
      BY <2>1, <2>2, <3>2, <3>3 DEF Latest
    <3> QED BY <3>4
  <2> QED BY <2>3, <2>4
<1>10. ASSUME reseeds' = 0, NEW u \in Writers PROVE HoldsLink(u)'
  <2>1. CASE u = w
    BY <1>6, <2>1 DEF HoldsLink
  <2>2. CASE u # w
    <3>1. \A z \in Sessions : Of(z) \subseteq Of(z)'
      BY <1>5 DEF Of
    <3>2. loc[u].session \in Sessions
      BY DEF IInv, TypeOK, Content
    <3> QED BY <1>6, <1>10, <2>2, <3>1, <3>2 DEF IInv, HoldsLink
  <2> QED BY <2>1, <2>2
<1> QED BY <1>7, <1>8, <1>9, <1>10 DEF IInv

LEMMA FreshOK ==
  ASSUME IInv, NEW w \in Writers, InsertFresh(w) PROVE IInv'
<1> DEFINE content == [loc[w] EXCEPT !.name = SeedEvents + Len(hashed) + 1]
<1>1. SeedEvents + Len(hashed) + 1 \in Nat
  BY LenProperties, EventsAssumption DEF IInv, TypeOK
<1>2. /\ content \in Content /\ content.session = loc[w].session
      /\ content.order = loc[w].order /\ content.prev = loc[w].prev
  BY <1>1 DEF IInv, TypeOK, Content
<1>3. HashAndInsert(content) /\ Goto(w, "idle", Blank) /\ pc[w] = "insert"
      /\ UNCHANGED reseeds
  BY DEF InsertFresh
<1> HIDE DEF content
<1> QED BY <1>2, <1>3, BlankIsContent, InsertOK

LEMMA SeededOK ==
  ASSUME IInv, NEW w \in Writers, InsertSeeded(w) PROVE IInv'
<1> DEFINE next == [Blank EXCEPT !.name = loc[w].name + 1]
<1>1. loc[w] \in Content /\ next \in Content
  <2>1. loc[w] \in Content
    BY DEF IInv, TypeOK
  <2>2. loc[w].name + 1 \in Nat
    BY <2>1 DEF Content
  <2> QED BY <2>1, <2>2, BlankIsContent DEF Content
<1>2. HashAndInsert(loc[w]) /\ pc[w] = "insert" /\ UNCHANGED reseeds
  BY DEF InsertSeeded
<1>3. Goto(w, "previous", next) \/ Goto(w, "idle", Blank)
  BY DEF InsertSeeded
<1> HIDE DEF next
<1> QED BY <1>1, <1>2, <1>3, BlankIsContent, InsertOK

LEMMA ReseedOK ==
  ASSUME IInv, NEW w \in Writers, Reseed(w) PROVE IInv'
<1>1. [Blank EXCEPT !.name = 1] \in Content
  BY BlankIsContent DEF Content
<1>2. TypeOK' /\ rows' = {} /\ reseeds' # 0
  BY <1>1 DEF Reseed, IInv, TypeOK, Goto
<1>3. PredecessorComesFirst' /\ HasLatest'
  BY <1>2 DEF PredecessorComesFirst, HasLatest, Of
<1> QED BY <1>2, <1>3 DEF IInv

LEMMA StepOK == IInv /\ [Next]_vars => IInv'
<1> SUFFICES ASSUME IInv, [Next]_vars PROVE IInv'
  OBVIOUS
<1>1. ASSUME NEW w \in Writers, NEW s \in Sessions, AppendEvent(w, s) PROVE IInv'
  <2>1. [Blank EXCEPT !.session = s] \in Content
    BY BlankIsContent DEF Content
  <2> QED BY <1>1, <2>1, ReadStepOK DEF AppendEvent
<1>2. ASSUME NEW w \in Writers, ReadPrevious(w) \/ ReadOrder(w) PROVE IInv'
  BY <1>2, ReadPreviousOK, ReadOrderOK
<1>3. ASSUME NEW w \in Writers, Reseed(w) \/ InsertFresh(w) \/ InsertSeeded(w)
      PROVE  IInv'
  BY <1>3, ReseedOK, FreshOK, SeededOK
<1>4. ASSUME NEW w \in Writers, InsertSeededFails(w) PROVE IInv'
  <2>1. Goto(w, "idle", Blank) /\ UNCHANGED <<rows, hashed, reseeds>>
    BY <1>4 DEF InsertSeededFails
  <2> QED BY <1>4, <2>1, ReadStepOK, BlankIsContent
<1>5. CASE UNCHANGED vars
  BY <1>5 DEF vars, IInv, TypeOK, PredecessorComesFirst, HasLatest, HoldsLink, Of, Latest
<1> QED BY <1>1, <1>2, <1>3, <1>4, <1>5 DEF Next

(* The invariant holds in every behaviour.                                 *)
THEOREM EventsKeepOrder == Spec => []IInv
BY InitOK, StepOK, PTL DEF Spec

(* The table and what the writers hold are well typed.                     *)
THEOREM TypeCorrect == Spec => []TypeOK
<1>1. IInv => TypeOK BY DEF IInv
<1> QED BY <1>1, EventsKeepOrder, PTL

(* However many writers append, until a reseed a link points to an event of the session   *)
(* that the audit view shows strictly earlier, because _append reads the   *)
(* hash before it reads the order.                                         *)
THEOREM PredecessorsComeFirst == Spec => []PredecessorComesFirst
<1>1. IInv => PredecessorComesFirst BY DEF IInv
<1> QED BY <1>1, EventsKeepOrder, PTL

-----------------------------------------------------------------------------
(* Links.  A row's hash is that of its content, and the hash it or a       *)
(* writer holds was computed from an event of its session, on file or      *)
(* erased since.                                                           *)
ContentOf(e) ==
  [name |-> e.name, session |-> e.session, order |-> e.order, prev |-> e.prev]

IsHash(h) == h \in Nat /\ 1 <= h /\ h <= Len(hashed)

HashedIn(h, s) == IsHash(h) /\ hashed[h].session = s

RowLinked(e) ==
  /\ IsHash(e.hash) /\ hashed[e.hash] = ContentOf(e)
  /\ e.prev # NoHash => HashedIn(e.prev, e.session)

WriterLinked(w) ==
  pc[w] \in {"order", "insert"} /\ loc[w].prev # NoHash =>
    HashedIn(loc[w].prev, loc[w].session)

LinkInv ==
  /\ \A e \in rows : RowLinked(e)
  /\ \A w \in Writers : WriterLinked(w)

(* stable_hash never forgets what it was computed from.                    *)
HashesKept == \A h : IsHash(h) => IsHash(h)' /\ hashed'[h] = hashed[h]

LEMMA HashKept ==
  ASSUME HashesKept, NEW h, NEW s, HashedIn(h, s) PROVE HashedIn(h, s)'
BY DEF HashedIn, HashesKept

LEMMA RowKept ==
  ASSUME HashesKept, NEW e, RowLinked(e) PROVE RowLinked(e)'
<1>1. IsHash(e.hash)' /\ hashed'[e.hash] = ContentOf(e)
  BY DEF RowLinked, HashesKept
<1>2. e.prev # NoHash => HashedIn(e.prev, e.session)'
  BY HashKept DEF RowLinked
<1> QED BY <1>1, <1>2 DEF RowLinked, ContentOf

LEMMA WriterKept ==
  ASSUME HashesKept, NEW w, WriterLinked(w), pc'[w] = pc[w], loc'[w] = loc[w]
  PROVE  WriterLinked(w)'
<1>1. pc[w] \in {"order", "insert"} /\ loc[w].prev # NoHash =>
        IsHash(loc[w].prev)' /\ hashed'[loc[w].prev].session = loc[w].session
  BY DEF WriterLinked, HashedIn, HashesKept
<1> QED BY <1>1 DEF WriterLinked, HashedIn, IsHash

(* A step that hashes nothing and adds no row.                             *)
LEMMA LinkReadStep ==
  ASSUME IInv, LinkInv, NEW w \in Writers, NEW label, NEW mine \in Content,
         Goto(w, label, mine), rows' \subseteq rows, hashed' = hashed,
         label \in {"order", "insert"} /\ mine.prev # NoHash =>
           HashedIn(mine.prev, mine.session)
  PROVE  LinkInv'
<1>1. HashesKept
  BY DEF HashesKept, IsHash
<1>2. /\ pc'[w] = label /\ loc'[w] = mine
      /\ \A u \in Writers \ {w} : pc'[u] = pc[u] /\ loc'[u] = loc[u]
  BY DEF IInv, TypeOK, Goto
<1>3. ASSUME NEW e \in rows' PROVE RowLinked(e)'
  <2>1. RowLinked(e)
    BY DEF LinkInv
  <2> QED BY <1>1, <2>1, RowKept
<1>4. WriterLinked(w)'
  BY <1>2 DEF WriterLinked, HashedIn, IsHash
<1>5. ASSUME NEW u \in Writers \ {w} PROVE WriterLinked(u)'
  BY <1>1, <1>2, <1>5, WriterKept DEF LinkInv
<1> QED BY <1>3, <1>4, <1>5 DEF LinkInv

(* What an insert does: a hash of the content, new or found, and its row.  *)
LEMMA Inserted ==
  ASSUME IInv, NEW content \in Content, HashAndInsert(content)
  PROVE  /\ HashesKept
         /\ \E row \in Row :
              /\ rows' = rows \cup {row} /\ ContentOf(row) = content
              /\ IsHash(row.hash)' /\ hashed'[row.hash] = content
<1> DEFINE new == HashesOf(content) = {}
           h == IF new THEN Len(hashed) + 1 ELSE CHOOSE i \in HashesOf(content) : TRUE
           row == [name |-> content.name, session |-> content.session,
                   order |-> content.order, prev |-> content.prev, hash |-> h]
<1>1. hashed \in Seq(Content) /\ Len(hashed) \in Nat
  BY LenProperties DEF IInv, TypeOK
<1>2. /\ rows' = rows \cup {row}
      /\ hashed' = IF new THEN Append(hashed, content) ELSE hashed
  BY DEF HashAndInsert
<1>3. content = [name |-> content.name, session |-> content.session,
                 order |-> content.order, prev |-> content.prev]
  BY DEF Content
<1>4. CASE new
  <2>1. /\ hashed' = Append(hashed, content) /\ h = Len(hashed) + 1
        /\ Len(hashed') = Len(hashed) + 1 /\ hashed'[Len(hashed) + 1] = content
        /\ \A i \in 1..Len(hashed) : hashed'[i] = hashed[i]
    BY <1>1, <1>2, <1>4, AppendProperties
  <2>2. HashesKept
    BY <1>1, <2>1 DEF HashesKept, IsHash
  <2>3. h \in Nat /\ 1 <= h /\ h <= Len(hashed') /\ hashed'[h] = content
    BY <1>1, <2>1
  <2> HIDE DEF h
  <2>4. row \in Row /\ row.hash = h /\ ContentOf(row) = content
    BY <1>3, <2>3 DEF Row, Content, ContentOf
  <2> HIDE DEF row
  <2> QED BY <1>2, <2>2, <2>3, <2>4 DEF IsHash
<1>5. CASE ~new
  <2>1. hashed' = hashed /\ h = CHOOSE i \in HashesOf(content) : TRUE
    BY <1>2, <1>5
  <2>2. h \in HashesOf(content)
    BY <1>5, <2>1
  <2>3. h \in Nat /\ 1 <= h /\ h <= Len(hashed') /\ hashed'[h] = content
    BY <1>1, <2>1, <2>2 DEF HashesOf
  <2>4. HashesKept
    BY <2>1 DEF HashesKept, IsHash
  <2> HIDE DEF h
  <2>5. row \in Row /\ row.hash = h /\ ContentOf(row) = content
    BY <1>3, <2>3 DEF Row, Content, ContentOf
  <2> HIDE DEF row
  <2> QED BY <1>2, <2>3, <2>4, <2>5 DEF IsHash
<1> QED BY <1>4, <1>5

LEMMA LinkInsertStep ==
  ASSUME IInv, LinkInv, NEW w \in Writers, pc[w] = "insert", NEW content \in Content,
         NEW label \in {"idle", "previous"}, NEW mine,
         HashAndInsert(content), Goto(w, label, mine),
         content.prev = loc[w].prev, content.session = loc[w].session
  PROVE  LinkInv'
<1>1. HashesKept
  BY Inserted
<1>2. PICK row \in Row :
        /\ rows' = rows \cup {row} /\ ContentOf(row) = content
        /\ IsHash(row.hash)' /\ hashed'[row.hash] = content
  BY Inserted
<1>3. /\ pc'[w] = label
      /\ \A u \in Writers \ {w} : pc'[u] = pc[u] /\ loc'[u] = loc[u]
  BY DEF IInv, TypeOK, Goto
<1>4. RowLinked(row)'
  <2>1. row.prev = loc[w].prev /\ row.session = loc[w].session
    BY <1>2 DEF ContentOf
  <2>2. row.prev # NoHash => HashedIn(row.prev, row.session)
    BY <2>1 DEF LinkInv, WriterLinked
  <2>3. row.prev # NoHash => HashedIn(row.prev, row.session)'
    BY <1>1, <2>2, HashKept
  <2> QED BY <1>2, <2>3 DEF RowLinked, ContentOf
<1>5. ASSUME NEW e \in rows PROVE RowLinked(e)'
  BY <1>1, RowKept DEF LinkInv
<1>6. WriterLinked(w)'
  BY <1>3 DEF WriterLinked
<1>7. ASSUME NEW u \in Writers \ {w} PROVE WriterLinked(u)'
  BY <1>1, <1>3, <1>7, WriterKept DEF LinkInv
<1> QED BY <1>2, <1>4, <1>5, <1>6, <1>7 DEF LinkInv

LEMMA FreshContent ==
  ASSUME IInv, NEW w \in Writers
  PROVE  LET content == [loc[w] EXCEPT !.name = SeedEvents + Len(hashed) + 1] IN
         /\ content \in Content /\ content.session = loc[w].session
         /\ content.order = loc[w].order /\ content.prev = loc[w].prev
<1>1. SeedEvents + Len(hashed) + 1 \in Nat
  BY LenProperties, EventsAssumption DEF IInv, TypeOK
<1> QED BY <1>1 DEF IInv, TypeOK, Content

LEMMA RowHashed ==
  ASSUME LinkInv, NEW e \in rows
  PROVE  HashedIn(e.hash, e.session) /\ e.hash # NoHash
<1>1. IsHash(e.hash) /\ hashed[e.hash] = ContentOf(e)
  BY DEF LinkInv, RowLinked
<1>2. ContentOf(e).session = e.session
  BY DEF ContentOf
<1> QED BY <1>1, <1>2 DEF HashedIn, IsHash, NoHash

LEMMA InitLinked == Init => LinkInv
BY DEF Init, LinkInv, WriterLinked

LEMMA StepLinked ==
  ASSUME IInv, LinkInv, [Next]_vars PROVE LinkInv'
<1>1. ASSUME NEW w \in Writers, NEW s \in Sessions, AppendEvent(w, s) PROVE LinkInv'
  <2>1. [Blank EXCEPT !.session = s] \in Content
    BY BlankIsContent DEF Content
  <2> QED BY <1>1, <2>1, LinkReadStep DEF AppendEvent
<1>2. ASSUME NEW w \in Writers, Reseed(w) PROVE LinkInv'
  <2>1. [Blank EXCEPT !.name = 1] \in Content
    BY BlankIsContent DEF Content
  <2>2. /\ Goto(w, "previous", [Blank EXCEPT !.name = 1]) /\ hashed' = hashed
        /\ rows' \subseteq rows
    BY <1>2 DEF Reseed
  <2> QED BY <2>1, <2>2, LinkReadStep
<1>3. ASSUME NEW w \in Writers, ReadPrevious(w) PROVE LinkInv'
  <2> DEFINE s == loc[w].session
  <2>1. PICK h \in LatestEventHashes(s) :
          /\ Goto(w, "order", [loc[w] EXCEPT !.prev = h])
          /\ UNCHANGED <<rows, hashed>>
    BY <1>3 DEF ReadPrevious
  <2> DEFINE mine == [loc[w] EXCEPT !.prev = h]
  <2>2. h # NoHash => \E e \in rows : e.hash = h /\ e.session = s
    BY <2>1 DEF LatestEventHashes, Latest, Of
  <2>3. h # NoHash => HashedIn(h, s)
    BY <2>2, RowHashed
  <2>4. h \in Nat
    BY <2>3 DEF HashedIn, IsHash, NoHash
  <2>5. mine \in Content /\ mine.prev = h /\ mine.session = s
    BY <2>4 DEF IInv, TypeOK, Content
  <2> HIDE DEF mine
  <2> QED BY <2>1, <2>3, <2>5, LinkReadStep DEF mine
<1>4. ASSUME NEW w \in Writers, ReadOrder(w) PROVE LinkInv'
  <2> DEFINE n == NextEventOrder(loc[w].session)
             mine == [loc[w] EXCEPT !.order = n]
  <2>1. /\ loc[w] \in Content /\ pc[w] = "order"
        /\ Goto(w, "insert", mine) /\ UNCHANGED <<rows, hashed>>
    BY <1>4 DEF ReadOrder, IInv, TypeOK
  <2>2. mine.prev = loc[w].prev /\ mine.session = loc[w].session
    BY <2>1 DEF Content
  <2>3. loc[w].prev # NoHash => HashedIn(loc[w].prev, loc[w].session)
    BY <2>1 DEF LinkInv, WriterLinked
  <2>4. mine \in Content
    <3>1. loc'[w] = mine /\ loc'[w] \in Content
      BY <1>4, <2>1, ReadOrderOK DEF Goto, IInv, TypeOK
    <3> QED BY <3>1
  <2> HIDE DEF mine
  <2> QED BY <2>1, <2>2, <2>3, <2>4, LinkReadStep
<1>5. ASSUME NEW w \in Writers, InsertFresh(w) PROVE LinkInv'
  <2> DEFINE content == [loc[w] EXCEPT !.name = SeedEvents + Len(hashed) + 1]
  <2>1. HashAndInsert(content) /\ Goto(w, "idle", Blank) /\ pc[w] = "insert"
    BY <1>5 DEF InsertFresh
  <2>2. /\ content \in Content /\ content.prev = loc[w].prev
        /\ content.session = loc[w].session
    BY FreshContent
  <2> HIDE DEF content
  <2> QED BY <2>1, <2>2, LinkInsertStep
<1>6. ASSUME NEW w \in Writers, InsertSeeded(w) PROVE LinkInv'
  <2>1. PICK label, mine :
          /\ label \in {"idle", "previous"}
          /\ HashAndInsert(loc[w]) /\ Goto(w, label, mine) /\ pc[w] = "insert"
    BY <1>6 DEF InsertSeeded
  <2>2. loc[w] \in Content
    BY DEF IInv, TypeOK
  <2> QED BY <2>1, <2>2, LinkInsertStep
<1>7. ASSUME NEW w \in Writers, InsertSeededFails(w) PROVE LinkInv'
  <2>1. Goto(w, "idle", Blank) /\ UNCHANGED <<rows, hashed>>
    BY <1>7 DEF InsertSeededFails
  <2> QED BY <2>1, BlankIsContent, LinkReadStep
<1>8. CASE UNCHANGED vars
  BY <1>8 DEF vars, LinkInv, RowLinked, WriterLinked, HashedIn, IsHash
<1> QED BY <1>1, <1>2, <1>3, <1>4, <1>5, <1>6, <1>7, <1>8 DEF Next

LEMMA LinksHold == Spec => [](IInv /\ LinkInv)
<1>1. Init => IInv /\ LinkInv
  BY InitOK, InitLinked
<1>2. IInv /\ LinkInv /\ [Next]_vars => (IInv /\ LinkInv)'
  BY StepOK, StepLinked
<1> QED BY <1>1, <1>2, PTL DEF Spec

(* However appends and reseeds interleave, an event links to an event of   *)
(* its own session, if need be an erased one, and no two events share a    *)
(* hash.                                                                   *)
THEOREM LinksNeverLeaveSession == Spec => []LinksStayInSession
<1>1. ASSUME IInv, LinkInv PROVE LinksStayInSession
  <2> SUFFICES ASSUME NEW e \in rows
               PROVE  /\ hashed[e.hash].session = e.session
                      /\ e.prev # NoHash => hashed[e.prev].session = e.session
                      /\ \A f \in rows : f.hash = e.hash => f = e
    BY DEF LinksStayInSession
  <2>1. RowLinked(e)
    BY <1>1 DEF LinkInv
  <2>2. ASSUME NEW f \in rows, f.hash = e.hash PROVE f = e
    <3>1. ContentOf(f) = ContentOf(e)
      BY <1>1, <2>2 DEF LinkInv, RowLinked
    <3>2. /\ f.name = e.name /\ f.session = e.session /\ f.order = e.order
          /\ f.prev = e.prev
      BY <3>1 DEF ContentOf
    <3>3. e \in Row /\ f \in Row
      BY <1>1 DEF IInv, TypeOK
    <3> QED BY <2>2, <3>2, <3>3 DEF Row
  <2> QED BY <1>1, <2>1, <2>2, RowHashed DEF RowLinked, HashedIn
<1> QED BY <1>1, LinksHold, PTL

-----------------------------------------------------------------------------
(* One writer at a time.  What it holds is the end of its session's chain. *)
AtMostOneBusy == \A v, w \in Writers : pc[v] # "idle" /\ pc[w] # "idle" => v = w

HoldsEnd(w) ==
  /\ pc[w] = "order" =>
       IF loc[w].prev = NoHash THEN Of(loc[w].session) = {}
       ELSE \E p \in Latest(loc[w].session) : p.hash = loc[w].prev
  /\ pc[w] = "insert" =>
       IF loc[w].prev = NoHash THEN Of(loc[w].session) = {} /\ loc[w].order = 1
       ELSE \E p \in Latest(loc[w].session) :
              p.hash = loc[w].prev /\ p.order = loc[w].order - 1

Alone == AtMostOneBusy /\ ChainIsLinear /\ \A w \in Writers : HoldsEnd(w)

LEMMA InitAlone == Init => Alone
BY DEF Init, Alone, AtMostOneBusy, ChainIsLinear, HoldsEnd

LEMMA NextOrder ==
  ASSUME IInv, NEW s \in Sessions, NEW p \in Latest(s)
  PROVE  NextEventOrder(s) = p.order + 1 /\ p.order \in Nat
<1> DEFINE e == CHOOSE x \in Latest(s) : TRUE
<1>1. e \in Latest(s)
  OBVIOUS
<1>2. e \in Of(s) /\ p \in Of(s) /\ e.order <= p.order /\ p.order <= e.order
  BY <1>1 DEF Latest
<1>3. e.order \in Nat /\ p.order \in Nat
  BY <1>2 DEF Of, IInv, TypeOK, Row
<1>4. NextEventOrder(s) = e.order + 1
  BY <1>2 DEF NextEventOrder
<1> HIDE DEF e
<1> QED BY <1>2, <1>3, <1>4

(* A step that leaves the table alone.                                     *)
LEMMA AloneReadStep ==
  ASSUME IInv, Alone, AtMostOneBusy', NEW w \in Writers, NEW label, NEW mine,
         pc[w] # "idle" \/ label # "idle", Goto(w, label, mine), rows' = rows,
         HoldsEnd(w)'
  PROVE  Alone'
<1>1. ASSUME NEW u \in Writers \ {w} PROVE HoldsEnd(u)'
  <2>1. pc'[u] = pc[u] /\ pc[u] = "idle"
    BY DEF IInv, TypeOK, Goto, Alone, AtMostOneBusy
  <2> QED BY <2>1 DEF HoldsEnd
<1>2. ChainIsLinear'
  BY DEF Alone, ChainIsLinear, Of
<1> QED BY <1>1, <1>2 DEF Alone

(* An insert extends the chain of its session at its end.                  *)
LEMMA AloneInsertStep ==
  ASSUME IInv, LinkInv, Alone, AtMostOneBusy', NEW w \in Writers, pc[w] = "insert",
         NEW content \in Content, NEW label \in {"idle", "previous"}, NEW mine,
         HashAndInsert(content), Goto(w, label, mine),
         content.prev = loc[w].prev, content.session = loc[w].session,
         content.order = loc[w].order
  PROVE  Alone'
<1> DEFINE s == content.session
<1>1. PICK row \in Row : rows' = rows \cup {row} /\ ContentOf(row) = content
  BY Inserted
<1>2. row.prev = loc[w].prev /\ row.session = s /\ row.order = loc[w].order
  BY <1>1 DEF ContentOf
<1>3. ASSUME NEW u \in Writers PROVE HoldsEnd(u)'
  <2>1. pc'[u] \in {"idle", "previous"}
    BY DEF IInv, TypeOK, Goto, Alone, AtMostOneBusy
  <2> QED BY <2>1 DEF HoldsEnd
<1>4. \A f \in rows : f.order \in Nat
  BY DEF IInv, TypeOK, Row
<1>5. \A f \in Of(s) : f.order < row.order
  <2>1. CASE loc[w].prev = NoHash
    BY <2>1 DEF Alone, HoldsEnd
  <2>2. CASE loc[w].prev # NoHash
    <3>1. PICK p \in Latest(s) : p.order = loc[w].order - 1
      BY <2>2 DEF Alone, HoldsEnd
    <3>2. p \in Of(s) /\ \A f \in Of(s) : f.order <= p.order
      BY <3>1 DEF Latest
    <3>3. \A f \in Of(s) : f.order \in Nat
      BY <1>4 DEF Of
    <3>4. row.order \in Nat
      BY DEF Row
    <3> QED BY <1>2, <3>1, <3>2, <3>3, <3>4
  <2> QED BY <2>1, <2>2
<1>6. \A z : Of(z)' = IF z = s THEN Of(z) \cup {row} ELSE Of(z)
  BY <1>1, <1>2 DEF Of
<1>7. \A f \in rows : f.session = s => f.order < row.order
  BY <1>5 DEF Of
<1>8. ASSUME NEW e \in rows
      PROVE  /\ \A f \in Of(e.session)' : f.order = e.order => f = e
             /\ IF e.prev = NoHash THEN e.order = 1
                ELSE \E p \in Of(e.session)' : p.hash = e.prev /\ p.order = e.order - 1
  <2>1. /\ \A f \in Of(e.session) : f.order = e.order => f = e
        /\ IF e.prev = NoHash THEN e.order = 1
           ELSE \E p \in Of(e.session) : p.hash = e.prev /\ p.order = e.order - 1
    BY DEF Alone, ChainIsLinear
  <2>2. e.session = s => e.order # row.order
    BY <1>4, <1>7
  <2> QED BY <1>6, <2>1, <2>2
<1>9. /\ \A f \in Of(s)' : f.order = row.order => f = row
      /\ IF row.prev = NoHash THEN row.order = 1
         ELSE \E p \in Of(s)' : p.hash = row.prev /\ p.order = row.order - 1
  <2>1. \A f \in Of(s) : f.order # row.order
    BY <1>4, <1>7 DEF Of
  <2>2. CASE row.prev = NoHash
    BY <1>2, <1>6, <2>1, <2>2 DEF Alone, HoldsEnd
  <2>3. CASE row.prev # NoHash
    <3>1. \E p \in Of(s) : p.hash = row.prev /\ p.order = row.order - 1
      BY <1>2, <2>3 DEF Alone, HoldsEnd, Latest
    <3> QED BY <1>6, <2>1, <2>3, <3>1
  <2> QED BY <2>2, <2>3
<1>10. ChainIsLinear'
  <2> SUFFICES ASSUME NEW e \in rows'
               PROVE  /\ \A f \in Of(e.session)' : f.order = e.order => f = e
                      /\ IF e.prev = NoHash THEN e.order = 1
                         ELSE \E p \in Of(e.session)' : p.hash = e.prev /\ p.order = e.order - 1
    BY DEF ChainIsLinear
  <2>1. CASE e \in rows
    BY <1>8, <2>1
  <2>2. CASE e = row
    <3>1. Of(e.session)' = Of(s)'
      BY <1>2, <1>6, <2>2
    <3> QED BY <1>9, <2>2, <3>1
  <2> QED BY <1>1, <2>1, <2>2
<1> QED BY <1>3, <1>10 DEF Alone

LEMMA StepAlone ==
  ASSUME IInv, LinkInv, Alone, AtMostOneBusy', [Next]_vars PROVE Alone'
<1>1. ASSUME NEW w \in Writers, NEW s \in Sessions, AppendEvent(w, s) PROVE Alone'
  <2>1. pc'[w] = "previous"
    BY <1>1 DEF AppendEvent, Goto, IInv, TypeOK
  <2>2. HoldsEnd(w)'
    BY <2>1 DEF HoldsEnd
  <2> QED BY <1>1, <2>2, AloneReadStep DEF AppendEvent
<1>2. ASSUME NEW w \in Writers, Reseed(w) PROVE Alone'
  <2>1. ChainIsLinear'
    BY <1>2 DEF Reseed, ChainIsLinear
  <2>2. pc'[w] = "previous" /\ \A u \in Writers \ {w} : pc'[u] = pc[u]
    BY <1>2 DEF Reseed, Goto, IInv, TypeOK
  <2>3. \A u \in Writers : HoldsEnd(u)'
    BY <2>2 DEF HoldsEnd, AtMostOneBusy
  <2> QED BY <2>1, <2>3 DEF Alone
<1>3. ASSUME NEW w \in Writers, ReadPrevious(w) PROVE Alone'
  <2>1. PICK h \in LatestEventHashes(loc[w].session) :
          Goto(w, "order", [loc[w] EXCEPT !.prev = h]) /\ rows' = rows /\ pc[w] = "previous"
    BY <1>3 DEF ReadPrevious
  <2>2. PICK s \in Sessions : s = loc[w].session
    BY DEF IInv, TypeOK, Content
  <2>3. /\ pc'[w] = "order" /\ loc'[w].prev = h /\ loc'[w].session = s
    BY <2>1, <2>2 DEF Goto, IInv, TypeOK, Content
  <2>4. IF h = NoHash THEN Of(s) = {} ELSE \E p \in Latest(s) : p.hash = h
    <3>1. CASE Of(s) = {}
      BY <2>1, <2>2, <3>1 DEF LatestEventHashes
    <3>2. CASE Of(s) # {}
      <4>1. PICK p \in Latest(s) : p.hash = h
        BY <2>1, <2>2, <3>2 DEF LatestEventHashes
      <4>2. p \in rows
        BY DEF Latest, Of
      <4> QED BY <4>1, <4>2, RowHashed
    <3> QED BY <3>1, <3>2
  <2>5. HoldsEnd(w)'
    BY <2>1, <2>3, <2>4 DEF HoldsEnd, Of, Latest
  <2> QED BY <2>1, <2>5, AloneReadStep
<1>4. ASSUME NEW w \in Writers, ReadOrder(w) PROVE Alone'
  <2>1. PICK s, n : s \in Sessions /\ s = loc[w].session /\ n = NextEventOrder(s)
    BY DEF IInv, TypeOK, Content
  <2>2. /\ Goto(w, "insert", [loc[w] EXCEPT !.order = n]) /\ rows' = rows
        /\ pc[w] = "order"
    BY <1>4, <2>1 DEF ReadOrder
  <2>3. /\ pc'[w] = "insert" /\ loc'[w].prev = loc[w].prev /\ loc'[w].session = s
        /\ loc'[w].order = n
    BY <2>1, <2>2 DEF Goto, IInv, TypeOK, Content
  <2>4. IF loc[w].prev = NoHash THEN Of(s) = {}
        ELSE \E p \in Latest(s) : p.hash = loc[w].prev
    BY <2>1, <2>2 DEF Alone, HoldsEnd
  <2>5. IF loc[w].prev = NoHash THEN Of(s) = {} /\ n = 1
        ELSE \E p \in Latest(s) : p.hash = loc[w].prev /\ p.order = n - 1
    <3>1. CASE loc[w].prev = NoHash
      BY <2>1, <2>4, <3>1 DEF NextEventOrder
    <3>2. CASE loc[w].prev # NoHash
      <4>1. PICK p \in Latest(s) : p.hash = loc[w].prev
        BY <2>4, <3>2
      <4>2. n = p.order + 1 /\ p.order \in Nat
        BY <2>1, NextOrder
      <4>3. p.order = n - 1
        BY <4>2
      <4> QED BY <3>2, <4>1, <4>3
    <3> QED BY <3>1, <3>2
  <2>6. HoldsEnd(w)'
    BY <2>2, <2>3, <2>5 DEF HoldsEnd, Of, Latest
  <2> QED BY <2>2, <2>6, AloneReadStep
<1>5. ASSUME NEW w \in Writers, InsertFresh(w) PROVE Alone'
  <2> DEFINE content == [loc[w] EXCEPT !.name = SeedEvents + Len(hashed) + 1]
  <2>1. HashAndInsert(content) /\ Goto(w, "idle", Blank) /\ pc[w] = "insert"
    BY <1>5 DEF InsertFresh
  <2>2. /\ content \in Content /\ content.prev = loc[w].prev
        /\ content.session = loc[w].session /\ content.order = loc[w].order
    BY FreshContent
  <2> HIDE DEF content
  <2> QED BY <2>1, <2>2, AloneInsertStep
<1>6. ASSUME NEW w \in Writers, InsertSeeded(w) PROVE Alone'
  <2>1. PICK label, mine :
          /\ label \in {"idle", "previous"}
          /\ HashAndInsert(loc[w]) /\ Goto(w, label, mine) /\ pc[w] = "insert"
    BY <1>6 DEF InsertSeeded
  <2>2. loc[w] \in Content
    BY DEF IInv, TypeOK
  <2> QED BY <2>1, <2>2, AloneInsertStep
<1>7. ASSUME NEW w \in Writers, InsertSeededFails(w) PROVE Alone'
  <2>1. /\ Goto(w, "idle", Blank) /\ rows' = rows /\ pc[w] = "insert" /\ pc'[w] = "idle"
    BY <1>7 DEF InsertSeededFails, Goto, IInv, TypeOK
  <2>2. HoldsEnd(w)'
    BY <2>1 DEF HoldsEnd
  <2> QED BY <2>1, <2>2, AloneReadStep
<1>8. CASE UNCHANGED vars
  BY <1>8 DEF vars, Alone, AtMostOneBusy, ChainIsLinear, HoldsEnd, Of, Latest
<1> QED BY <1>1, <1>2, <1>3, <1>4, <1>5, <1>6, <1>7, <1>8 DEF Next

(* One writer at a time, every session's events are numbered 1, 2, 3 and   *)
(* so on, and each links to the one before it: the audit trail of RFC-05,  *)
(* also for the demo session after it has been seeded anew.                *)
THEOREM SerialChainsAreLinear == MCSpec => []ChainIsLinearAlone
<1>1. MCInit => IInv /\ LinkInv /\ (raced \/ Alone)
  BY InitOK, InitLinked, InitAlone DEF MCInit
<1>2. IInv /\ LinkInv /\ (raced \/ Alone) /\ [MCNext]_<<vars, raced>>
        => (IInv /\ LinkInv /\ (raced \/ Alone))'
  <2> SUFFICES ASSUME IInv, LinkInv, raced \/ Alone, [MCNext]_<<vars, raced>>
               PROVE  IInv' /\ LinkInv' /\ (raced' \/ Alone')
    OBVIOUS
  <2>1. [Next]_vars
    BY DEF MCNext
  <2>2. raced' \/ (~raced /\ AtMostOneBusy')
    <3>1. CASE MCNext
      BY <3>1 DEF MCNext, AtMostOneBusy
    <3>2. CASE UNCHANGED <<vars, raced>>
      BY <3>2 DEF vars, Alone, AtMostOneBusy
    <3> QED BY <3>1, <3>2
  <2> QED BY <2>1, <2>2, StepOK, StepLinked, StepAlone
<1>3. raced \/ Alone => ChainIsLinearAlone
  BY DEF Alone, ChainIsLinearAlone
<1> QED BY <1>1, <1>2, <1>3, PTL DEF MCSpec
=============================================================================
