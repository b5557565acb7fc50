-------------------------- MODULE ControlApiProofs ---------------------------
(* The invariants of ControlApi, for any tables, tenants, page size and Ttl.  *)
EXTENDS ControlApi, RefreshTokens, FiniteSetTheorems, SequenceTheorems, WellFoundedInduction, TLAPS

-----------------------------------------------------------------------------
(* Pages: what the Limit newest of a finite set of rows are.                  *)

(* A set of numbers has a least one.                                          *)
LEMMA LeastExists ==
    ASSUME NEW S \in SUBSET Nat, S # {}
    PROVE  \E i \in S : \A j \in S : i <= j
<1> DEFINE R == {ss \in Nat \X Nat : ss[1] < ss[2]}
<1>1. IsWellFoundedOn(R, Nat)
  BY NatLessThanWellFounded DEF OpToRel
<1>2. PICK i \in S : \A j \in S : ~(<<j, i>> \in R)
  <2> HIDE DEF R
  <2> QED BY <1>1, WFMin
<1>3. \A j \in S : ~(j < i)
  BY <1>2
<1> QED BY <1>3

LEMMA GreatestExists ==
    ASSUME NEW S \in SUBSET Nat, S # {}, NEW n \in Nat, \A i \in S : i <= n
    PROVE  \E i \in S : \A j \in S : j <= i
<1> DEFINE D == {n - i : i \in S}
<1>1. D \in SUBSET Nat /\ D # {}
  <2>1. \A i \in S : n - i \in Nat
    OBVIOUS
  <2> QED BY <2>1
<1>2. PICK d \in D : \A e \in D : d <= e
  BY <1>1, LeastExists
<1>3. PICK i \in S : d = n - i
  OBVIOUS
<1>4. \A j \in S : n - i <= n - j
  BY <1>2, <1>3
<1> QED BY <1>4

(* A page holds the newest rows asked for and no others: all of them unless   *)
(* there are more, and then at least one.                                     *)
IsPage(ids, page) ==
    /\ page.data \subseteq ids
    /\ \A i \in page.data, j \in ids : i <= j => j \in page.data
    /\ page.hasMore \in BOOLEAN
    /\ ~page.hasMore => page.data = ids
    /\ page.hasMore => Cursor(page) \in page.data /\ \A j \in page.data : Cursor(page) <= j

LEMMA PageExact ==
    ASSUME NEW n \in Nat, NEW ids \in SUBSET (1 .. n)
    PROVE  IsPage(ids, Page(ids))
<1> DEFINE Above(i) == {j \in ids : j > i}
<1>1. Newest(ids) = {i \in ids : Cardinality(Above(i)) < Limit}
  BY DEF Newest
<1>2. /\ \A i \in ids : Above(i) \subseteq ids \ {i}
      /\ \A i, j \in ids : i <= j => Above(j) \subseteq Above(i)
      /\ \A i \in ids : (\A j \in ids : j <= i) => Above(i) = {}
  <2>1. \A i \in ids : i \in Nat
    OBVIOUS
  <2>2. \A i, j \in ids : j > i => j # i
    BY <2>1
  <2>3. \A i, j, k \in ids : i <= j /\ k > j => k > i
    BY <2>1
  <2>4. \A i, j \in ids : ~(j <= i /\ j > i)
    BY <2>1
  <2> QED BY <2>2, <2>3, <2>4
<1> HIDE DEF Above
<1>3. IsFiniteSet(ids) /\ Cardinality(ids) \in Nat
  <2>1. IsFiniteSet(1 .. n)
    BY FS_Interval
  <2> QED BY <2>1, FS_Subset, FS_CardinalityType
<1>4. \A i \in ids : IsFiniteSet(Above(i)) /\ Cardinality(Above(i)) \in Nat
  <2> TAKE i \in ids
  <2>1. Above(i) \in SUBSET ids
    BY <1>2
  <2> QED BY <1>3, <2>1, FS_Subset, FS_CardinalityType
<1>5. Page(ids).data = Newest(ids) /\ Page(ids).hasMore = (Cardinality(ids) > Limit)
  BY DEF Page
<1>6. \A i, j \in ids : i <= j => Cardinality(Above(j)) <= Cardinality(Above(i))
  <2> SUFFICES ASSUME NEW i \in ids, NEW j \in ids, i <= j
               PROVE  Cardinality(Above(j)) <= Cardinality(Above(i))
    OBVIOUS
  <2>1. Above(j) \in SUBSET Above(i) /\ IsFiniteSet(Above(i))
    BY <1>2, <1>4
  <2> QED BY <2>1, FS_Subset
<1>7. \A i \in Newest(ids), j \in ids : i <= j => j \in Newest(ids)
  <2> SUFFICES ASSUME NEW i \in Newest(ids), NEW j \in ids, i <= j
               PROVE  Cardinality(Above(j)) < Limit
    BY <1>1
  <2>1. i \in ids /\ Cardinality(Above(i)) < Limit
    BY <1>1
  <2>2. Cardinality(Above(j)) <= Cardinality(Above(i))
    BY <1>6, <2>1
  <2>3. Cardinality(Above(i)) \in Nat /\ Cardinality(Above(j)) \in Nat /\ Limit \in Nat
    BY <1>4, <2>1, ControlApiAssumption
  <2> QED BY <2>1, <2>2, <2>3
<1>8. ASSUME ~(Cardinality(ids) > Limit) PROVE Newest(ids) = ids
  <2>1. \A i \in ids : Cardinality(Above(i)) <= Cardinality(ids) - 1
    <3> TAKE i \in ids
    <3>1. Above(i) \in SUBSET (ids \ {i})
      BY <1>2
    <3>2. IsFiniteSet(ids \ {i}) /\ Cardinality(ids \ {i}) = Cardinality(ids) - 1
      BY <1>3, FS_RemoveElement
    <3>3. Cardinality(Above(i)) <= Cardinality(ids \ {i})
      BY <3>1, <3>2, FS_Subset
    <3> QED BY <3>2, <3>3
  <2>2. \A i \in ids : Cardinality(Above(i)) < Limit
    BY <1>3, <1>4, <1>8, <2>1, ControlApiAssumption
  <2> QED BY <1>1, <2>2
<1>9. ASSUME Cardinality(ids) > Limit
      PROVE  \E i \in Newest(ids) : \A j \in Newest(ids) : i <= j
  <2>1. ids # {}
    <3> SUFFICES ASSUME ids = {} PROVE FALSE
      OBVIOUS
    <3>1. Cardinality(ids) = 0
      BY FS_EmptySet
    <3> QED BY <1>9, <3>1, ControlApiAssumption
  <2>2. PICK top \in ids : \A j \in ids : j <= top
    <3>1. ids \in SUBSET Nat /\ \A j \in ids : j <= n
      OBVIOUS
    <3>2. \E i \in ids : \A j \in ids : j <= i
      BY <2>1, <3>1, GreatestExists
    <3> QED BY <3>2
  <2>3. Cardinality(Above(top)) = 0
    BY <1>2, <2>2, FS_EmptySet
  <2>4. top \in Newest(ids)
    BY <1>1, <2>3, ControlApiAssumption
  <2>5. Newest(ids) \in SUBSET Nat
    <3>1. \A i \in Newest(ids) : i \in ids
      BY <1>1
    <3>2. \A i \in ids : i \in Nat
      OBVIOUS
    <3> QED BY <3>1, <3>2
  <2> QED BY <2>4, <2>5, LeastExists
<1>10. Newest(ids) \subseteq ids
  BY <1>1
<1>11. ASSUME Page(ids).hasMore
       PROVE  /\ Cursor(Page(ids)) \in Page(ids).data
              /\ \A j \in Page(ids).data : Cursor(Page(ids)) <= j
  BY <1>5, <1>9, <1>11 DEF Cursor
<1>12. Page(ids).hasMore \in BOOLEAN
  BY <1>5
<1>13. ~Page(ids).hasMore => Page(ids).data = ids
  BY <1>5, <1>8
<1>14. \A i \in Page(ids).data, j \in ids : i <= j => j \in Page(ids).data
  BY <1>5, <1>7
<1> QED BY <1>5, <1>10, <1>11, <1>12, <1>13, <1>14 DEF IsPage

-----------------------------------------------------------------------------
(* The inductive invariant.                                                   *)

(* What a walk in progress has seen is all of due from its cursor on, which   *)
(* is one of due; rows written since are above all of due.                    *)
WalkInv ==
    /\ walk \in [by : Tenants \cup {"nobody"}, cursor : Nat, seen : SUBSET Nat,
                 due : SUBSET Nat, again : BOOLEAN, done : BOOLEAN]
    /\ ~walk.again
    /\ walk.by = "nobody" => ~walk.done
    /\ walk.by # "nobody" =>
         /\ walk.due \subseteq AuditRows(walk.by)
         /\ \A i \in AuditRows(walk.by), j \in walk.due : i <= j => i \in walk.due
         /\ IF walk.done THEN walk.seen = walk.due
            ELSE walk.cursor \in walk.due /\ walk.seen = {i \in walk.due : walk.cursor <= i}

(* An entry is as old as the tables it was read from, or younger.             *)
CacheInv ==
    /\ rows \in recent[1] /\ DOMAIN recent = 1 .. Ttl
    /\ \A key \in Tenants \X Routes :
         Live(cache[key]) =>
           \E i \in 1 .. cache[key].age + 1 : \E db \in recent[i] : cache[key].body = Body(key[2], db)

IInv == TypeOK /\ OutboxFollowsAudit /\ WalkInv /\ CacheInv

TypedLog == /\ audit \in Seq(Tenants)
            /\ outbox \in Seq([row : Nat, status : {"PENDING", "DELIVERED"}])
            /\ writes \in 0 .. MaxWrites
TypedTables == DOMAIN rows = Tables /\ \A t \in Tables : rows[t] \subseteq Ids[t]

(* An audited request: the log grows by a row or not at all, and the outbox   *)
(* follows it.                                                                *)
LEMMA AuditWriteFollows ==
    ASSUME TypedLog, OutboxFollowsAudit, NEW t \in Tenants, AuditWrite(t)
    PROVE  /\ TypedLog' /\ OutboxFollowsAudit'
           /\ DOMAIN audit \subseteq DOMAIN audit'
           /\ \A i \in DOMAIN audit : audit'[i] = audit[i]
           /\ \A i \in DOMAIN audit' \ DOMAIN audit : \A j \in DOMAIN audit : j < i
<1>1. /\ writes' \in 0 .. MaxWrites
      /\ DOMAIN audit = 1 .. Len(audit) /\ DOMAIN outbox = 1 .. Len(outbox)
      /\ Len(audit) \in Nat /\ Len(outbox) \in Nat
  BY ControlApiAssumption DEF AuditWrite, TypedLog
<1>2. CASE UNCHANGED <<audit, outbox>>
  BY <1>1, <1>2 DEF TypedLog, OutboxFollowsAudit
<1>3. CASE audit' = Append(audit, t)
  <2>1. /\ audit' \in Seq(Tenants) /\ DOMAIN audit' = 1 .. Len(audit) + 1
        /\ \A i \in DOMAIN audit : audit'[i] = audit[i]
        /\ Len(audit') = Len(audit) + 1
    BY <1>1, <1>3 DEF TypedLog
  <2>2. CASE UNCHANGED outbox
    BY <1>1, <2>1, <2>2 DEF TypedLog, OutboxFollowsAudit
  <2>3. CASE outbox' = Append(outbox, [row |-> Len(audit'), status |-> "PENDING"])
    <3>1. /\ outbox' \in Seq([row : Nat, status : {"PENDING", "DELIVERED"}])
          /\ DOMAIN outbox' = 1 .. Len(outbox) + 1
          /\ \A e \in DOMAIN outbox : outbox'[e] = outbox[e]
          /\ outbox'[Len(outbox) + 1].row = Len(audit) + 1
      BY <1>1, <2>1, <2>3 DEF TypedLog
    <3>2. \A e \in DOMAIN outbox : outbox[e].row \in Nat /\ outbox[e].row <= Len(audit)
      BY <1>1 DEF TypedLog, OutboxFollowsAudit
    <3>3. OutboxFollowsAudit'
      <4> SUFFICES ASSUME NEW e \in DOMAIN outbox'
                   PROVE  /\ outbox'[e].row \in DOMAIN audit'
                          /\ \A f \in DOMAIN outbox' : e < f => outbox'[e].row < outbox'[f].row
        BY DEF OutboxFollowsAudit
      <4>1. CASE e \in DOMAIN outbox
        <5>1. \A f \in DOMAIN outbox : e < f => outbox[e].row < outbox[f].row
          BY <4>1 DEF OutboxFollowsAudit
        <5>2. outbox'[e].row \in DOMAIN audit'
          BY <1>1, <2>1, <3>1, <4>1 DEF OutboxFollowsAudit
        <5>3. \A f \in DOMAIN outbox' : f \in DOMAIN outbox \/ f = Len(outbox) + 1
          BY <1>1, <3>1
        <5> QED BY <1>1, <2>1, <3>1, <3>2, <4>1, <5>1, <5>2, <5>3
      <4>2. CASE e = Len(outbox) + 1
        BY <1>1, <2>1, <3>1, <4>2
      <4> QED BY <1>1, <3>1, <4>1, <4>2
    <3> QED BY <1>1, <2>1, <3>1, <3>3 DEF TypedLog
  <2> QED BY <1>3, <2>2, <2>3 DEF AuditWrite
<1> QED BY <1>2, <1>3 DEF AuditWrite

(* A walk that stands still is not disturbed by rows that are written.        *)
LEMMA WalkStands ==
    ASSUME WalkInv, UNCHANGED walk,
           DOMAIN audit \subseteq DOMAIN audit',
           \A i \in DOMAIN audit : audit'[i] = audit[i],
           \A i \in DOMAIN audit' \ DOMAIN audit : \A j \in DOMAIN audit : j < i,
           DOMAIN audit' \subseteq Nat
    PROVE  WalkInv'
<1>1. CASE walk.by = "nobody"
  BY <1>1 DEF WalkInv
<1>2. CASE walk.by # "nobody"
  <2>1. AuditRows(walk.by) \subseteq AuditRows(walk.by)'
    BY DEF AuditRows
  <2>2. \A i \in AuditRows(walk.by)' : \A j \in walk.due : i <= j => i \in AuditRows(walk.by)
    BY <1>2 DEF WalkInv, AuditRows
  <2> QED BY <1>2, <2>1, <2>2 DEF WalkInv
<1> QED BY <1>1, <1>2

(* Tables that change in this tick, and entries that do not.                  *)
LEMMA CacheStands ==
    ASSUME CacheInv, TypeOK, NEW db, Holds(db), UNCHANGED cache
    PROVE  CacheInv'
<1>1. /\ rows' = db /\ DOMAIN recent' = 1 .. Ttl /\ db \in recent'[1]
      /\ \A i \in 1 .. Ttl : recent[i] \subseteq recent'[i]
  BY ControlApiAssumption DEF Holds, CacheInv
<1>2. \A key \in Tenants \X Routes : Live(cache[key]) => 1 .. cache[key].age + 1 \subseteq 1 .. Ttl
  BY ControlApiAssumption DEF TypeOK, Live
<1>3. ASSUME NEW key \in Tenants \X Routes, Live(cache'[key])
      PROVE  \E i \in 1 .. cache'[key].age + 1 : \E d \in recent'[i] : cache'[key].body = Body(key[2], d)
  <2>1. PICK i \in 1 .. cache[key].age + 1 : \E d \in recent[i] : cache[key].body = Body(key[2], d)
    BY <1>3 DEF CacheInv
  <2>2. recent[i] \subseteq recent'[i]
    BY <1>1, <1>2, <1>3
  <2> QED BY <2>1, <2>2
<1>4. \A e : Live(e)' <=> Live(e)
  BY DEF Live
<1> QED BY <1>1, <1>3 DEF CacheInv, Live

-----------------------------------------------------------------------------
(* The initial state and the steps.                                           *)

LEMMA InitIInv == Init => IInv
<1> SUFFICES ASSUME Init PROVE IInv
  OBVIOUS
<1>1. /\ audit \in Seq(Tenants) /\ DOMAIN outbox = DOMAIN audit /\ DOMAIN audit = 1 .. Len(audit)
      /\ Len(audit) \in Nat /\ \A e \in DOMAIN audit : outbox[e] = [row |-> e, status |-> "DELIVERED"]
      /\ outbox = [e \in 1 .. Len(audit) |-> [row |-> e, status |-> "DELIVERED"]]
  BY ControlApiAssumption DEF Init
<1>2. outbox \in Seq([row : Nat, status : {"PENDING", "DELIVERED"}])
  BY <1>1
<1>3. TypeOK
  <2>1. DOMAIN rows = Tables /\ \A t \in Tables : rows[t] \subseteq Ids[t]
    <3>1. rows = Seeds
      BY DEF Init
    <3> QED BY <3>1, ControlApiAssumption
  <2>2. /\ DOMAIN cache = Tenants \X Routes
        /\ \A key \in Tenants \X Routes : cache[key].age \in 0 .. Ttl
    BY ControlApiAssumption DEF Init, NoEntry
  <2>3. walk.by \in Tenants \cup {"nobody"} /\ walk.cursor \in Nat /\ writes \in 0 .. MaxWrites
    BY ControlApiAssumption DEF Init, NewWalk
  <2> QED BY <1>1, <1>2, <2>1, <2>2, <2>3 DEF TypeOK
<1>4. OutboxFollowsAudit
  BY <1>1 DEF OutboxFollowsAudit
<1>5. WalkInv
  BY DEF Init, WalkInv, NewWalk
<1>6. CacheInv
  BY ControlApiAssumption DEF Init, CacheInv, NoEntry, Live
<1> QED BY <1>3, <1>4, <1>5, <1>6 DEF IInv

(* An audited request that changes the tables, or leaves them as they are.    *)
LEMMA WriteIInv ==
    ASSUME IInv, NEW t \in Tenants, AuditWrite(t), UNCHANGED <<cache, walk>>,
           TypedTables', CacheInv'
    PROVE  IInv'
<1>1. TypedLog /\ OutboxFollowsAudit /\ WalkInv
  BY DEF IInv, TypeOK, TypedLog
<1>2. TypedLog' /\ OutboxFollowsAudit'
  BY <1>1, AuditWriteFollows
<1>3. TypeOK'
  BY <1>2 DEF IInv, TypeOK, TypedLog, TypedTables
<1>4. DOMAIN audit' \subseteq Nat
  BY <1>2 DEF TypedLog
<1>5. WalkInv'
  BY <1>1, <1>4, AuditWriteFollows, WalkStands
<1> QED BY <1>2, <1>3, <1>5 DEF IInv

LEMMA CreateIInv ==
    ASSUME IInv, NEW t \in Tenants, NEW table \in Tables, NEW id \in Ids[table], Create(t, table, id)
    PROVE  IInv'
<1>1. TypedTables'
  BY DEF IInv, TypeOK, TypedTables, Create, Holds
<1>2. CacheInv'
  BY CacheStands DEF IInv, Create
<1> QED BY <1>1, <1>2, WriteIInv DEF Create

LEMMA DeleteIInv ==
    ASSUME IInv, NEW t \in Tenants, NEW table \in Tables, NEW id \in Ids[table], Delete(t, table, id)
    PROVE  IInv'
<1>1. TypedTables'
  BY DEF IInv, TypeOK, TypedTables, Delete, Holds
<1>2. CacheInv'
  BY CacheStands DEF IInv, Delete
<1> QED BY <1>1, <1>2, WriteIInv DEF Delete

LEMMA UpdateIInv ==
    ASSUME IInv, NEW t \in Tenants, Update(t)
    PROVE  IInv'
<1>1. TypedTables' /\ CacheInv'
  BY DEF IInv, TypeOK, TypedTables, Update, CacheInv, Live
<1> QED BY <1>1, WriteIInv DEF Update

LEMMA AckIInv ==
    ASSUME IInv, NEW event \in DOMAIN outbox, Ack(event)
    PROVE  IInv'
<1>1. /\ DOMAIN outbox' = DOMAIN outbox
      /\ \A e \in DOMAIN outbox : outbox'[e].row = outbox[e].row
      /\ outbox' \in Seq([row : Nat, status : {"PENDING", "DELIVERED"}])
  <2> DEFINE Event == [row : Nat, status : {"PENDING", "DELIVERED"}]
             acked == [outbox[event] EXCEPT !.status = "DELIVERED"]
  <2>1. outbox \in Seq(Event) /\ event \in 1 .. Len(outbox)
    BY DEF IInv, TypeOK
  <2> HIDE DEF Event
  <2>2. outbox[event] \in Event
    BY <2>1
  <2> USE DEF Event
  <2>3. acked \in Event /\ acked.row = outbox[event].row
    BY <2>2
  <2>4. outbox' = [outbox EXCEPT ![event] = acked]
    BY DEF Ack
  <2> HIDE DEF Event, acked
  <2>5. outbox' \in Seq(Event)
    BY <2>1, <2>3, <2>4, ExceptSeq
  <2>6. DOMAIN outbox' = DOMAIN outbox /\ \A e \in DOMAIN outbox : outbox'[e].row = outbox[e].row
    BY <2>3, <2>4
  <2> QED BY <2>5, <2>6 DEF Event
<1>2. TypeOK' /\ OutboxFollowsAudit'
  BY <1>1 DEF IInv, TypeOK, OutboxFollowsAudit, Ack
<1>3. WalkInv' /\ CacheInv'
  BY DEF IInv, WalkInv, CacheInv, AuditRows, Live, Ack
<1> QED BY <1>2, <1>3 DEF IInv

LEMMA FetchIInv ==
    ASSUME IInv, NEW t \in Tenants, NEW route \in Routes, Fetch(t, route)
    PROVE  IInv'
<1>1. TypeOK' /\ OutboxFollowsAudit' /\ WalkInv'
  BY ControlApiAssumption DEF IInv, TypeOK, OutboxFollowsAudit, WalkInv, AuditRows, Fetch
<1>2. ASSUME NEW key \in Tenants \X Routes, Live(cache'[key])
      PROVE  \E i \in 1 .. cache'[key].age + 1 : \E db \in recent'[i] : cache'[key].body = Body(key[2], db)
  <2>1. CASE key = <<t, route>>
    BY <2>1 DEF IInv, TypeOK, CacheInv, Fetch
  <2>2. CASE key # <<t, route>>
    BY <1>2, <2>2 DEF IInv, TypeOK, CacheInv, Fetch
  <2> QED BY <2>1, <2>2
<1>3. CacheInv'
  BY <1>2 DEF IInv, CacheInv, Fetch, Live
<1> QED BY <1>1, <1>3 DEF IInv

(* A page that is turned: w is the walk so far, and the page holds the newest *)
(* of the rows below all that it has seen.                                    *)
LEMMA TurnWalk ==
    ASSUME TypeOK, NEW w, NEW ids, walk' = Turn(w, Page(ids)), UNCHANGED audit,
           w \in [by : Tenants, cursor : Nat, seen : SUBSET Nat,
                  due : SUBSET Nat, again : BOOLEAN, done : BOOLEAN],
           ~w.again, w.due \subseteq AuditRows(w.by),
           \A i \in AuditRows(w.by), j \in w.due : i <= j => i \in w.due,
           w.seen \subseteq w.due, ids = w.due \ w.seen,
           \A i \in ids, j \in w.seen : i < j
    PROVE  WalkInv' /\ walk'.by \in Tenants /\ walk'.cursor \in Nat
<1> DEFINE page == Page(ids)
<1>1. ids \in SUBSET (1 .. Len(audit)) /\ Len(audit) \in Nat
  BY DEF TypeOK, AuditRows
<1>2. /\ page.data \subseteq ids
      /\ \A i \in page.data, j \in ids : i <= j => j \in page.data
      /\ page.hasMore \in BOOLEAN
      /\ ~page.hasMore => page.data = ids
      /\ page.hasMore => Cursor(page) \in page.data /\ \A j \in page.data : Cursor(page) <= j
  <2>1. IsPage(ids, page)
    BY <1>1, PageExact
  <2> QED BY <2>1 DEF IsPage
<1> HIDE DEF page
<1>3. /\ walk'.by = w.by /\ walk'.due = w.due /\ walk'.seen = w.seen \cup page.data
      /\ walk'.again = FALSE /\ walk'.done = ~page.hasMore
      /\ walk'.cursor = (IF page.hasMore THEN Cursor(page) ELSE 0)
  BY <1>2 DEF Turn, page
<1>4. /\ walk' \in [by : Tenants \cup {"nobody"}, cursor : Nat, seen : SUBSET Nat,
                    due : SUBSET Nat, again : BOOLEAN, done : BOOLEAN]
      /\ walk'.cursor \in Nat /\ walk'.by \in Tenants
  BY <1>1, <1>2, <1>3 DEF Turn, page
<1>5. CASE page.hasMore
  <2>1. walk'.cursor \in walk'.due /\ walk'.cursor \in ids
    BY <1>2, <1>3, <1>5
  <2>2. ids \subseteq Nat /\ w.due \subseteq Nat
    BY <1>1
  <2>3. \A i \in walk'.seen : i \in walk'.due /\ walk'.cursor <= i
    BY <1>2, <1>3, <1>5, <2>1, <2>2
  <2>4. \A i \in walk'.due : walk'.cursor <= i => i \in walk'.seen
    BY <1>2, <1>3, <1>5, <2>1, <2>2
  <2>5. walk'.seen = {i \in walk'.due : walk'.cursor <= i}
    BY <1>3, <2>3, <2>4
  <2>6. \A t : AuditRows(t)' = AuditRows(t)
    BY DEF AuditRows
  <2> QED BY <1>3, <1>4, <1>5, <2>1, <2>5, <2>6, ControlApiAssumption DEF WalkInv
<1>6. CASE ~page.hasMore
  <2>1. walk'.seen = walk'.due
    BY <1>2, <1>3, <1>6
  <2>2. \A t : AuditRows(t)' = AuditRows(t)
    BY DEF AuditRows
  <2> QED BY <1>3, <1>4, <1>6, <2>1, <2>2, ControlApiAssumption DEF WalkInv
<1> QED BY <1>2, <1>4, <1>5, <1>6

LEMMA FirstPageIInv ==
    ASSUME IInv, NEW t \in Readers, FirstPage(t)
    PROVE  IInv'
<1> DEFINE w == NewWalk(t, AuditRows(t))
<1>1. /\ w \in [by : Tenants, cursor : Nat, seen : SUBSET Nat,
                 due : SUBSET Nat, again : BOOLEAN, done : BOOLEAN]
      /\ ~w.again /\ w.by = t /\ w.due = AuditRows(t) /\ w.seen = {}
  <2>1. AuditRows(t) \in SUBSET Nat /\ t \in Tenants
    BY ControlApiAssumption DEF IInv, TypeOK, AuditRows
  <2> QED BY <2>1 DEF NewWalk
<1>2. walk' = Turn(w, Page(AuditRows(t))) /\ UNCHANGED audit
  BY DEF FirstPage
<1> HIDE DEF w
<1>3. WalkInv' /\ walk'.by \in Tenants /\ walk'.cursor \in Nat
  BY <1>1, <1>2, TurnWalk DEF IInv
<1>4. TypeOK' /\ OutboxFollowsAudit' /\ CacheInv'
  BY <1>3 DEF IInv, TypeOK, OutboxFollowsAudit, CacheInv, Live, FirstPage
<1> QED BY <1>3, <1>4 DEF IInv

LEMMA NextPageIInv ==
    ASSUME IInv, NextPage
    PROVE  IInv'
<1> DEFINE ids == {i \in AuditRows(walk.by) : i < walk.cursor}
<1>1. /\ walk.by \in Tenants /\ walk.by # "nobody" /\ ~walk.done /\ UNCHANGED audit
      /\ walk' = Turn(walk, Page(ids))
  BY ControlApiAssumption DEF NextPage
<1>2. /\ ~walk.again /\ walk.due \subseteq AuditRows(walk.by) /\ walk.cursor \in walk.due
      /\ \A i \in AuditRows(walk.by), j \in walk.due : i <= j => i \in walk.due
      /\ walk.seen = {i \in walk.due : walk.cursor <= i}
      /\ walk \in [by : Tenants, cursor : Nat, seen : SUBSET Nat,
                    due : SUBSET Nat, again : BOOLEAN, done : BOOLEAN]
  BY <1>1 DEF IInv, WalkInv
<1>3. AuditRows(walk.by) \subseteq Nat
  BY DEF IInv, TypeOK, AuditRows
<1>4. ids = walk.due \ walk.seen /\ \A i \in ids, j \in walk.seen : i < j
  BY <1>2, <1>3
<1> HIDE DEF ids
<1>5. WalkInv' /\ walk'.by \in Tenants /\ walk'.cursor \in Nat
  BY <1>1, <1>2, <1>4, TurnWalk DEF IInv
<1>6. TypeOK' /\ OutboxFollowsAudit' /\ CacheInv'
  BY <1>5 DEF IInv, TypeOK, OutboxFollowsAudit, CacheInv, Live, NextPage
<1> QED BY <1>5, <1>6 DEF IInv

LEMMA RestartIInv == ASSUME IInv, Restart PROVE IInv'
<1>1. CacheInv'
  BY ControlApiAssumption DEF Restart, Holds, IInv, CacheInv, NoEntry, Live
<1>2. TypeOK'
  BY ControlApiAssumption DEF Restart, Holds, Seeded, NoEntry, IInv, TypeOK
<1>3. OutboxFollowsAudit' /\ WalkInv'
  BY DEF Restart, IInv, OutboxFollowsAudit, WalkInv, AuditRows
<1> QED BY <1>1, <1>2, <1>3 DEF IInv

(* An entry that grows older with its tables stays as old as they are.        *)
LEMMA TickIInv == ASSUME IInv, Tick PROVE IInv'
<1>1. TypeOK'
  BY ControlApiAssumption DEF Tick, NoEntry, Live, IInv, TypeOK
<1>2. OutboxFollowsAudit' /\ WalkInv'
  BY DEF Tick, IInv, OutboxFollowsAudit, WalkInv, AuditRows
<1>3. rows' \in recent'[1] /\ DOMAIN recent' = 1 .. Ttl
  BY ControlApiAssumption DEF Tick
<1>4. ASSUME NEW key \in Tenants \X Routes, Live(cache'[key])
      PROVE  \E i \in 1 .. cache'[key].age + 1 : \E db \in recent'[i] : cache'[key].body = Body(key[2], db)
  <2>1. /\ Live(cache[key]) /\ cache[key].age \in Nat /\ cache[key].age + 1 < Ttl
        /\ cache'[key].body = cache[key].body /\ cache'[key].age = cache[key].age + 1
    BY <1>4, ControlApiAssumption DEF Tick, NoEntry, Live, IInv, TypeOK
  <2>2. PICK i \in 1 .. cache[key].age + 1 : \E db \in recent[i] : cache[key].body = Body(key[2], db)
    BY <2>1 DEF IInv, CacheInv
  <2>3. i + 1 \in 1 .. cache'[key].age + 1 /\ i + 1 \in 1 .. Ttl
    BY <2>1, ControlApiAssumption
  <2>4. recent'[i + 1] = recent[i]
    BY <2>3 DEF Tick
  <2> QED BY <2>1, <2>2, <2>3, <2>4
<1>5. CacheInv'
  BY <1>3, <1>4 DEF CacheInv, Live
<1> QED BY <1>1, <1>2, <1>5 DEF IInv

LEMMA NextIInv == IInv /\ [Next]_vars => IInv'
<1> SUFFICES ASSUME IInv, [Next]_vars PROVE IInv'
  OBVIOUS
<1>1. CASE UNCHANGED vars
  BY <1>1 DEF vars, IInv, TypeOK, OutboxFollowsAudit, WalkInv, CacheInv, AuditRows, Live
<1>2. ASSUME NEW t \in Tenants, NEW table \in Tables, NEW id \in Ids[table],
             Create(t, table, id) \/ Delete(t, table, id)
      PROVE  IInv'
  BY <1>2, CreateIInv, DeleteIInv
<1>3. ASSUME NEW t \in Tenants, Update(t) PROVE IInv'
  BY <1>3, UpdateIInv
<1>4. ASSUME NEW t \in Readers, FirstPage(t) PROVE IInv'
  BY <1>4, FirstPageIInv
<1>5. ASSUME NEW t \in Readers, NEW route \in Routes, Fetch(t, route) PROVE IInv'
  BY <1>5, FetchIInv, ControlApiAssumption
<1>6. ASSUME NEW event \in DOMAIN outbox, Ack(event) PROVE IInv'
  BY <1>6, AckIInv
<1>7. CASE NextPage
  BY <1>7, NextPageIInv
<1>8. CASE Restart
  BY <1>8, RestartIInv
<1>9. CASE Tick
  BY <1>9, TickIInv
<1> QED BY <1>1, <1>2, <1>3, <1>4, <1>5, <1>6, <1>7, <1>8, <1>9 DEF Next

-----------------------------------------------------------------------------

THEOREM SpecIInv == Spec => []IInv
BY InitIInv, NextIInv, PTL DEF Spec

(* The tables, the cache, the log, the outbox and a walk keep their types.    *)
THEOREM SpecTypeOK == Spec => []TypeOK
<1>1. IInv => TypeOK
  BY DEF IInv
<1> QED BY <1>1, SpecIInv, PTL

(* The outbox follows the log, whichever of the inserts of auditWrite fail.   *)
THEOREM SpecOutboxFollowsAudit == Spec => []OutboxFollowsAudit
<1>1. IInv => OutboxFollowsAudit
  BY DEF IInv
<1> QED BY <1>1, SpecIInv, PTL

(* A cached answer is what the tables held at some moment of the last Ttl,    *)
(* although no write invalidates it.                                          *)
THEOREM SpecCachedIsRecent == Spec => []CachedIsRecent
<1>1. IInv => CachedIsRecent
  <2> SUFFICES ASSUME IInv, NEW key \in Tenants \X Routes, Live(cache[key])
               PROVE  \E i \in 1 .. Ttl : \E db \in recent[i] : cache[key].body = Body(key[2], db)
    BY DEF CachedIsRecent
  <2>1. PICK i \in 1 .. cache[key].age + 1 : \E db \in recent[i] : cache[key].body = Body(key[2], db)
    BY DEF IInv, CacheInv
  <2>2. i \in 1 .. Ttl
    BY ControlApiAssumption DEF IInv, TypeOK, Live
  <2> QED BY <2>1, <2>2
<1> QED BY <1>1, SpecIInv, PTL

(* The pages of GET /api/cp/audit give a client every row of its tenant that  *)
(* the log had when it began, once, and no other, for any size of a page.     *)
THEOREM SpecWalkIsExact == Spec => []WalkIsExact
<1>1. IInv => WalkIsExact
  BY DEF IInv, WalkInv, WalkIsExact
<1> QED BY <1>1, SpecIInv, PTL

-----------------------------------------------------------------------------
(* The refresh tokens of the API, for any number of tokens and chains.        *)
(*                                                                            *)
(* That a chain has one usable token is not inductive: a rotation must know   *)
(* that the row of the token it is given is there whenever that of the first  *)
(* token is, and that expiry plays no part, so AuthIInv speaks of live rows.  *)
HasRow(j) == tokenRow[login[j]] # "none"

Chains ==
    /\ loggedOut \subseteq signed
    /\ \A j \in Tokens : tokenRow[j] # "none" => j \in signed
    /\ \A j \in signed :
         /\ login[j] \in signed /\ login[login[j]] = login[j]
         /\ HasRow(j) => tokenRow[j] # "none"

OneLive ==
    \A i, j \in signed :
        login[i] = login[j] /\ HasRow(i) /\ tokenRow[i] = "live" /\ tokenRow[j] = "live" => i = j

NoneLive == \A j \in signed : login[j] \in loggedOut /\ HasRow(j) => tokenRow[j] # "live"

AuthIInv == AuthTypeOK /\ Chains /\ OneLive /\ NoneLive

(* A row is revoked or left as it is, and none comes or goes.                 *)
LEMMA RevokedRows ==
    ASSUME AuthTypeOK, NEW j \in Tokens
    PROVE  /\ Revoked(j) \in [Tokens -> {"none", "live", "revoked"}]
           /\ Revoked(j)[j] # "live"
           /\ \A i \in Tokens : /\ Revoked(j)[i] = "none" <=> tokenRow[i] = "none"
                                /\ i # j => Revoked(j)[i] = tokenRow[i]
BY DEF AuthTypeOK, Revoked

LEMMA InitAuth == AuthInit => AuthIInv
BY DEF AuthInit, AuthIInv, AuthTypeOK, Chains, OneLive, NoneLive, HasRow

LEMMA LoginAuth ==
    ASSUME AuthIInv, NEW j \in Tokens, Login(j)
    PROVE  AuthIInv'
<1>1. /\ j \notin signed /\ j \notin loggedOut
      /\ signed' = signed \cup {j} /\ login' = [login EXCEPT ![j] = j]
      /\ \A i \in Tokens : i # j => tokenRow'[i] = tokenRow[i] /\ login'[i] = login[i]
      /\ login'[j] = j /\ loggedOut' = loggedOut
  BY DEF AuthIInv, AuthTypeOK, Chains, Login, Sign
<1>2. AuthTypeOK'
  BY DEF AuthIInv, AuthTypeOK, Login, Sign
<1>3. \A i \in signed : i # j /\ login[i] # j /\ login'[i] = login[i] /\ (HasRow(i)' <=> HasRow(i))
  BY <1>1 DEF AuthIInv, AuthTypeOK, Chains, HasRow
<1>4. Chains'
  BY <1>1, <1>2, <1>3 DEF AuthIInv, AuthTypeOK, Chains, HasRow
<1>5. OneLive' /\ NoneLive'
  BY <1>1, <1>3 DEF AuthIInv, AuthTypeOK, OneLive, NoneLive
<1> QED BY <1>2, <1>4, <1>5 DEF AuthIInv

LEMMA RevokeAuth ==
    ASSUME AuthIInv, NEW j \in Tokens, tokenRow' = Revoked(j),
           UNCHANGED <<signed, held, expired, login>>,
           loggedOut' = loggedOut \/ (j \in signed /\ tokenRow[j] = "live" /\ loggedOut' = loggedOut \cup {login[j]})
    PROVE  AuthIInv'
<1>1. AuthTypeOK
  BY DEF AuthIInv
<1>2. AuthTypeOK'
  BY <1>1, RevokedRows DEF AuthTypeOK, Chains, AuthIInv
<1>3. \A i \in signed : HasRow(i)' <=> HasRow(i)
  BY <1>1, RevokedRows DEF AuthIInv, AuthTypeOK, Chains, HasRow
<1>4. Chains'
  BY <1>1, <1>3, RevokedRows DEF AuthIInv, AuthTypeOK, Chains
<1>5. \A i \in signed : tokenRow'[i] = "live" => tokenRow[i] = "live" /\ i # j
  BY <1>1, RevokedRows DEF AuthTypeOK
<1>6. OneLive'
  BY <1>3, <1>5 DEF AuthIInv, OneLive
<1>7. NoneLive'
  BY <1>1, <1>3, <1>5 DEF AuthIInv, AuthTypeOK, OneLive, NoneLive
<1> QED BY <1>2, <1>4, <1>6, <1>7 DEF AuthIInv

LEMMA RotateAuth ==
    ASSUME AuthIInv, NEW j \in Tokens, NEW n \in Tokens, Rotate(j, n)
    PROVE  AuthIInv'
<1>1. AuthTypeOK /\ j \in signed /\ n \notin signed /\ j # n
  BY DEF AuthIInv, AuthTypeOK, Rotate
<1>2. /\ signed' = signed \cup {n} /\ loggedOut' = loggedOut
      /\ login'[n] = login[j] /\ \A i \in signed : login'[i] = login[i]
      /\ tokenRow'[n] = "live" /\ \A i \in signed : tokenRow'[i] = Revoked(j)[i]
      /\ \A i \in Tokens : tokenRow'[i] # "none" => i \in signed'
  BY <1>1, RevokedRows DEF AuthIInv, AuthTypeOK, Chains, Rotate, Sign
<1>3. AuthTypeOK'
  BY <1>1, RevokedRows DEF AuthTypeOK, Rotate, Sign
<1>4. \A i \in signed : (tokenRow'[i] = "none" <=> tokenRow[i] = "none") /\ (HasRow(i)' <=> HasRow(i))
  BY <1>1, <1>2, RevokedRows DEF AuthIInv, AuthTypeOK, Chains, HasRow
<1>5. HasRow(n)' <=> HasRow(j)
  BY <1>1, <1>2, <1>4 DEF AuthIInv, Chains, HasRow
<1>6. Chains'
  BY <1>1, <1>2, <1>4, <1>5 DEF AuthIInv, Chains
<1>7. \A i \in signed : tokenRow'[i] = "live" => tokenRow[i] = "live" /\ i # j
  BY <1>1, <1>2, RevokedRows DEF AuthTypeOK
<1>8. HasRow(j) => tokenRow[j] = "live"
  BY <1>1 DEF AuthIInv, AuthTypeOK, Chains, Rotate, Usable
<1>9. OneLive'
  <2> SUFFICES ASSUME NEW i \in signed', NEW k \in signed', login'[i] = login'[k], HasRow(i)',
                      tokenRow'[i] = "live", tokenRow'[k] = "live"
               PROVE  i = k
    BY DEF OneLive
  <2>1. CASE i \in signed /\ k \in signed
    BY <2>1, <1>2, <1>4, <1>7 DEF AuthIInv, OneLive
  <2>2. CASE i = n /\ k \in signed
    BY <2>2, <1>1, <1>2, <1>4, <1>5, <1>7, <1>8 DEF AuthIInv, OneLive
  <2>3. CASE i \in signed /\ k = n
    BY <2>3, <1>1, <1>2, <1>4, <1>5, <1>7, <1>8 DEF AuthIInv, OneLive, HasRow
  <2> QED BY <2>1, <2>2, <2>3, <1>2
<1>10. NoneLive'
  BY <1>1, <1>2, <1>4, <1>5, <1>7, <1>8 DEF AuthIInv, NoneLive
<1> QED BY <1>3, <1>6, <1>9, <1>10 DEF AuthIInv

LEMMA NextAuth == AuthIInv /\ [AuthNext]_authVars => AuthIInv'
<1> SUFFICES ASSUME AuthIInv, [AuthNext]_authVars PROVE AuthIInv'
  OBVIOUS
<1>1. CASE \E j \in Tokens : Login(j)
  BY <1>1, LoginAuth
<1>2. CASE \E j \in Tokens : RotateFails(j)
  BY <1>2, RevokeAuth DEF RotateFails
<1>3. CASE \E j \in Tokens : Logout(j)
  BY <1>3, RevokeAuth DEF Logout, Verifies
<1>4. CASE \E j \in Tokens : Expire(j)
  BY <1>4 DEF AuthIInv, AuthTypeOK, Chains, OneLive, NoneLive, HasRow, Expire
<1>5. CASE \E j, n \in Tokens : Rotate(j, n)
  BY <1>5, RotateAuth
<1>6. CASE UNCHANGED authVars
  BY <1>6 DEF AuthIInv, AuthTypeOK, Chains, OneLive, NoneLive, HasRow, authVars
<1> QED BY <1>1, <1>2, <1>3, <1>4, <1>5, <1>6 DEF AuthNext

(* The inductive invariant of login, rotation, logout and expiry.             *)
THEOREM SpecAuthIInv == AuthSpec => []AuthIInv
BY InitAuth, NextAuth, PTL DEF AuthSpec

(* The table and the tokens keep their types, whatever fails (routes.ts).     *)
THEOREM SpecAuthTypeOK == AuthSpec => []AuthTypeOK
<1>1. AuthIInv => AuthTypeOK
  BY DEF AuthIInv
<1> QED BY <1>1, SpecAuthIInv, PTL

(* A login that was stored has at most one token that refreshes.              *)
THEOREM SpecOneUsablePerLogin == AuthSpec => []OneUsablePerLogin
<1>1. AuthIInv => OneUsablePerLogin
  BY DEF AuthIInv, AuthTypeOK, Chains, OneLive, OneUsablePerLogin, Usable, HasRow
<1> QED BY <1>1, SpecAuthIInv, PTL

(* A login that was stored and logged out with its newest token has none.     *)
THEOREM SpecLogoutEndsLogin == AuthSpec => []LogoutEndsLogin
<1>1. AuthIInv => LogoutEndsLogin
  BY DEF AuthIInv, AuthTypeOK, Chains, NoneLive, LogoutEndsLogin, Usable, HasRow
<1> QED BY <1>1, SpecAuthIInv, PTL
=============================================================================
