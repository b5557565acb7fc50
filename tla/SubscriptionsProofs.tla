------------------------- MODULE SubscriptionsProofs -------------------------
(***************************************************************************)
(* Proofs about Subscriptions.  Types hold for any processes; what depends   *)
(* on nobody else rewriting the file is proved for callers of one process.  *)
(***************************************************************************)
EXTENDS Subscriptions, TLAPS

USE SubscriptionAssumption

\* The map of a browser is never damaged, for nothing in a browser rewrites a file.
MapWhole ==
  runtime = "browser" => stored # Damaged /\ \A c \in Callers : ~Rewriting(c)

TypeInv == TypeOK /\ MapWhole

\* The shapes of a call, by how far it is.
LEMMA CallShape ==
  ASSUME NEW call \in Calls
  PROVE  /\ call.pc \in {"idle", "get", "upsert", "truncate", "write"}
         /\ call.pc = "get" => call.tenant \in Tenants /\ call.at \in Times
         /\ call.pc = "upsert" => call.tenant \in Tenants /\ call.rec \in Records
         /\ call.pc \in {"truncate", "write"} =>
              /\ call \in [pc: {"truncate", "write"}, tenant: Tenants, rec: Records,
                           seen: [Tenants -> Slots]]
BY DEF Calls, NoCall

\* A file that cannot be read counts as one of no records (readAll).
LEMMA ContentType == TypeOK => Content \in [Tenants -> Slots]
BY DEF TypeOK, Content, Empty, Slots

\* Every record the write model makes is one the resolver can read.
LEMMA MadeRecords ==
  /\ \A plan \in Plans, expires \in Times \cup {Never} : Activated(plan, expires) \in Records
  /\ \A slot \in Slots, at \in Times : Canceled(slot, at) \in Records
  /\ \A active \in BOOLEAN, end \in Times \cup {Never} : Synced(active, end) \in Records
BY DEF Activated, Canceled, Synced, Records, Slots, Plans

\* What is granted after a record is written keeps its type.
LEMMA GrantedType ==
  ASSUME TypeOK, NEW t \in Tenants, NEW rec \in Records
  PROVE  GrantedAfter(t, rec) \subseteq Tenants \X PaidPlans \X (Times \cup {Never})
BY DEF TypeOK, GrantedAfter, Records

LEMMA TypeInit == Init => TypeInv
BY DEF Init, TypeInv, TypeOK, MapWhole, Rewriting, NoCall, Empty, Slots, Calls

LEMMA TypeCommand ==
  ASSUME TypeInv, NEW c \in Callers, Command(c)
  PROVE  TypeInv'
<1>1. /\ UNCHANGED <<runtime, stored, granted>>
      /\ \E call \in Calls : Become(c, call) /\ call.pc \notin {"truncate", "write"}
  <2>1. PICK t \in Tenants :
          \/ \E plan \in Plans, expires \in Times \cup {Never} : SetActivePlan(c, t, plan, expires)
          \/ \E at \in CancelDates : Cancel(c, t, at)
          \/ \E active \in BOOLEAN, end \in PeriodEnds : SyncFromProvider(c, t, active, end)
    BY DEF Command
  <2>2. CASE \E plan \in Plans, expires \in Times \cup {Never} : SetActivePlan(c, t, plan, expires)
    BY <2>2, MadeRecords DEF SetActivePlan, Calls
  <2>3. CASE \E at \in CancelDates : Cancel(c, t, at)
    BY <2>3 DEF Cancel, Calls
  <2>4. CASE \E active \in BOOLEAN, end \in PeriodEnds : SyncFromProvider(c, t, active, end)
    BY <2>4, MadeRecords DEF SyncFromProvider, Calls
  <2> QED BY <2>1, <2>2, <2>3, <2>4
<1> QED BY <1>1 DEF TypeInv, TypeOK, MapWhole, Rewriting, Become

LEMMA TypeStep ==
  ASSUME TypeInv, NEW c \in Callers, Step(c)
  PROVE  TypeInv'
<1> USE DEF At, Become, MapWhole, Rewriting
<1>0. TypeOK /\ MapWhole /\ calls[c] \in Calls
  BY DEF TypeInv, TypeOK
<1> HIDE DEF TypeInv
<1>1. CASE UpsertInMemory(c)
  <2>1. calls[c].tenant \in Tenants /\ calls[c].rec \in Records
    BY <1>0, <1>1, CallShape DEF UpsertInMemory
  <2> QED BY <1>1, <2>1, GrantedType DEF UpsertInMemory, TypeInv, TypeOK, NoCall, Calls, Slots
<1>2. CASE ReadAll(c)
  <2>1. calls[c].tenant \in Tenants /\ calls[c].rec \in Records
    BY <1>0, <1>2, CallShape DEF ReadAll
  <2>2. Content \in [Tenants -> Slots]
    BY <1>0, ContentType
  <2> QED BY <1>0, <1>2, <2>1, <2>2 DEF ReadAll, TypeInv, TypeOK, NoCall, Calls
<1>3. CASE Truncate(c)
  <2>1. [calls[c] EXCEPT !.pc = "write"] \in Calls
    BY <1>0, <1>3, CallShape DEF Truncate, Calls
  <2> QED BY <1>0, <1>3, <2>1 DEF Truncate, TypeInv, TypeOK
<1>4. CASE WriteAll(c)
  <2>1. /\ calls[c].tenant \in Tenants /\ calls[c].rec \in Records
        /\ calls[c].seen \in [Tenants -> Slots]
    BY <1>0, <1>4, CallShape DEF WriteAll
  <2>2. Written(calls[c]) \in [Tenants -> Slots]
    BY <2>1 DEF Written, Slots
  <2> QED BY <1>4, <2>1, <2>2, GrantedType DEF WriteAll, TypeInv, TypeOK, NoCall, Calls
<1>5. CASE WriteFails(c)
  BY <1>5 DEF WriteFails, TypeInv, TypeOK, NoCall, Calls
<1>6. CASE GetCurrent(c)
  <2>1. calls[c].tenant \in Tenants /\ calls[c].at \in Times
    BY <1>0, <1>6, CallShape DEF GetCurrent
  <2>2. Canceled(Content[calls[c].tenant], calls[c].at) \in Records
    BY <1>0, <2>1, MadeRecords, ContentType
  <2> QED BY <1>6, <2>1, <2>2 DEF GetCurrent, TypeInv, TypeOK, NoCall, Calls
<1> QED BY <1>1, <1>2, <1>3, <1>4, <1>5, <1>6 DEF Step

LEMMA TypeCrash ==
  ASSUME TypeInv, NEW p \in Processes, Crash(p)
  PROVE  TypeInv'
BY DEF TypeInv, TypeOK, MapWhole, Rewriting, NoCall, Crash, Calls, Empty, Slots

LEMMA TypeNext == TypeInv /\ [Next]_vars => TypeInv'
<1> SUFFICES ASSUME TypeInv, [Next]_vars PROVE TypeInv'
  OBVIOUS
<1>1. CASE \E c \in Callers : Command(c) \/ Step(c)
  BY <1>1, TypeCommand, TypeStep
<1>2. CASE \E p \in Processes : Crash(p)
  BY <1>2, TypeCrash
<1>3. CASE UNCHANGED vars
  BY <1>3 DEF vars, TypeInv, TypeOK, MapWhole, Rewriting
<1> QED BY <1>1, <1>2, <1>3 DEF Next

\* Whatever the processes do to the file, what is stored and what a call carries are
\* records of the write model (registryApi.ts 8-38, FileSubscriptionStore.node.ts 24-51).
THEOREM SpecTypeOK == Spec => []TypeOK
<1>1. TypeInv => TypeOK
  BY DEF TypeInv
<1> QED BY <1>1, TypeInit, TypeNext, PTL DEF Spec

-----------------------------------------------------------------------------
(* The callers of one process.  What a call has read of the file is what the   *)
(* file still holds, until the call itself cuts it.                           *)

AllInOneProcess == \A c, d \in Callers : ProcessOf[c] = ProcessOf[d]

Exclusive == \A c, d \in Callers : Rewriting(c) /\ Rewriting(d) => c = d

SeenCurrent == \A c \in Callers : calls[c].pc = "truncate" => calls[c].seen = Content

WritingCut == \A c \in Callers : calls[c].pc = "write" => stored = Damaged

\* Every active record of a paid plan among these was granted.
Backed(records) ==
  \A t \in Tenants :
    /\ records[t] # NoRecord /\ records[t].status = "active"
    /\ records[t].plan \in PaidPlans
    => <<t, records[t].plan, records[t].expires>> \in granted

AllBacked ==
  /\ Backed(Content)
  /\ \A c \in Callers : calls[c].pc = "write" => Backed(calls[c].seen)

IInv == TypeInv /\ Exclusive /\ SeenCurrent /\ WritingCut /\ AllBacked

\* Whoever runs in the only process finds nobody rewriting the file.
LEMMA Alone ==
  ASSUME AllInOneProcess, NEW c \in Callers, Runs(c)
  PROVE  \A d \in Callers \ {c} : ~Rewriting(d)
BY DEF AllInOneProcess, Runs

\* Putting a record among granted ones leaves them granted, a cancellation too.
LEMMA PutBacked ==
  ASSUME NEW records \in [Tenants -> Slots], Backed(records),
         NEW t \in Tenants, NEW rec \in Records, granted' = GrantedAfter(t, rec),
         NEW next, next = [records EXCEPT ![t] = rec]
  PROVE  \A u \in Tenants :
           /\ next[u] # NoRecord /\ next[u].status = "active" /\ next[u].plan \in PaidPlans
           => <<u, next[u].plan, next[u].expires>> \in granted'
<1> SUFFICES ASSUME NEW u \in Tenants, next[u] # NoRecord, next[u].status = "active",
                    next[u].plan \in PaidPlans
             PROVE  <<u, next[u].plan, next[u].expires>> \in granted'
  OBVIOUS
<1>1. CASE u = t
  BY <1>1 DEF GrantedAfter
<1>2. CASE u # t
  <2>1. next[u] = records[u] /\ <<u, next[u].plan, next[u].expires>> \in granted
    BY <1>2 DEF Backed
  <2> QED BY <1>2, <2>1 DEF GrantedAfter
<1> QED BY <1>1, <1>2

\* No records are granted records.
LEMMA EmptyBacked == Backed(Empty)
BY DEF Backed, Empty

LEMMA InvInit == Init => IInv
<1> SUFFICES ASSUME Init PROVE IInv
  OBVIOUS
<1>1. Content = Empty
  BY DEF Init, Content
<1> QED BY <1>1, TypeInit, EmptyBacked
        DEF Init, IInv, Exclusive, SeenCurrent, WritingCut, AllBacked, Rewriting, NoCall

\* A step after which the caller rewrites nothing, and neither file nor grants change.
LEMMA InvQuiet ==
  ASSUME IInv, TypeInv', AllInOneProcess, NEW c \in Callers, Runs(c), NEW call,
         Become(c, call), call.pc \notin {"truncate", "write"},
         UNCHANGED <<stored, granted>>
  PROVE  IInv'
<1>1. \A d \in Callers : calls'[d].pc \notin {"truncate", "write"}
  BY Alone DEF IInv, TypeInv, TypeOK, Become, Rewriting
<1>2. Content' = Content
  BY DEF Content
<1> QED BY <1>1, <1>2
        DEF IInv, Exclusive, SeenCurrent, WritingCut, AllBacked, Backed, Rewriting

\* A step that puts a record and ends the call.
LEMMA InvPut ==
  ASSUME IInv, TypeInv', AllInOneProcess, NEW c \in Callers, Runs(c), Become(c, NoCall),
         NEW records \in [Tenants -> Slots], Backed(records),
         NEW t \in Tenants, NEW rec \in Records, granted' = GrantedAfter(t, rec),
         stored' = [records EXCEPT ![t] = rec]
  PROVE  IInv'
<1>1. \A d \in Callers : calls'[d].pc \notin {"truncate", "write"}
  BY Alone DEF IInv, TypeInv, TypeOK, Become, Rewriting, NoCall
<1>2. stored' \in [Tenants -> Slots]
  BY DEF Slots
<1>3. Content' = stored'
  BY <1>2 DEF Content
<1>4. Backed(Content)'
  BY <1>3, PutBacked DEF Backed
<1> QED BY <1>1, <1>4
        DEF IInv, Exclusive, SeenCurrent, WritingCut, AllBacked, Rewriting

LEMMA InvCommand ==
  ASSUME IInv, TypeInv', AllInOneProcess, NEW c \in Callers, Command(c)
  PROVE  IInv'
<1>1. \E call : /\ Become(c, call) /\ call.pc \notin {"truncate", "write"}
                /\ Runs(c) /\ UNCHANGED <<stored, granted>>
  BY DEF Command, SetActivePlan, Cancel, SyncFromProvider, At
<1> QED BY <1>1, InvQuiet

LEMMA InvStep ==
  ASSUME IInv, TypeInv', AllInOneProcess, NEW c \in Callers, Step(c)
  PROVE  IInv'
<1>0. TypeOK /\ MapWhole /\ calls[c] \in Calls
  BY DEF IInv, TypeInv, TypeOK
<1>1. CASE UpsertInMemory(c)
  <2>1. calls[c].tenant \in Tenants /\ calls[c].rec \in Records
    BY <1>0, <1>1, CallShape DEF UpsertInMemory, At
  <2>2. stored \in [Tenants -> Slots] /\ Content = stored /\ Backed(stored)
    BY <1>0, <1>1 DEF UpsertInMemory, TypeOK, MapWhole, Content, IInv, AllBacked
  <2> QED BY <1>1, <2>1, <2>2, InvPut DEF UpsertInMemory, At
<1>2. CASE ReadAll(c)
  <2>1. Content' = Content /\ UNCHANGED <<stored, granted>>
    BY <1>2 DEF ReadAll, Content
  <2>2. /\ \A d \in Callers \ {c} : calls'[d].pc \notin {"truncate", "write"}
        /\ calls'[c].pc = "truncate" /\ calls'[c].seen = Content
    BY <1>0, <1>2, Alone DEF ReadAll, At, Become, Rewriting, TypeOK
  <2> QED BY <2>1, <2>2
          DEF IInv, Exclusive, SeenCurrent, WritingCut, AllBacked, Backed, Rewriting
<1>3. CASE Truncate(c)
  <2>1. Content' = Empty /\ stored' = Damaged /\ UNCHANGED granted
    BY <1>3 DEF Truncate, Content
  <2>2. calls[c].seen = Content /\ Backed(calls[c].seen)
    BY <1>3 DEF Truncate, At, IInv, SeenCurrent, AllBacked
  <2>3. /\ \A d \in Callers \ {c} : calls'[d].pc \notin {"truncate", "write"}
        /\ calls'[c].pc = "write" /\ calls'[c].seen = calls[c].seen
    <3>1. calls[c] \in [pc: {"truncate", "write"}, tenant: Tenants, rec: Records,
                        seen: [Tenants -> Slots]]
      BY <1>0, <1>3, CallShape DEF Truncate, At
    <3> QED BY <1>0, <1>3, <3>1, Alone DEF Truncate, At, Become, Rewriting, TypeOK
  <2>4. Backed(Content)'
    BY <2>1 DEF Backed, Empty
  <2>5. Backed(calls[c].seen)'
    BY <2>1, <2>2, <2>3 DEF Backed
  <2> QED BY <2>1, <2>3, <2>4, <2>5
          DEF IInv, Exclusive, SeenCurrent, WritingCut, AllBacked, Rewriting
<1>4. CASE WriteAll(c)
  <2>1. /\ calls[c].tenant \in Tenants /\ calls[c].rec \in Records
        /\ calls[c].seen \in [Tenants -> Slots]
    BY <1>0, <1>4, CallShape DEF WriteAll, At
  <2>2. Backed(calls[c].seen)
    BY <1>4 DEF WriteAll, At, IInv, AllBacked
  <2> QED BY <1>4, <2>1, <2>2, InvPut DEF WriteAll, At, Written
<1>5. CASE WriteFails(c)
  BY <1>5, InvQuiet DEF WriteFails, NoCall
<1>6. CASE GetCurrent(c)
  <2>1. \E call : /\ Become(c, call) /\ call.pc \notin {"truncate", "write"}
                  /\ Runs(c) /\ UNCHANGED <<stored, granted>>
    BY <1>6 DEF GetCurrent, At
  <2> QED BY <2>1, InvQuiet
<1> QED BY <1>1, <1>2, <1>3, <1>4, <1>5, <1>6 DEF Step

\* The process dies: no call is left.
LEMMA InvCrash ==
  ASSUME IInv, TypeInv', AllInOneProcess, NEW p \in Processes, Crash(p)
  PROVE  IInv'
<1>1. \A d \in Callers : calls'[d] = NoCall
  BY DEF AllInOneProcess, Processes, Crash
<1>2. Content' = Content \/ Content' = Empty
  BY DEF Crash, Content
<1>3. Backed(Content)'
  BY <1>2, EmptyBacked DEF Crash, IInv, AllBacked, Backed, Empty
<1> QED BY <1>1, <1>3
        DEF IInv, Exclusive, SeenCurrent, WritingCut, AllBacked, Rewriting, NoCall

LEMMA InvNext == AllInOneProcess /\ IInv /\ [Next]_vars => IInv'
<1> SUFFICES ASSUME AllInOneProcess, IInv, [Next]_vars PROVE IInv'
  OBVIOUS
<1>0. TypeInv'
  BY TypeNext DEF IInv
<1>1. CASE \E c \in Callers : Command(c) \/ Step(c)
  BY <1>0, <1>1, InvCommand, InvStep
<1>2. CASE \E p \in Processes : Crash(p)
  BY <1>0, <1>2, InvCrash
<1>3. CASE UNCHANGED vars
  BY <1>0, <1>3
     DEF vars, IInv, Exclusive, SeenCurrent, WritingCut, AllBacked, Backed, Rewriting, Content
<1> QED BY <1>1, <1>2, <1>3 DEF Next

LEMMA BackedEntitles ==
  ASSUME TypeOK, Backed(Content)
  PROVE  EntitledWasGranted
<1> SUFFICES ASSUME NEW t \in Tenants, NEW now \in Times, Effective(Content[t], now) # Free
             PROVE  \E expires \in Times \cup {Never} :
                      /\ <<t, Effective(Content[t], now), expires>> \in granted
                      /\ expires = Never \/ now < expires
  BY DEF EntitledWasGranted
<1> DEFINE rec == Content[t]
<1>1. /\ rec # NoRecord /\ rec.status = "active" /\ rec.plan \in PaidPlans
      /\ ~Expired(rec, now) /\ Effective(rec, now) = rec.plan
  BY DEF Effective
<1>2. <<t, rec.plan, rec.expires>> \in granted
  BY <1>1 DEF Backed
<1>3. rec \in Records
  BY <1>1, ContentType DEF Slots
<1>4. rec.expires \in Times \cup {Never} /\ (rec.expires = Never \/ now < rec.expires)
  BY <1>1, <1>3 DEF Expired, Records
<1> QED BY <1>1, <1>2, <1>4

\* In one process, with any number of callers, tenants and plans, nobody is resolved to a
\* paid plan that was not granted since the last cancellation, whatever writes fail and
\* whenever the process dies (SubscriptionResolver.ts 24-72, FileSubscriptionStore.node.ts 24-51).
THEOREM SpecEntitledWasGranted ==
  ASSUME AllInOneProcess
  PROVE  Spec => []EntitledWasGranted
<1>1. IInv => EntitledWasGranted
  BY BackedEntitles DEF IInv, TypeInv, AllBacked
<1>2. IInv /\ [Next]_vars => IInv'
  BY InvNext
<1> QED BY <1>1, <1>2, InvInit, PTL DEF Spec

\* In one process a cancellation holds until the next activation: what undoes one is
\* another process over the same file (subscription-registry.contract.test.ts 42).
THEOREM SpecCancelHolds ==
  ASSUME AllInOneProcess
  PROVE  Spec => []CancelHolds
<1>1. EntitledWasGranted => CancelHolds
  <2> SUFFICES ASSUME EntitledWasGranted, NEW t \in Tenants, NEW now \in Times,
                      Effective(Content[t], now) # Free
               PROVE  \E g \in granted : g[1] = t
    BY DEF CancelHolds
  <2>1. PICK expires \in Times \cup {Never} : <<t, Effective(Content[t], now), expires>> \in granted
    BY DEF EntitledWasGranted
  <2> QED BY <2>1
<1> QED BY <1>1, SpecEntitledWasGranted, PTL

-----------------------------------------------------------------------------
(* The store implements the ledger. *)

LEMMA KnownWriting ==
  ASSUME Exclusive, NEW c \in Callers, calls[c].pc = "write"
  PROVE  Known = calls[c].seen
<1>1. \A d \in Callers : calls[d].pc = "write" => d = c
  BY DEF Exclusive, Rewriting
<1>2. c = CHOOSE d \in Callers : calls[d].pc = "write"
  BY <1>1
<1> QED BY <1>2 DEF Known

LEMMA KnownAtRest ==
  ASSUME \A c \in Callers : calls[c].pc # "write"
  PROVE  Known = Content
BY DEF Known

LEMMA LedgerInit == Init => Ledger!Init
<1> SUFFICES ASSUME Init PROVE Known = Empty
  BY DEF Ledger!Init, Empty
<1>1. Content = Empty /\ \A c \in Callers : calls[c].pc # "write"
  BY DEF Init, Content, NoCall
<1> QED BY <1>1, KnownAtRest

LEMMA LedgerQuiet ==
  ASSUME IInv, IInv', AllInOneProcess, NEW c \in Callers, Runs(c), NEW call,
         Become(c, call), call.pc # "write", calls[c].pc # "write", UNCHANGED stored
  PROVE  UNCHANGED Known
<1>1. \A d \in Callers : calls[d].pc # "write" /\ calls'[d].pc # "write"
  BY Alone DEF IInv, TypeInv, TypeOK, Become, Rewriting
<1> QED BY <1>1 DEF Known, Content

LEMMA LedgerStep ==
  ASSUME IInv, IInv', AllInOneProcess, NEW c \in Callers, Step(c)
  PROVE  [Ledger!Next]_Known
<1>0. TypeOK /\ MapWhole /\ calls[c] \in Calls /\ calls \in [Callers -> Calls]
  BY DEF IInv, TypeInv, TypeOK
<1>1. CASE UpsertInMemory(c)
  <2>1. calls[c].tenant \in Tenants /\ calls[c].rec \in Records
    BY <1>0, <1>1, CallShape DEF UpsertInMemory, At
  <2>2. \A d \in Callers : calls[d].pc # "write" /\ calls'[d].pc # "write"
    BY <1>0, <1>1, Alone DEF UpsertInMemory, At, Become, Rewriting, NoCall
  <2>3. Known = stored
    BY <1>0, <1>1, <2>2, KnownAtRest DEF UpsertInMemory, MapWhole, Content
  <2>4. stored' \in [Tenants -> Slots]
    BY <1>0, <1>1, <2>1 DEF UpsertInMemory, MapWhole, TypeOK, Slots
  <2>5. Known' = stored'
    BY <2>2, <2>4 DEF Known, Content
  <2> QED BY <1>1, <2>1, <2>3, <2>5 DEF UpsertInMemory, Ledger!Next, Ledger!Put
<1>2. CASE ReadAll(c)
  BY <1>2, LedgerQuiet DEF ReadAll, At
<1>3. CASE Truncate(c)
  <2>1. Known = Content
    BY <1>0, <1>3, Alone, KnownAtRest DEF Truncate, At, Rewriting
  <2>2. calls'[c].pc = "write" /\ calls'[c].seen = calls[c].seen
    <3>1. calls[c] \in [pc: {"truncate", "write"}, tenant: Tenants, rec: Records,
                        seen: [Tenants -> Slots]]
      BY <1>0, <1>3, CallShape DEF Truncate, At
    <3> QED BY <1>0, <1>3, <3>1 DEF Truncate, Become
  <2>3. \A d \in Callers : calls'[d].pc = "write" => d = c
    BY <2>2 DEF IInv, Exclusive, Rewriting
  <2>4. Known' = calls'[c].seen
    <3>1. c = CHOOSE d \in Callers : calls'[d].pc = "write"
      BY <2>2, <2>3
    <3> QED BY <2>2, <3>1 DEF Known
  <2>5. calls[c].seen = Content
    BY <1>3 DEF Truncate, At, IInv, SeenCurrent
  <2> QED BY <2>1, <2>2, <2>4, <2>5
<1>4. CASE WriteAll(c)
  <2>1. /\ calls[c].tenant \in Tenants /\ calls[c].rec \in Records
        /\ calls[c].seen \in [Tenants -> Slots]
    BY <1>0, <1>4, CallShape DEF WriteAll, At
  <2>2. Known = calls[c].seen
    BY <1>4, KnownWriting DEF WriteAll, At, IInv
  <2>3. \A d \in Callers : calls'[d].pc # "write"
    BY <1>0, <1>4, Alone DEF WriteAll, At, Become, Rewriting, NoCall
  <2>4. stored' \in [Tenants -> Slots] /\ stored' = Written(calls[c])
    BY <1>4, <2>1 DEF WriteAll, Written, Slots
  <2>5. Known' = Written(calls[c])
    BY <2>3, <2>4 DEF Known, Content
  <2> QED BY <2>1, <2>2, <2>5 DEF Written, Ledger!Next, Ledger!Put
<1>5. CASE WriteFails(c)
  <2>1. CASE calls[c].pc = "truncate"
    BY <1>5, <2>1, LedgerQuiet DEF WriteFails, NoCall
  <2>2. CASE calls[c].pc = "write"
    <3>1. stored' = Damaged
      BY <1>5, <2>2 DEF WriteFails, IInv, WritingCut
    <3>2. \A d \in Callers : calls'[d].pc # "write"
      BY <1>0, <1>5, Alone DEF WriteFails, Become, Rewriting, NoCall
    <3>3. Known' = Empty
      BY <3>1, <3>2 DEF Known, Content
    <3> QED BY <3>3 DEF Empty, Ledger!Next, Ledger!Lose, Ledger!Blank
  <2> QED BY <1>5, <2>1, <2>2 DEF WriteFails, Rewriting
<1>6. CASE GetCurrent(c)
  BY <1>6, LedgerQuiet DEF GetCurrent, At
<1> QED BY <1>1, <1>2, <1>3, <1>4, <1>5, <1>6 DEF Step

LEMMA LedgerCommand ==
  ASSUME IInv, IInv', AllInOneProcess, NEW c \in Callers, Command(c)
  PROVE  UNCHANGED Known
<1>1. \E call : /\ Become(c, call) /\ call.pc # "write" /\ calls[c].pc # "write"
                /\ Runs(c) /\ UNCHANGED stored
  BY DEF Command, SetActivePlan, Cancel, SyncFromProvider, At
<1> QED BY <1>1, LedgerQuiet

LEMMA LedgerCrash ==
  ASSUME IInv, AllInOneProcess, NEW p \in Processes, Crash(p)
  PROVE  [Ledger!Next]_Known
<1>1. \A c \in Callers : calls'[c].pc # "write"
  BY DEF AllInOneProcess, Processes, Crash, NoCall
<1>2. Known' = Content'
  BY <1>1 DEF Known
<1>3. CASE runtime = "browser"
  <2>1. Known' = Empty
    BY <1>2, <1>3 DEF Crash, Content
  <2> QED BY <2>1 DEF Empty, Ledger!Next, Ledger!Lose, Ledger!Blank
<1>4. CASE runtime # "browser" /\ \E c \in Callers : calls[c].pc = "write"
  <2>1. Known' = Empty
    BY <1>2, <1>4 DEF Crash, Content, IInv, WritingCut
  <2> QED BY <2>1 DEF Empty, Ledger!Next, Ledger!Lose, Ledger!Blank
<1>5. CASE runtime # "browser" /\ \A c \in Callers : calls[c].pc # "write"
  <2>1. Known' = Known
    BY <1>2, <1>5, KnownAtRest DEF Crash, Content
  <2> QED BY <2>1
<1> QED BY <1>3, <1>4, <1>5

\* The calls of one process implement the ledger: to each other their commands put one
\* record at a time, although every one of them rewrites the whole file in two steps
\* (FileSubscriptionStore.node.ts 24-51).
THEOREM SpecImplementsLedger ==
  ASSUME AllInOneProcess
  PROVE  Spec => ImplementsLedger
<1>1. IInv /\ [Next]_vars => IInv'
  BY InvNext
<1>2. IInv /\ IInv' /\ [Next]_vars => [Ledger!Next]_Known
  <2> SUFFICES ASSUME IInv, IInv', [Next]_vars PROVE [Ledger!Next]_Known
    OBVIOUS
  <2>1. CASE \E c \in Callers : Command(c) \/ Step(c)
    BY <2>1, LedgerCommand, LedgerStep
  <2>2. CASE \E p \in Processes : Crash(p)
    BY <2>2, LedgerCrash
  <2>3. CASE UNCHANGED vars
    BY <2>3 DEF vars, Known, Content
  <2> QED BY <2>1, <2>2, <2>3 DEF Next
<1> QED BY <1>1, <1>2, InvInit, LedgerInit, PTL DEF Spec, ImplementsLedger, Ledger!Spec

=============================================================================
