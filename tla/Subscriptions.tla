---------------------------- MODULE Subscriptions ----------------------------
(***************************************************************************)
(* Tenant subscriptions: the admin facade (core/subscription/registryApi),  *)
(* the write model, the sync from a payment provider, the store and the     *)
(* resolver (modules/core-system/subscription).  In Node the store is one   *)
(* JSON file that every process of a directory reads and rewrites whole; in *)
(* a browser it is a map in memory.  Every await lets other calls in; the   *)
(* reads and writes of a file do not let in those of the same process.      *)
(*                                                                         *)
(* Dates are small numbers.  A record keeps what the resolver reads of it.  *)
(***************************************************************************)
EXTENDS Naturals

CONSTANTS Tenants,
          Callers,
          ProcessOf,   \* the process a caller is in
          Times,       \* dates
          Never,       \* no expiry date
          CancelDates, \* the dates cancellations are made at, some of Times
          PeriodEnds,  \* the ends of periods providers send, dates or Never
          Free,        \* enterprise_free
          PaidPlans,   \* the other plans of PLANS
          OtherPlans,  \* plan ids PLANS does not have (enterprise_pro)
          NoRecord,    \* no subscription
          Damaged      \* a file that is not a JSON array

Plans == {Free} \cup PaidPlans \cup OtherPlans

Records == [plan: Plans, status: {"active", "suspended", "canceled"},
            expires: Times \cup {Never}]

Slots == Records \cup {NoRecord}

ASSUME SubscriptionAssumption ==
  /\ Times \subseteq Nat /\ Never \notin Times
  /\ CancelDates \subseteq Times /\ PeriodEnds \subseteq Times \cup {Never}
  /\ Free \notin PaidPlans \cup OtherPlans /\ PaidPlans \cap OtherPlans = {}
  /\ NoRecord \notin Records /\ Damaged \notin [Tenants -> Slots]
  /\ ProcessOf \in [Callers -> {ProcessOf[c] : c \in Callers}]

VARIABLES runtime,   \* "node" or "browser"
          stored,    \* the file, or the map
          calls,     \* the call each caller is in
          granted    \* history: tenant, plan and expiry of the paid plans written
                     \* since the tenant's last cancellation was

vars == <<runtime, stored, calls, granted>>

Empty == [t \in Tenants |-> NoRecord]

NoCall == [pc |-> "idle"]

Calls ==
  {NoCall}
    \cup [pc: {"get"}, tenant: Tenants, at: Times]
    \cup [pc: {"upsert"}, tenant: Tenants, rec: Records]
    \cup [pc: {"truncate", "write"}, tenant: Tenants, rec: Records,
          seen: [Tenants -> Slots]]

TypeOK ==
  /\ runtime \in {"node", "browser"}
  /\ stored \in [Tenants -> Slots] \cup {Damaged}
  /\ calls \in [Callers -> Calls]
  /\ granted \subseteq Tenants \X PaidPlans \X (Times \cup {Never})

-----------------------------------------------------------------------------
(* The resolver. *)

\* Mutant: a subscription is still good at the instant it expires.
MutExpired(rec, now) == rec.expires # Never /\ rec.expires < now

Expired(rec, now) == rec.expires # Never /\ rec.expires <= now

\* resolveEntitlements, which getEntitlementsForTenant and every admin command ends
\* with; it changes nothing.  Anything but an active, unexpired, known plan is free.
Effective(slot, now) ==
  IF slot # NoRecord /\ slot.status = "active" /\ ~Expired(slot, now)
       /\ slot.plan \in PaidPlans
  THEN slot.plan ELSE Free

-----------------------------------------------------------------------------
(* Records the write model makes. *)

Activated(plan, expires) == [plan |-> plan, status |-> "active", expires |-> expires]

\* Mutant: the plan of a subscription that does not exist is kept.
MutCanceled(slot, at) ==
  [plan |-> IF slot = NoRecord THEN NoRecord ELSE slot.plan,
   status |-> "canceled", expires |-> at]

Canceled(slot, at) ==
  [plan |-> IF slot = NoRecord THEN Free ELSE slot.plan,
   status |-> "canceled", expires |-> at]

\* DefaultProviderPort with its plan map, which knows no plan of any provider.
Synced(active, expires) ==
  [plan |-> Free, status |-> IF active THEN "active" ELSE "suspended", expires |-> expires]

-----------------------------------------------------------------------------
(* The store. *)

\* readAll: a file that is missing, cut short or no array is a file of no records.
Content == IF stored = Damaged THEN Empty ELSE stored

\* Between the reading and the writing of a file nothing else runs in its process.
Rewriting(c) == calls[c].pc \in {"truncate", "write"}

Runs(c) ==
  \A d \in Callers \ {c} : ProcessOf[d] = ProcessOf[c] => ~Rewriting(d)

At(c, pc) == calls[c].pc = pc /\ Runs(c)

Become(c, call) == calls' = [calls EXCEPT ![c] = call]

GrantedAfter(t, rec) ==
  IF rec.status = "canceled" THEN {g \in granted : g[1] # t}
  ELSE IF rec.status = "active" /\ rec.plan \in PaidPlans
       THEN granted \cup {<<t, rec.plan, rec.expires>>}
       ELSE granted

\* Map.set.
UpsertInMemory(c) ==
  /\ At(c, "upsert") /\ runtime = "browser"
  /\ stored' = [stored EXCEPT ![calls[c].tenant] = calls[c].rec]
  /\ granted' = GrantedAfter(calls[c].tenant, calls[c].rec)
  /\ Become(c, NoCall)
  /\ UNCHANGED runtime

ReadAll(c) ==
  /\ At(c, "upsert") /\ runtime = "node"
  /\ Become(c, [pc |-> "truncate", tenant |-> calls[c].tenant,
                rec |-> calls[c].rec, seen |-> Content])
  /\ UNCHANGED <<runtime, stored, granted>>

\* writeFileSync opens the file and cuts it; then it writes.
Truncate(c) ==
  /\ At(c, "truncate")
  /\ stored' = Damaged
  /\ Become(c, [calls[c] EXCEPT !.pc = "write"])
  /\ UNCHANGED <<runtime, granted>>

\* Mutant: the file is written with the one record alone.
MutWritten(call) == [Empty EXCEPT ![call.tenant] = call.rec]

Written(call) == [call.seen EXCEPT ![call.tenant] = call.rec]

WriteAll(c) ==
  /\ At(c, "write")
  /\ stored' = Written(calls[c])
  /\ granted' = GrantedAfter(calls[c].tenant, calls[c].rec)
  /\ Become(c, NoCall)
  /\ UNCHANGED runtime

\* The file cannot be opened or written: the call fails, a sync swallows it.
WriteFails(c) ==
  /\ Rewriting(c) /\ Runs(c)
  /\ Become(c, NoCall)
  /\ UNCHANGED <<runtime, stored, granted>>

-----------------------------------------------------------------------------
(* The operations. *)

SetActivePlan(c, t, plan, expires) ==
  /\ At(c, "idle")
  /\ Become(c, [pc |-> "upsert", tenant |-> t, rec |-> Activated(plan, expires)])
  /\ UNCHANGED <<runtime, stored, granted>>

Cancel(c, t, canceledAt) ==
  /\ At(c, "idle")
  /\ Become(c, [pc |-> "get", tenant |-> t, at |-> canceledAt])
  /\ UNCHANGED <<runtime, stored, granted>>

\* The record read here may be another one when the cancellation is written.
GetCurrent(c) ==
  /\ At(c, "get")
  /\ Become(c, [pc |-> "upsert", tenant |-> calls[c].tenant,
                rec |-> Canceled(Content[calls[c].tenant], calls[c].at)])
  /\ UNCHANGED <<runtime, stored, granted>>

SyncFromProvider(c, t, active, periodEnd) ==
  /\ At(c, "idle")
  /\ Become(c, [pc |-> "upsert", tenant |-> t, rec |-> Synced(active, periodEnd)])
  /\ UNCHANGED <<runtime, stored, granted>>

\* A process dies, or a page is reloaded: the file stays as it is, the map does not.
Crash(p) ==
  /\ calls' = [c \in Callers |-> IF ProcessOf[c] = p THEN NoCall ELSE calls[c]]
  /\ stored' = IF runtime = "browser" THEN Empty ELSE stored
  /\ UNCHANGED <<runtime, granted>>

Processes == {ProcessOf[c] : c \in Callers}

Init ==
  /\ runtime \in {"node", "browser"}
  /\ runtime = "browser" => \A c, d \in Callers : ProcessOf[c] = ProcessOf[d]
  /\ stored = Empty
  /\ calls = [c \in Callers |-> NoCall]
  /\ granted = {}

Command(c) ==
  \E t \in Tenants :
    \/ \E plan \in Plans, expires \in Times \cup {Never} : SetActivePlan(c, t, plan, expires)
    \/ \E at \in CancelDates : Cancel(c, t, at)
    \/ \E active \in BOOLEAN, end \in PeriodEnds : SyncFromProvider(c, t, active, end)

Step(c) ==
  \/ UpsertInMemory(c) \/ ReadAll(c) \/ Truncate(c) \/ WriteAll(c) \/ WriteFails(c)
  \/ GetCurrent(c)

Next == (\E c \in Callers : Command(c) \/ Step(c)) \/ (\E p \in Processes : Crash(p))

Spec == Init /\ [][Next]_vars

-----------------------------------------------------------------------------
(* Properties. *)

\* In one process nobody is resolved to a paid plan that was not set active for that
\* tenant since its last cancellation, until a later date than the one asked about:
\* not after a write that failed, a file that was cut or a sync
\* (SubscriptionResolver.ts 24-29).
EntitledWasGranted ==
  \A t \in Tenants, now \in Times : Effective(Content[t], now) # Free =>
    \E expires \in Times \cup {Never} :
      /\ <<t, Effective(Content[t], now), expires>> \in granted
      /\ expires = Never \/ now < expires

\* The records as the store's callers know them: while a file is being written,
\* what was read of it.
Known ==
  IF \E c \in Callers : calls[c].pc = "write"
  THEN calls[CHOOSE c \in Callers : calls[c].pc = "write"].seen
  ELSE Content

Ledger == INSTANCE SubscriptionLedger WITH ledger <- Known

\* In one process the store changes one tenant's record at a time, or loses all of
\* them when a write fails or the process dies (FileSubscriptionStore.node.ts 24-51).
ImplementsLedger == Ledger!Spec

\* A tenant that was canceled, and not activated since, is free: "cancel falls back to
\* enterprise_free" (subscription-registry.contract.test.ts 42).
CancelHolds ==
  \A t \in Tenants, now \in Times :
    (\A g \in granted : g[1] # t) => Effective(Content[t], now) = Free

=============================================================================
