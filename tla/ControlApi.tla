----------------------------- MODULE ControlApi ------------------------------
(* The control plane's API server over its SQLite database                    *)
(* (platform/api/src/index.ts): the tables of tenants, providers, policies    *)
(* and security settings, the lists it answers from a cache of its own, the   *)
(* audit log with its cursor pages, and the outbox.                           *)
(*                                                                            *)
(* A handler runs to its end without an await, so one action is one request;  *)
(* each of its statements commits by itself and may fail. A row is reduced to *)
(* its id: a PUT changes what a row says and never which rows there are.      *)
EXTENDS Naturals, Sequences, FiniteSets

CONSTANTS
    Tables,
    Ids,         \* table -> the ids its rows may have
    Seeds,       \* table -> the rows a start inserts when it finds the table empty
    DefaultRow,  \* the id DELETE /api/tenants refuses
    Tenants,     \* tenants of the access tokens
    Readers,     \* those of them whose clients read lists and logs
    Listed,      \* the tables whose list is cached
    Limit,       \* rows on a page
    Ttl,         \* CACHE_TTL_MS, in ticks of the clock
    MaxWrites,   \* bound: the audited requests of one behaviour
    Old          \* audit logs a behaviour may begin with: sequences of tenants

ASSUME ControlApiAssumption ==
    /\ DOMAIN Seeds = Tables /\ \A t \in Tables : Seeds[t] \subseteq Ids[t]
    /\ "tenants" \in Tables /\ DefaultRow \in Seeds["tenants"]
    /\ Listed \subseteq Tables /\ "summary" \notin Tables
    /\ Limit \in Nat \ {0} /\ Ttl \in Nat \ {0} /\ MaxWrites \in Nat
    /\ Readers \subseteq Tenants /\ "nobody" \notin Tenants
    /\ Old \subseteq Seq(Tenants)

VARIABLES
    rows,     \* table -> the ids of its rows
    cache,    \* <<tenant, route>> -> what was answered, and how old it is
    audit,    \* audit_logs: the tenant of row 1, 2, ...
    outbox,   \* outbox_events: the audit row of event 1, 2, ..., and its status
    walk,     \* a client that reads its tenant's audit log page by page
    recent,   \* what the tables held in this tick and the Ttl - 1 before it
    writes    \* audited requests so far

vars == <<rows, cache, audit, outbox, walk, recent, writes>>

Routes == Listed \cup {"summary"}
NoEntry == [body |-> {}, age |-> Ttl]

(* What a cached route answers from the tables: the rows of a list, or the    *)
(* number of rows of each table.                                              *)
Body(route, db) ==
    IF route = "summary" THEN {<<t, Cardinality(db[t])>> : t \in Tables} ELSE db[route]

(* seedDefaults: each table that is found empty.                              *)
Seeded(db) == [t \in Tables |-> IF db[t] = {} THEN Seeds[t] ELSE db[t]]

NewWalk(t, due) == [by |-> t, cursor |-> 0, seen |-> {}, due |-> due, again |-> FALSE, done |-> FALSE]

Init ==
    /\ rows = Seeds
    /\ cache = [key \in Tenants \X Routes |-> NoEntry]
    /\ audit \in Old
    /\ outbox = [i \in DOMAIN audit |-> [row |-> i, status |-> "DELIVERED"]]
    /\ walk = NewWalk("nobody", {})
    /\ recent = [i \in 1 .. Ttl |-> {rows}]
    /\ writes = 0

-----------------------------------------------------------------------------
(* Writes.                                                                    *)

\* Mutant: each of the two inserts is tried whatever became of the other.
MutAuditWrite(t) ==
    /\ writes < MaxWrites
    /\ writes' = writes + 1
    /\ audit' \in {audit, Append(audit, t)}
    /\ outbox' \in {outbox, Append(outbox, [row |-> Len(audit'), status |-> "PENDING"])}

(* auditWrite: the log first, then the outbox; the first insert that fails    *)
(* ends it, and the request is answered as if nothing had.                    *)
AuditWrite(t) ==
    /\ writes < MaxWrites
    /\ writes' = writes + 1
    /\ \/ UNCHANGED <<audit, outbox>>
       \/ audit' = Append(audit, t) /\ UNCHANGED outbox
       \/ /\ audit' = Append(audit, t)
          /\ outbox' = Append(outbox, [row |-> Len(audit'), status |-> "PENDING"])

Holds(db) == rows' = db /\ recent' = [recent EXCEPT ![1] = @ \cup {db}]

(* A POST of an id that exists fails in its INSERT and is not audited; there  *)
(* is none for security settings.                                             *)
Create(t, table, id) ==
    /\ table # "security_settings"
    /\ id \notin rows[table]
    /\ Holds([rows EXCEPT ![table] = @ \cup {id}])
    /\ AuditWrite(t)
    /\ UNCHANGED <<cache, walk>>

(* A PUT is answered and audited whether or not the row is there.             *)
Update(t) == AuditWrite(t) /\ UNCHANGED <<rows, cache, walk, recent>>

Delete(t, table, id) ==
    /\ ~(table = "tenants" /\ id = DefaultRow)
    /\ Holds([rows EXCEPT ![table] = @ \ {id}])
    /\ AuditWrite(t)
    /\ UNCHANGED <<cache, walk>>

(* POST /api/cp/outbox/:id/ack, which is not audited.                         *)
Ack(event) ==
    /\ outbox' = [outbox EXCEPT ![event].status = "DELIVERED"]
    /\ UNCHANGED <<rows, cache, audit, walk, recent, writes>>

-----------------------------------------------------------------------------
(* Reads.                                                                     *)

\* Mutant: an answer from the cache renews its entry.
MutFetch(t, route) ==
    /\ cache' = [cache EXCEPT ![<<t, route>>] =
                   [body |-> IF @.age < Ttl THEN @.body ELSE Body(route, rows), age |-> 0]]
    /\ UNCHANGED <<rows, audit, outbox, walk, recent, writes>>

(* A cached GET: an entry that has not expired is the answer, or the tables   *)
(* are read and the answer kept for the next Ttl. Writes do not invalidate it.*)
Live(entry) == entry.age < Ttl
Fetch(t, route) ==
    /\ ~Live(cache[<<t, route>>])
    /\ cache' = [cache EXCEPT ![<<t, route>>] = [body |-> Body(route, rows), age |-> 0]]
    /\ UNCHANGED <<rows, audit, outbox, walk, recent, writes>>

(* GET /api/cp/audit: of the tenant's rows below the cursor the Limit newest, *)
(* and the last of them as the next cursor if there are more.                 *)
AuditRows(t) == {i \in DOMAIN audit : audit[i] = t}
Newest(ids) == {i \in ids : Cardinality({j \in ids : j > i}) < Limit}

\* Mutant: the query asks for Limit rows, so that there are never more.
MutPage(ids) == [data |-> Newest(ids), hasMore |-> Cardinality(Newest(ids)) > Limit]

Page(ids) == [data |-> Newest(ids), hasMore |-> Cardinality(ids) > Limit]
Cursor(page) == CHOOSE i \in page.data : \A j \in page.data : i <= j

(* A client asks for the first page, then for the page after the cursor until *)
(* there are no more. due is what the log held when it began; again, whether  *)
(* it was ever given a row twice.                                             *)
Turn(w, page) ==
    [w EXCEPT !.seen = @ \cup page.data,
              !.again = @ \/ (w.seen \cap page.data # {}),
              !.cursor = IF page.hasMore THEN Cursor(page) ELSE 0,
              !.done = ~page.hasMore]

FirstPage(t) ==
    /\ walk' = Turn(NewWalk(t, AuditRows(t)), Page(AuditRows(t)))
    /\ UNCHANGED <<rows, cache, audit, outbox, recent, writes>>

NextPage ==
    /\ walk.by \in Tenants /\ ~walk.done
    /\ walk' = Turn(walk, Page({i \in AuditRows(walk.by) : i < walk.cursor}))
    /\ UNCHANGED <<rows, cache, audit, outbox, recent, writes>>

-----------------------------------------------------------------------------
(* The process starts again: its cache is empty, and empty tables are seeded. *)
Restart ==
    /\ cache' = [key \in Tenants \X Routes |-> NoEntry]
    /\ Holds(Seeded(rows))
    /\ UNCHANGED <<audit, outbox, walk, writes>>

\* Mutant: an entry that expired is kept.
MutTick ==
    /\ cache' = [key \in Tenants \X Routes |-> [cache[key] EXCEPT !.age = @ + 1]]
    /\ recent' = [i \in 1 .. Ttl |-> IF i = 1 THEN {rows} ELSE recent[i - 1]]
    /\ UNCHANGED <<rows, audit, outbox, walk, writes>>

(* Time passes: an entry whose time is over answers no more, get deletes it.  *)
Tick ==
    /\ cache' = [key \in Tenants \X Routes |->
                   IF Live(cache[key]) /\ cache[key].age + 1 < Ttl
                     THEN [cache[key] EXCEPT !.age = @ + 1] ELSE NoEntry]
    /\ recent' = [i \in 1 .. Ttl |-> IF i = 1 THEN {rows} ELSE recent[i - 1]]
    /\ UNCHANGED <<rows, audit, outbox, walk, writes>>

Next ==
    \/ \E t \in Tenants, table \in Tables : \E id \in Ids[table] :
         Create(t, table, id) \/ Delete(t, table, id)
    \/ \E t \in Tenants : Update(t)
    \/ \E t \in Readers : FirstPage(t)
    \/ \E t \in Readers, route \in Routes : Fetch(t, route)
    \/ \E event \in DOMAIN outbox : Ack(event)
    \/ NextPage
    \/ Restart
    \/ Tick

Spec == Init /\ [][Next]_vars

-----------------------------------------------------------------------------
(* Types of the tables, the cache, the log, the outbox and the walk.          *)
TypeOK ==
    /\ DOMAIN rows = Tables /\ \A t \in Tables : rows[t] \subseteq Ids[t]
    /\ DOMAIN cache = Tenants \X Routes
    /\ \A key \in Tenants \X Routes : cache[key].age \in 0 .. Ttl
    /\ audit \in Seq(Tenants)
    /\ outbox \in Seq([row : Nat, status : {"PENDING", "DELIVERED"}])
    /\ walk.by \in Tenants \cup {"nobody"} /\ walk.cursor \in Nat
    /\ writes \in 0 .. MaxWrites

(* The comment at index.ts:883, "5s for read-heavy GET": a cached answer is   *)
(* what the tables held at some moment of the last Ttl, whatever was written, *)
(* read by others and restarted meanwhile, and a summary counts one moment.   *)
CachedIsRecent ==
    \A key \in Tenants \X Routes :
        Live(cache[key]) => \E i \in 1 .. Ttl : \E db \in recent[i] : cache[key].body = Body(key[2], db)

(* The pages of the audit log, read to their end while others write: each row *)
(* the tenant had when the walk began, once, and no other.                    *)
WalkIsExact == ~walk.again /\ (walk.done => walk.seen = walk.due)

(* The outbox follows the log, whichever inserts fail: every event stands for *)
(* a row of the log, no two for the same, and in the order of the log.        *)
OutboxFollowsAudit ==
    \A e \in DOMAIN outbox :
        /\ outbox[e].row \in DOMAIN audit
        /\ \A f \in DOMAIN outbox : e < f => outbox[e].row < outbox[f].row
=============================================================================
