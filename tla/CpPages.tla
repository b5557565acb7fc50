------------------------------- MODULE CpPages -------------------------------
(***************************************************************************)
(* The page registry of the API (index.ts, /api/cp/pages) as the operators *)
(* of the Page Studio use it.  A page is a row of cp_pages; the route       *)
(* catalogue is a JSON file, a second copy of part of it that some of the   *)
(* handlers bring up to date on a best-effort basis.                        *)
(*                                                                         *)
(* better-sqlite3 and the fs calls of these handlers are synchronous, so a *)
(* request is one action.  What interleaves is the requests of several      *)
(* operators, each deciding from the list loaded last (seen), which may     *)
(* itself come from a read cache that no write invalidates.                 *)
(***************************************************************************)
EXTENDS Naturals

CONSTANTS Operators,
          Ids,         \* page ids: the Studio never supplies one, each is used once
          Routes,
          Contents,    \* what an operator may enter in the form
          Titles, Perms, Statuses,
          Flags,       \* values of the columns that may be left empty: path, module, flag
          None,        \* such a column left empty
          Absent,      \* a page never created, no catalogue entry, nothing cached
          Gone,        \* a page deleted
          Unreadable,  \* a catalogue that is not there, or was cut by a write that failed
          Shipped,     \* what a host may have at platform/config/ssot/ROUTE_CATALOG.json
          MaxVersion   \* bound on the publications of a page

ASSUME PagesAssumption ==
  /\ Contents \subseteq [route: Routes, title: Titles, perms: Perms, status: Statuses,
                          flag: Flags \cup {None}]
  /\ MaxVersion \in Nat \ {0}
  /\ None \notin Flags

Page == [content: Contents,              \* the columns, and draft_json which says the same
         published: Contents \cup {Absent},
         state: {"DRAFT", "PUBLISHED"}, active: BOOLEAN, version: 1..MaxVersion]

Entry == [perms: Perms, status: Statuses \cup {"HIDDEN"}, flag: Flags \cup {None}]

Catalogs == [Routes -> Entry \cup {Absent}]

ASSUME SentinelAssumption ==
  /\ Shipped \subseteq Catalogs \cup {Unreadable}
  /\ Unreadable \notin Catalogs
  /\ Absent # Gone
  /\ Absent \notin Contents \cup Page \cup Entry /\ Gone \notin Page
  /\ Absent \notin [Ids -> Page \cup {Absent, Gone}]

VARIABLES rows,     \* cp_pages
          catalog,  \* ROUTE_CATALOG.json where the API looks for it
          cache,    \* the cached answer of GET /api/cp/pages
          seen,     \* what the table of each operator shows
          dirty     \* history: pages written since a synchronisation last succeeded,
                    \* or all of them when one has cut the file

vars == <<rows, catalog, cache, seen, dirty>>

Tables == [Ids -> Page \cup {Absent, Gone}]
IsPage(row) == row \notin {Absent, Gone}

TypeOK ==
  /\ rows \in Tables
  /\ catalog \in Catalogs \cup {Unreadable}
  /\ cache \in Tables \cup {Absent}
  /\ seen \in [Operators -> Tables]
  /\ dirty \subseteq Ids

-----------------------------------------------------------------------------
(* The catalogue. *)

\* The page of a table that has route r, if any.
On(table, r) == {id \in Ids : IsPage(table[id]) /\ table[id].content.route = r}

\* A column of the page, or what the entry has when the page leaves it empty.
Filled(column, old) == IF column = None /\ old # Absent THEN old.flag ELSE column

\* Mutant: a page that is not active leaves the status of its entry alone.
MutProjected(page, old) ==
  [perms |-> page.content.perms,
   status |-> IF ~page.active /\ old # Absent THEN old.status ELSE page.content.status,
   flag |-> Filled(page.content.flag, old)]

\* What a page makes of the entry of its route.  The title is not copied, and
\* the status of a page that is not active is HIDDEN whatever its own is.
Projected(page, old) ==
  [perms |-> page.content.perms,
   status |-> IF page.active THEN page.content.status ELSE "HIDDEN",
   flag |-> Filled(page.content.flag, old)]

\* The catalogue syncCpRouteCatalogFromDb writes, from the one it has read:
\* entries without a page stay as they are.
SyncedCatalog(table) ==
  [r \in Routes |->
     IF On(table, r) = {} THEN catalog[r]
     ELSE Projected(table[CHOOSE id \in On(table, r) : TRUE], catalog[r])]

\* syncCpRouteCatalogFromDb succeeds: it has to read the file first.
SyncSucceeds(table) ==
  /\ catalog # Unreadable
  /\ catalog' = SyncedCatalog(table)
  /\ dirty' = {}

\* It throws before it writes: there is no file, it is not JSON, or it may not
\* be read or opened.  Or the write fails once it has cut the file, and there
\* is nothing left to parse.  written: the pages its caller wrote before.
SyncThrows(written) ==
  \/ UNCHANGED catalog /\ dirty' = dirty \cup written
  \/ catalog # Unreadable /\ catalog' = Unreadable /\ dirty' = Ids

\* A write followed by "try { syncCpRouteCatalogFromDb() } catch {}".
WriteAndSync(id, row) ==
  /\ rows' = [rows EXCEPT ![id] = row]
  /\ SyncSucceeds(rows') \/ SyncThrows({id})
  /\ UNCHANGED <<cache, seen>>

\* A write that leaves the catalogue alone.
WriteOnly(id, row) ==
  /\ rows' = [rows EXCEPT ![id] = row]
  /\ dirty' = dirty \cup {id}
  /\ UNCHANGED <<catalog, cache, seen>>

-----------------------------------------------------------------------------
(* Requests. *)

Init ==
  /\ rows = [id \in Ids |-> Absent]
  /\ catalog \in Shipped
  /\ cache = Absent
  /\ seen = [o \in Operators |-> rows]
  /\ dirty = {}

\* GET /api/cp/pages: the cached list as long as there is one.
List(o) ==
  LET answer == IF cache = Absent THEN rows ELSE cache
  IN  /\ seen' = [seen EXCEPT ![o] = answer]
      /\ cache' = answer
      /\ UNCHANGED <<rows, catalog, dirty>>

\* The cached list is over 5 seconds old.
CacheExpires ==
  /\ cache # Absent
  /\ cache' = Absent
  /\ UNCHANGED <<rows, catalog, seen, dirty>>

\* The table has a row for the page, with buttons to edit, publish and delete it.
Shows(o, id) == IsPage(seen[o][id])

\* A page that has been published can be reverted.
OffersRevert(o, id) == Shows(o, id) /\ seen[o][id].published # Absent

\* "Publier avant activation." looks at the table, not at the row.
OffersActivate(o, id) ==
  Shows(o, id) /\ ~seen[o][id].active /\ seen[o][id].state = "PUBLISHED"

OffersDeactivate(o, id) == Shows(o, id) /\ seen[o][id].active

\* What the commands send as expected_version.
Expected(o, id) == seen[o][id].version

VersionMatches(o, id) ==
  Shows(o, id) /\ IsPage(rows[id]) /\ Expected(o, id) = rows[id].version

\* UNIQUE(route_id).
RouteFree(id, c) == On(rows, c.route) \subseteq {id}

\* Mutant: a new page has no version yet.
MutCreate(id, c) ==
  /\ rows[id] = Absent
  /\ On(rows, c.route) = {}
  /\ WriteOnly(id, [content |-> c, published |-> Absent, state |-> "DRAFT",
                    active |-> FALSE, version |-> 0])

\* POST: 409 when the route has a page already.
Create(id, c) ==
  /\ rows[id] = Absent
  /\ On(rows, c.route) = {}
  /\ WriteOnly(id, [content |-> c, published |-> Absent, state |-> "DRAFT",
                    active |-> FALSE, version |-> 1])

\* Mutant: an edited page stays PUBLISHED and active.
MutUpdate(o, id, c) ==
  /\ VersionMatches(o, id)
  /\ RouteFree(id, c)
  /\ WriteOnly(id, [rows[id] EXCEPT !.content = c])

\* PUT: an edited page is a draft again and no longer active; a page that was
\* active without being published stays so.
Update(o, id, c) ==
  /\ VersionMatches(o, id)
  /\ RouteFree(id, c)
  /\ WriteOnly(id, [rows[id] EXCEPT !.content = c, !.state = "DRAFT",
                       !.active = @ /\ rows[id].state # "PUBLISHED"])

\* Mutant: publishing does not count the version up.
MutPublish(o, id) ==
  /\ VersionMatches(o, id)
  /\ WriteAndSync(id, [rows[id] EXCEPT !.state = "PUBLISHED",
                          !.published = rows[id].content])

Publish(o, id) ==
  /\ VersionMatches(o, id)
  /\ rows[id].version < MaxVersion
  /\ WriteAndSync(id, [rows[id] EXCEPT !.state = "PUBLISHED", !.version = @ + 1,
                          !.published = rows[id].content])

\* The row decides whether there is anything to go back to; the published route
\* may have been taken by another page meanwhile.
Revert(o, id) ==
  /\ OffersRevert(o, id)
  /\ IsPage(rows[id]) /\ rows[id].published # Absent
  /\ RouteFree(id, rows[id].published)
  /\ WriteOnly(id, [rows[id] EXCEPT !.content = rows[id].published, !.state = "DRAFT",
                       !.active = FALSE])

Activate(o, id) ==
  /\ OffersActivate(o, id)
  /\ VersionMatches(o, id)
  /\ WriteAndSync(id, [rows[id] EXCEPT !.active = TRUE])

Deactivate(o, id) ==
  /\ OffersDeactivate(o, id)
  /\ VersionMatches(o, id)
  /\ WriteAndSync(id, [rows[id] EXCEPT !.active = FALSE])

\* DELETE asks for no version; the entry of the catalogue outlives the page.
Delete(o, id) ==
  /\ Shows(o, id)
  /\ WriteAndSync(id, Gone)

\* POST /api/cp/pages/sync-catalog: answers 500 when the synchronisation throws.
SyncCatalog ==
  /\ SyncSucceeds(rows) \/ SyncThrows({})
  /\ UNCHANGED <<rows, cache, seen>>

Next ==
  \/ \E o \in Operators : List(o)
  \/ CacheExpires
  \/ \E id \in Ids, c \in Contents : Create(id, c)
  \/ \E o \in Operators, id \in Ids, c \in Contents : Update(o, id, c)
  \/ \E o \in Operators, id \in Ids :
       \/ Publish(o, id) \/ Revert(o, id)
       \/ Activate(o, id) \/ Deactivate(o, id) \/ Delete(o, id)
  \/ SyncCatalog

Spec == Init /\ [][Next]_vars

-----------------------------------------------------------------------------
(* Properties. *)

\* A version names one publication: however old the table or the cached list an
\* operator looks at, if it shows the version the row has now it shows what is
\* published now (the premise of expected_version, index.ts 1017-1023 and 1072-1078).
VersionNamesPublication ==
  \A table \in {seen[o] : o \in Operators} \cup ({cache} \ {Absent}), id \in Ids :
    IsPage(table[id]) /\ IsPage(rows[id]) /\ table[id].version = rows[id].version
    => table[id].published = rows[id].published

\* A page that says PUBLISHED has no unpublished edit, whichever operators
\* edited, reverted and published it in whichever order (index.ts 1024-1029).
PublishedIsWhatShows ==
  \A id \in Ids : IsPage(rows[id]) /\ rows[id].state = "PUBLISHED"
                  => rows[id].content = rows[id].published

\* A page not written since a synchronisation last succeeded has an entry with
\* its permissions, the columns it fills and its status, HIDDEN unless it is active:
\* through failures that are swallowed, files cut by a write and reuse of routes.
\* Without a file to read there is no such page (index.ts 177-211).
SyncedCatalogAgrees ==
  \A id \in Ids \ dirty : IsPage(rows[id]) =>
    /\ catalog # Unreadable
    /\ LET content == rows[id].content
           entry == catalog[content.route]
       IN  /\ entry # Absent
           /\ entry.perms = content.perms
           /\ content.flag # None => entry.flag = content.flag
           /\ entry.status = IF rows[id].active THEN content.status ELSE "HIDDEN"

=============================================================================
