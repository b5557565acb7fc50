---------------------------- MODULE CpPagesProofs ----------------------------
(***************************************************************************)
(* The page registry keeps its types, a page that says PUBLISHED shows what *)
(* was published, and a version names one publication in every table and   *)
(* cached list, however old.  The last needs that rows only ever move on:   *)
(* a snapshot of a page is Older than its row.  That the catalogue agrees   *)
(* with what was synchronised needs that no two pages have one route; where *)
(* there is no catalogue to read, nothing is ever synchronised.             *)
(***************************************************************************)
EXTENDS CpPages, TLAPS

\* A snapshot of a page that row may have come after.
Older(snapshot, row) ==
  IsPage(snapshot) =>
    \/ row = Gone
    \/ /\ IsPage(row)
       /\ snapshot.version <= row.version
       /\ snapshot.version = row.version => snapshot.published = row.published

\* How a row may change: a deleted page stays deleted.
Moves(row, next) == Older(row, next) /\ (row = Gone => next = Gone)

SnapshotsOlder ==
  /\ \A o \in Operators, id \in Ids : Older(seen[o][id], rows[id])
  /\ cache # Absent => \A id \in Ids : Older(cache[id], rows[id])

\* UNIQUE(route_id), of the whole table.
RoutesUnique ==
  \A i, j \in Ids : IsPage(rows[i]) /\ IsPage(rows[j])
                    /\ rows[i].content.route = rows[j].content.route => i = j

IInv == TypeOK /\ PublishedIsWhatShows /\ SnapshotsOlder /\ RoutesUnique /\ SyncedCatalogAgrees

-----------------------------------------------------------------------------
\* The sentinels are told from pages.
LEMMA PageIsPage == \A row \in Page : IsPage(row)
  BY SentinelAssumption DEF IsPage

\* A page that keeps its version and publication, or counts up, moves on.
LEMMA PageMoves ==
  ASSUME NEW row \in Page, NEW next \in Page,
         \/ row.version < next.version
         \/ row.version = next.version /\ row.published = next.published
  PROVE  Moves(row, next)
<1>1. row.version \in Nat /\ next.version \in Nat
  BY PagesAssumption DEF Page
<1>2. IsPage(next) /\ row # Gone
  BY PageIsPage, SentinelAssumption
<1>3. QED
  BY <1>1, <1>2 DEF Moves, Older

LEMMA OlderReflexive ==
  ASSUME NEW row \in Page \cup {Absent, Gone}
  PROVE  Moves(row, row)
  BY DEF Moves, Older, IsPage, Page

LEMMA OlderTransitive ==
  ASSUME NEW s \in Page \cup {Absent, Gone}, NEW row \in Page \cup {Absent, Gone},
         NEW next \in Page \cup {Absent, Gone},
         Older(s, row), Moves(row, next)
  PROVE  Older(s, next)
  BY DEF Older, Moves, IsPage, Page

\* The columns that page contributes to the entry of its route (index.ts 192-204).
EntryOf(page, entry) ==
  /\ entry # Absent
  /\ entry.perms = page.content.perms
  /\ page.content.flag # None => entry.flag = page.content.flag
  /\ entry.status = IF page.active THEN page.content.status ELSE "HIDDEN"

\* What a page makes of an entry is an entry, with the columns of the page.
LEMMA ProjectedEntry ==
  ASSUME NEW page \in Page, NEW old \in Entry \cup {Absent}
  PROVE  Projected(page, old) \in Entry /\ EntryOf(page, Projected(page, old))
<1>1. /\ page.content \in [route: Routes, title: Titles, perms: Perms, status: Statuses,
                            flag: Flags \cup {None}]
      /\ page.active \in BOOLEAN
  BY PagesAssumption DEF Page
<1>2. old # Absent => old.flag \in Flags \cup {None}
  BY DEF Entry
<1>3. Filled(page.content.flag, old) \in Flags \cup {None}
  BY <1>1, <1>2 DEF Filled
<1>4. page.content.flag # None => Filled(page.content.flag, old) = page.content.flag
  BY DEF Filled
<1>5. Projected(page, old) \in Entry
  BY <1>1, <1>3 DEF Projected, Entry
<1>6. QED
  BY <1>4, <1>5, SentinelAssumption DEF Projected, EntryOf

\* The synchronised catalogue has entries only.
LEMMA SyncedCatalogType ==
  ASSUME NEW table \in Tables, catalog \in Catalogs
  PROVE  SyncedCatalog(table) \in Catalogs
<1>1. SUFFICES ASSUME NEW r \in Routes, On(table, r) # {}
               PROVE  Projected(table[CHOOSE id \in On(table, r) : TRUE], catalog[r]) \in Entry
  BY DEF SyncedCatalog, Catalogs
<1> DEFINE id == CHOOSE i \in On(table, r) : TRUE
<1>2. id \in On(table, r)
  BY <1>1
<1>3. table[id] \in Page
  BY <1>2 DEF On, Tables, IsPage
<1>4. QED
  BY <1>1, <1>3, ProjectedEntry DEF Catalogs

\* A table without two pages on a route makes a catalogue that agrees with it.
LEMMA SyncedCatalogOf ==
  ASSUME NEW table \in Tables, catalog \in Catalogs, NEW id \in Ids, IsPage(table[id]),
         \A i \in Ids : IsPage(table[i]) /\ table[i].content.route = table[id].content.route
                        => i = id
  PROVE  EntryOf(table[id], SyncedCatalog(table)[table[id].content.route])
<1> DEFINE r == table[id].content.route
<1>1. table[id] \in Page /\ r \in Routes
  BY PagesAssumption DEF Tables, IsPage, Page
<1>2. On(table, r) = {id}
  BY DEF On
<1>3. (CHOOSE i \in On(table, r) : TRUE) = id
  BY <1>2
<1>4. SyncedCatalog(table)[r] = Projected(table[id], catalog[r])
  <2> HIDE DEF r
  <2> QED BY <1>1, <1>2, <1>3 DEF SyncedCatalog
<1>5. catalog[r] \in Entry \cup {Absent}
  BY <1>1 DEF Catalogs
<1>6. QED
  BY <1>1, <1>4, <1>5, ProjectedEntry

\* The catalogue a synchronisation leaves, with the tables as they are then.
LEMMA SyncPreserves ==
  ASSUME rows' \in Tables, RoutesUnique', catalog \in Catalogs, SyncSucceeds(rows')
  PROVE  catalog' \in Catalogs /\ SyncedCatalogAgrees'
<1>1. catalog' = SyncedCatalog(rows') /\ catalog' \in Catalogs
  BY SyncedCatalogType DEF SyncSucceeds
<1>2. catalog' # Unreadable
  BY <1>1, SentinelAssumption
<1>3. ASSUME NEW i \in Ids, IsPage(rows'[i])
      PROVE  EntryOf(rows'[i], catalog'[rows'[i].content.route])
  BY <1>1, <1>3, SyncedCatalogOf DEF RoutesUnique
<1>4. QED
  BY <1>1, <1>2, <1>3 DEF SyncedCatalogAgrees, EntryOf

\* What a request that writes one row preserves.
LEMMA WritePreserves ==
  ASSUME IInv,
         NEW id \in Ids, NEW row \in Page \cup {Gone},
         Moves(rows[id], row),
         IsPage(row) /\ row.state = "PUBLISHED" => row.content = row.published,
         IsPage(row) => On(rows, row.content.route) \subseteq {id},
         WriteAndSync(id, row) \/ WriteOnly(id, row)
  PROVE  IInv'
<1>1. rows' = [rows EXCEPT ![id] = row] /\ UNCHANGED <<cache, seen>>
  BY DEF WriteAndSync, WriteOnly
<1>2. rows' \in Tables
  BY <1>1 DEF IInv, TypeOK, Tables
<1>3. catalog' \in Catalogs \cup {Unreadable} /\ dirty' \subseteq Ids
  BY <1>2, SyncedCatalogType DEF IInv, TypeOK, WriteAndSync, WriteOnly, SyncSucceeds, SyncThrows
<1>4. TypeOK'
  BY <1>1, <1>2, <1>3 DEF IInv, TypeOK
<1>5. PublishedIsWhatShows'
  BY <1>1 DEF IInv, TypeOK, Tables, PublishedIsWhatShows
<1>6. ASSUME NEW i \in Ids PROVE Moves(rows[i], rows'[i])
  BY <1>1, OlderReflexive DEF IInv, TypeOK, Tables
<1>7. ASSUME NEW i \in Ids, NEW s \in Page \cup {Absent, Gone}, Older(s, rows[i])
      PROVE  Older(s, rows'[i])
  BY <1>2, <1>6, <1>7, OlderTransitive DEF IInv, TypeOK, Tables
<1>8. ASSUME NEW o \in Operators, NEW i \in Ids PROVE Older(seen[o][i], rows'[i])
  BY <1>7 DEF IInv, TypeOK, Tables, SnapshotsOlder
<1>9. ASSUME cache # Absent, NEW i \in Ids PROVE Older(cache[i], rows'[i])
  BY <1>7, <1>9 DEF IInv, TypeOK, Tables, SnapshotsOlder
<1>10. SnapshotsOlder'
  BY <1>1, <1>8, <1>9 DEF SnapshotsOlder
<1>11. RoutesUnique'
  BY <1>1 DEF IInv, TypeOK, Tables, RoutesUnique, On
<1>12. SyncedCatalogAgrees'
  <2>1. CASE SyncSucceeds(rows')
    BY <1>2, <1>11, <2>1, SyncPreserves DEF SyncSucceeds, IInv, TypeOK
  <2>2. CASE UNCHANGED catalog /\ dirty' = dirty \cup {id}
    BY <1>1, <2>2 DEF SyncedCatalogAgrees, IInv, TypeOK, Tables
  <2>3. CASE dirty' = Ids
    BY <2>3 DEF SyncedCatalogAgrees
  <2>4. QED
    BY <2>1, <2>2, <2>3 DEF WriteAndSync, WriteOnly, SyncThrows
<1>13. QED
  BY <1>4, <1>5, <1>10, <1>11, <1>12 DEF IInv

-----------------------------------------------------------------------------
LEMMA InitIInv == Init => IInv
<1> SUFFICES ASSUME Init PROVE IInv
  OBVIOUS
<1>1. TypeOK
  BY SentinelAssumption DEF Init, TypeOK, Tables
<1>2. \A id \in Ids : ~IsPage(rows[id])
  BY DEF Init, IsPage
<1>3. PublishedIsWhatShows
  BY <1>2 DEF PublishedIsWhatShows
<1>4. SnapshotsOlder
  BY <1>2 DEF SnapshotsOlder, Older, Init
<1>5. RoutesUnique /\ SyncedCatalogAgrees
  BY <1>2 DEF RoutesUnique, SyncedCatalogAgrees
<1>6. QED
  BY <1>1, <1>3, <1>4, <1>5 DEF IInv

\* A page that keeps its route keeps it alone.
LEMMA RouteKept ==
  ASSUME IInv, NEW id \in Ids, IsPage(rows[id])
  PROVE  On(rows, rows[id].content.route) \subseteq {id}
BY DEF IInv, RoutesUnique, On

LEMMA StepIInv == IInv /\ [Next]_vars => IInv'
<1> SUFFICES ASSUME IInv, [Next]_vars PROVE IInv'
  OBVIOUS
<1> USE DEF IInv
<1>1. ASSUME NEW o \in Operators, List(o) PROVE IInv'
  <2> DEFINE answer == IF cache = Absent THEN rows ELSE cache
  <2>1. answer \in Tables /\ answer # Absent
    BY SentinelAssumption DEF TypeOK, Tables
  <2>2. \A id \in Ids : Older(answer[id], rows[id])
    BY OlderReflexive DEF TypeOK, Tables, SnapshotsOlder, Moves
  <2>3. seen' = [seen EXCEPT ![o] = answer] /\ cache' = answer
        /\ UNCHANGED <<rows, catalog, dirty>>
    BY <1>1 DEF List
  <2>4. TypeOK' /\ PublishedIsWhatShows'
    BY <2>1, <2>3 DEF TypeOK, PublishedIsWhatShows
  <2>5. SnapshotsOlder'
    BY <2>2, <2>3 DEF SnapshotsOlder, TypeOK
  <2>6. RoutesUnique' /\ SyncedCatalogAgrees'
    BY <2>3 DEF RoutesUnique, SyncedCatalogAgrees
  <2>7. QED
    BY <2>4, <2>5, <2>6
<1>2. CASE CacheExpires
  BY <1>2 DEF CacheExpires, TypeOK, PublishedIsWhatShows, SnapshotsOlder, RoutesUnique,
              SyncedCatalogAgrees
<1>3. ASSUME NEW id \in Ids, NEW c \in Contents, Create(id, c) PROVE IInv'
  <2> DEFINE row == [content |-> c, published |-> Absent, state |-> "DRAFT",
                     active |-> FALSE, version |-> 1]
  <2>1. row \in Page
    BY PagesAssumption DEF Page
  <2>2. Moves(rows[id], row)
    BY <1>3, SentinelAssumption DEF Create, Moves, Older, IsPage
  <2>3. QED
    BY <1>3, <2>1, <2>2, WritePreserves DEF Create
<1>4. ASSUME NEW o \in Operators, NEW id \in Ids, NEW c \in Contents, Update(o, id, c)
      PROVE  IInv'
  <2> DEFINE row == [rows[id] EXCEPT !.content = c, !.state = "DRAFT",
                       !.active = @ /\ rows[id].state # "PUBLISHED"]
  <2>1. rows[id] \in Page
    BY <1>4 DEF Update, VersionMatches, IsPage, TypeOK, Tables
  <2>2. /\ row \in Page /\ row.state = "DRAFT"
        /\ row.version = rows[id].version /\ row.published = rows[id].published
    BY <2>1 DEF Page
  <2>3. Moves(rows[id], row)
    BY <2>1, <2>2, PageMoves
  <2>4. On(rows, row.content.route) \subseteq {id}
    BY <1>4, <2>1 DEF Update, RouteFree, Page
  <2>5. QED
    BY <1>4, <2>2, <2>3, <2>4, WritePreserves DEF Update
<1>5. ASSUME NEW o \in Operators, NEW id \in Ids, Publish(o, id) PROVE IInv'
  <2> DEFINE row == [rows[id] EXCEPT !.state = "PUBLISHED", !.version = @ + 1,
                       !.published = rows[id].content]
  <2>1. rows[id] \in Page /\ rows[id].version < MaxVersion
    BY <1>5 DEF Publish, VersionMatches, IsPage, TypeOK, Tables
  <2>2. /\ rows[id].version \in Nat /\ rows[id].version + 1 \in 1..MaxVersion
        /\ rows[id].content \in Contents /\ rows[id].active \in BOOLEAN
    BY <2>1, PagesAssumption DEF Page
  <2>3. /\ row.content = rows[id].content /\ row.published = rows[id].content
        /\ row.version = rows[id].version + 1
    BY <2>1 DEF Page
  <2>4. row \in Page
    BY <2>1, <2>2 DEF Page
  <2>5. rows[id].version < row.version
    BY <2>2, <2>3
  <2>6. Moves(rows[id], row)
    BY <2>1, <2>4, <2>5, PageMoves
  <2>7. On(rows, row.content.route) \subseteq {id}
    BY <2>1, <2>3, PageIsPage, RouteKept
  <2>8. QED
    BY <1>5, <2>3, <2>4, <2>6, <2>7, WritePreserves DEF Publish
<1>6. ASSUME NEW o \in Operators, NEW id \in Ids, Revert(o, id) PROVE IInv'
  <2> DEFINE row == [rows[id] EXCEPT !.content = rows[id].published, !.state = "DRAFT",
                       !.active = FALSE]
  <2>1. rows[id] \in Page /\ rows[id].published # Absent
    BY <1>6 DEF Revert, IsPage, TypeOK, Tables
  <2>2. /\ row \in Page /\ row.state = "DRAFT"
        /\ row.version = rows[id].version /\ row.published = rows[id].published
    BY <2>1 DEF Page
  <2>3. Moves(rows[id], row)
    BY <2>1, <2>2, PageMoves
  <2>4. On(rows, row.content.route) \subseteq {id}
    BY <1>6, <2>1 DEF Revert, RouteFree, Page
  <2>5. QED
    BY <1>6, <2>2, <2>3, <2>4, WritePreserves DEF Revert
<1>7. ASSUME NEW o \in Operators, NEW id \in Ids, Activate(o, id) \/ Deactivate(o, id)
      PROVE  IInv'
  <2>1. PICK on \in BOOLEAN : WriteAndSync(id, [rows[id] EXCEPT !.active = on])
    BY <1>7 DEF Activate, Deactivate
  <2> DEFINE row == [rows[id] EXCEPT !.active = on]
  <2>2. rows[id] \in Page
    BY <1>7 DEF Activate, Deactivate, VersionMatches, IsPage, TypeOK, Tables
  <2>3. /\ row \in Page /\ row.state = rows[id].state /\ row.content = rows[id].content
        /\ row.version = rows[id].version /\ row.published = rows[id].published
    BY <2>2 DEF Page
  <2>4. Moves(rows[id], row)
    BY <2>2, <2>3, PageMoves
  <2>5. row.state = "PUBLISHED" => row.content = row.published
    BY <2>2, <2>3, PageIsPage DEF PublishedIsWhatShows
  <2>6. On(rows, row.content.route) \subseteq {id}
    BY <2>2, <2>3, PageIsPage, RouteKept
  <2>7. QED
    BY <2>1, <2>3, <2>4, <2>5, <2>6, WritePreserves
<1>8. ASSUME NEW o \in Operators, NEW id \in Ids, Delete(o, id) PROVE IInv'
  <2>1. Moves(rows[id], Gone) /\ ~IsPage(Gone)
    BY DEF Moves, Older, IsPage
  <2>2. QED
    BY <1>8, <2>1, WritePreserves DEF Delete
<1>9. CASE SyncCatalog
  <2>1. UNCHANGED <<rows, cache, seen>>
    BY <1>9 DEF SyncCatalog
  <2>2. rows' \in Tables /\ RoutesUnique' /\ PublishedIsWhatShows' /\ SnapshotsOlder'
    BY <2>1 DEF TypeOK, RoutesUnique, PublishedIsWhatShows, SnapshotsOlder
  <2>3. CASE SyncSucceeds(rows)
    <3>1. SyncSucceeds(rows') /\ catalog \in Catalogs
      BY <2>1, <2>3 DEF SyncSucceeds, SyncedCatalog, TypeOK
    <3>2. catalog' \in Catalogs /\ SyncedCatalogAgrees'
      BY <2>2, <3>1, SyncPreserves
    <3>3. TypeOK'
      BY <2>1, <2>3, <3>2 DEF TypeOK, SyncSucceeds
    <3> QED BY <2>2, <3>2, <3>3
  <2>4. CASE SyncThrows({})
    <3>1. TypeOK'
      BY <2>1, <2>4 DEF TypeOK, SyncThrows
    <3>2. SyncedCatalogAgrees'
      BY <2>1, <2>4 DEF SyncedCatalogAgrees, SyncThrows
    <3> QED BY <2>2, <3>1, <3>2
  <2>5. QED
    BY <1>9, <2>3, <2>4 DEF SyncCatalog
<1>10. CASE UNCHANGED vars
  BY <1>10 DEF vars, TypeOK, PublishedIsWhatShows, SnapshotsOlder, RoutesUnique,
               SyncedCatalogAgrees
<1>11. QED
  BY <1>1, <1>2, <1>3, <1>4, <1>5, <1>6, <1>7, <1>8, <1>9, <1>10 DEF Next

THEOREM SpecIInv == Spec => []IInv
  BY InitIInv, StepIInv, PTL DEF Spec

\* Every variable keeps its type.
THEOREM SpecTypeOK == Spec => []TypeOK
<1>1. IInv => TypeOK
  BY DEF IInv
<1>2. QED
  BY <1>1, SpecIInv, PTL

\* A page that says PUBLISHED shows what was published (index.ts 1024-1029).
THEOREM SpecPublishedIsWhatShows == Spec => []PublishedIsWhatShows
<1>1. IInv => PublishedIsWhatShows
  BY DEF IInv
<1>2. QED
  BY <1>1, SpecIInv, PTL

\* A version names one publication, in the tables of any number of operators
\* and in the cached list (index.ts 1017-1023, 1078).
THEOREM SpecVersionNamesPublication == Spec => []VersionNamesPublication
<1>1. IInv => VersionNamesPublication
  BY DEF IInv, SnapshotsOlder, Older, VersionNamesPublication, IsPage
<1>2. QED
  BY <1>1, SpecIInv, PTL

\* Every page not written since a synchronisation last succeeded has its columns in
\* the catalogue, for any pages, routes and contents, whatever a host has at the
\* path of the file and however its writes fail (index.ts 177-211).
THEOREM SpecSyncedCatalogAgrees == Spec => []SyncedCatalogAgrees
<1>1. IInv => SyncedCatalogAgrees
  BY DEF IInv
<1>2. QED
  BY <1>1, SpecIInv, PTL

\* Every page has been written since a synchronisation last succeeded.
NothingSynchronised == \A id \in Ids : IsPage(rows[id]) => id \in dirty

\* As the repository is, without a file at the path of line 178, no request
\* ever synchronises a page, although all but sync-catalog answer success.
THEOREM SpecNothingSynchronised ==
  ASSUME Shipped = {Unreadable}
  PROVE  Spec => []NothingSynchronised
<1>1. Init => catalog = Unreadable
  BY DEF Init
<1>2. catalog = Unreadable /\ [Next]_vars => (catalog = Unreadable)'
  BY DEF Next, vars, List, CacheExpires, Create, Update, Publish, Revert, Activate,
         Deactivate, Delete, SyncCatalog, WriteAndSync, WriteOnly, SyncSucceeds, SyncThrows
<1>3. IInv /\ catalog = Unreadable => NothingSynchronised
  BY DEF IInv, SyncedCatalogAgrees, NothingSynchronised
<1>4. QED
  BY <1>1, <1>2, <1>3, SpecIInv, PTL DEF Spec

=============================================================================
