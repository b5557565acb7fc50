--------------------------- MODULE TenantOverrides ---------------------------
(***************************************************************************)
(* platform/tenantOverrides and the control-plane commands on it, for one  *)
(* tenant.  The browser tabs of an operator share two files kept in        *)
(* localStorage, overrides.json and safe_mode.json; the SAFE_MODE latch,   *)
(* the override cache and the provenance live in the memory of each tab.   *)
(*                                                                         *)
(* localStorage is synchronous: every await in these commands resolves in  *)
(* a microtask, so a command runs in its tab without interruption and is   *)
(* one action.  What interleaves is the commands of different tabs, reloads *)
(* that lose a tab's memory, and writes that fail: vfsSet reports a failure *)
(* in a result that its callers here do not look at.                       *)
(***************************************************************************)
EXTENDS Naturals

CONSTANTS Tabs,
          Payloads,    \* valid overrides an operator may write
          Oversized,   \* those of them the guard rejects (over 50 000 characters)
          Default,     \* the empty overrides that stand for a missing file
          Absent,      \* no file, nothing cached, no provenance
          Corrupt,     \* a file that does not parse or validate
          Prod         \* isProdEnv()

ASSUME TenantAssumption ==
  /\ Oversized \subseteq Payloads
  /\ Prod \in BOOLEAN
  /\ Default \notin Payloads /\ Absent \notin Payloads /\ Corrupt \notin Payloads
  /\ Default # Absent /\ Default # Corrupt /\ Absent # Corrupt

VARIABLES overridesFile, safeFile,     \* shared storage
          latch, cache, provenance,    \* memory of each tab
          everStored,                  \* history: payloads that reached storage
          settled                      \* history: tabs no file has changed behind since they loaded

vars == <<overridesFile, safeFile, latch, cache, provenance, everStored, settled>>

Decisions == {"APPLIED", "IGNORED_SAFE_MODE", "REJECTED_GUARD", "FAILED_READ"}

TypeOK ==
  /\ overridesFile \in Payloads \cup {Absent, Corrupt}
  /\ safeFile \in {"on", "off"} \cup {Absent, Corrupt}
  /\ latch \in [Tabs -> BOOLEAN]
  /\ cache \in [Tabs -> Payloads \cup {Default, Absent}]
  /\ provenance \in [Tabs -> {Absent} \cup
        [decision: Decisions, content: Payloads \cup {Default, Absent},
         source: {"vfs", "cp.write"}]]
  /\ everStored \subseteq Payloads
  /\ settled \subseteq Tabs

-----------------------------------------------------------------------------
(* Reading. *)

\* readTenantSafeMode: a record that cannot be trusted counts as enabled in production.
PersistedEnabled(file) == file = "on" \/ (file = Corrupt /\ Prod)

\* Mutant: an unreadable file is not noticed.
MutUnreadable(file) == FALSE

\* JSON.parse or validateTenantOverrides throws.
Unreadable(file) == file = Corrupt

\* getTenantOverridesCache: what the resolvers of a tab see.
Visible(t) == IF latch[t] THEN Absent ELSE cache[t]

\* readTenantOverrides of a file that is not corrupt.
Content(file) == IF file = Absent THEN Default ELSE file

\* Mutant: the guard forgets the size limit.
MutGuardRejects(content) == FALSE

\* guardTenantOverrides.  What readTenantOverrides validated fails on its size only.
GuardRejects(content) == content \in Oversized

Told(decision, content, source) ==
  [decision |-> decision, content |-> content, source |-> source]

\* What a hydration makes of a tab, given its latch and the files: the new
\* latch and cache, the provenance, and whether the guard asks for SAFE_MODE.
Hydrated(held, oldCache, file) ==
  LET keep(decision, tripped) ==
        [latch |-> held \/ tripped, cache |-> oldCache, tripped |-> tripped,
         told |-> Told(decision, IF tripped THEN Content(file) ELSE Absent, "vfs")]
  IN  CASE held -> keep("IGNORED_SAFE_MODE", FALSE)
        [] ~held /\ Unreadable(file) -> keep("FAILED_READ", FALSE)
        [] ~held /\ ~Unreadable(file) /\ GuardRejects(Content(file)) ->
             keep("REJECTED_GUARD", TRUE)
        [] OTHER -> [latch |-> FALSE, cache |-> Content(file), tripped |-> FALSE,
                     told |-> Told("APPLIED", Content(file), "vfs")]

-----------------------------------------------------------------------------
(* Writing: vfsSet either stores the value or swallows the exception. *)

\* enable and clear of SAFE_MODE, and the guard, write safe_mode.json.
PersistSafeMode(value) ==
  \/ safeFile' = value
  \/ UNCHANGED safeFile

\* writeTenantOverrides writes overrides.json.
PersistOverrides(payload) ==
  /\ overridesFile' = payload \/ UNCHANGED overridesFile
  /\ everStored' = everStored \cup ({overridesFile'} \cap Payloads)

\* A file that changes leaves every tab but the writer behind.
Unsettle(t) ==
  settled' = IF overridesFile' = overridesFile /\ safeFile' = safeFile
             THEN settled ELSE settled \cap {t}

Adopt(t, h) ==
  /\ latch' = [latch EXCEPT ![t] = h.latch]
  /\ cache' = [cache EXCEPT ![t] = h.cache]
  /\ IF h.tripped THEN PersistSafeMode("on") ELSE UNCHANGED safeFile

Init ==
  /\ overridesFile = Absent /\ safeFile = Absent
  /\ latch = [t \in Tabs |-> FALSE]
  /\ cache = [t \in Tabs |-> Absent]
  /\ provenance = [t \in Tabs |-> Absent]
  /\ everStored = {} /\ settled = {}

\* A tab has loaded once its hydration has left a provenance.
Running(t) == provenance[t] # Absent

\* Mutant: the bootstrap hydrates the overrides without restoring SAFE_MODE first.
MutLoad(t) ==
  LET h == Hydrated(FALSE, Absent, overridesFile)
  IN  /\ Adopt(t, h)
      /\ provenance' = [provenance EXCEPT ![t] = h.told]
      /\ settled' = {t} \cup (IF safeFile' = safeFile THEN settled ELSE {})
      /\ UNCHANGED <<overridesFile, everStored>>

\* A tab is opened or reloaded: its memory is gone and main.ts runs
\* hydrateTenantRuntime, SAFE_MODE first, then the overrides.
Load(t) ==
  LET h == Hydrated(PersistedEnabled(safeFile), Absent, overridesFile)
  IN  /\ Adopt(t, h)
      /\ provenance' = [provenance EXCEPT ![t] = h.told]
      /\ settled' = {t} \cup (IF safeFile' = safeFile THEN settled ELSE {})
      /\ UNCHANGED <<overridesFile, everStored>>

\* hydrateTenantOverrides called again in a running tab.
Hydrate(t) ==
  LET h == Hydrated(latch[t], cache[t], overridesFile)
  IN  /\ Running(t)
      /\ Adopt(t, h)
      /\ provenance' = [provenance EXCEPT ![t] = h.told]
      /\ UNCHANGED <<overridesFile, everStored>>
      /\ Unsettle(t)

\* Mutant: the payload is cached as it was given, whatever became of the write.
MutWrite(t, payload) ==
  /\ Running(t)
  /\ PersistOverrides(payload)
  /\ cache' = [cache EXCEPT ![t] = IF GuardRejects(payload) THEN @ ELSE payload]
  /\ provenance' = [provenance EXCEPT ![t] = Told("APPLIED", payload, "cp.write")]
  /\ UNCHANGED <<latch, safeFile>>
  /\ Unsettle(t)

\* cpWriteTenantOverrides: write, hydrate, and then tell APPLIED whatever
\* the write and the hydration came to.
Write(t, payload) ==
  /\ Running(t)
  /\ PersistOverrides(payload)
  /\ Adopt(t, Hydrated(latch[t], cache[t], overridesFile'))
  /\ provenance' = [provenance EXCEPT ![t] = Told("APPLIED", payload, "cp.write")]
  /\ Unsettle(t)

\* cpEnableTenantOverridesSafeMode.
EnableSafeMode(t) ==
  /\ Running(t)
  /\ latch' = [latch EXCEPT ![t] = TRUE]
  /\ PersistSafeMode("on")
  /\ UNCHANGED <<overridesFile, cache, provenance, everStored>>
  /\ settled' = settled \ (IF safeFile' = safeFile THEN {t} ELSE Tabs)

\* Mutant: clearing drops the cache as well.
MutClearSafeMode(t) ==
  /\ Running(t)
  /\ latch' = [latch EXCEPT ![t] = FALSE]
  /\ cache' = [cache EXCEPT ![t] = Absent]
  /\ PersistSafeMode("off")
  /\ UNCHANGED <<overridesFile, provenance, everStored>>
  /\ settled' = settled \ (IF safeFile' = safeFile THEN {t} ELSE Tabs)

\* cpClearTenantOverridesSafeMode: the cache, if any, shows again as it was.
ClearSafeMode(t) ==
  /\ Running(t)
  /\ latch' = [latch EXCEPT ![t] = FALSE]
  /\ PersistSafeMode("off")
  /\ UNCHANGED <<overridesFile, cache, provenance, everStored>>
  /\ settled' = settled \ (IF safeFile' = safeFile THEN {t} ELSE Tabs)

\* Something outside this code damages a file in localStorage.
Damage ==
  /\ \/ overridesFile' = Corrupt /\ UNCHANGED safeFile
     \/ safeFile' = Corrupt /\ UNCHANGED overridesFile
  /\ settled' = {}
  /\ UNCHANGED <<latch, cache, provenance, everStored>>

Next ==
  \/ \E t \in Tabs : Load(t) \/ Hydrate(t) \/ EnableSafeMode(t) \/ ClearSafeMode(t)
  \/ \E t \in Tabs, payload \in Payloads : Write(t, payload)
  \/ Damage

Spec == Init /\ [][Next]_vars

-----------------------------------------------------------------------------
(* Properties. *)

\* Overrides the guard rejects never reach a resolver, in any tab, through
\* writes, reloads and SAFE_MODE going on and off (guard.ts, hydrate.ts 58-78).
RejectedNeverServed == \A t \in Tabs : cache[t] \notin Oversized

\* What a tab serves was in storage at some time: a write that failed is never
\* served, although its result is dropped (store.ts 63).
ServedWasStored == \A t \in Tabs : cache[t] \in everStored \cup {Default, Absent}

\* When hydration says it applied something, that is what the tab has cached,
\* until the next command there (hydrate.ts 78-93).
HydrationProvenanceHonest ==
  \A t \in Tabs :
    provenance[t] # Absent /\ provenance[t].source = "vfs"
      /\ provenance[t].decision = "APPLIED"
    => cache[t] = provenance[t].content

\* A tab that has loaded since the last change of the files agrees with them: SAFE_MODE
\* that was persisted, or whose record is corrupt in production, hides
\* everything, and otherwise what is served is what is stored
\* (hydrateTenantRuntime's order: SAFE_MODE, then overrides).
LoadedAgreesWithStorage ==
  \A t \in settled :
    /\ PersistedEnabled(safeFile) => latch[t]
    /\ ~latch[t] => \/ overridesFile = Corrupt
                    \/ Visible(t) = Content(overridesFile)

=============================================================================
