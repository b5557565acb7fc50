------------------------ MODULE TenantOverridesProofs ------------------------
(***************************************************************************)
(* Theorems about TenantOverrides for any tabs and payloads, in production *)
(* or not: its types, what a tab may serve, and that a tab which has       *)
(* loaded since the files last changed agrees with them.                   *)
(***************************************************************************)
EXTENDS TenantOverrides, TLAPS

USE TenantAssumption

\* What is in the file has reached it, so a cache filled from it has too.
FileWasStored == overridesFile \in everStored \cup {Absent, Corrupt}

IInv ==
  /\ TypeOK
  /\ FileWasStored
  /\ RejectedNeverServed
  /\ ServedWasStored
  /\ HydrationProvenanceHonest
  /\ LoadedAgreesWithStorage

-----------------------------------------------------------------------------
(* A hydration. *)

\* It ignores the file, fails to read it, has it rejected, or applies it.
Outcome(h, held, old, file) ==
  \/ /\ held
     /\ h.latch = TRUE /\ h.cache = old /\ h.tripped = FALSE
     /\ h.told = Told("IGNORED_SAFE_MODE", Absent, "vfs")
  \/ /\ ~held /\ file = Corrupt
     /\ h.latch = FALSE /\ h.cache = old /\ h.tripped = FALSE
     /\ h.told = Told("FAILED_READ", Absent, "vfs")
  \/ /\ ~held /\ file # Corrupt /\ Content(file) \in Oversized
     /\ h.latch = TRUE /\ h.cache = old /\ h.tripped = TRUE
     /\ h.told = Told("REJECTED_GUARD", Content(file), "vfs")
  \/ /\ ~held /\ file # Corrupt /\ Content(file) \notin Oversized
     /\ h.latch = FALSE /\ h.cache = Content(file) /\ h.tripped = FALSE
     /\ h.told = Told("APPLIED", Content(file), "vfs")

\* hydrate.ts decides in this order: latch, read, guard, apply (lines 38-93).
LEMMA HydratedOutcome ==
  ASSUME NEW held \in BOOLEAN, NEW old, NEW file
  PROVE  Outcome(Hydrated(held, old, file), held, old, file)
<1>1. CASE held
  BY <1>1 DEF Hydrated, Outcome
<1>2. CASE ~held /\ file = Corrupt
  BY <1>2 DEF Hydrated, Outcome, Unreadable
<1>3. CASE ~held /\ file # Corrupt /\ Content(file) \in Oversized
  BY <1>3 DEF Hydrated, Outcome, Unreadable, GuardRejects
<1>4. CASE ~held /\ file # Corrupt /\ Content(file) \notin Oversized
  BY <1>4 DEF Hydrated, Outcome, Unreadable, GuardRejects
<1>5. QED
  BY <1>1, <1>2, <1>3, <1>4

\* What a hydration makes of a tab is typed, was stored, and the guard let it
\* through, if that is so of the file and of the cache it starts from.
LEMMA AdoptServes ==
  ASSUME TypeOK, RejectedNeverServed, ServedWasStored, everStored \subseteq everStored',
         NEW file \in Payloads \cup {Absent, Corrupt}, file \in everStored' \cup {Absent, Corrupt},
         NEW held \in BOOLEAN, NEW t \in Tabs, NEW old \in {cache[t], Absent},
         Adopt(t, Hydrated(held, old, file))
  PROVE  /\ latch' \in [Tabs -> BOOLEAN]
         /\ cache' \in [Tabs -> Payloads \cup {Default, Absent}]
         /\ safeFile' \in {"on", "off"} \cup {Absent, Corrupt}
         /\ RejectedNeverServed'
         /\ ServedWasStored'
<1> DEFINE h == Hydrated(held, old, file)
<1>1. Outcome(h, held, old, file)
  BY HydratedOutcome
<1>2. /\ h.latch \in BOOLEAN
      /\ h.cache \in (Payloads \cup {Default, Absent}) \ Oversized
      /\ h.cache \in everStored' \cup {Default, Absent}
  <2>1. /\ old \in (Payloads \cup {Default, Absent}) \ Oversized
        /\ old \in everStored' \cup {Default, Absent}
    BY DEF TypeOK, RejectedNeverServed, ServedWasStored
  <2>2. file # Corrupt => /\ Content(file) \in Payloads \cup {Default}
                          /\ Content(file) \in everStored' \cup {Default}
    BY DEF Content
  <2>3. h.latch \in BOOLEAN
    BY <1>1 DEF Outcome
  <2>4. h.cache = old \/ (file # Corrupt /\ h.cache = Content(file) /\ Content(file) \notin Oversized)
    BY <1>1 DEF Outcome
  <2>5. QED
    BY <2>1, <2>2, <2>3, <2>4
<1>3. /\ latch' = [latch EXCEPT ![t] = h.latch]
      /\ cache' = [cache EXCEPT ![t] = h.cache]
      /\ safeFile' \in {"on", safeFile}
  BY DEF Adopt, PersistSafeMode
<1>4. QED
  BY <1>2, <1>3 DEF TypeOK, RejectedNeverServed, ServedWasStored

\* A tab whose memory a hydration has just filled from the files agrees with them.
LEMMA AdoptAgrees ==
  ASSUME TypeOK, NEW t \in Tabs, NEW held \in BOOLEAN, NEW old,
         Adopt(t, Hydrated(held, old, overridesFile')),
         PersistedEnabled(safeFile) => held
  PROVE  /\ PersistedEnabled(safeFile') => latch'[t]
         /\ ~latch'[t] => \/ overridesFile' = Corrupt
                          \/ cache'[t] = Content(overridesFile')
<1> DEFINE h == Hydrated(held, old, overridesFile')
<1>1. Outcome(h, held, old, overridesFile')
  BY HydratedOutcome
<1>2. /\ latch'[t] = h.latch /\ cache'[t] = h.cache
      /\ safeFile' = safeFile \/ h.tripped
  BY DEF Adopt, PersistSafeMode, TypeOK
<1>3. h.latch \/ (~held /\ ~h.tripped /\ (overridesFile' = Corrupt \/ h.cache = Content(overridesFile')))
  BY <1>1 DEF Outcome
<1>4. held => h.latch
  BY <1>1 DEF Outcome
<1>5. QED
  BY <1>2, <1>3, <1>4

\* A hydration that says it applied something has put that in the cache.
LEMMA AdoptHonest ==
  ASSUME TypeOK, NEW t \in Tabs, NEW held \in BOOLEAN, NEW old, NEW file,
         Adopt(t, Hydrated(held, old, file)),
         Hydrated(held, old, file).told.decision = "APPLIED"
  PROVE  cache'[t] = Hydrated(held, old, file).told.content
<1>1. Outcome(Hydrated(held, old, file), held, old, file)
  BY HydratedOutcome
<1>2. cache'[t] = Hydrated(held, old, file).cache
  BY DEF Adopt, TypeOK
<1>3. QED
  BY <1>1, <1>2 DEF Outcome, Told

-----------------------------------------------------------------------------
(* The steps. *)

LEMMA InitIInv == Init => IInv
BY DEF Init, IInv, TypeOK, FileWasStored, RejectedNeverServed, ServedWasStored,
       HydrationProvenanceHonest, LoadedAgreesWithStorage

\* A command that ends with a hydration of tab t, from latch held and cache old,
\* and tells told of it, preserves the invariant if it leaves settled no other tab
\* behind a file that changed.
LEMMA HydrationIInv ==
  ASSUME IInv, NEW t \in Tabs, NEW held \in BOOLEAN, NEW old \in {cache[t], Absent},
         Adopt(t, Hydrated(held, old, overridesFile')),
         overridesFile' \in Payloads \cup {Absent, Corrupt},
         overridesFile' \in everStored' \cup {Absent, Corrupt},
         everStored \subseteq everStored', everStored' \subseteq Payloads,
         NEW told \in [decision: Decisions, content: Payloads \cup {Default, Absent},
                       source: {"vfs", "cp.write"}],
         provenance' = [provenance EXCEPT ![t] = told],
         \/ told = Hydrated(held, old, overridesFile').told
         \/ told.source # "vfs",
         settled' \subseteq settled \cup {t},
         t \in settled' /\ PersistedEnabled(safeFile) => held,
         \A u \in settled' \ {t} : overridesFile' = overridesFile /\ safeFile' = safeFile
  PROVE  IInv'
<1> DEFINE file == overridesFile'
           h == Hydrated(held, old, file)
<1>1. /\ TypeOK /\ FileWasStored /\ RejectedNeverServed /\ ServedWasStored
      /\ HydrationProvenanceHonest /\ LoadedAgreesWithStorage
  BY DEF IInv
<1>2. /\ latch' \in [Tabs -> BOOLEAN]
      /\ cache' \in [Tabs -> Payloads \cup {Default, Absent}]
      /\ safeFile' \in {"on", "off"} \cup {Absent, Corrupt}
      /\ RejectedNeverServed' /\ ServedWasStored'
  BY <1>1, AdoptServes
<1>3. TypeOK' /\ FileWasStored'
  BY <1>1, <1>2 DEF TypeOK, FileWasStored
<1>4. \A u \in Tabs \ {t} : /\ latch'[u] = latch[u] /\ cache'[u] = cache[u]
                             /\ provenance'[u] = provenance[u]
  BY <1>1 DEF Adopt, TypeOK
<1>5. HydrationProvenanceHonest'
  <2> SUFFICES ASSUME NEW u \in Tabs, provenance'[u] # Absent,
                      provenance'[u].source = "vfs", provenance'[u].decision = "APPLIED"
               PROVE  cache'[u] = provenance'[u].content
    BY DEF HydrationProvenanceHonest
  <2>1. CASE u = t
    <3>1. provenance'[t] = told
      BY <1>1 DEF TypeOK
    <3>2. QED
      BY <2>1, <3>1, <1>1, AdoptHonest
  <2>2. CASE u # t
    BY <2>2, <1>1, <1>4 DEF HydrationProvenanceHonest
  <2>3. QED
    BY <2>1, <2>2
<1>6. LoadedAgreesWithStorage'
  <2> SUFFICES ASSUME NEW u \in settled'
               PROVE  /\ PersistedEnabled(safeFile') => latch'[u]
                      /\ ~latch'[u] => \/ overridesFile' = Corrupt
                                       \/ Visible(u)' = Content(overridesFile')
    BY DEF LoadedAgreesWithStorage
  <2>1. CASE u = t
    BY <2>1, <1>1, AdoptAgrees DEF Visible
  <2>2. CASE u # t
    <3>1. u \in Tabs /\ u \in settled
      BY <2>2, <1>1 DEF TypeOK
    <3>2. QED
      BY <2>2, <3>1, <1>1, <1>4 DEF LoadedAgreesWithStorage, Visible
  <2>3. QED
    BY <2>1, <2>2
<1>7. QED
  BY <1>2, <1>3, <1>5, <1>6 DEF IInv

\* A tab that is running and settled holds the latch when SAFE_MODE is persisted.
LEMMA SettledLatch ==
  ASSUME IInv, NEW t \in Tabs
  PROVE  /\ latch[t] \in BOOLEAN
         /\ t \in settled /\ PersistedEnabled(safeFile) => latch[t]
BY DEF IInv, TypeOK, LoadedAgreesWithStorage

\* What hydration tells has the type of a provenance (hydrate.ts 38-93).
LEMMA ToldType ==
  ASSUME NEW held \in BOOLEAN, NEW old, NEW file \in Payloads \cup {Absent, Corrupt}
  PROVE  Hydrated(held, old, file).told \in
           [decision: Decisions, content: Payloads \cup {Default, Absent},
            source: {"vfs", "cp.write"}]
<1>1. Outcome(Hydrated(held, old, file), held, old, file)
  BY HydratedOutcome
<1>2. file # Corrupt => Content(file) \in Payloads \cup {Default}
  BY DEF Content
<1>3. \E decision \in Decisions, content \in Payloads \cup {Default, Absent} :
        Hydrated(held, old, file).told = Told(decision, content, "vfs")
  BY <1>1, <1>2 DEF Outcome, Decisions
<1>4. QED
  BY <1>3 DEF Told

LEMMA LoadIInv ==
  ASSUME IInv, NEW t \in Tabs, Load(t)
  PROVE  IInv'
<1> DEFINE held == PersistedEnabled(safeFile)
           h == Hydrated(held, Absent, overridesFile)
<1>1. TypeOK /\ FileWasStored
  BY DEF IInv
<1>2. /\ Adopt(t, h)
      /\ provenance' = [provenance EXCEPT ![t] = h.told]
      /\ settled' = {t} \cup (IF safeFile' = safeFile THEN settled ELSE {})
      /\ overridesFile' = overridesFile /\ everStored' = everStored
  BY DEF Load
<1>3. held \in BOOLEAN
  BY DEF PersistedEnabled
<1>4. /\ overridesFile \in Payloads \cup {Absent, Corrupt}
      /\ overridesFile \in everStored \cup {Absent, Corrupt}
      /\ everStored \subseteq Payloads
  BY <1>1 DEF TypeOK, FileWasStored
<1>5. h.told \in [decision: Decisions, content: Payloads \cup {Default, Absent},
                  source: {"vfs", "cp.write"}]
  BY <1>3, <1>4, ToldType
<1> HIDE DEF held
<1>6. PersistedEnabled(safeFile) => held
  BY DEF held
<1>7. QED
  BY <1>2, <1>3, <1>4, <1>5, <1>6, HydrationIInv

LEMMA HydrateIInv ==
  ASSUME IInv, NEW t \in Tabs, Hydrate(t)
  PROVE  IInv'
<1> DEFINE h == Hydrated(latch[t], cache[t], overridesFile)
<1>1. TypeOK /\ FileWasStored
  BY DEF IInv
<1>2. /\ Adopt(t, h)
      /\ provenance' = [provenance EXCEPT ![t] = h.told]
      /\ settled' \subseteq settled
      /\ \A u \in settled' \ {t} : overridesFile' = overridesFile /\ safeFile' = safeFile
      /\ overridesFile' = overridesFile /\ everStored' = everStored
  BY DEF Hydrate, Unsettle
<1>3. /\ overridesFile \in Payloads \cup {Absent, Corrupt}
      /\ overridesFile \in everStored \cup {Absent, Corrupt}
      /\ everStored \subseteq Payloads
  BY <1>1 DEF TypeOK, FileWasStored
<1>4. h.told \in [decision: Decisions, content: Payloads \cup {Default, Absent},
                  source: {"vfs", "cp.write"}]
  BY <1>3, SettledLatch, ToldType
<1>5. QED
  BY <1>2, <1>3, <1>4, SettledLatch, HydrationIInv

LEMMA WriteIInv ==
  ASSUME IInv, NEW t \in Tabs, NEW payload \in Payloads, Write(t, payload)
  PROVE  IInv'
<1> DEFINE told == Told("APPLIED", payload, "cp.write")
<1>1. TypeOK /\ FileWasStored
  BY DEF IInv
<1>2. /\ Adopt(t, Hydrated(latch[t], cache[t], overridesFile'))
      /\ provenance' = [provenance EXCEPT ![t] = told]
      /\ settled' \subseteq settled
      /\ \A u \in settled' \ {t} : overridesFile' = overridesFile /\ safeFile' = safeFile
  BY DEF Write, Unsettle
<1>3. /\ overridesFile' \in Payloads \cup {Absent, Corrupt}
      /\ overridesFile' \in everStored' \cup {Absent, Corrupt}
      /\ everStored \subseteq everStored' /\ everStored' \subseteq Payloads
  BY <1>1 DEF TypeOK, FileWasStored, Write, PersistOverrides
<1>4. /\ told \in [decision: Decisions, content: Payloads \cup {Default, Absent},
                   source: {"vfs", "cp.write"}]
      /\ told.source # "vfs"
  BY DEF Told, Decisions
<1>5. QED
  BY <1>2, <1>3, <1>4, SettledLatch, HydrationIInv

\* Enabling and clearing SAFE_MODE set the latch, and change safe_mode.json or not.
LEMMA SafeModeIInv ==
  ASSUME IInv, NEW t \in Tabs, EnableSafeMode(t) \/ ClearSafeMode(t)
  PROVE  IInv'
<1>1. PICK value \in {"on", "off"}, held \in BOOLEAN :
        /\ latch' = [latch EXCEPT ![t] = held]
        /\ safeFile' \in {value, safeFile}
        /\ UNCHANGED <<overridesFile, cache, provenance, everStored>>
        /\ settled' = settled \ (IF safeFile' = safeFile THEN {t} ELSE Tabs)
  BY DEF EnableSafeMode, ClearSafeMode, PersistSafeMode
<1>2. TypeOK'
  BY <1>1 DEF IInv, TypeOK
<1>3. /\ FileWasStored' /\ RejectedNeverServed' /\ ServedWasStored'
      /\ HydrationProvenanceHonest'
  BY <1>1 DEF IInv, FileWasStored, RejectedNeverServed, ServedWasStored,
              HydrationProvenanceHonest
<1>4. \A u \in settled' : /\ u \in settled /\ safeFile' = safeFile
                          /\ latch'[u] = latch[u]
  BY <1>1 DEF IInv, TypeOK
<1>5. LoadedAgreesWithStorage'
  BY <1>1, <1>4 DEF IInv, LoadedAgreesWithStorage, Visible
<1>6. QED
  BY <1>2, <1>3, <1>5 DEF IInv

LEMMA DamageIInv == IInv /\ Damage => IInv'
BY DEF IInv, Damage, TypeOK, FileWasStored, RejectedNeverServed, ServedWasStored,
       HydrationProvenanceHonest, LoadedAgreesWithStorage

LEMMA NextIInv == IInv /\ [Next]_vars => IInv'
<1> SUFFICES ASSUME IInv, [Next]_vars PROVE IInv'
  OBVIOUS
<1>1. CASE \E t \in Tabs : Load(t) \/ Hydrate(t) \/ EnableSafeMode(t) \/ ClearSafeMode(t)
  BY <1>1, LoadIInv, HydrateIInv, SafeModeIInv
<1>2. CASE \E t \in Tabs, payload \in Payloads : Write(t, payload)
  BY <1>2, WriteIInv
<1>3. CASE Damage
  BY <1>3, DamageIInv
<1>4. CASE UNCHANGED vars
  BY <1>4 DEF vars, IInv, TypeOK, FileWasStored, RejectedNeverServed, ServedWasStored,
              HydrationProvenanceHonest, LoadedAgreesWithStorage, Visible
<1>5. QED
  BY <1>1, <1>2, <1>3, <1>4 DEF Next

-----------------------------------------------------------------------------
(* The theorems. *)

\* The inductive invariant holds in every reachable state of any number of tabs.
THEOREM SpecIInv == Spec => []IInv
BY InitIInv, NextIInv, PTL DEF Spec

\* Files, latches, caches and provenances keep their types.
THEOREM SpecTypeOK == Spec => []TypeOK
<1>1. IInv => TypeOK
  BY DEF IInv
<1>2. QED
  BY <1>1, SpecIInv, PTL

\* Overrides the guard rejects are never cached for the resolvers (guard.ts).
THEOREM SpecRejectedNeverServed == Spec => []RejectedNeverServed
<1>1. IInv => RejectedNeverServed
  BY DEF IInv
<1>2. QED
  BY <1>1, SpecIInv, PTL

\* What is served was in storage at some time (store.ts 63, hydrate.ts).
THEOREM SpecServedWasStored == Spec => []ServedWasStored
<1>1. IInv => ServedWasStored
  BY DEF IInv
<1>2. QED
  BY <1>1, SpecIInv, PTL

\* A hydration that says APPLIED has done so (hydrate.ts 78-93).
THEOREM SpecHydrationProvenanceHonest == Spec => []HydrationProvenanceHonest
<1>1. IInv => HydrationProvenanceHonest
  BY DEF IInv
<1>2. QED
  BY <1>1, SpecIInv, PTL

\* A tab that has loaded since the files last changed agrees with them
\* (hydrateTenantRuntime.ts).
THEOREM SpecLoadedAgreesWithStorage == Spec => []LoadedAgreesWithStorage
<1>1. IInv => LoadedAgreesWithStorage
  BY DEF IInv
<1>2. QED
  BY <1>1, SpecIInv, PTL

=============================================================================
