---------------------------- MODULE CacheRegistry ----------------------------
(* The control plane's cache registry (policies/cache.registry.ts) over its   *)
(* own in-memory provider: get-or-compute, single flight, stale-while-        *)
(* revalidate, tags and the LRU bound.                                        *)
(*                                                                            *)
(* Every function is a coroutine. A provider operation takes effect where it  *)
(* is called and the call goes on one microtask later, so the model keeps a   *)
(* queue of microtasks: Resume runs its head up to the next await. The extra  *)
(* microtasks of a promise that is returned are not counted. Only a compute   *)
(* ends when it likes. A promise registered under a key is a flight, a        *)
(* coroutine of its own that outlives the call that started it. An entry is   *)
(* reduced to its age: fresh, stale (expired, inside the stale window of a    *)
(* caller that has one) or dead (beyond it); no value is kept.                *)
EXTENDS Naturals, Sequences, FiniteSets, SequencesExt

CONSTANTS
    Keys, Tags,
    TagsOf,      \* the tags a key's entries are stored with, in their order
    MaxEntries,  \* maxEntries of every caller; 0 is no bound
    Calls,       \* callers, each with one call at a time
    MakesCall,   \* caller -> the operations it calls
    Flights,     \* promises that can be registered at once
    MaxCalls,    \* bound: the calls of one behaviour
    None

CallOps == {"get", "set", "del", "invalidate", "compute", "single"}
ASSUME CacheAssumption ==
    /\ TagsOf \in [Keys -> Seq(Tags)]
    /\ MaxEntries \in Nat /\ MaxCalls \in Nat
    /\ Calls \cap Flights = {}
    /\ MakesCall \in [Calls -> SUBSET CallOps]
    /\ None \notin Flights \cup Keys \cup Tags \cup CallOps

Procs == Calls \cup Flights
Ages == {"fresh", "stale", "dead"}

VARIABLES
    store,        \* key -> the age of its entry, or "none"
    index,        \* tag -> the keys listed under it
    inflight,     \* key -> the flight registered under it, or None
    lru,          \* keys, the least recently used first
    direct,       \* keys whose entry a plain cacheSet stored: the LRU ignores those
    procs,        \* every coroutine's own state
    queue,        \* the coroutines whose awaited promise has settled, in order
    swrDisabled,  \* rt.__CACHE_SWR_DISABLED__
    called        \* calls so far

vars == <<store, index, inflight, lru, direct, procs, queue, swrDisabled, called>>

Idle == [pc |-> "idle", op |-> None, key |-> None, swr |-> FALSE, held |-> "none",
         tags |-> <<>>, tag |-> None, todo |-> {}, owed |-> {}, on |-> None]

Init ==
    /\ store = [k \in Keys |-> "none"]
    /\ index = [t \in Tags |-> {}]
    /\ inflight = [k \in Keys |-> None]
    /\ lru = <<>>
    /\ direct = {}
    /\ procs = [p \in Procs |-> Idle]
    /\ queue = <<>>
    /\ swrDisabled \in BOOLEAN
    /\ called = 0

Stored == {k \in Keys : store[k] # "none"}
TagSet(k) == {TagsOf[k][i] : i \in DOMAIN TagsOf[k]}

-----------------------------------------------------------------------------
(* What the coroutines are built from.                                        *)

(* lruTouch: a key leaves its place, if it has one, and is the newest.        *)
Place(l, k) == CHOOSE i \in DOMAIN l : l[i] = k
Touched(l, k) == Append(IF k \in ToSet(l) THEN RemoveAt(l, Place(l, k)) ELSE l, k)

(* lruEvictIfNeeded: the oldest keys beyond the bound leave the LRU, and      *)
(* their entries the store; their tags go on listing them.                    *)
Surplus(l) == IF MaxEntries = 0 \/ Len(l) <= MaxEntries THEN 0 ELSE Len(l) - MaxEntries
Evicted(l) == {l[i] : i \in 1 .. Surplus(l)}
Kept(l) == SubSeq(l, Surplus(l) + 1, Len(l))

(* A coroutine at an await of a settled promise, and one that waits.          *)
Await(p, rec) == /\ procs' = [procs EXCEPT ![p] = rec]
                 /\ queue' = Append(Tail(queue), p)
Suspend(p, rec) == /\ procs' = [procs EXCEPT ![p] = rec]
                   /\ queue' = Tail(queue)
Enter(c, rec) == /\ procs[c].pc = "idle"
                 /\ procs' = [procs EXCEPT ![c] = rec]
                 /\ queue' = Append(queue, c)

(* The end of a call; a flight leaves its key one microtask later.            *)
Finish(p) == IF p \in Flights THEN Await(p, [Idle EXCEPT !.pc = "leaving", !.key = procs[p].key])
                              ELSE Suspend(p, Idle)

(* compute() is called: the coroutine waits for it outside the queue.         *)
Computing(k) == [Idle EXCEPT !.pc = "computing", !.op = "compute", !.key = k]
Compute(p) == Suspend(p, Computing(procs[p].key))

(* A stale entry is served: the call ends, and a refresh is registered unless *)
(* the key has a promise.                                                     *)
ServeStale(p) ==
    LET k == procs[p].key IN
    /\ lru' = Touched(lru, k)
    /\ IF inflight[k] # None
         THEN Finish(p) /\ UNCHANGED inflight
         ELSE \E f \in Flights :
                /\ procs[f].pc = "idle"
                /\ inflight' = [inflight EXCEPT ![k] = f]
                /\ procs' = [procs EXCEPT ![f] = Computing(k),
                                          ![p] = Idle]
                /\ queue' = Tail(queue)
    /\ UNCHANGED <<store, index, direct>>

(* cacheDel: the entry goes now, the tags one per microtask (pc "untag"),     *)
(* then the call goes on as its operation says.                               *)
Delete(p, k, tags) ==
    /\ store' = [store EXCEPT ![k] = "none"]
    /\ direct' = direct \ {k}
    /\ Await(p, [procs[p] EXCEPT !.pc = "untag", !.key = k, !.tags = tags, !.held = "none"])
    /\ UNCHANGED <<index, inflight, lru>>

ReadEntry(p, pc) == /\ Await(p, [procs[p] EXCEPT !.pc = pc, !.held = store[procs[p].key]])
                    /\ UNCHANGED <<store, index, inflight, lru, direct>>

-----------------------------------------------------------------------------
(* The calls: each runs to its first await.                                   *)

Call(c, op, k) == [Idle EXCEPT !.op = op, !.key = k, !.held = store[k]]

CacheGet(c, k) ==
    /\ "get" \in MakesCall[c]
    /\ Enter(c, [Call(c, "get", k) EXCEPT !.pc = "got"])
    /\ UNCHANGED <<store, index, inflight, lru, direct>>

GetOrCompute(c, k, swr) ==
    /\ "compute" \in MakesCall[c]
    /\ Enter(c, [Call(c, "compute", k) EXCEPT !.pc = "found", !.swr = swr])
    /\ UNCHANGED <<store, index, inflight, lru, direct>>

GetOrComputeSingleFlight(c, k, swr) ==
    /\ "single" \in MakesCall[c]
    /\ Enter(c, [Call(c, "single", k) EXCEPT !.pc = IF swr THEN "raw" ELSE "got", !.swr = swr])
    /\ UNCHANGED <<store, index, inflight, lru, direct>>

(* A set of k is a new entry: no invalidation under way owes its removal.     *)
Stores(ps, k) == [x \in Procs |-> [ps[x] EXCEPT !.owed = @ \ {k}]]

CacheSet(c, k) ==
    /\ "set" \in MakesCall[c]
    /\ procs[c].pc = "idle"
    /\ store' = [store EXCEPT ![k] = "fresh"]
    /\ direct' = direct \cup {k}
    /\ procs' = Stores([procs EXCEPT ![c] = [Idle EXCEPT !.pc = "tag", !.op = "set", !.key = k, !.tags = TagsOf[k]]], k)
    /\ queue' = Append(queue, c)
    /\ UNCHANGED <<index, inflight, lru>>

CacheDel(c, k) ==
    /\ "del" \in MakesCall[c]
    /\ store' = [store EXCEPT ![k] = "none"]
    /\ direct' = direct \ {k}
    /\ \E hint \in {<<>>, TagsOf[k]} :
         Enter(c, [Idle EXCEPT !.pc = "untag", !.op = "del", !.key = k, !.tags = hint])
    /\ UNCHANGED <<index, inflight, lru>>

(* owed: the entries of the tag that are in the store and whose cacheSet has  *)
(* ended. It is what the call promises to remove, and no part of its state.   *)
BeingTagged(k) == \E p \in Procs : procs[p].pc = "tag" /\ procs[p].key = k
CacheInvalidateTag(c, t) ==
    /\ "invalidate" \in MakesCall[c]
    /\ Enter(c, [Idle EXCEPT !.pc = "listed", !.op = "invalidate", !.tag = t, !.todo = index[t],
                             !.owed = {k \in Stored : t \in TagSet(k) /\ ~BeingTagged(k)}])
    /\ UNCHANGED <<store, index, inflight, lru, direct>>

CacheClear ==
    /\ store' = [k \in Keys |-> "none"]
    /\ index' = [t \in Tags |-> {}]
    /\ direct' = {}
    /\ UNCHANGED <<inflight, lru, procs, queue>>

-----------------------------------------------------------------------------
(* What goes on after an await.                                               *)

(* cacheGet has its entry: an expired one is deleted by key, whatever is      *)
(* stored there by now.                                                       *)
Got(p) ==
    /\ procs[p].pc = "got"
    /\ IF procs[p].held \in {"stale", "dead"}
         THEN Delete(p, procs[p].key, TagsOf[procs[p].key])
         ELSE /\ IF procs[p].op = "get" THEN Finish(p)
                 ELSE Await(p, [procs[p] EXCEPT !.pc = IF procs[p].held = "fresh" THEN "hit" ELSE "missed",
                                                !.held = "none"])
              /\ UNCHANGED <<store, index, inflight, lru, direct>>

TouchAndFinish(p) ==
    /\ lru' = Touched(lru, procs[p].key)
    /\ Finish(p)
    /\ UNCHANGED <<store, index, inflight, direct>>

Hit(p) == procs[p].pc = "hit" /\ TouchAndFinish(p)

(* The single flight's own look at the entry, which does not delete it.       *)
Raw(p) ==
    /\ procs[p].pc = "raw"
    /\ CASE procs[p].held = "fresh" -> TouchAndFinish(p)
         [] procs[p].held = "stale" /\ ~swrDisabled -> ServeStale(p)
         [] OTHER -> ReadEntry(p, "got")

(* Mutant: the call itself is registered, not its promise.                    *)
MutMissed(p) ==
    /\ procs[p].pc = "missed"
    /\ inflight' = [inflight EXCEPT ![procs[p].key] = p]
    /\ Compute(p)
    /\ UNCHANGED <<store, index, lru, direct>>

(* A miss: join the key's promise, or register one that looks again.          *)
Missed(p) ==
    LET k == procs[p].key IN
    /\ procs[p].pc = "missed"
    /\ IF inflight[k] # None
         THEN Suspend(p, [Idle EXCEPT !.pc = "joined", !.on = inflight[k]]) /\ UNCHANGED inflight
         ELSE \E f \in Flights :
                /\ procs[f].pc = "idle"
                /\ inflight' = [inflight EXCEPT ![k] = f]
                /\ procs' = [procs EXCEPT
                      ![f] = [Call(f, "compute", k) EXCEPT !.pc = "found", !.swr = procs[p].swr],
                      ![p] = [Idle EXCEPT !.pc = "joined", !.on = f]]
                /\ queue' = Append(Tail(queue), f)
    /\ UNCHANGED <<store, index, lru, direct>>

Found(p) ==
    LET e == procs[p].held IN
    /\ procs[p].pc = "found"
    /\ CASE e = "fresh" -> TouchAndFinish(p)
         [] e = "stale" /\ procs[p].swr /\ ~swrDisabled -> ServeStale(p)
         [] e = "none" \/ (e = "stale" /\ procs[p].swr /\ swrDisabled) ->
              Compute(p) /\ UNCHANGED <<store, index, inflight, lru, direct>>
         [] OTHER -> Delete(p, procs[p].key, TagsOf[procs[p].key])

(* After the last tag of a cacheDel, the operation it served goes on.         *)
Deleted(p) ==
    CASE procs[p].op = "compute" -> Compute(p)
      [] procs[p].op = "single" -> Await(p, [procs[p] EXCEPT !.pc = "missed"])
      [] procs[p].op = "invalidate" /\ procs[p].todo # {} ->
           \E k \in procs[p].todo :
             Await(p, [procs[p] EXCEPT !.pc = "reread", !.key = k, !.todo = @ \ {k}, !.held = store[k]])
      [] OTHER -> Finish(p)

(* Mutant: the tag is removed with the first of its keys.                     *)
MutUntag(p) ==
    LET tags == procs[p].tags IN
    /\ procs[p].pc = "untag"
    /\ IF tags # <<>>
         THEN /\ index' = [index EXCEPT ![Head(tags)] = {}]
              /\ Await(p, [procs[p] EXCEPT !.tags = Tail(tags)])
         ELSE Deleted(p) /\ UNCHANGED index
    /\ UNCHANGED <<store, inflight, lru, direct>>

Untag(p) ==
    LET tags == procs[p].tags IN
    /\ procs[p].pc = "untag"
    /\ IF tags # <<>>
         THEN /\ index' = [index EXCEPT ![Head(tags)] = @ \ {procs[p].key}]
              /\ Await(p, [procs[p] EXCEPT !.tags = Tail(tags)])
         ELSE Deleted(p) /\ UNCHANGED index
    /\ UNCHANGED <<store, inflight, lru, direct>>

(* cacheInvalidateTag has the keys of its tag, then the entry of one of them. *)
Listed(p) ==
    /\ procs[p].pc = "listed"
    /\ Deleted(p)
    /\ UNCHANGED <<store, index, inflight, lru, direct>>
Reread(p) ==
    /\ procs[p].pc = "reread"
    /\ Delete(p, procs[p].key, IF procs[p].held # "none" THEN TagsOf[procs[p].key] ELSE <<procs[p].tag>>)

(* computeAndSet: the value is stored, its tags are listed one by one, and    *)
(* the LRU is brought up to date when the last of them is.                    *)
Computed(p) ==
    LET k == procs[p].key IN
    /\ procs[p].pc = "computed"
    /\ store' = [store EXCEPT ![k] = "fresh"]
    /\ direct' = direct \ {k}
    /\ procs' = Stores([procs EXCEPT ![p].pc = "tag", ![p].tags = TagsOf[k]], k)
    /\ queue' = Append(Tail(queue), p)
    /\ UNCHANGED <<index, inflight, lru>>

TagKey(p) ==
    LET tags == procs[p].tags IN
    /\ procs[p].pc = "tag"
    /\ IF tags # <<>>
         THEN /\ index' = [index EXCEPT ![Head(tags)] = @ \cup {procs[p].key}]
              /\ Await(p, [procs[p] EXCEPT !.tags = Tail(tags)])
         ELSE /\ IF procs[p].op = "set" THEN Finish(p)
                 ELSE Await(p, [procs[p] EXCEPT !.pc = "stored"])
              /\ UNCHANGED index
    /\ UNCHANGED <<store, inflight, lru, direct>>

(* Mutant: the LRU evicts before the new key is put in it.                    *)
MutStoredIt(p) ==
    /\ procs[p].pc = "stored"
    /\ lru' = Touched(Kept(lru), procs[p].key)
    /\ store' = [k \in Keys |-> IF k \in Evicted(lru) THEN "none" ELSE store[k]]
    /\ direct' = direct \ Evicted(lru)
    /\ Finish(p)
    /\ UNCHANGED <<index, inflight>>

StoredIt(p) ==
    LET l == Touched(lru, procs[p].key) IN
    /\ procs[p].pc = "stored"
    /\ lru' = Kept(l)
    /\ store' = [k \in Keys |-> IF k \in Evicted(l) THEN "none" ELSE store[k]]
    /\ direct' = direct \ Evicted(l)
    /\ Finish(p)
    /\ UNCHANGED <<index, inflight>>

(* Mutant: the key is freed after a success only, not finally.                *)
MutFailed(p) ==
    /\ procs[p].pc = "failed"
    /\ Suspend(p, Idle)
    /\ UNCHANGED <<store, index, inflight, lru, direct>>

Failed(p) ==
    /\ procs[p].pc = "failed"
    /\ Finish(p)
    /\ UNCHANGED <<store, index, inflight, lru, direct>>

(* finally: the key is free, whatever became of the compute; who joined has   *)
(* the answer.                                                                *)
Leaving(f) ==
    /\ procs[f].pc = "leaving"
    /\ inflight' = [inflight EXCEPT ![procs[f].key] = None]
    /\ procs' = [x \in Procs |-> IF x = f \/ procs[x].on = f THEN Idle ELSE procs[x]]
    /\ queue' = Tail(queue)
    /\ UNCHANGED <<store, index, lru, direct>>

Resume(p) ==
    \/ Got(p) \/ Hit(p) \/ Raw(p) \/ Missed(p) \/ Found(p) \/ Untag(p) \/ Listed(p) \/ Reread(p)
    \/ Computed(p) \/ TagKey(p) \/ StoredIt(p) \/ Failed(p) \/ Leaving(p)

ComputeEnds(p) ==
    /\ procs[p].pc = "computing"
    /\ \E pc \in {"computed", "failed"} : procs' = [procs EXCEPT ![p].pc = pc]
    /\ queue' = Append(queue, p)
    /\ UNCHANGED <<store, index, inflight, lru, direct>>

(* Time passes for an entry, and for the reference to it that a call holds.   *)
Older == [fresh |-> "stale", stale |-> "dead"]
Age(k) ==
    /\ store[k] \in DOMAIN Older
    /\ store' = [store EXCEPT ![k] = Older[@]]
    /\ procs' = [p \in Procs |-> IF procs[p].key = k /\ procs[p].held = store[k]
                                  THEN [procs[p] EXCEPT !.held = Older[@]] ELSE procs[p]]
    /\ UNCHANGED <<index, inflight, lru, direct, queue>>

Microtask == queue # <<>> /\ Resume(Head(queue)) /\ UNCHANGED <<swrDisabled, called>>
ComputeSettles(p) == ComputeEnds(p) /\ UNCHANGED <<swrDisabled, called>>

CallStarts ==
    /\ called < MaxCalls
    /\ called' = called + 1
    /\ UNCHANGED swrDisabled
    /\ \/ \E c \in Calls, k \in Keys : CacheGet(c, k) \/ CacheSet(c, k) \/ CacheDel(c, k)
       \/ \E c \in Calls, k \in Keys, swr \in BOOLEAN :
            GetOrCompute(c, k, swr) \/ GetOrComputeSingleFlight(c, k, swr)
       \/ \E c \in Calls, t \in Tags : CacheInvalidateTag(c, t)
       \/ CacheClear

Next ==
    \/ CallStarts
    \/ Microtask
    \/ \E p \in Procs : ComputeSettles(p)
    \/ \E k \in Keys : Age(k) /\ UNCHANGED <<swrDisabled, called>>

Spec == Init /\ [][Next]_vars

-----------------------------------------------------------------------------
Pcs == {"idle", "got", "found", "raw", "hit", "missed", "joined", "untag", "listed", "reread",
        "computing", "computed", "failed", "tag", "stored", "leaving"}
ProcRecords ==
    [pc: Pcs, op: CallOps \cup {None}, key: Keys \cup {None}, swr: BOOLEAN, held: Ages \cup {"none"},
     tags: Seq(Tags), tag: Tags \cup {None}, todo: SUBSET Keys, owed: SUBSET Keys,
     on: Flights \cup {None}]

(* Types of the cache's maps and of its coroutines' state.                    *)
TypeOK ==
    /\ store \in [Keys -> Ages \cup {"none"}]
    /\ index \in [Tags -> SUBSET Keys]
    /\ inflight \in [Keys -> Flights \cup {None}]
    /\ lru \in Seq(Keys) /\ direct \subseteq Keys
    /\ procs \in [Procs -> ProcRecords]
    /\ queue \in Seq(Procs) /\ swrDisabled \in BOOLEAN /\ called \in 0 .. MaxCalls

(* The single flight of __CACHE_INFLIGHT__: every promise still under way is  *)
(* the one its key is registered with, so no key is computed by two of them,  *)
(* and whoever joined one will be answered by it.                             *)
SingleFlight ==
    /\ \A f \in Flights : procs[f].pc # "idle" => inflight[procs[f].key] = f
    /\ \A k \in Keys : inflight[k] # None => procs[inflight[k]].pc # "idle"
    /\ \A c \in Calls : procs[c].pc = "joined" => procs[procs[c].on].pc # "idle"

(* maxEntries: but for the keys a computeAndSet has stored and not yet        *)
(* counted, no more entries than the bound, whatever is read, computed,       *)
(* evicted and deleted at the same time. A plain cacheSet is not bounded.     *)
Uncounted == {procs[p].key : p \in {q \in Procs : procs[q].op = "compute" /\ procs[q].pc \in {"tag", "stored"}}}
StoreBounded == MaxEntries > 0 => Cardinality(Stored \ (direct \cup Uncounted)) <= MaxEntries

(* cacheInvalidateTag: when it ends, no entry of its tag is left whose set    *)
(* had ended when it began, but for those set anew meanwhile. It needs the    *)
(* tag index to list every entry, through every deletion and eviction.        *)
InvalidationHolds ==
    [][\A c \in Calls : procs[c].op = "invalidate" /\ procs'[c].pc = "idle"
                          => \A k \in procs[c].owed : store'[k] = "none"]_vars
=============================================================================
