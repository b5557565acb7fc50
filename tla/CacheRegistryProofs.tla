------------------------- MODULE CacheRegistryProofs -------------------------
(* The invariants of CacheRegistry and the promise of cacheInvalidateTag, for *)
(* any keys, tags, callers and bound.                                         *)
(*                                                                            *)
(* What is hard is the tag index. A deletion and a set of one key may be      *)
(* under way at once, each with one tag per microtask, and the set must be    *)
(* the last to say of every tag. It is, because the microtask queue is first  *)
(* in, first out: IndexInv gives to every removal still to come the later     *)
(* listing that makes up for it, by the tags each has before it and, if these *)
(* are as many, by the places of the two in the queue.                        *)
EXTENDS CacheRegistry, FiniteSetTheorems, SequenceTheorems, TLAPS

-----------------------------------------------------------------------------
(* Sequences.                                                                 *)

LEMMA AppendFacts ==
    ASSUME NEW S, NEW s \in Seq(S), NEW e \in S
    PROVE  /\ Append(s, e) \in Seq(S) /\ Len(Append(s, e)) = Len(s) + 1
           /\ Append(s, e)[Len(s) + 1] = e
           /\ \A i \in 1 .. Len(s) : Append(s, e)[i] = s[i]
BY AppendProperties

LEMMA ToSetFinite ==
    ASSUME NEW S, NEW s \in Seq(S)
    PROVE  IsFiniteSet(ToSet(s)) /\ Cardinality(ToSet(s)) <= Len(s) /\ Len(s) \in Nat
<1>1. s \in Surjection(1 .. Len(s), ToSet(s))
  <2>1. DOMAIN s = 1 .. Len(s) /\ s \in [1 .. Len(s) -> S]
    BY LenProperties
  <2>2. ToSet(s) = {s[i] : i \in 1 .. Len(s)}
    BY <2>1 DEF ToSet
  <2>3. s \in [1 .. Len(s) -> ToSet(s)] /\ \A x \in ToSet(s) : \E i \in 1 .. Len(s) : s[i] = x
    BY <2>1, <2>2
  <2> QED BY <2>3 DEF Surjection
<1>2. IsFiniteSet(1 .. Len(s)) /\ Cardinality(1 .. Len(s)) = Len(s) /\ Len(s) \in Nat
  <2>1. Len(s) \in Nat
    BY LenProperties
  <2> QED BY <2>1, FS_Interval
<1> QED BY <1>1, <1>2, FS_Surjection

(* The elements of a sequence, by their places.                               *)
LEMMA ToSetPlaces ==
    ASSUME NEW S, NEW s \in Seq(S)
    PROVE  \A x : x \in ToSet(s) <=> \E i \in 1 .. Len(s) : s[i] = x
BY LenProperties DEF ToSet

(* lruTouch loses no key.                                                     *)
LEMMA TouchedFacts ==
    ASSUME NEW l \in Seq(Keys), NEW k \in Keys
    PROVE  Touched(l, k) \in Seq(Keys) /\ ToSet(l) \cup {k} \subseteq ToSet(Touched(l, k))
<1> DEFINE rest == IF k \in ToSet(l) THEN RemoveAt(l, Place(l, k)) ELSE l
<1>1. rest \in Seq(Keys) /\ \A x \in ToSet(l) : x = k \/ x \in ToSet(rest)
  <2>1. CASE k \notin ToSet(l)
    BY <2>1
  <2>2. CASE k \in ToSet(l)
    <3> DEFINE i == Place(l, k)
               a == SubSeq(l, 1, i - 1)
               b == SubSeq(l, i + 1, Len(l))
    <3>1. i \in 1 .. Len(l) /\ l[i] = k /\ Len(l) \in Nat
      BY <2>2 DEF Place, ToSet
    <3> HIDE DEF i
    <3>2. /\ a \in Seq(Keys) /\ Len(a) = i - 1 /\ \A j \in 1 .. i - 1 : a[j] = l[j]
          /\ b \in Seq(Keys) /\ Len(b) = Len(l) - i /\ \A j \in 1 .. Len(l) - i : b[j] = l[i + j]
      <4>1. \A j \in 1 .. Len(l) : l[j] \in Keys
        BY ElementOfSeq
      <4>2. /\ a \in Seq(Keys) /\ Len(a) = i - 1 /\ \A j \in 1 .. i - 1 : a[j] = l[j]
        BY <3>1, <4>1, SubSeqProperties
      <4>3. b \in Seq(Keys) /\ Len(b) = Len(l) - i /\ \A j \in 1 .. Len(l) - i : b[j] = l[i + j]
        BY <3>1, <4>1, SubSeqProperties
      <4> QED BY <4>2, <4>3
    <3>3. rest = a \o b
      <4>1. rest = RemoveAt(l, i)
        BY <2>2 DEF i
      <4> HIDE DEF rest
      <4> QED BY <4>1 DEF RemoveAt
    <3> HIDE DEF a, b, rest
    <3>4. /\ rest \in Seq(Keys) /\ Len(rest) = Len(l) - 1
          /\ \A j \in 1 .. Len(rest) : rest[j] = IF j < i THEN l[j] ELSE l[j + 1]
      <4>1. /\ rest \in Seq(Keys) /\ Len(rest) = Len(a) + Len(b)
            /\ \A j \in 1 .. Len(a) + Len(b) : rest[j] = IF j <= Len(a) THEN a[j] ELSE b[j - Len(a)]
        BY <3>2, <3>3, ConcatProperties
      <4>2. /\ i \in Nat /\ Len(l) \in Nat /\ i >= 1 /\ i <= Len(l)
            /\ Len(a) = i - 1 /\ Len(b) = Len(l) - i
        BY <3>1, <3>2
      <4>3. ASSUME NEW j \in 1 .. Len(l) - 1
            PROVE  rest[j] = IF j < i THEN l[j] ELSE l[j + 1]
        <5>1. j \in 1 .. Len(a) + Len(b)
          BY <4>2
        <5>2. CASE j < i
          <6>1. j \in 1 .. i - 1 /\ j <= Len(a)
            BY <4>2, <5>2
          <6> QED BY <3>2, <4>1, <5>1, <5>2, <6>1
        <5>3. CASE ~(j < i)
          <6>1. /\ j - Len(a) \in 1 .. Len(l) - i /\ i + (j - Len(a)) = j + 1
                /\ ~(j <= Len(a))
            BY <4>2, <5>3
          <6>2. rest[j] = b[j - Len(a)] /\ b[j - Len(a)] = l[i + (j - Len(a))]
            BY <3>2, <4>1, <5>1, <6>1
          <6> QED BY <5>3, <6>1, <6>2
        <5> QED BY <5>2, <5>3
      <4>4. Len(rest) = Len(l) - 1
        BY <4>1, <4>2
      <4> QED BY <4>1, <4>3, <4>4
    <3>5. ASSUME NEW j \in 1 .. Len(l), l[j] # k
          PROVE  \E n \in 1 .. Len(rest) : rest[n] = l[j]
      <4>1. CASE j < i
        BY <4>1, <3>1, <3>4
      <4>2. CASE j > i
        <5>1. j - 1 \in 1 .. Len(rest) /\ ~(j - 1 < i) /\ (j - 1) + 1 = j
          BY <4>2, <3>1, <3>4
        <5> QED BY <5>1, <3>4
      <4> QED BY <4>1, <4>2, <3>1, <3>5
    <3> QED BY <3>4, <3>5, ToSetPlaces
  <2> QED BY <2>1, <2>2
<1> HIDE DEF rest
<1>2. Touched(l, k) = Append(rest, k)
  BY DEF Touched, rest
<1>3. /\ Append(rest, k) \in Seq(Keys) /\ Len(Append(rest, k)) = Len(rest) + 1 /\ Len(rest) \in Nat
      /\ Append(rest, k)[Len(rest) + 1] = k
      /\ \A i \in 1 .. Len(rest) : Append(rest, k)[i] = rest[i]
  BY <1>1, AppendFacts
<1>4. k \in ToSet(Append(rest, k)) /\ ToSet(rest) \subseteq ToSet(Append(rest, k))
  <2>1. \A i \in 1 .. Len(rest) : i \in 1 .. Len(Append(rest, k))
    BY <1>3
  <2>2. Len(rest) + 1 \in 1 .. Len(Append(rest, k))
    BY <1>3
  <2>3. /\ \A x : x \in ToSet(rest) <=> \E i \in 1 .. Len(rest) : rest[i] = x
        /\ \A x : x \in ToSet(Append(rest, k)) <=> \E i \in 1 .. Len(Append(rest, k)) : Append(rest, k)[i] = x
    BY <1>1, <1>3, ToSetPlaces
  <2> QED BY <1>3, <2>1, <2>2, <2>3
<1> QED BY <1>1, <1>2, <1>3, <1>4

(* lruEvictIfNeeded keeps the bound, and evicts what it does not keep.        *)
LEMMA KeptFacts ==
    ASSUME NEW l \in Seq(Keys)
    PROVE  /\ Kept(l) \in Seq(Keys)
           /\ MaxEntries > 0 => Len(Kept(l)) <= MaxEntries
           /\ \A x \in ToSet(l) : x \in Evicted(l) \/ x \in ToSet(Kept(l))
<1> DEFINE s == Surplus(l)
<1>1. /\ s \in Nat /\ s <= Len(l) /\ Len(l) \in Nat
      /\ MaxEntries > 0 => Len(l) - s <= MaxEntries
  BY CacheAssumption DEF Surplus
<1> HIDE DEF s
<1>2. \A j \in 1 .. Len(l) : l[j] \in Keys
  BY ElementOfSeq
<1>3. /\ SubSeq(l, s + 1, Len(l)) \in Seq(Keys) /\ Len(SubSeq(l, s + 1, Len(l))) = Len(l) - s
      /\ \A j \in 1 .. Len(l) - s : SubSeq(l, s + 1, Len(l))[j] = l[s + j]
  BY <1>1, <1>2, SubSeqProperties
<1>4. Kept(l) = SubSeq(l, s + 1, Len(l)) /\ Evicted(l) = {l[i] : i \in 1 .. s}
  BY DEF Kept, Evicted, s
<1>5. ASSUME NEW i \in 1 .. Len(l)
      PROVE  l[i] \in Evicted(l) \/ \E j \in 1 .. Len(Kept(l)) : Kept(l)[j] = l[i]
  <2>1. CASE i <= s
    BY <1>1, <1>4, <2>1
  <2>2. CASE i > s
    <3>1. i - s \in 1 .. Len(l) - s /\ s + (i - s) = i
      BY <1>1, <2>2
    <3> QED BY <1>3, <1>4, <3>1
  <2> QED BY <1>1, <2>1, <2>2
<1>6. Kept(l) \in Seq(Keys) /\ (MaxEntries > 0 => Len(Kept(l)) <= MaxEntries)
  BY <1>1, <1>3, <1>4
<1>7. /\ \A x : x \in ToSet(l) <=> \E i \in 1 .. Len(l) : l[i] = x
      /\ \A x : x \in ToSet(Kept(l)) <=> \E i \in 1 .. Len(Kept(l)) : Kept(l)[i] = x
  BY <1>6, ToSetPlaces
<1> QED BY <1>5, <1>6, <1>7

-----------------------------------------------------------------------------
(* The inductive invariant.                                                   *)

FlightPcs == {"idle", "found", "untag", "computing", "computed", "failed", "tag", "stored", "leaving"}
Asleep == {"idle", "computing", "joined"}

(* A removal that began with all tags of a key, or with one of them, has      *)
(* before each no more than a listing that begins now.                        *)
Suffix(tags, k) ==
    \A i \in 1 .. Len(tags) : tags[i] \in TagSet(k) =>
        \E j \in 1 .. Len(TagsOf[k]) : i <= j /\ TagsOf[k][j] = tags[i]

(* What the state of one coroutine is, wherever the others are.               *)
Good(p, r) ==
    /\ r \in ProcRecords
    /\ r.pc \notin {"idle", "joined", "listed"} => r.key \in Keys
    /\ p \in Flights => r.pc \in FlightPcs /\ (r.pc \notin {"idle", "leaving"} => r.op = "compute")
    /\ r.pc = "leaving" => p \in Flights
    /\ r.op = "invalidate" => r.pc \in {"listed", "untag", "reread"} /\ r.tag \in Tags
    /\ r.pc \in {"listed", "reread"} => r.op = "invalidate"
    /\ r.pc \in {"found", "computing", "computed", "failed", "stored"} => r.op = "compute"
    /\ r.pc = "tag" => r.op \in {"set", "compute"}
    /\ r.on # None => r.pc = "joined"
    /\ r.pc = "joined" => r.on \in Flights
    /\ r.pc = "untag" => Suffix(r.tags, r.key)

ProcsInv == procs \in [Procs -> ProcRecords] /\ \A p \in Procs : Good(p, procs[p])

MapsOK ==
    /\ store \in [Keys -> Ages \cup {"none"}]
    /\ index \in [Tags -> SUBSET Keys]
    /\ inflight \in [Keys -> Flights \cup {None}]
    /\ lru \in Seq(Keys) /\ direct \subseteq Keys
    /\ swrDisabled \in BOOLEAN /\ called \in 0 .. MaxCalls

(* A coroutine is in the queue once at most, and has something to do there.   *)
QueueInv ==
    /\ queue \in Seq(Procs)
    /\ \A a, b \in 1 .. Len(queue) : queue[a] = queue[b] => a = b
    /\ \A a \in 1 .. Len(queue) : procs[queue[a]].pc \notin Asleep

FlightInv ==
    /\ \A f \in Flights : procs[f].pc # "idle" => inflight[procs[f].key] = f
    /\ \A k \in Keys : inflight[k] # None =>
         procs[inflight[k]].pc # "idle" /\ procs[inflight[k]].key = k
    /\ \A c \in Calls : procs[c].pc = "joined" => procs[procs[c].on].pc # "idle"

(* The coroutine at place a of the queue removes t from k, or lists it        *)
(* there, after i - 1 other tags.                                             *)
Turn(a, pc, k, i, t) ==
    /\ a \in 1 .. Len(queue)
    /\ procs[queue[a]].pc = pc /\ procs[queue[a]].key = k
    /\ i \in 1 .. Len(procs[queue[a]].tags) /\ procs[queue[a]].tags[i] = t

Before(a, i, b, j) == i < j \/ (i = j /\ a < b)

IndexInv ==
    \A k \in Keys, t \in Tags : store[k] # "none" /\ t \in TagSet(k) =>
        /\ k \in index[t] \/ \E b, j \in Nat : Turn(b, "tag", k, j, t)
        /\ \A a, i \in Nat : Turn(a, "untag", k, i, t) =>
             \E b, j \in Nat : Turn(b, "tag", k, j, t) /\ Before(a, i, b, j)

(* What an invalidation owes is gone, or on its list, or next.                *)
Owes(r, k) == store[k] # "none" => k \in r.todo \/ (r.pc = "reread" /\ r.key = k)
OwedInv == \A c \in Calls : procs[c].op = "invalidate" => \A k \in procs[c].owed : Owes(procs[c], k)

Tagging(r) == r.op = "compute" /\ r.pc \in {"tag", "stored"}
Counted == {k \in Keys : /\ store[k] # "none" /\ k \notin direct
                         /\ \A p \in Procs : Tagging(procs[p]) => procs[p].key # k}
LruInv == MaxEntries > 0 => Counted \subseteq ToSet(lru) /\ Cardinality(Counted) <= MaxEntries

IInv == MapsOK /\ ProcsInv /\ QueueInv /\ FlightInv /\ IndexInv /\ OwedInv /\ LruInv

-----------------------------------------------------------------------------
(* The queue.                                                                 *)

(* Same: what a coroutine does to the tag index is left as it was.            *)
Same(q) == /\ procs'[q].pc = procs[q].pc /\ procs'[q].key = procs[q].key
           /\ procs'[q].tags = procs[q].tags

(* d coroutines, one or none, leave the queue in front, and one or none comes *)
(* at its end, place n.                                                       *)
Shifted(d, n) ==
    /\ d \in {0, 1} /\ d <= Len(queue) /\ n = Len(queue) - d + 1
    /\ queue' \in Seq(Procs) /\ Len(queue') \in {n - 1, n}
    /\ \A a \in 1 .. n - 1 : queue'[a] = queue[a + d] /\ Same(queue[a + d])

(* Every turn but that of the coroutine in front comes one place earlier, and *)
(* every turn but that of the coroutine at the end was there before.          *)
LEMMA TurnsShift ==
    ASSUME IInv, NEW d, NEW n, Shifted(d, n)
    PROVE  /\ n \in Nat
           /\ \A a \in Nat : \A pc, k, i, t : Turn(a, pc, k, i, t) /\ a > d =>
                a - d \in Nat /\ a - d < n /\ Turn(a - d, pc, k, i, t)'
           /\ \A a \in Nat : \A pc, k, i, t : Turn(a, pc, k, i, t)' /\ a # n =>
                a < n /\ Turn(a + d, pc, k, i, t)
<1>1. /\ d \in {0, 1} /\ d <= Len(queue) /\ n = Len(queue) - d + 1 /\ n \in Nat
      /\ Len(queue') \in {n - 1, n} /\ Len(queue) \in Nat
      /\ \A a \in 1 .. n - 1 : queue'[a] = queue[a + d] /\ Same(queue[a + d])
  BY LenProperties DEF Shifted, IInv, QueueInv
<1>2. ASSUME NEW a \in Nat, NEW pc, NEW k, NEW i, NEW t, Turn(a, pc, k, i, t), a > d
      PROVE  a - d \in Nat /\ a - d < n /\ Turn(a - d, pc, k, i, t)'
  <2>1. a \in 1 .. Len(queue)
    BY <1>2 DEF Turn
  <2>2. a - d \in 1 .. n - 1 /\ a - d \in 1 .. Len(queue') /\ (a - d) + d = a /\ a - d \in Nat
    BY <1>1, <1>2, <2>1
  <2>3. queue'[a - d] = queue[a] /\ Same(queue[a])
    BY <1>1, <2>2
  <2> QED BY <1>1, <1>2, <2>2, <2>3 DEF Turn, Same
<1>3. ASSUME NEW a \in Nat, NEW pc, NEW k, NEW i, NEW t, Turn(a, pc, k, i, t)', a # n
      PROVE  a < n /\ Turn(a + d, pc, k, i, t)
  <2>1. a \in 1 .. Len(queue')
    BY <1>3 DEF Turn
  <2>2. a \in 1 .. n - 1 /\ a + d \in 1 .. Len(queue)
    BY <1>1, <1>3, <2>1
  <2>3. queue'[a] = queue[a + d] /\ Same(queue[a + d])
    BY <1>1, <2>2
  <2> QED BY <1>1, <1>3, <2>2, <2>3 DEF Turn, Same
<1> QED BY <1>1, <1>2, <1>3

(* The index is left alone, and neither the coroutine that left the front of  *)
(* the queue had, nor the one that came has, a listing to do.                 *)
LEMMA IndexKept ==
    ASSUME IInv, NEW d, NEW n, Shifted(d, n), index' = index,
           \A k \in Keys : store'[k] # "none" => store[k] # "none",
           d = 1 => \A k, i, t : ~Turn(1, "tag", k, i, t),
           \A k \in Keys, i \in Nat, t \in Tags : Turn(n, "untag", k, i, t)' => store'[k] = "none"
    PROVE  IndexInv'
<1>1. n \in Nat /\ d \in {0, 1}
  BY TurnsShift DEF Shifted
<1>2. ASSUME NEW k \in Keys, NEW t \in Tags, store'[k] # "none", t \in TagSet(k)
      PROVE  /\ k \in index'[t] \/ \E b, j \in Nat : Turn(b, "tag", k, j, t)'
             /\ \A a, i \in Nat : Turn(a, "untag", k, i, t)' =>
                  \E b, j \in Nat : Turn(b, "tag", k, j, t)' /\ Before(a, i, b, j)
  <2>1. /\ k \in index[t] \/ \E b, j \in Nat : Turn(b, "tag", k, j, t)
        /\ \A a, i \in Nat : Turn(a, "untag", k, i, t) =>
             \E b, j \in Nat : Turn(b, "tag", k, j, t) /\ Before(a, i, b, j)
    BY <1>2 DEF IInv, IndexInv
  <2>2. \A b, j \in Nat : Turn(b, "tag", k, j, t) =>
          b > d /\ b - d \in Nat /\ Turn(b - d, "tag", k, j, t)'
    <3> SUFFICES ASSUME NEW b \in Nat, NEW j \in Nat, Turn(b, "tag", k, j, t)
                 PROVE  b > d /\ b - d \in Nat /\ Turn(b - d, "tag", k, j, t)'
      OBVIOUS
    <3>1. b >= 1
      BY DEF Turn
    <3>2. b > d
      BY <1>1, <3>1
    <3> QED BY <3>2, TurnsShift
  <2>3. ASSUME NEW a \in Nat, NEW i \in Nat, Turn(a, "untag", k, i, t)'
        PROVE  \E b, j \in Nat : Turn(b, "tag", k, j, t)' /\ Before(a, i, b, j)
    <3>1. a # n /\ Turn(a + d, "untag", k, i, t) /\ a + d \in Nat
      BY <1>1, <1>2, <2>3, TurnsShift
    <3>2. PICK b \in Nat, j \in Nat : Turn(b, "tag", k, j, t) /\ Before(a + d, i, b, j)
      BY <2>1, <3>1
    <3>3. b - d \in Nat /\ Turn(b - d, "tag", k, j, t)'
      BY <2>2, <3>2
    <3>4. Before(a, i, b - d, j)
      BY <1>1, <3>2 DEF Before
    <3> QED BY <3>3, <3>4
  <2>4. k \in index'[t] \/ \E b, j \in Nat : Turn(b, "tag", k, j, t)'
    BY <2>1, <2>2
  <2> QED BY <2>3, <2>4
<1> QED BY <1>2 DEF IndexInv, TagSet

(* An entry is stored: its listing begins at the end of the queue, behind all *)
(* removals of the key, none of which has as many tags before any.            *)
LEMMA IndexSet ==
    ASSUME IInv, NEW d, NEW n, Shifted(d, n), index' = index, NEW key \in Keys,
           \A k \in Keys : k # key /\ store'[k] # "none" => store[k] # "none",
           d = 1 => \A k, i, t : ~Turn(1, "tag", k, i, t),
           n = Len(queue'), procs'[queue'[n]].pc = "tag", procs'[queue'[n]].key = key,
           procs'[queue'[n]].tags = TagsOf[key]
    PROVE  IndexInv'
<1>1. n \in Nat \ {0} /\ d \in {0, 1}
  BY TurnsShift, LenProperties DEF Shifted, IInv, QueueInv
<1>2. \A j \in 1 .. Len(TagsOf[key]) : Turn(n, "tag", key, j, TagsOf[key][j])'
  BY <1>1 DEF Turn
<1>3. \A k, i, t : ~Turn(n, "untag", k, i, t)'
  BY DEF Turn
<1>4. TagsOf[key] \in Seq(Tags) /\ \A t \in TagSet(key) : \E j \in 1 .. Len(TagsOf[key]) : TagsOf[key][j] = t
  BY CacheAssumption, LenProperties DEF TagSet
<1>5. ASSUME NEW k \in Keys, NEW t \in Tags, store'[k] # "none", t \in TagSet(k)
      PROVE  /\ k \in index'[t] \/ \E b, j \in Nat : Turn(b, "tag", k, j, t)'
             /\ \A a, i \in Nat : Turn(a, "untag", k, i, t)' =>
                  \E b, j \in Nat : Turn(b, "tag", k, j, t)' /\ Before(a, i, b, j)
  <2>1. CASE k = key
    <3>1. \E b, j \in Nat : Turn(b, "tag", k, j, t)'
      BY <1>1, <1>2, <1>4, <1>5, <2>1
    <3>2. ASSUME NEW a \in Nat, NEW i \in Nat, Turn(a, "untag", k, i, t)'
          PROVE  \E b, j \in Nat : Turn(b, "tag", k, j, t)' /\ Before(a, i, b, j)
      <4>1. a < n /\ Turn(a + d, "untag", k, i, t)
        BY <1>3, <3>2, TurnsShift
      <4>2. Good(queue[a + d], procs[queue[a + d]])
        BY <4>1, ElementOfSeq DEF Turn, IInv, QueueInv, ProcsInv
      <4>3. \E j \in 1 .. Len(TagsOf[k]) : i <= j /\ TagsOf[k][j] = t
        <5>1. Suffix(procs[queue[a + d]].tags, k)
          BY <4>1, <4>2 DEF Turn, Good
        <5>2. i \in 1 .. Len(procs[queue[a + d]].tags) /\ procs[queue[a + d]].tags[i] = t
          BY <4>1 DEF Turn
        <5> QED BY <1>5, <5>1, <5>2 DEF Suffix
      <4>4. PICK j \in Nat : i <= j /\ Turn(n, "tag", k, j, t)'
        BY <1>2, <1>4, <2>1, <4>3
      <4>5. Before(a, i, n, j)
        BY <1>1, <4>1, <4>4 DEF Before
      <4> QED BY <1>1, <4>4, <4>5
    <3> QED BY <3>1, <3>2
  <2>2. CASE k # key
    <3>1. /\ k \in index[t] \/ \E b, j \in Nat : Turn(b, "tag", k, j, t)
          /\ \A a, i \in Nat : Turn(a, "untag", k, i, t) =>
               \E b, j \in Nat : Turn(b, "tag", k, j, t) /\ Before(a, i, b, j)
      BY <1>5, <2>2 DEF IInv, IndexInv
    <3>2. \A b, j \in Nat : Turn(b, "tag", k, j, t) =>
            b > d /\ b - d \in Nat /\ Turn(b - d, "tag", k, j, t)'
      <4> SUFFICES ASSUME NEW b \in Nat, NEW j \in Nat, Turn(b, "tag", k, j, t)
                   PROVE  b > d /\ b - d \in Nat /\ Turn(b - d, "tag", k, j, t)'
        OBVIOUS
      <4>1. b >= 1
        BY DEF Turn
      <4>2. b > d
        BY <1>1, <4>1
      <4> QED BY <4>2, TurnsShift
    <3>3. ASSUME NEW a \in Nat, NEW i \in Nat, Turn(a, "untag", k, i, t)'
          PROVE  \E b, j \in Nat : Turn(b, "tag", k, j, t)' /\ Before(a, i, b, j)
      <4>1. Turn(a + d, "untag", k, i, t) /\ a + d \in Nat
        BY <1>1, <1>3, <3>3, TurnsShift
      <4>2. PICK b \in Nat, j \in Nat : Turn(b, "tag", k, j, t) /\ Before(a + d, i, b, j)
        BY <3>1, <4>1
      <4>3. b - d \in Nat /\ Turn(b - d, "tag", k, j, t)'
        BY <3>2, <4>2
      <4>4. Before(a, i, b - d, j)
        BY <1>1, <4>2 DEF Before
      <4> QED BY <4>3, <4>4
    <3>4. k \in index'[t] \/ \E b, j \in Nat : Turn(b, "tag", k, j, t)'
      BY <3>1, <3>2
    <3> QED BY <3>3, <3>4
  <2> QED BY <2>1, <2>2
<1> QED BY <1>5 DEF IndexInv, TagSet

(* The coroutine in front goes to the end of the queue one tag further on.    *)
NextTag(n) ==
    /\ Shifted(1, n) /\ n = Len(queue') /\ queue'[n] = queue[1]
    /\ procs'[queue[1]].pc = procs[queue[1]].pc /\ procs'[queue[1]].key = procs[queue[1]].key
    /\ procs[queue[1]].tags # <<>>
    /\ procs'[queue[1]].tags = Tail(procs[queue[1]].tags)

LEMMA TurnsOn ==
    ASSUME IInv, NEW n, NextTag(n)
    PROVE  /\ n \in Nat \ {0} /\ 1 \in 1 .. Len(queue)
           /\ Turn(1, procs[queue[1]].pc, procs[queue[1]].key, 1, Head(procs[queue[1]].tags))
           /\ \A i \in Nat : \A pc, k, t : Turn(1, pc, k, i, t) =>
                /\ pc = procs[queue[1]].pc /\ k = procs[queue[1]].key /\ i >= 1
                /\ i = 1 => t = Head(procs[queue[1]].tags)
                /\ i > 1 => i - 1 \in Nat /\ Turn(n, pc, k, i - 1, t)'
           /\ \A i \in Nat : \A pc, k, t : Turn(n, pc, k, i, t)' => Turn(1, pc, k, i + 1, t)
<1> DEFINE s == procs[queue[1]].tags
<1>1. /\ Len(queue) \in Nat /\ 1 <= Len(queue) /\ n = Len(queue) - 1 + 1 /\ n = Len(queue')
      /\ queue'[n] = queue[1] /\ n \in Nat \ {0} /\ 1 \in 1 .. Len(queue) /\ queue[1] \in Procs
  <2>1. Len(queue) \in Nat /\ queue \in Seq(Procs)
    BY LenProperties DEF IInv, QueueInv
  <2>2. 1 <= Len(queue) /\ n = Len(queue) - 1 + 1 /\ n = Len(queue') /\ queue'[n] = queue[1]
    BY DEF NextTag, Shifted
  <2> QED BY <2>1, <2>2, ElementOfSeq
<1>2. s \in Seq(Tags) /\ s # <<>>
  BY <1>1 DEF IInv, ProcsInv, ProcRecords, NextTag
<1> HIDE DEF s
<1>3. /\ Len(s) \in Nat /\ Len(s) >= 1 /\ Head(s) = s[1] /\ Len(Tail(s)) = Len(s) - 1
      /\ \A i \in 1 .. Len(s) - 1 : Tail(s)[i] = s[i + 1]
  BY <1>2, HeadTailProperties, LenProperties, EmptySeq
<1>4. /\ procs'[queue'[n]].pc = procs[queue[1]].pc /\ procs'[queue'[n]].key = procs[queue[1]].key
      /\ procs'[queue'[n]].tags = Tail(s) /\ procs[queue[1]].tags = s
  BY <1>1 DEF NextTag, s
<1>5. \A pc, k, t : \A i \in Nat : Turn(1, pc, k, i, t) <=>
        /\ pc = procs[queue[1]].pc /\ k = procs[queue[1]].key
        /\ i \in 1 .. Len(s) /\ s[i] = t
  BY <1>1, <1>4 DEF Turn
<1>6. \A pc, k, t : \A i \in Nat : Turn(n, pc, k, i, t)' <=>
        /\ pc = procs[queue[1]].pc /\ k = procs[queue[1]].key
        /\ i \in 1 .. Len(s) - 1 /\ s[i + 1] = t
  <2>1. \A pc, k, t : \A i \in Nat : Turn(n, pc, k, i, t)' <=>
          /\ pc = procs[queue[1]].pc /\ k = procs[queue[1]].key
          /\ i \in 1 .. Len(Tail(s)) /\ Tail(s)[i] = t
    <3>1. n \in 1 .. Len(queue')
      BY <1>1
    <3> QED BY <3>1, <1>4 DEF Turn
  <2> QED BY <2>1, <1>3
<1>7. 1 \in 1 .. Len(s) /\ \A i \in Nat : /\ i \in 1 .. Len(s) => i = 1 \/ (i - 1 \in 1 .. Len(s) - 1 /\ i - 1 + 1 = i /\ i - 1 \in Nat)
                                          /\ i \in 1 .. Len(s) - 1 => i + 1 \in 1 .. Len(s)
                                          /\ i \in 1 .. Len(s) => i >= 1
  BY <1>3
<1>8. procs[queue[1]].tags = s
  BY <1>4
<1>9. \A i \in Nat : \A pc, k, t : Turn(1, pc, k, i, t) =>
        /\ pc = procs[queue[1]].pc /\ k = procs[queue[1]].key /\ i >= 1
        /\ i = 1 => t = Head(s)
        /\ i > 1 => i - 1 \in Nat /\ Turn(n, pc, k, i - 1, t)'
  BY <1>3, <1>5, <1>6, <1>7
<1>10. \A i \in Nat : \A pc, k, t : Turn(n, pc, k, i, t)' => Turn(1, pc, k, i + 1, t)
  BY <1>5, <1>6, <1>7
<1>11. Turn(1, procs[queue[1]].pc, procs[queue[1]].key, 1, Head(s))
  BY <1>3, <1>5, <1>7
<1>12. \A i \in Nat : \A pc, k, t : Turn(1, pc, k, i, t) =>
         /\ pc = procs[queue[1]].pc /\ k = procs[queue[1]].key /\ i >= 1
         /\ i = 1 => t = Head(procs[queue[1]].tags)
         /\ i > 1 => i - 1 \in Nat /\ Turn(n, pc, k, i - 1, t)'
  BY <1>8, <1>9
<1>13. Turn(1, procs[queue[1]].pc, procs[queue[1]].key, 1, Head(procs[queue[1]].tags))
  BY <1>8, <1>11
<1> QED BY <1>1, <1>10, <1>12, <1>13

(* A removal under way takes one more tag off its key.                        *)
LEMMA IndexUntag ==
    ASSUME IInv, NEW n, NextTag(n), procs[queue[1]].pc = "untag", store' = store,
           index' = [index EXCEPT ![Head(procs[queue[1]].tags)] = @ \ {procs[queue[1]].key}]
    PROVE  IndexInv'
<1> DEFINE t0 == Head(procs[queue[1]].tags)
           k0 == procs[queue[1]].key
<1>1. n \in Nat \ {0} /\ Shifted(1, n)
  BY TurnsOn DEF NextTag
<1>2. Turn(1, "untag", k0, 1, t0)
  BY TurnsOn
<1>3. \A t \in Tags : \A k : k \in index[t] /\ ~(t = t0 /\ k = k0) => k \in index'[t]
  BY DEF IInv, MapsOK
<1> HIDE DEF t0, k0
<1>4. ASSUME NEW k \in Keys, NEW t \in Tags, store'[k] # "none", t \in TagSet(k)
      PROVE  /\ k \in index'[t] \/ \E b, j \in Nat : Turn(b, "tag", k, j, t)'
             /\ \A a, i \in Nat : Turn(a, "untag", k, i, t)' =>
                  \E b, j \in Nat : Turn(b, "tag", k, j, t)' /\ Before(a, i, b, j)
  <2>1. /\ k \in index[t] \/ \E b, j \in Nat : Turn(b, "tag", k, j, t)
        /\ \A a, i \in Nat : Turn(a, "untag", k, i, t) =>
             \E b, j \in Nat : Turn(b, "tag", k, j, t) /\ Before(a, i, b, j)
    BY <1>4 DEF IInv, IndexInv
  <2>2. \A b, j \in Nat : Turn(b, "tag", k, j, t) =>
          b > 1 /\ b - 1 \in Nat /\ Turn(b - 1, "tag", k, j, t)'
    <3> SUFFICES ASSUME NEW b \in Nat, NEW j \in Nat, Turn(b, "tag", k, j, t)
                 PROVE  b > 1 /\ b - 1 \in Nat /\ Turn(b - 1, "tag", k, j, t)'
      OBVIOUS
    <3>1. b >= 1 /\ b # 1
      BY <1>2 DEF Turn
    <3>2. b > 1
      BY <3>1
    <3> QED BY <1>1, <3>2, TurnsShift
  <2>3. k \in index'[t] \/ \E b, j \in Nat : Turn(b, "tag", k, j, t)'
    <3>1. CASE t = t0 /\ k = k0
      BY <1>2, <2>1, <2>2, <3>1
    <3>2. CASE ~(t = t0 /\ k = k0)
      BY <1>3, <2>1, <2>2, <3>2
    <3> QED BY <3>1, <3>2
  <2>4. ASSUME NEW a \in Nat, NEW i \in Nat, Turn(a, "untag", k, i, t)'
        PROVE  \E b, j \in Nat : Turn(b, "tag", k, j, t)' /\ Before(a, i, b, j)
    <3>1. CASE a = n
      <4>1. Turn(1, "untag", k, i + 1, t)
        BY <2>4, <3>1, TurnsOn
      <4>2. PICK b \in Nat, j \in Nat : Turn(b, "tag", k, j, t) /\ Before(1, i + 1, b, j)
        BY <2>1, <4>1
      <4>3. b - 1 \in Nat /\ Turn(b - 1, "tag", k, j, t)' /\ Before(a, i, b - 1, j)
        BY <2>2, <4>2 DEF Before
      <4> QED BY <4>3
    <3>2. CASE a # n
      <4>1. Turn(a + 1, "untag", k, i, t) /\ a + 1 \in Nat
        BY <1>1, <2>4, <3>2, TurnsShift
      <4>2. PICK b \in Nat, j \in Nat : Turn(b, "tag", k, j, t) /\ Before(a + 1, i, b, j)
        BY <2>1, <4>1
      <4>3. b - 1 \in Nat /\ Turn(b - 1, "tag", k, j, t)' /\ Before(a, i, b - 1, j)
        BY <2>2, <4>2 DEF Before
      <4> QED BY <4>3
    <3> QED BY <3>1, <3>2
  <2> QED BY <2>3, <2>4
<1> QED BY <1>4 DEF IndexInv, TagSet

(* A set under way lists its key under one more tag.                          *)
LEMMA IndexTag ==
    ASSUME IInv, NEW n, NextTag(n), procs[queue[1]].pc = "tag", store' = store,
           index' = [index EXCEPT ![Head(procs[queue[1]].tags)] = @ \cup {procs[queue[1]].key}]
    PROVE  IndexInv'
<1> DEFINE t0 == Head(procs[queue[1]].tags)
           k0 == procs[queue[1]].key
<1>1. n \in Nat \ {0} /\ Shifted(1, n)
  BY TurnsOn DEF NextTag
<1>2. Turn(1, "tag", k0, 1, t0)
  BY TurnsOn
<1>3. \A t \in Tags : \A k : k \in index[t] \/ (t = t0 /\ k = k0) => k \in index'[t]
  BY DEF IInv, MapsOK
<1> HIDE DEF t0, k0
<1>4. ASSUME NEW k \in Keys, NEW t \in Tags, store'[k] # "none", t \in TagSet(k)
      PROVE  /\ k \in index'[t] \/ \E b, j \in Nat : Turn(b, "tag", k, j, t)'
             /\ \A a, i \in Nat : Turn(a, "untag", k, i, t)' =>
                  \E b, j \in Nat : Turn(b, "tag", k, j, t)' /\ Before(a, i, b, j)
  <2>1. /\ k \in index[t] \/ \E b, j \in Nat : Turn(b, "tag", k, j, t)
        /\ \A a, i \in Nat : Turn(a, "untag", k, i, t) =>
             \E b, j \in Nat : Turn(b, "tag", k, j, t) /\ Before(a, i, b, j)
    BY <1>4 DEF IInv, IndexInv
  <2>2. \A b, j \in Nat : Turn(b, "tag", k, j, t) =>
          \/ b > 1 /\ b - 1 \in Nat /\ Turn(b - 1, "tag", k, j, t)'
          \/ b = 1 /\ j = 1 /\ k = k0 /\ t = t0
          \/ b = 1 /\ j > 1 /\ j - 1 \in Nat /\ Turn(n, "tag", k, j - 1, t)'
    <3> SUFFICES ASSUME NEW b \in Nat, NEW j \in Nat, Turn(b, "tag", k, j, t)
                 PROVE  \/ b > 1 /\ b - 1 \in Nat /\ Turn(b - 1, "tag", k, j, t)'
                        \/ b = 1 /\ j = 1 /\ k = k0 /\ t = t0
                        \/ b = 1 /\ j > 1 /\ j - 1 \in Nat /\ Turn(n, "tag", k, j - 1, t)'
      OBVIOUS
    <3>1. b >= 1
      BY DEF Turn
    <3>2. CASE b > 1
      BY <1>1, <3>2, TurnsShift
    <3>3. CASE b = 1
      <4>1. /\ k = k0 /\ j >= 1 /\ (j = 1 => t = t0)
            /\ j > 1 => j - 1 \in Nat /\ Turn(n, "tag", k, j - 1, t)'
        BY <3>3, TurnsOn DEF k0, t0
      <4> QED BY <3>3, <4>1
    <3> QED BY <3>1, <3>2, <3>3
  <2>3. k \in index'[t] \/ \E b, j \in Nat : Turn(b, "tag", k, j, t)'
    BY <1>1, <1>3, <2>1, <2>2
  <2>4. ASSUME NEW a \in Nat, NEW i \in Nat, Turn(a, "untag", k, i, t)'
        PROVE  \E b, j \in Nat : Turn(b, "tag", k, j, t)' /\ Before(a, i, b, j)
    <3>1. ~(a = n) /\ i >= 1
      <4>1. a = n => Turn(1, "untag", k, i + 1, t)
        BY <2>4, TurnsOn
      <4> QED BY <1>2, <2>4, <4>1 DEF Turn
    <3>2. Turn(a + 1, "untag", k, i, t) /\ a + 1 \in Nat /\ a < n
      BY <1>1, <2>4, <3>1, TurnsShift
    <3>3. PICK b \in Nat, j \in Nat : Turn(b, "tag", k, j, t) /\ Before(a + 1, i, b, j)
      BY <2>1, <3>2
    <3>4. CASE b > 1
      <4>1. b - 1 \in Nat /\ Turn(b - 1, "tag", k, j, t)' /\ Before(a, i, b - 1, j)
        BY <2>2, <3>3, <3>4 DEF Before
      <4> QED BY <4>1
    <3>5. CASE ~(b > 1)
      <4>1. j > 1 /\ j - 1 \in Nat /\ Turn(n, "tag", k, j - 1, t)' /\ Before(a, i, n, j - 1)
        BY <1>1, <2>2, <3>1, <3>2, <3>3, <3>5 DEF Before
      <4> QED BY <1>1, <4>1
    <3> QED BY <3>4, <3>5
  <2> QED BY <2>3, <2>4
<1> QED BY <1>4 DEF IndexInv, TagSet

(* The coroutine in front goes on, and q, itself or one that slept, comes to  *)
(* the end of the queue.                                                      *)
LEMMA FrontMoves ==
    ASSUME IInv, queue # <<>>, NEW q \in Procs, q = Head(queue) \/ procs[q].pc \in Asleep,
           queue' = Append(Tail(queue), q), procs'[q].pc \notin Asleep,
           \A x \in Procs \ {Head(queue), q} : procs[x].pc \in Asleep \/ Same(x)
    PROVE  /\ Head(queue) \in Procs /\ queue[1] = Head(queue)
           /\ QueueInv' /\ Shifted(1, Len(queue'))
           /\ Len(queue') \in Nat /\ queue'[Len(queue')] = q
<1> DEFINE t == Tail(queue)
           m == Len(queue)
<1>1. /\ queue \in Seq(Procs) /\ m \in Nat \ {0} /\ Head(queue) = queue[1] /\ Head(queue) \in Procs
      /\ t \in Seq(Procs) /\ Len(t) = m - 1 /\ \A a \in 1 .. m - 1 : t[a] = queue[a + 1]
  BY HeadTailProperties, EmptySeq DEF IInv, QueueInv
<1>2. queue' = Append(t, q)
  OBVIOUS
<1> HIDE DEF t
<1>3. /\ queue' \in Seq(Procs) /\ Len(queue') = m /\ queue'[m] = q
      /\ \A a \in 1 .. m - 1 : queue'[a] = queue[a + 1]
  <2>1. /\ Append(t, q) \in Seq(Procs) /\ Len(Append(t, q)) = Len(t) + 1
        /\ Append(t, q)[Len(t) + 1] = q /\ \A a \in 1 .. Len(t) : Append(t, q)[a] = t[a]
    BY <1>1, AppendFacts
  <2>2. Len(t) + 1 = m
    BY <1>1
  <2> QED BY <1>1, <1>2, <2>1, <2>2
<1> HIDE DEF m
<1>4. /\ \A a, b \in 1 .. m : queue[a] = queue[b] => a = b
      /\ \A a \in 1 .. m : queue[a] \in Procs /\ procs[queue[a]].pc \notin Asleep
  BY <1>1, ElementOfSeq DEF IInv, QueueInv, m
<1>5. \A a \in 1 .. m - 1 : a + 1 \in 1 .. m /\ a + 1 # 1 /\ a \in 1 .. m
  BY <1>1
<1>6. ASSUME NEW a \in 1 .. m - 1
      PROVE  queue[a + 1] \in Procs \ {Head(queue), q} /\ Same(queue[a + 1])
  <2>1. queue[a + 1] # queue[1]
    BY <1>1, <1>4, <1>5
  <2> QED BY <1>1, <1>4, <1>5, <2>1
<1>7. Shifted(1, m)
  BY <1>1, <1>3, <1>6 DEF Shifted, m
<1>8. ASSUME NEW a \in 1 .. m, NEW b \in 1 .. m, queue'[a] = queue'[b]
      PROVE  a = b
  <2>1. CASE a = m /\ b = m
    BY <2>1
  <2>2. CASE a = m /\ b # m
    <3>1. b \in 1 .. m - 1
      BY <1>1, <2>2
    <3> QED BY <1>3, <1>6, <1>8, <2>2, <3>1
  <2>3. CASE a # m /\ b = m
    <3>1. a \in 1 .. m - 1
      BY <1>1, <2>3
    <3> QED BY <1>3, <1>6, <1>8, <2>3, <3>1
  <2>4. CASE a # m /\ b # m
    <3>1. a \in 1 .. m - 1 /\ b \in 1 .. m - 1
      BY <1>1, <2>4
    <3>2. queue[a + 1] = queue[b + 1]
      BY <1>3, <1>8, <3>1
    <3>3. a + 1 = b + 1
      BY <1>4, <1>5, <3>1, <3>2
    <3> QED BY <3>1, <3>3
  <2> QED BY <2>1, <2>2, <2>3, <2>4
<1>9. ASSUME NEW a \in 1 .. m
      PROVE  procs'[queue'[a]].pc \notin Asleep
  <2>1. CASE a = m
    BY <1>3, <2>1
  <2>2. CASE a # m
    <3>1. a \in 1 .. m - 1
      BY <1>1, <2>2
    <3>2. queue'[a] = queue[a + 1] /\ Same(queue[a + 1]) /\ procs[queue[a + 1]].pc \notin Asleep
      BY <1>3, <1>4, <1>5, <1>6, <3>1
    <3> QED BY <3>2 DEF Same
  <2> QED BY <2>1, <2>2
<1>10. QueueInv'
  BY <1>3, <1>8, <1>9 DEF QueueInv, Asleep
<1> QED BY <1>1, <1>3, <1>7, <1>10

(* The coroutine in front falls asleep.                                       *)
LEMMA FrontSleeps ==
    ASSUME IInv, queue # <<>>, queue' = Tail(queue),
           \A x \in Procs \ {Head(queue)} : procs[x].pc \in Asleep \/ Same(x)
    PROVE  /\ Head(queue) \in Procs /\ queue[1] = Head(queue)
           /\ QueueInv' /\ Shifted(1, Len(queue)) /\ Len(queue) \in Nat /\ Len(queue') = Len(queue) - 1
<1> DEFINE m == Len(queue)
<1>1. /\ queue \in Seq(Procs) /\ m \in Nat \ {0} /\ Head(queue) = queue[1] /\ Head(queue) \in Procs
      /\ queue' \in Seq(Procs) /\ Len(queue') = m - 1 /\ \A a \in 1 .. m - 1 : queue'[a] = queue[a + 1]
  BY HeadTailProperties, EmptySeq DEF IInv, QueueInv
<1> HIDE DEF m
<1>2. /\ \A a, b \in 1 .. m : queue[a] = queue[b] => a = b
      /\ \A a \in 1 .. m : queue[a] \in Procs /\ procs[queue[a]].pc \notin Asleep
  BY <1>1, ElementOfSeq DEF IInv, QueueInv, m
<1>3. \A a \in 1 .. m - 1 : a + 1 \in 1 .. m /\ a + 1 # 1 /\ a \in 1 .. m
  BY <1>1
<1>4. ASSUME NEW a \in 1 .. m - 1
      PROVE  Same(queue[a + 1])
  <2>1. queue[a + 1] # queue[1]
    BY <1>1, <1>2, <1>3
  <2> QED BY <1>1, <1>2, <1>3, <2>1
<1>5. Shifted(1, m)
  BY <1>1, <1>4 DEF Shifted, m
<1>6. ASSUME NEW a \in 1 .. m - 1, NEW b \in 1 .. m - 1, queue'[a] = queue'[b]
      PROVE  a = b
  <2>1. queue[a + 1] = queue[b + 1]
    BY <1>1, <1>6
  <2>2. a + 1 = b + 1
    BY <1>2, <1>3, <2>1
  <2> QED BY <2>2
<1>7. ASSUME NEW a \in 1 .. m - 1
      PROVE  procs'[queue'[a]].pc \notin Asleep
  BY <1>1, <1>2, <1>3, <1>4 DEF Same
<1>8. QueueInv'
  BY <1>1, <1>6, <1>7 DEF QueueInv, Asleep
<1> QED BY <1>1, <1>5, <1>8 DEF m

(* One that slept comes to the end of the queue.                              *)
LEMMA OneComes ==
    ASSUME IInv, NEW q \in Procs, procs[q].pc \in Asleep, queue' = Append(queue, q),
           procs'[q].pc \notin Asleep,
           \A x \in Procs \ {q} : procs[x].pc \in Asleep \/ Same(x)
    PROVE  /\ QueueInv' /\ Shifted(0, Len(queue'))
           /\ Len(queue') \in Nat /\ queue'[Len(queue')] = q
<1> DEFINE m == Len(queue)
<1>1. /\ queue \in Seq(Procs) /\ m \in Nat
      /\ queue' \in Seq(Procs) /\ Len(queue') = m + 1 /\ queue'[m + 1] = q
      /\ \A a \in 1 .. m : queue'[a] = queue[a]
  BY AppendFacts, LenProperties DEF IInv, QueueInv
<1> HIDE DEF m
<1>2. /\ \A a, b \in 1 .. m : queue[a] = queue[b] => a = b
      /\ \A a \in 1 .. m : queue[a] \in Procs /\ procs[queue[a]].pc \notin Asleep
  BY <1>1, ElementOfSeq DEF IInv, QueueInv, m
<1>3. ASSUME NEW a \in 1 .. m
      PROVE  queue[a] # q /\ Same(queue[a])
  BY <1>2
<1>4. Shifted(0, m + 1)
  BY <1>1, <1>3 DEF Shifted, m
<1>5. ASSUME NEW a \in 1 .. m + 1, NEW b \in 1 .. m + 1, queue'[a] = queue'[b]
      PROVE  a = b
  <2>1. (a = m + 1 \/ a \in 1 .. m) /\ (b = m + 1 \/ b \in 1 .. m)
    BY <1>1
  <2> QED BY <1>1, <1>2, <1>3, <1>5, <2>1
<1>6. ASSUME NEW a \in 1 .. m + 1
      PROVE  procs'[queue'[a]].pc \notin Asleep
  <2>1. a = m + 1 \/ a \in 1 .. m
    BY <1>1
  <2> QED BY <1>1, <1>2, <1>3, <2>1 DEF Same
<1>7. QueueInv'
  BY <1>1, <1>5, <1>6 DEF QueueInv, Asleep
<1> QED BY <1>1, <1>4, <1>7

(* The queue is left as it was.                                               *)
LEMMA QueueStays ==
    ASSUME IInv, queue' = queue, \A x \in Procs : Same(x)
    PROVE  QueueInv' /\ Shifted(0, Len(queue) + 1) /\ Len(queue) \in Nat
<1>1. /\ queue \in Seq(Procs) /\ Len(queue) \in Nat
      /\ \A a \in 1 .. Len(queue) : queue[a] \in Procs /\ Same(queue[a])
  BY ElementOfSeq, LenProperties DEF IInv, QueueInv
<1>2. Shifted(0, Len(queue) + 1)
  BY <1>1 DEF Shifted
<1>3. QueueInv'
  BY <1>1 DEF IInv, QueueInv, Same
<1> QED BY <1>1, <1>2, <1>3

-----------------------------------------------------------------------------
(* A step of one coroutine.                                                   *)

Moves(p, rec) ==
    /\ procs' = [procs EXCEPT ![p] = rec]
    /\ \/ /\ queue # <<>> /\ p = Head(queue)
          /\ queue' = IF rec.pc \in Asleep THEN Tail(queue) ELSE Append(Tail(queue), p)
       \/ procs[p].pc \in Asleep /\ rec.pc \notin Asleep /\ queue' = Append(queue, p)

(* The queue after it: d and n as in Shifted.                                 *)
Arrives(p, rec, d, n) ==
    /\ Shifted(d, n) /\ (d = 1 => queue # <<>> /\ p = Head(queue) /\ queue[1] = p)
    /\ \A pc, k, i, t : Turn(n, pc, k, i, t)' => rec.pc = pc /\ rec.key = k

LEMMA MovesQueue ==
    ASSUME IInv, NEW p \in Procs, NEW rec, Moves(p, rec)
    PROVE  /\ procs'[p] = rec /\ \A x \in Procs \ {p} : procs'[x] = procs[x]
           /\ QueueInv'
           /\ \E d, n : Arrives(p, rec, d, n)
<1>1. procs'[p] = rec /\ \A x \in Procs \ {p} : procs'[x] = procs[x]
  BY DEF Moves, IInv, ProcsInv
<1>2. \A x \in Procs \ {p} : Same(x)
  BY <1>1 DEF Same
<1>0. PICK m, n : m = Len(queue) /\ n = Len(queue')
  OBVIOUS
<1>3. CASE /\ queue # <<>> /\ p = Head(queue) /\ rec.pc \in Asleep /\ queue' = Tail(queue)
  <2>1. /\ queue[1] = p /\ QueueInv' /\ Shifted(1, Len(queue))
        /\ Len(queue) \in Nat /\ Len(queue') = Len(queue) - 1
    BY <1>2, <1>3, FrontSleeps
  <2>2. \A pc, k, i, t : ~Turn(m, pc, k, i, t)'
    BY <1>0, <2>1 DEF Turn
  <2>3. Arrives(p, rec, 1, m)
    BY <1>0, <1>3, <2>1, <2>2 DEF Arrives
  <2> QED BY <1>1, <2>1, <2>3
<1>4. CASE /\ queue # <<>> /\ p = Head(queue) /\ rec.pc \notin Asleep /\ queue' = Append(Tail(queue), p)
  <2>1. procs'[p].pc \notin Asleep
    BY <1>1, <1>4
  <2>2. /\ queue[1] = p /\ QueueInv' /\ Shifted(1, Len(queue')) /\ queue'[Len(queue')] = p
    BY <1>2, <1>4, <2>1, FrontMoves
  <2>3. \A pc, k, i, t : Turn(n, pc, k, i, t)' => rec.pc = pc /\ rec.key = k
    BY <1>0, <1>1, <2>2 DEF Turn
  <2>4. Arrives(p, rec, 1, n)
    BY <1>0, <1>4, <2>2, <2>3 DEF Arrives
  <2> QED BY <1>1, <2>2, <2>4
<1>5. CASE procs[p].pc \in Asleep /\ rec.pc \notin Asleep /\ queue' = Append(queue, p)
  <2>1. procs'[p].pc \notin Asleep
    BY <1>1, <1>5
  <2>2. /\ QueueInv' /\ Shifted(0, Len(queue')) /\ queue'[Len(queue')] = p
    BY <1>2, <1>5, <2>1, OneComes
  <2>3. \A pc, k, i, t : Turn(n, pc, k, i, t)' => rec.pc = pc /\ rec.key = k
    BY <1>0, <1>1, <2>2 DEF Turn
  <2>4. Arrives(p, rec, 0, n)
    BY <1>0, <2>2, <2>3 DEF Arrives
  <2> QED BY <1>1, <2>2, <2>4
<1> QED BY <1>3, <1>4, <1>5 DEF Moves

(* A flight under way keeps its key, and who joins one joins one under way.   *)
Flies(p, rec) ==
    /\ rec.pc = "joined" => procs[rec.on].pc # "idle" /\ rec.on \in Flights
    /\ p \in Flights => procs[p].pc # "idle" /\ rec.pc # "idle" /\ rec.key = procs[p].key

OwesAll(rec) == rec.op = "invalidate" =>
    \A k \in rec.owed : store'[k] # "none" => k \in rec.todo \/ (rec.pc = "reread" /\ rec.key = k)

Shrinks == \A k \in Keys : store'[k] # "none" => store[k] # "none"

LEMMA Frame ==
    ASSUME IInv, NEW p \in Procs, NEW rec, Moves(p, rec), Good(p, rec),
           inflight' = inflight, Shrinks, Flies(p, rec), OwesAll(rec)
    PROVE  ProcsInv' /\ QueueInv' /\ FlightInv' /\ OwedInv'
<1>1. procs'[p] = rec /\ (\A x \in Procs \ {p} : procs'[x] = procs[x]) /\ QueueInv'
  BY MovesQueue
<1>2. procs' \in [Procs -> ProcRecords] /\ \A x \in Procs : Good(x, procs'[x])
  BY <1>1 DEF Moves, IInv, ProcsInv, Good
<1>3. ProcsInv'
  BY <1>2 DEF ProcsInv, Good, Suffix, TagSet, ProcRecords
<1>4. FlightInv'
  <2>1. \A x \in Procs : /\ x # p => procs'[x] = procs[x]
                         /\ x = p => procs'[x] = rec
    BY <1>1
  <2>2. Calls \subseteq Procs /\ Flights \subseteq Procs /\ None \notin Flights
    BY CacheAssumption DEF Procs
  <2>3. \A f \in Flights : /\ procs'[f].pc # "idle" <=> procs[f].pc # "idle"
                           /\ procs[f].pc # "idle" => procs'[f].key = procs[f].key
    BY <2>1, <2>2 DEF Flies
  <2>4. \A f \in Flights : procs'[f].pc # "idle" => inflight'[procs'[f].key] = f
    BY <2>3 DEF IInv, FlightInv
  <2>5. \A k \in Keys : inflight'[k] # None => procs'[inflight'[k]].pc # "idle" /\ procs'[inflight'[k]].key = k
    BY <2>3 DEF IInv, FlightInv, MapsOK
  <2>6. \A c \in Calls : procs'[c].pc = "joined" => procs'[procs'[c].on].pc # "idle"
    <3> SUFFICES ASSUME NEW c \in Calls, procs'[c].pc = "joined"
                 PROVE  procs'[procs'[c].on].pc # "idle"
      OBVIOUS
    <3>1. CASE c = p
      BY <2>1, <2>2, <2>3, <3>1 DEF Flies
    <3>2. CASE c # p
      <4>1. procs'[c] = procs[c]
        BY <2>1, <2>2, <3>2
      <4>2. procs[c].on \in Flights /\ procs[procs[c].on].pc # "idle"
        BY <2>2, <4>1 DEF IInv, FlightInv, ProcsInv, Good
      <4> QED BY <2>3, <4>1, <4>2
    <3> QED BY <3>1, <3>2
  <2> QED BY <2>4, <2>5, <2>6 DEF FlightInv
<1>5. OwedInv'
  <2> SUFFICES ASSUME NEW c \in Calls, procs'[c].op = "invalidate", NEW k \in procs'[c].owed, store'[k] # "none"
               PROVE  k \in procs'[c].todo \/ (procs'[c].pc = "reread" /\ procs'[c].key = k)
    BY DEF OwedInv, Owes
  <2>1. c \in Procs
    BY DEF Procs
  <2>2. CASE c = p
    BY <1>1, <2>2 DEF OwesAll
  <2>3. CASE c # p
    <3>1. procs'[c] = procs[c] /\ k \in Keys
      BY <1>1, <2>1, <2>3 DEF IInv, ProcsInv, ProcRecords
    <3> QED BY <3>1 DEF IInv, OwedInv, Owes, Shrinks
  <2> QED BY <2>2, <2>3
<1> QED BY <1>1, <1>3, <1>4, <1>5

(* No entry is counted anew, and the LRU loses no key.                        *)
LEMMA LruShrinks ==
    ASSUME IInv, lru' \in Seq(Keys), ToSet(lru) \subseteq ToSet(lru'), Counted' \subseteq Counted
    PROVE  LruInv'
<1>1. ASSUME MaxEntries > 0
      PROVE  Counted' \subseteq ToSet(lru') /\ Cardinality(Counted') <= MaxEntries
  <2>1. Counted \subseteq ToSet(lru) /\ Cardinality(Counted) <= MaxEntries
    BY <1>1 DEF IInv, LruInv
  <2>2. IsFiniteSet(Counted)
    BY <2>1, ToSetFinite, FS_Subset DEF IInv, MapsOK
  <2>3. Cardinality(Counted') <= Cardinality(Counted) /\ Cardinality(Counted) \in Nat /\ Cardinality(Counted') \in Nat
    BY <2>2, FS_Subset, FS_CardinalityType
  <2>4. Cardinality(Counted') <= MaxEntries
    BY <2>1, <2>3, CacheAssumption
  <2> QED BY <2>1, <2>4
<1> QED BY <1>1 DEF LruInv

LEMMA LruKept ==
    ASSUME IInv, lru' \in Seq(Keys), ToSet(lru) \subseteq ToSet(lru'), Shrinks,
           \A k \in Keys : store'[k] # "none" /\ k \in direct => k \in direct',
           \A x \in Procs : Tagging(procs[x]) => Tagging(procs'[x]) /\ procs'[x].key = procs[x].key
    PROVE  LruInv'
<1>1. Counted' \subseteq Counted
  BY DEF Counted, Shrinks, Tagging
<1> QED BY <1>1, LruShrinks

(* A step that lists and unlists nothing: it begins a removal only of an      *)
(* entry that is gone.                                                        *)
LEMMA QuietStep ==
    ASSUME IInv, NEW p \in Procs, NEW rec, Moves(p, rec), Good(p, rec), MapsOK',
           index' = index, inflight' = inflight, Shrinks, Flies(p, rec), OwesAll(rec),
           procs[p].pc = "tag" => procs[p].tags = <<>>,
           rec.pc = "untag" => store'[rec.key] = "none", LruInv'
    PROVE  IInv'
<1>1. ProcsInv' /\ QueueInv' /\ FlightInv' /\ OwedInv'
  BY Frame
<1>2. PICK d, n : Arrives(p, rec, d, n)
  BY MovesQueue
<1>3. d = 1 => \A k, i, t : ~Turn(1, "tag", k, i, t)
  BY <1>2 DEF Turn, Arrives
<1>4. \A k \in Keys, i \in Nat, t \in Tags : Turn(n, "untag", k, i, t)' => store'[k] = "none"
  BY <1>2 DEF Arrives
<1>5. Shifted(d, n) /\ \A k \in Keys : store'[k] # "none" => store[k] # "none"
  BY <1>2 DEF Arrives, Shrinks
<1>6. IndexInv'
  BY <1>3, <1>4, <1>5, IndexKept
<1> QED BY <1>1, <1>6 DEF IInv

LEMMA PlainStep ==
    ASSUME IInv, NEW p \in Procs, NEW rec, Moves(p, rec), Good(p, rec), MapsOK',
           index' = index, inflight' = inflight, Shrinks, Flies(p, rec), OwesAll(rec),
           procs[p].pc = "tag" => procs[p].tags = <<>>,
           rec.pc = "untag" => store'[rec.key] = "none",
           ToSet(lru) \subseteq ToSet(lru'),
           \A k \in Keys : store'[k] # "none" /\ k \in direct => k \in direct',
           Tagging(procs[p]) => Tagging(rec) /\ rec.key = procs[p].key
    PROVE  IInv'
<1>1. procs'[p] = rec /\ \A x \in Procs \ {p} : procs'[x] = procs[x]
  BY MovesQueue
<1>2. \A x \in Procs : Tagging(procs[x]) => Tagging(procs'[x]) /\ procs'[x].key = procs[x].key
  BY <1>1
<1>3. lru' \in Seq(Keys)
  BY DEF MapsOK
<1>4. LruInv'
  BY <1>2, <1>3, LruKept
<1> QED BY <1>4, QuietStep

LEMMA HeadFacts ==
    ASSUME IInv, queue # <<>>
    PROVE  /\ Head(queue) \in Procs /\ Good(Head(queue), procs[Head(queue)])
           /\ procs[Head(queue)] \in ProcRecords /\ procs[Head(queue)].pc \notin Asleep
<1>1. queue \in Seq(Procs) /\ Len(queue) \in Nat \ {0} /\ Head(queue) = queue[1] /\ Head(queue) \in Procs
  BY HeadTailProperties, EmptySeq DEF IInv, QueueInv
<1>2. procs[queue[1]].pc \notin Asleep
  BY <1>1 DEF IInv, QueueInv
<1> QED BY <1>1, <1>2 DEF IInv, ProcsInv

LEMMA IdleTyped ==
    Idle \in ProcRecords /\ \A k \in Keys : Computing(k) \in ProcRecords
<1>1. /\ "idle" \in Pcs /\ FALSE \in BOOLEAN /\ <<>> \in Seq(Tags) /\ None \in Tags \cup {None}
      /\ "none" \in Ages \cup {"none"}
  BY DEF Pcs
<1>2. Idle \in ProcRecords
  BY <1>1 DEF ProcRecords, Idle
<1>3. ASSUME NEW k \in Keys
      PROVE  Computing(k) \in ProcRecords
  <2>1. "computing" \in Pcs /\ "compute" \in CallOps /\ k \in Keys \cup {None}
    BY DEF Pcs, CallOps
  <2> QED BY <1>2, <2>1 DEF ProcRecords, Computing
<1> QED BY <1>2, <1>3

(* The tags a removal can begin with, and those it has left after one of them.*)
LEMMA SuffixFacts ==
    ASSUME NEW k \in Keys
    PROVE  /\ TagsOf[k] \in Seq(Tags) /\ Suffix(TagsOf[k], k)
           /\ \A t \in Tags : <<t>> \in Seq(Tags) /\ Suffix(<<t>>, k)
           /\ <<>> \in Seq(Tags) /\ Suffix(<<>>, k)
           /\ \A tags \in Seq(Tags) : Suffix(tags, k) /\ tags # <<>> =>
                Tail(tags) \in Seq(Tags) /\ Suffix(Tail(tags), k)
<1>1. TagsOf[k] \in Seq(Tags) /\ Suffix(TagsOf[k], k)
  <2>1. TagsOf[k] \in Seq(Tags) /\ Len(TagsOf[k]) \in Nat
    BY CacheAssumption, LenProperties
  <2> QED BY <2>1 DEF Suffix
<1>2. ASSUME NEW t \in Tags
      PROVE  <<t>> \in Seq(Tags) /\ Suffix(<<t>>, k)
  <2>1. <<t>> \in Seq(Tags) /\ Len(<<t>>) = 1 /\ <<t>>[1] = t
    OBVIOUS
  <2>2. ASSUME NEW i \in 1 .. Len(<<t>>), <<t>>[i] \in TagSet(k)
        PROVE  \E j \in 1 .. Len(TagsOf[k]) : i <= j /\ TagsOf[k][j] = <<t>>[i]
    <3>1. i = 1
      BY <2>1
    <3>2. PICK j \in DOMAIN TagsOf[k] : TagsOf[k][j] = t
      BY <2>1, <2>2, <3>1 DEF TagSet
    <3>3. j \in 1 .. Len(TagsOf[k]) /\ j >= 1
      BY <1>1, LenProperties
    <3> QED BY <2>1, <3>1, <3>2, <3>3
  <2> QED BY <2>1, <2>2 DEF Suffix
<1>3. <<>> \in Seq(Tags) /\ Suffix(<<>>, k)
  BY EmptySeq DEF Suffix
<1>4. ASSUME NEW tags \in Seq(Tags), Suffix(tags, k), tags # <<>>
      PROVE  Tail(tags) \in Seq(Tags) /\ Suffix(Tail(tags), k)
  <2>1. /\ Tail(tags) \in Seq(Tags) /\ Len(Tail(tags)) = Len(tags) - 1 /\ Len(tags) \in Nat
        /\ \A i \in 1 .. Len(Tail(tags)) : Tail(tags)[i] = tags[i + 1]
    BY <1>4, HeadTailProperties, LenProperties
  <2>2. ASSUME NEW i \in 1 .. Len(Tail(tags)), Tail(tags)[i] \in TagSet(k)
        PROVE  \E j \in 1 .. Len(TagsOf[k]) : i <= j /\ TagsOf[k][j] = Tail(tags)[i]
    <3>1. i + 1 \in 1 .. Len(tags) /\ Tail(tags)[i] = tags[i + 1]
      BY <2>1
    <3>2. PICK j \in 1 .. Len(TagsOf[k]) : i + 1 <= j /\ TagsOf[k][j] = tags[i + 1]
      BY <1>4, <2>2, <3>1 DEF Suffix
    <3>3. i <= j
      BY <1>1, <3>2, LenProperties
    <3> QED BY <3>1, <3>2, <3>3
  <2> QED BY <2>1, <2>2 DEF Suffix
<1> QED BY <1>1, <1>2, <1>3, <1>4

(* cacheDel's first step.                                                     *)
LEMMA DeleteStep ==
    ASSUME IInv, queue # <<>>, NEW p, p = Head(queue), procs[p].pc \in {"got", "found", "reread"},
           NEW tags \in Seq(Tags), Suffix(tags, procs[p].key), Delete(p, procs[p].key, tags),
           UNCHANGED <<swrDisabled, called>>
    PROVE  IInv'
<1> DEFINE k == procs[p].key
           rec == [procs[p] EXCEPT !.pc = "untag", !.key = k, !.tags = tags, !.held = "none"]
<1>1. /\ p \in Procs /\ Good(p, procs[p]) /\ procs[p] \in ProcRecords /\ k \in Keys
      /\ procs[p].op = "invalidate" => procs[p].pc = "reread"
      /\ procs[p].on = None
  BY HeadFacts DEF Good
<1>2. /\ rec \in ProcRecords /\ rec.pc = "untag" /\ rec.key = k /\ rec.tags = tags
      /\ rec.op = procs[p].op /\ rec.tag = procs[p].tag /\ rec.todo = procs[p].todo
      /\ rec.owed = procs[p].owed /\ rec.on = None
  <2>1. "untag" \in Pcs /\ "none" \in Ages \cup {"none"} /\ k \in Keys \cup {None}
    BY <1>1 DEF Pcs
  <2>2. rec \in ProcRecords
    BY <1>1, <2>1 DEF ProcRecords
  <2> QED BY <1>1, <2>2 DEF ProcRecords
<1>3. /\ procs' = [procs EXCEPT ![p] = rec] /\ queue' = Append(Tail(queue), p)
      /\ store' = [store EXCEPT ![k] = "none"] /\ direct' = direct \ {k}
      /\ index' = index /\ inflight' = inflight /\ lru' = lru
  BY DEF Delete, Await
<1> HIDE DEF rec, k
<1>4. Moves(p, rec)
  BY <1>2, <1>3 DEF Moves, Asleep
<1>5. Good(p, rec)
  BY <1>1, <1>2 DEF Good, FlightPcs, k
<1>6. MapsOK' /\ Shrinks /\ store'[k] = "none"
  BY <1>1, <1>3 DEF IInv, MapsOK, Shrinks
<1>7. Flies(p, rec)
  BY <1>1, <1>2 DEF Flies, k
<1>8. OwesAll(rec)
  <2> SUFFICES ASSUME rec.op = "invalidate", NEW x \in rec.owed, store'[x] # "none"
               PROVE  x \in rec.todo
    BY DEF OwesAll
  <2>1. p \in Calls /\ procs[p].op = "invalidate" /\ x \in procs[p].owed /\ x \in Keys /\ x # k /\ store[x] # "none"
    BY <1>1, <1>2, <1>3, <1>6 DEF Procs, Good, ProcRecords, Shrinks
  <2>2. x \in procs[p].todo \/ (procs[p].pc = "reread" /\ procs[p].key = x)
    BY <2>1 DEF IInv, OwedInv, Owes
  <2> QED BY <1>2, <2>1, <2>2 DEF k
<1>9. ~Tagging(procs[p]) /\ procs[p].pc # "tag"
  BY DEF Tagging
<1>10. \A x \in Keys : store'[x] # "none" /\ x \in direct => x \in direct'
  BY <1>3, <1>6
<1> QED BY <1>1, <1>2, <1>3, <1>4, <1>5, <1>6, <1>7, <1>8, <1>9, <1>10, PlainStep

(* The end of a call or of a flight.                                          *)
LEMMA FinishStep ==
    ASSUME IInv, queue # <<>>, NEW p, p = Head(queue), Finish(p), MapsOK',
           index' = index, inflight' = inflight, Shrinks, LruInv',
           procs[p].pc = "tag" => procs[p].tags = <<>>
    PROVE  IInv'
<1>1. /\ p \in Procs /\ Good(p, procs[p]) /\ procs[p] \in ProcRecords /\ procs[p].pc \notin Asleep
      /\ p \in Flights => procs[p].key \in Keys
  BY HeadFacts DEF Good, FlightPcs, Asleep
<1>2. PICK rec : /\ Moves(p, rec) /\ rec \in ProcRecords /\ rec.op = None /\ rec.on = None
                 /\ p \in Flights => rec.pc = "leaving" /\ rec.key = procs[p].key
                 /\ p \notin Flights => rec.pc = "idle"
  <2>1. CASE p \in Flights
    <3> DEFINE rec == [Idle EXCEPT !.pc = "leaving", !.key = procs[p].key]
    <3>1. Moves(p, rec)
      BY <2>1 DEF Finish, Await, Moves, Asleep, Idle
    <3>2. rec \in ProcRecords
      <4>1. "leaving" \in Pcs /\ procs[p].key \in Keys \cup {None}
        BY <1>1, <2>1 DEF Pcs
      <4> QED BY <4>1, IdleTyped DEF ProcRecords
    <3>3. rec.op = None /\ rec.on = None /\ rec.pc = "leaving" /\ rec.key = procs[p].key
      BY DEF Idle
    <3> QED BY <2>1, <3>1, <3>2, <3>3
  <2>2. CASE p \notin Flights
    <3>1. Moves(p, Idle)
      BY <2>2 DEF Finish, Suspend, Moves, Asleep, Idle
    <3>2. Idle \in ProcRecords /\ Idle.op = None /\ Idle.on = None /\ Idle.pc = "idle"
      BY IdleTyped DEF Idle
    <3> QED BY <2>2, <3>1, <3>2
  <2> QED BY <2>1, <2>2
<1>3. None # "invalidate" /\ None # "compute"
  BY CacheAssumption DEF CallOps
<1>4. Good(p, rec)
  BY <1>1, <1>2, <1>3 DEF Good, FlightPcs
<1>5. Flies(p, rec) /\ OwesAll(rec) /\ rec.pc # "untag"
  BY <1>1, <1>2, <1>3 DEF Flies, OwesAll, Asleep
<1> QED BY <1>1, <1>2, <1>4, <1>5, QuietStep

(* The call of compute().                                                     *)
LEMMA ComputeStep ==
    ASSUME IInv, queue # <<>>, NEW p, p = Head(queue), Compute(p),
           procs[p].pc \in {"found", "untag"},
           UNCHANGED <<store, index, inflight, lru, direct, swrDisabled, called>>
    PROVE  IInv'
<1> DEFINE rec == Computing(procs[p].key)
<1>1. /\ p \in Procs /\ Good(p, procs[p]) /\ procs[p] \in ProcRecords /\ procs[p].key \in Keys
  BY HeadFacts DEF Good
<1>2. /\ rec \in ProcRecords /\ rec.pc = "computing" /\ rec.op = "compute" /\ rec.on = None
      /\ rec.key = procs[p].key
  BY <1>1, IdleTyped DEF Computing, Idle
<1>3. Moves(p, rec)
  BY <1>2 DEF Compute, Suspend, Moves, Asleep
<1> HIDE DEF rec
<1>4. Good(p, rec)
  BY <1>1, <1>2 DEF Good, FlightPcs
<1>5. Flies(p, rec) /\ OwesAll(rec) /\ rec.pc # "untag" /\ ~Tagging(procs[p]) /\ procs[p].pc # "tag"
  BY <1>1, <1>2 DEF Flies, OwesAll, Tagging
<1>6. MapsOK' /\ Shrinks
  BY DEF IInv, MapsOK, Shrinks
<1> QED BY <1>1, <1>3, <1>4, <1>5, <1>6, PlainStep

(* The same, when nothing of the LRU and its entries is lost.                 *)
LEMMA FinishQuiet ==
    ASSUME IInv, queue # <<>>, NEW p, p = Head(queue), Finish(p), MapsOK',
           index' = index, inflight' = inflight, Shrinks,
           ToSet(lru) \subseteq ToSet(lru'),
           \A k \in Keys : store'[k] # "none" /\ k \in direct => k \in direct',
           ~Tagging(procs[p]), procs[p].pc = "tag" => procs[p].tags = <<>>
    PROVE  IInv'
<1>1. \A x \in Procs : x # p => procs'[x] = procs[x]
  BY DEF Finish, Await, Suspend, IInv, ProcsInv
<1>2. \A x \in Procs : Tagging(procs[x]) => Tagging(procs'[x]) /\ procs'[x].key = procs[x].key
  BY <1>1
<1>3. lru' \in Seq(Keys)
  BY DEF MapsOK
<1>4. LruInv'
  BY <1>2, <1>3, LruKept
<1> QED BY <1>4, FinishStep

(* The LRU is touched on the way out.                                         *)
LEMMA TouchStep ==
    ASSUME IInv, queue # <<>>, NEW p, p = Head(queue), procs[p].pc \in {"hit", "raw", "found"},
           lru' = Touched(lru, procs[p].key), Finish(p),
           UNCHANGED <<store, index, inflight, direct, swrDisabled, called>>
    PROVE  IInv'
<1>1. procs[p].key \in Keys /\ lru \in Seq(Keys)
  BY HeadFacts DEF Good, IInv, MapsOK
<1>2. lru' \in Seq(Keys) /\ ToSet(lru) \subseteq ToSet(lru')
  BY <1>1, TouchedFacts
<1>3. MapsOK' /\ Shrinks
  BY <1>2 DEF IInv, MapsOK, Shrinks
<1>4. ~Tagging(procs[p]) /\ procs[p].pc # "tag"
  BY DEF Tagging
<1> QED BY <1>2, <1>3, <1>4, FinishQuiet

-----------------------------------------------------------------------------
(* A promise is registered: the call in front leaves it to a new flight f.    *)

NewFlight(p, f, k, frec, prec) ==
    /\ f \in Flights /\ procs[f].pc = "idle" /\ inflight[k] = None
    /\ inflight' = [inflight EXCEPT ![k] = f]
    /\ procs' = [procs EXCEPT ![f] = frec, ![p] = prec]
    /\ frec.key = k /\ frec.pc \in {"computing", "found"}
    /\ prec.pc = "idle" \/ (prec.pc = "joined" /\ prec.on = f)
    /\ queue' = IF frec.pc = "computing" THEN Tail(queue) ELSE Append(Tail(queue), f)

LEMMA NewFlightStep ==
    ASSUME IInv, queue # <<>>, NEW p, p = Head(queue), procs[p].pc \in {"raw", "found", "missed"},
           NEW f, NEW frec, NEW prec, NewFlight(p, f, procs[p].key, frec, prec),
           Good(f, frec), Good(p, prec), prec.op = None, MapsOK', store' = store,
           index' = index, direct' = direct, ToSet(lru) \subseteq ToSet(lru')
    PROVE  IInv'
<1> DEFINE k == procs[p].key
<1>1. /\ p \in Procs /\ Good(p, procs[p]) /\ procs[p] \in ProcRecords /\ procs[p].pc \notin Asleep
      /\ k \in Keys /\ inflight[k] = None
  BY HeadFacts DEF Good, NewFlight
<1>2. /\ Calls \cap Flights = {} /\ None \notin Flights /\ None # "invalidate" /\ Procs = Calls \cup Flights
  BY CacheAssumption DEF CallOps, Procs
<1>3. p \in Calls /\ f \in Flights /\ f \in Procs /\ p # f
  <2>1. p \in Flights => inflight[k] = p
    BY <1>1 DEF IInv, FlightInv, Asleep
  <2> QED BY <1>1, <1>2, <2>1 DEF NewFlight
<1>4. /\ procs'[p] = prec /\ procs'[f] = frec
      /\ \A x \in Procs \ {p, f} : procs'[x] = procs[x] /\ Same(x)
      /\ procs' \in [Procs -> ProcRecords]
  <2>1. frec \in ProcRecords /\ prec \in ProcRecords
    BY DEF Good
  <2> QED BY <1>1, <1>3, <2>1 DEF NewFlight, IInv, ProcsInv, Same
<1>5. ProcsInv'
  <2>1. \A x \in Procs : Good(x, procs'[x])
    BY <1>4 DEF IInv, ProcsInv
  <2> QED BY <1>4, <2>1 DEF ProcsInv, Good, Suffix, TagSet, ProcRecords
<1>6. FlightInv'
  <2>1. \A g \in Flights : g # f => procs'[g] = procs[g]
    BY <1>2, <1>3, <1>4
  <2>2. /\ inflight'[k] = f /\ \A x \in Keys : x # k => inflight'[x] = inflight[x]
    BY <1>1 DEF NewFlight, IInv, MapsOK
  <2>3. procs'[f].pc # "idle" /\ procs'[f].key = k /\ procs[f].pc = "idle"
    BY <1>4 DEF NewFlight
  <2>4. ASSUME NEW g \in Flights, procs'[g].pc # "idle"
        PROVE  inflight'[procs'[g].key] = g
    <3>1. CASE g = f
      BY <2>2, <2>3, <3>1
    <3>2. CASE g # f
      <4>1. procs'[g] = procs[g] /\ inflight[procs[g].key] = g
        BY <2>1, <2>4, <3>2 DEF IInv, FlightInv
      <4>2. procs[g].key \in Keys /\ procs[g].key # k
        BY <1>1, <1>2, <2>4, <4>1 DEF IInv, ProcsInv, Good, FlightPcs
      <4> QED BY <2>2, <4>1, <4>2
    <3> QED BY <3>1, <3>2
  <2>5. ASSUME NEW x \in Keys, inflight'[x] # None
        PROVE  procs'[inflight'[x]].pc # "idle" /\ procs'[inflight'[x]].key = x
    <3>1. CASE x = k
      BY <2>2, <2>3, <3>1
    <3>2. CASE x # k
      <4>1. /\ inflight'[x] = inflight[x] /\ inflight[x] \in Flights
            /\ procs[inflight[x]].pc # "idle" /\ procs[inflight[x]].key = x
        BY <2>2, <2>5, <3>2 DEF IInv, FlightInv, MapsOK
      <4> QED BY <2>1, <2>3, <4>1
    <3> QED BY <3>1, <3>2
  <2>6. ASSUME NEW c \in Calls, procs'[c].pc = "joined"
        PROVE  procs'[procs'[c].on].pc # "idle"
    <3>1. CASE c = p
      <4>1. procs'[c].on = f
        BY <1>4, <2>6, <3>1 DEF NewFlight
      <4> QED BY <2>3, <4>1
    <3>2. CASE c # p
      <4>1. procs'[c] = procs[c]
        BY <1>2, <1>3, <1>4, <3>2
      <4>2. procs[c].on \in Flights /\ procs[procs[c].on].pc # "idle"
        BY <1>2, <2>6, <4>1 DEF IInv, FlightInv, ProcsInv, Good
      <4> QED BY <2>1, <2>3, <4>1, <4>2
    <3> QED BY <3>1, <3>2
  <2> QED BY <2>4, <2>5, <2>6 DEF FlightInv
<1>7. QueueInv' /\ IndexInv'
  <2>1. \A x \in Procs \ {p, f} : procs[x].pc \in Asleep \/ Same(x)
    BY <1>4
  <2>2. CASE frec.pc = "computing"
    <3>0. PICK n : n = Len(queue)
      OBVIOUS
    <3>1. \A x \in Procs \ {Head(queue)} : procs[x].pc \in Asleep \/ Same(x)
      BY <2>1 DEF NewFlight, Asleep
    <3>2. queue' = Tail(queue)
      BY <2>2 DEF NewFlight
    <3>3. /\ queue[1] = Head(queue) /\ QueueInv' /\ Shifted(1, n) /\ n \in Nat /\ Len(queue') = n - 1
      BY <3>0, <3>1, <3>2, FrontSleeps
    <3>4. \A x, i, t : ~Turn(1, "tag", x, i, t) /\ ~Turn(n, "untag", x, i, t)'
      BY <3>3 DEF Turn
    <3>5. IndexInv'
      BY <3>3, <3>4, IndexKept
    <3> QED BY <3>3, <3>5
  <2>3. CASE frec.pc # "computing"
    <3>0. PICK n : n = Len(queue')
      OBVIOUS
    <3>1. queue' = Append(Tail(queue), f) /\ procs'[f].pc = "found" /\ procs[f].pc \in Asleep
      BY <1>4, <2>3 DEF NewFlight, Asleep
    <3>2. /\ queue[1] = Head(queue) /\ QueueInv' /\ Shifted(1, n) /\ queue'[n] = f
      BY <1>3, <2>1, <3>0, <3>1, FrontMoves DEF Asleep
    <3>3. \A x, i, t : ~Turn(1, "tag", x, i, t) /\ ~Turn(n, "untag", x, i, t)'
      BY <3>1, <3>2 DEF Turn
    <3>4. IndexInv'
      BY <3>2, <3>3, IndexKept
    <3> QED BY <3>2, <3>4
  <2> QED BY <2>2, <2>3
<1>8. OwedInv'
  <2> SUFFICES ASSUME NEW c \in Calls, procs'[c].op = "invalidate", NEW x \in procs'[c].owed, store'[x] # "none"
               PROVE  x \in procs'[c].todo \/ (procs'[c].pc = "reread" /\ procs'[c].key = x)
    BY DEF OwedInv, Owes
  <2>1. c # f /\ c # p /\ procs'[c] = procs[c]
    BY <1>2, <1>3, <1>4
  <2> QED BY <2>1 DEF IInv, OwedInv, Owes
<1>9. LruInv'
  <2>1. \A x \in Procs : Tagging(procs[x]) => Tagging(procs'[x]) /\ procs'[x].key = procs[x].key
    BY <1>4 DEF Tagging, NewFlight
  <2>2. lru' \in Seq(Keys) /\ Shrinks
    BY DEF MapsOK, Shrinks
  <2> QED BY <2>1, <2>2, LruKept
<1> QED BY <1>5, <1>6, <1>7, <1>8, <1>9 DEF IInv

-----------------------------------------------------------------------------
(* What goes on after an await, in the order of the model.                    *)

(* ReadEntry and the like: another pc, another look at the entry.             *)
LEMMA AwaitStep ==
    ASSUME IInv, queue # <<>>, NEW p, p = Head(queue), NEW rec, Await(p, rec),
           rec \in ProcRecords, rec.pc \in {"got", "hit", "missed", "stored"}, p \notin Flights \/ rec.pc = "stored",
           rec.op = procs[p].op, rec.key = procs[p].key, rec.on = None, rec.op # "invalidate",
           rec.key \in Keys, rec.pc = "stored" => rec.op = "compute",
           procs[p].pc = "tag" => procs[p].tags = <<>>, Tagging(procs[p]) => rec.pc = "stored",
           UNCHANGED <<store, index, inflight, lru, direct, swrDisabled, called>>
    PROVE  IInv'
<1>1. /\ p \in Procs /\ Good(p, procs[p]) /\ procs[p] \in ProcRecords /\ procs[p].pc \notin Asleep
      /\ p \in Flights => procs[p].pc # "idle"
  BY HeadFacts DEF Asleep
<1>2. Moves(p, rec)
  BY DEF Moves, Await, Asleep
<1>3. p \in Flights => rec.op = "compute"
  BY <1>1
<1>4. Good(p, rec)
  BY <1>1, <1>3 DEF Good, FlightPcs
<1>5. Flies(p, rec) /\ OwesAll(rec) /\ rec.pc # "untag" /\ (Tagging(procs[p]) => Tagging(rec))
  BY <1>1 DEF Flies, OwesAll, Tagging
<1>6. MapsOK' /\ Shrinks
  BY DEF IInv, MapsOK, Shrinks
<1> QED BY <1>1, <1>2, <1>4, <1>5, <1>6, PlainStep

LEMMA GotStep ==
    ASSUME IInv, queue # <<>>, NEW p, p = Head(queue), Got(p), UNCHANGED <<swrDisabled, called>>
    PROVE  IInv'
<1>1. /\ p \in Procs /\ Good(p, procs[p]) /\ procs[p] \in ProcRecords /\ procs[p].pc = "got"
      /\ procs[p].key \in Keys /\ p \notin Flights /\ procs[p].op # "invalidate" /\ procs[p].on = None
  BY HeadFacts DEF Good, Got, FlightPcs
<1>2. CASE procs[p].held \in {"stale", "dead"}
  <2>1. Delete(p, procs[p].key, TagsOf[procs[p].key])
    BY <1>2 DEF Got
  <2>2. TagsOf[procs[p].key] \in Seq(Tags) /\ Suffix(TagsOf[procs[p].key], procs[p].key)
    BY <1>1, SuffixFacts
  <2> QED BY <1>1, <2>1, <2>2, DeleteStep
<1>3. CASE procs[p].held \notin {"stale", "dead"}
  <2>1. UNCHANGED <<store, index, inflight, lru, direct>>
    BY <1>3 DEF Got
  <2>2. CASE procs[p].op = "get"
    <3>1. Finish(p)
      BY <1>3, <2>2 DEF Got
    <3>2. MapsOK' /\ Shrinks /\ ~Tagging(procs[p])
      BY <1>1, <2>1 DEF IInv, MapsOK, Shrinks, Tagging
    <3> QED BY <1>1, <2>1, <3>1, <3>2, FinishQuiet
  <2>3. CASE procs[p].op # "get"
    <3> DEFINE pc == IF procs[p].held = "fresh" THEN "hit" ELSE "missed"
               rec == [procs[p] EXCEPT !.pc = pc, !.held = "none"]
    <3>1. Await(p, rec)
      BY <1>3, <2>3 DEF Got
    <3>2. pc \in Pcs /\ pc \in {"hit", "missed"} /\ "none" \in Ages \cup {"none"}
      BY DEF Pcs
    <3> HIDE DEF pc
    <3>3. rec \in ProcRecords
      BY <1>1, <3>2 DEF ProcRecords
    <3>4. /\ rec.pc = pc /\ rec.op = procs[p].op /\ rec.key = procs[p].key /\ rec.on = None
      BY <1>1 DEF ProcRecords
    <3> HIDE DEF rec
    <3>5. ~Tagging(procs[p]) /\ procs[p].pc # "tag"
      BY <1>1 DEF Tagging
    <3>6. rec.pc \in {"got", "hit", "missed", "stored"} /\ rec.pc # "stored"
      BY <3>2, <3>4
    <3> QED BY <1>1, <2>1, <3>1, <3>3, <3>4, <3>5, <3>6, AwaitStep
  <2> QED BY <2>2, <2>3
<1> QED BY <1>2, <1>3

LEMMA HitStep ==
    ASSUME IInv, queue # <<>>, NEW p, p = Head(queue), Hit(p), UNCHANGED <<swrDisabled, called>>
    PROVE  IInv'
BY TouchStep DEF Hit, TouchAndFinish

LEMMA ServeStaleStep ==
    ASSUME IInv, queue # <<>>, NEW p, p = Head(queue), procs[p].pc \in {"raw", "found"}, ServeStale(p),
           UNCHANGED <<swrDisabled, called>>
    PROVE  IInv'
<1> DEFINE k == procs[p].key
<1>1. k \in Keys /\ lru \in Seq(Keys)
  BY HeadFacts DEF Good, IInv, MapsOK
<1>2. lru' = Touched(lru, k) /\ UNCHANGED <<store, index, direct>>
  BY DEF ServeStale
<1>3. CASE inflight[k] # None
  <2>1. Finish(p) /\ UNCHANGED inflight
    BY <1>3 DEF ServeStale
  <2> QED BY <1>2, <2>1, TouchStep
<1>4. CASE inflight[k] = None
  <2>1. PICK f \in Flights :
          /\ procs[f].pc = "idle" /\ inflight' = [inflight EXCEPT ![k] = f]
          /\ procs' = [procs EXCEPT ![f] = Computing(k), ![p] = Idle]
          /\ queue' = Tail(queue)
    BY <1>4 DEF ServeStale
  <2>2. lru' \in Seq(Keys) /\ ToSet(lru) \subseteq ToSet(lru')
    BY <1>1, <1>2, TouchedFacts
  <2>3. inflight' \in [Keys -> Flights \cup {None}]
    BY <1>1, <2>1 DEF IInv, MapsOK
  <2>4. MapsOK'
    BY <1>2, <2>2, <2>3 DEF IInv, MapsOK
  <2>5. /\ Computing(k).pc = "computing" /\ Computing(k).op = "compute" /\ Computing(k).key = k
        /\ Computing(k).on = None /\ Computing(k) \in ProcRecords
        /\ Idle \in ProcRecords /\ Idle.pc = "idle" /\ Idle.op = None /\ Idle.on = None
    BY <1>1, IdleTyped DEF Computing, Idle
  <2>6. NewFlight(p, f, k, Computing(k), Idle)
    BY <1>4, <2>1, <2>5 DEF NewFlight
  <2>7. p \in Calls
    <3>1. /\ p \in Procs /\ procs[p].pc \notin Asleep
      BY HeadFacts
    <3>2. p \in Flights => inflight[k] = p
      BY <3>1 DEF IInv, FlightInv, Asleep
    <3> QED BY <1>4, <3>1, <3>2, CacheAssumption DEF Procs
  <2>8. Good(f, Computing(k)) /\ Good(p, Idle)
    <3>1. None # "invalidate" /\ p \notin Flights
      BY <2>7, CacheAssumption DEF CallOps
    <3> QED BY <1>1, <2>5, <3>1 DEF Good, FlightPcs
  <2> QED BY <1>2, <2>2, <2>4, <2>5, <2>6, <2>8, NewFlightStep
<1> QED BY <1>3, <1>4

LEMMA RawStep ==
    ASSUME IInv, queue # <<>>, NEW p, p = Head(queue), Raw(p), UNCHANGED <<swrDisabled, called>>
    PROVE  IInv'
<1>1. /\ p \in Procs /\ Good(p, procs[p]) /\ procs[p] \in ProcRecords /\ procs[p].pc = "raw"
      /\ procs[p].key \in Keys /\ p \notin Flights /\ procs[p].op # "invalidate" /\ procs[p].on = None
  BY HeadFacts DEF Good, Raw, FlightPcs
<1>2. CASE TouchAndFinish(p)
  BY <1>1, <1>2, TouchStep DEF TouchAndFinish
<1>3. CASE ServeStale(p)
  BY <1>1, <1>3, ServeStaleStep
<1>4. CASE ReadEntry(p, "got")
  <2> DEFINE e == store[procs[p].key]
             rec == [procs[p] EXCEPT !.pc = "got", !.held = e]
  <2>1. Await(p, rec) /\ UNCHANGED <<store, index, inflight, lru, direct>>
    BY <1>4 DEF ReadEntry
  <2>2. "got" \in Pcs /\ e \in Ages \cup {"none"}
    BY <1>1 DEF Pcs, IInv, MapsOK
  <2> HIDE DEF e
  <2>3. rec \in ProcRecords
    BY <1>1, <2>2 DEF ProcRecords
  <2>4. /\ rec.pc = "got" /\ rec.op = procs[p].op /\ rec.key = procs[p].key /\ rec.on = None
    BY <1>1 DEF ProcRecords
  <2> HIDE DEF rec
  <2>5. ~Tagging(procs[p]) /\ procs[p].pc # "tag"
    BY <1>1 DEF Tagging
  <2> QED BY <1>1, <2>1, <2>3, <2>4, <2>5, AwaitStep
<1> QED BY <1>2, <1>3, <1>4 DEF Raw

LEMMA MissedStep ==
    ASSUME IInv, queue # <<>>, NEW p, p = Head(queue), Missed(p), UNCHANGED <<swrDisabled, called>>
    PROVE  IInv'
<1> DEFINE k == procs[p].key
<1>1. /\ p \in Procs /\ Good(p, procs[p]) /\ procs[p] \in ProcRecords /\ procs[p].pc = "missed"
      /\ k \in Keys /\ p \notin Flights /\ procs[p].op # "invalidate"
  BY HeadFacts DEF Good, Missed, FlightPcs
<1>2. UNCHANGED <<store, index, lru, direct>> /\ None # "invalidate" /\ None # "compute"
  BY CacheAssumption DEF Missed, CallOps
<1>3. CASE inflight[k] # None
  <2> DEFINE rec == [Idle EXCEPT !.pc = "joined", !.on = inflight[k]]
  <2>1. Suspend(p, rec) /\ inflight' = inflight
    BY <1>3 DEF Missed
  <2>2. inflight[k] \in Flights /\ procs[inflight[k]].pc # "idle" /\ inflight[k] # p
    BY <1>1, <1>3 DEF IInv, FlightInv, MapsOK
  <2>3. rec \in ProcRecords
    <3>1. "joined" \in Pcs /\ inflight[k] \in Flights \cup {None}
      BY <2>2 DEF Pcs
    <3> QED BY <3>1, IdleTyped DEF ProcRecords
  <2>4. /\ rec.pc = "joined" /\ rec.op = None /\ rec.on = inflight[k]
    BY DEF Idle
  <2> HIDE DEF rec
  <2>5. Moves(p, rec)
    BY <2>1, <2>4 DEF Moves, Suspend, Asleep
  <2>6. Good(p, rec)
    BY <1>1, <1>2, <2>2, <2>3, <2>4 DEF Good
  <2>7. Flies(p, rec) /\ OwesAll(rec) /\ rec.pc # "untag" /\ ~Tagging(procs[p]) /\ procs[p].pc # "tag"
    BY <1>1, <1>2, <2>2, <2>4 DEF Flies, OwesAll, Tagging
  <2>8. MapsOK' /\ Shrinks
    BY <1>2, <2>1 DEF IInv, MapsOK, Shrinks
  <2> QED BY <1>1, <1>2, <2>1, <2>5, <2>6, <2>7, <2>8, PlainStep
<1>4. CASE inflight[k] = None
  <2>1. PICK f \in Flights :
          /\ procs[f].pc = "idle" /\ inflight' = [inflight EXCEPT ![k] = f]
          /\ procs' = [procs EXCEPT
                ![f] = [Call(f, "compute", k) EXCEPT !.pc = "found", !.swr = procs[p].swr],
                ![p] = [Idle EXCEPT !.pc = "joined", !.on = f]]
          /\ queue' = Append(Tail(queue), f)
    BY <1>4 DEF Missed
  <2> DEFINE frec == [Call(f, "compute", k) EXCEPT !.pc = "found", !.swr = procs[p].swr]
             prec == [Idle EXCEPT !.pc = "joined", !.on = f]
  <2>2. frec \in ProcRecords
    <3>1. /\ "found" \in Pcs /\ "compute" \in CallOps /\ k \in Keys \cup {None}
          /\ store[k] \in Ages \cup {"none"} /\ procs[p].swr \in BOOLEAN
      BY <1>1 DEF Pcs, CallOps, IInv, MapsOK, ProcRecords
    <3> QED BY <3>1, IdleTyped DEF ProcRecords, Call
  <2>3. frec.pc = "found" /\ frec.op = "compute" /\ frec.key = k /\ frec.on = None
    BY DEF Call, Idle
  <2>4. prec \in ProcRecords
    <3>1. "joined" \in Pcs /\ f \in Flights \cup {None}
      BY DEF Pcs
    <3> QED BY <3>1, IdleTyped DEF ProcRecords
  <2>5. prec.pc = "joined" /\ prec.op = None /\ prec.on = f
    BY DEF Idle
  <2>6. procs' = [procs EXCEPT ![f] = frec, ![p] = prec]
    BY <2>1
  <2> HIDE DEF frec, prec
  <2>7. NewFlight(p, f, k, frec, prec)
    BY <1>4, <2>1, <2>3, <2>5, <2>6 DEF NewFlight
  <2>8. Good(f, frec) /\ Good(p, prec)
    BY <1>1, <1>2, <2>2, <2>3, <2>4, <2>5 DEF Good, FlightPcs
  <2>9. inflight' \in [Keys -> Flights \cup {None}]
    BY <1>1, <2>1 DEF IInv, MapsOK
  <2>10. MapsOK'
    BY <1>2, <2>9 DEF IInv, MapsOK
  <2> QED BY <1>1, <1>2, <2>5, <2>7, <2>8, <2>10, NewFlightStep
<1> QED BY <1>3, <1>4

LEMMA FoundStep ==
    ASSUME IInv, queue # <<>>, NEW p, p = Head(queue), Found(p), UNCHANGED <<swrDisabled, called>>
    PROVE  IInv'
<1>1. procs[p].pc = "found" /\ procs[p].key \in Keys
  BY HeadFacts DEF Found, Good
<1>2. CASE TouchAndFinish(p)
  BY <1>1, <1>2, TouchStep DEF TouchAndFinish
<1>3. CASE ServeStale(p)
  BY <1>1, <1>3, ServeStaleStep
<1>4. CASE Compute(p) /\ UNCHANGED <<store, index, inflight, lru, direct>>
  BY <1>1, <1>4, ComputeStep
<1>5. CASE Delete(p, procs[p].key, TagsOf[procs[p].key])
  <2>1. TagsOf[procs[p].key] \in Seq(Tags) /\ Suffix(TagsOf[procs[p].key], procs[p].key)
    BY <1>1, SuffixFacts
  <2> QED BY <1>1, <1>5, <2>1, DeleteStep
<1> QED BY <1>2, <1>3, <1>4, <1>5 DEF Found

(* What an invalidation owes is on its list when no removal is next.          *)
LEMMA OnList ==
    ASSUME IInv, NEW p \in Procs, procs[p].op = "invalidate", procs[p].pc # "reread"
    PROVE  p \in Calls /\ \A x \in procs[p].owed : x \in Keys /\ (store[x] # "none" => x \in procs[p].todo)
<1>1. procs[p] \in ProcRecords /\ Good(p, procs[p])
  BY DEF IInv, ProcsInv
<1>2. p \in Calls
  <2>1. p \in Flights => procs[p].pc \in {"idle", "leaving"}
    BY <1>1 DEF Good
  <2> QED BY <1>1, <2>1 DEF Good, Procs
<1>3. \A x \in procs[p].owed : x \in Keys
  BY <1>1 DEF ProcRecords
<1> QED BY <1>2, <1>3 DEF IInv, OwedInv, Owes

LEMMA DeletedStep ==
    ASSUME IInv, queue # <<>>, NEW p, p = Head(queue), Deleted(p),
           procs[p].pc \in {"untag", "listed"},
           UNCHANGED <<store, index, inflight, lru, direct, swrDisabled, called>>
    PROVE  IInv'
<1>1. /\ p \in Procs /\ Good(p, procs[p]) /\ procs[p] \in ProcRecords /\ procs[p].pc \notin Asleep
      /\ procs[p].pc = "listed" => procs[p].op = "invalidate"
      /\ procs[p].op # "invalidate" => procs[p].key \in Keys
      /\ procs[p].on = None /\ ~Tagging(procs[p]) /\ procs[p].pc # "tag"
      /\ p \in Flights => procs[p].op = "compute"
  BY HeadFacts DEF Good, Tagging
<1>2. MapsOK' /\ Shrinks
  BY DEF IInv, MapsOK, Shrinks
<1>3. CASE procs[p].op = "compute"
  BY <1>1, <1>3, ComputeStep DEF Deleted
<1>4. CASE procs[p].op = "single"
  <2> DEFINE rec == [procs[p] EXCEPT !.pc = "missed"]
  <2>1. Await(p, rec)
    BY <1>4 DEF Deleted
  <2>2. rec \in ProcRecords
    <3>1. "missed" \in Pcs
      BY DEF Pcs
    <3> QED BY <1>1, <3>1 DEF ProcRecords
  <2>3. /\ rec.pc = "missed" /\ rec.op = procs[p].op /\ rec.key = procs[p].key /\ rec.on = None
    BY <1>1 DEF ProcRecords
  <2> HIDE DEF rec
  <2> QED BY <1>1, <1>4, <2>1, <2>2, <2>3, AwaitStep
<1>5. CASE procs[p].op = "invalidate" /\ procs[p].todo # {}
  <2>1. PICK k \in procs[p].todo :
          Await(p, [procs[p] EXCEPT !.pc = "reread", !.key = k, !.todo = @ \ {k}, !.held = store[k]])
    BY <1>5 DEF Deleted
  <2> DEFINE e == store[k]
             todo == procs[p].todo \ {k}
             rec == [procs[p] EXCEPT !.pc = "reread", !.key = k, !.todo = todo, !.held = e]
  <2>2. k \in Keys /\ k \in Keys \cup {None} /\ e \in Ages \cup {"none"} /\ todo \in SUBSET Keys /\ "reread" \in Pcs
    BY <1>1 DEF ProcRecords, Pcs, IInv, MapsOK
  <2>3. \A x \in procs[p].todo : x = k \/ x \in todo
    OBVIOUS
  <2>4. Await(p, rec)
    <3>1. [procs[p] EXCEPT !.pc = "reread", !.key = k, !.todo = @ \ {k}, !.held = store[k]] = rec
      BY <1>1 DEF ProcRecords
    <3> QED BY <2>1, <3>1
  <2> HIDE DEF e, todo
  <2>5. rec \in ProcRecords
    <3> HIDE DEF rec
    <3>1. \A r \in ProcRecords, x \in Keys, h \in Ages \cup {"none"}, s \in SUBSET Keys :
            [r EXCEPT !.pc = "reread", !.key = x, !.todo = s, !.held = h] \in ProcRecords
      BY <2>2 DEF ProcRecords
    <3> QED BY <1>1, <2>2, <3>1 DEF rec
  <2>6. /\ rec.pc = "reread" /\ rec.op = "invalidate" /\ rec.key = k /\ rec.on = None
        /\ rec.todo = todo /\ rec.owed = procs[p].owed /\ rec.tag = procs[p].tag
    BY <1>1, <1>5 DEF ProcRecords
  <2> HIDE DEF rec
  <2>7. Moves(p, rec)
    BY <2>4, <2>6 DEF Moves, Await, Asleep
  <2>8. p \in Calls /\ p \notin Flights /\ OwesAll(rec)
    <3>1. p \in Calls /\ \A x \in procs[p].owed : store[x] # "none" => x \in procs[p].todo
      BY <1>1, <1>5, OnList
    <3> QED BY <2>3, <2>6, <3>1, CacheAssumption DEF OwesAll
  <2>9. Good(p, rec)
    BY <1>1, <1>5, <2>2, <2>5, <2>6, <2>8 DEF Good
  <2>10. Flies(p, rec)
    BY <2>6, <2>8 DEF Flies
  <2> QED BY <1>1, <1>2, <2>6, <2>7, <2>8, <2>9, <2>10, PlainStep
<1>6. CASE Finish(p)
  BY <1>1, <1>2, <1>6, FinishQuiet
<1> QED BY <1>3, <1>4, <1>5, <1>6 DEF Deleted

(* A coroutine goes on to its next tag, and the index changes for this one.   *)
LEMMA NextTagStep ==
    ASSUME IInv, queue # <<>>, NEW p, p = Head(queue), procs[p].pc \in {"untag", "tag"}, procs[p].tags # <<>>,
           Await(p, [procs[p] EXCEPT !.tags = Tail(procs[p].tags)]),
           \/ procs[p].pc = "untag" /\ index' = [index EXCEPT ![Head(procs[p].tags)] = @ \ {procs[p].key}]
           \/ procs[p].pc = "tag" /\ index' = [index EXCEPT ![Head(procs[p].tags)] = @ \cup {procs[p].key}],
           UNCHANGED <<store, inflight, lru, direct, swrDisabled, called>>
    PROVE  IInv'
<1> DEFINE rest == Tail(procs[p].tags)
           rec == [procs[p] EXCEPT !.tags = rest]
<1>1. /\ p \in Procs /\ Good(p, procs[p]) /\ procs[p] \in ProcRecords /\ procs[p].pc \notin Asleep
      /\ procs[p].key \in Keys
  BY HeadFacts DEF Good
<1>2. procs[p].tags \in Seq(Tags) /\ rest \in Seq(Tags) /\ Head(procs[p].tags) \in Tags
  BY <1>1, HeadTailProperties DEF ProcRecords
<1>3. procs[p].pc = "untag" => Suffix(rest, procs[p].key)
  BY <1>1, <1>2, SuffixFacts DEF Good
<1>4. Await(p, rec)
  OBVIOUS
<1> HIDE DEF rest
<1>5. rec \in ProcRecords
  BY <1>1, <1>2 DEF ProcRecords
<1>6. /\ rec.pc = procs[p].pc /\ rec.op = procs[p].op /\ rec.key = procs[p].key /\ rec.on = procs[p].on
      /\ rec.todo = procs[p].todo /\ rec.owed = procs[p].owed /\ rec.tag = procs[p].tag /\ rec.tags = rest
  BY <1>1 DEF ProcRecords
<1> HIDE DEF rec
<1>7. Moves(p, rec)
  BY <1>1, <1>4, <1>6 DEF Moves, Await
<1>8. Good(p, rec)
  BY <1>1, <1>3, <1>5, <1>6 DEF Good
<1>9. Shrinks /\ Flies(p, rec)
  BY <1>1, <1>6 DEF Shrinks, Flies, Asleep
<1>10. OwesAll(rec)
  <2>1. procs[p].op = "invalidate" => \A x \in procs[p].owed : store[x] # "none" => x \in procs[p].todo
    BY <1>1, OnList
  <2> QED BY <1>6, <2>1 DEF OwesAll
<1>11. ProcsInv' /\ QueueInv' /\ FlightInv' /\ OwedInv' /\ procs'[p] = rec
       /\ \A x \in Procs \ {p} : procs'[x] = procs[x]
  BY <1>1, <1>7, <1>8, <1>9, <1>10, Frame, MovesQueue
<1>12. IndexInv'
  <2>0. PICK n : n = Len(queue')
    OBVIOUS
  <2>1. \A x \in Procs \ {p} : Same(x)
    BY <1>11 DEF Same
  <2>2. procs'[p].pc \notin Asleep /\ queue' = Append(Tail(queue), p)
    BY <1>1, <1>4, <1>6, <1>11 DEF Await
  <2>3. queue[1] = p /\ Shifted(1, n) /\ queue'[n] = p
    BY <1>1, <2>0, <2>1, <2>2, FrontMoves
  <2>4. NextTag(n)
    BY <1>6, <1>11, <2>0, <2>3 DEF NextTag, rest
  <2> QED BY <2>3, <2>4, IndexUntag, IndexTag
<1>13. LruInv'
  <2>1. \A x \in Procs : Tagging(procs[x]) => Tagging(procs'[x]) /\ procs'[x].key = procs[x].key
    BY <1>6, <1>11 DEF Tagging
  <2> QED BY <1>9, <2>1, LruKept DEF IInv, MapsOK
<1>14. MapsOK'
  <2>1. index' \in [Tags -> SUBSET Keys]
    <3> DEFINE t == Head(procs[p].tags)
    <3>1. index \in [Tags -> SUBSET Keys] /\ t \in Tags
      BY <1>2 DEF IInv, MapsOK
    <3>2. PICK ks \in SUBSET Keys : index' = [index EXCEPT ![t] = ks]
      <4>1. index[t] \ {procs[p].key} \in SUBSET Keys /\ index[t] \cup {procs[p].key} \in SUBSET Keys
        BY <1>1, <3>1
      <4> QED BY <4>1
    <3> QED BY <3>1, <3>2
  <2> QED BY <2>1 DEF IInv, MapsOK
<1> QED BY <1>11, <1>12, <1>13, <1>14 DEF IInv

LEMMA UntagStep ==
    ASSUME IInv, queue # <<>>, NEW p, p = Head(queue), Untag(p), UNCHANGED <<swrDisabled, called>>
    PROVE  IInv'
<1>1. CASE procs[p].tags # <<>>
  BY <1>1, NextTagStep DEF Untag
<1>2. CASE procs[p].tags = <<>>
  BY <1>2, DeletedStep DEF Untag
<1> QED BY <1>1, <1>2

LEMMA ListedStep ==
    ASSUME IInv, queue # <<>>, NEW p, p = Head(queue), Listed(p), UNCHANGED <<swrDisabled, called>>
    PROVE  IInv'
BY DeletedStep DEF Listed

LEMMA RereadStep ==
    ASSUME IInv, queue # <<>>, NEW p, p = Head(queue), Reread(p), UNCHANGED <<swrDisabled, called>>
    PROVE  IInv'
<1> DEFINE tags == IF procs[p].held # "none" THEN TagsOf[procs[p].key] ELSE <<procs[p].tag>>
<1>1. procs[p].pc = "reread" /\ procs[p].key \in Keys /\ procs[p].tag \in Tags
  BY HeadFacts DEF Reread, Good
<1>2. tags \in Seq(Tags) /\ Suffix(tags, procs[p].key)
  BY <1>1, SuffixFacts
<1>3. Delete(p, procs[p].key, tags)
  BY DEF Reread
<1> QED BY <1>1, <1>2, <1>3, DeleteStep

LEMMA TagKeyStep ==
    ASSUME IInv, queue # <<>>, NEW p, p = Head(queue), TagKey(p), UNCHANGED <<swrDisabled, called>>
    PROVE  IInv'
<1>1. CASE procs[p].tags # <<>>
  BY <1>1, NextTagStep DEF TagKey
<1>2. CASE procs[p].tags = <<>>
  <2>1. /\ p \in Procs /\ Good(p, procs[p]) /\ procs[p] \in ProcRecords /\ procs[p].pc = "tag"
        /\ procs[p].key \in Keys /\ procs[p].on = None /\ procs[p].op \in {"set", "compute"}
    BY HeadFacts DEF Good, TagKey
  <2>2. UNCHANGED <<store, index, inflight, lru, direct>>
    BY <1>2 DEF TagKey
  <2>3. CASE procs[p].op = "set"
    <3>1. Finish(p) /\ ~Tagging(procs[p])
      BY <1>2, <2>3 DEF TagKey, Tagging
    <3>2. MapsOK' /\ Shrinks
      BY <2>2 DEF IInv, MapsOK, Shrinks
    <3> QED BY <1>2, <2>2, <3>1, <3>2, FinishQuiet
  <2>4. CASE procs[p].op = "compute"
    <3> DEFINE rec == [procs[p] EXCEPT !.pc = "stored"]
    <3>1. Await(p, rec)
      BY <1>2, <2>4 DEF TagKey
    <3>2. rec \in ProcRecords
      <4>1. "stored" \in Pcs
        BY DEF Pcs
      <4> QED BY <2>1, <4>1 DEF ProcRecords
    <3>3. rec.pc = "stored" /\ rec.op = procs[p].op /\ rec.key = procs[p].key /\ rec.on = None
      BY <2>1 DEF ProcRecords
    <3> HIDE DEF rec
    <3> QED BY <1>2, <2>1, <2>2, <2>4, <3>1, <3>2, <3>3, AwaitStep
  <2> QED BY <2>1, <2>3, <2>4
<1> QED BY <1>1, <1>2

LEMMA FailedStep ==
    ASSUME IInv, queue # <<>>, NEW p, p = Head(queue), Failed(p), UNCHANGED <<swrDisabled, called>>
    PROVE  IInv'
<1>1. /\ Finish(p) /\ ~Tagging(procs[p]) /\ procs[p].pc # "tag"
      /\ UNCHANGED <<store, index, inflight, lru, direct>>
  BY DEF Failed, Tagging
<1>2. MapsOK' /\ Shrinks
  BY <1>1 DEF IInv, MapsOK, Shrinks
<1> QED BY <1>1, <1>2, FinishQuiet

(* An entry is stored: cacheSet's first step, and computeAndSet's.            *)
LEMMA StoreStep ==
    ASSUME IInv, NEW p \in Procs, NEW rec, NEW k \in Keys, Good(p, rec),
           rec.pc = "tag", rec.key = k, rec.tags = TagsOf[k], rec.op # "invalidate",
           procs[p].pc \in {"idle", "computed"}, p \in Flights => procs[p].pc = "computed" /\ procs[p].key = k,
           procs' = Stores([procs EXCEPT ![p] = rec], k),
           store' = [store EXCEPT ![k] = "fresh"],
           \/ queue # <<>> /\ p = Head(queue) /\ queue' = Append(Tail(queue), p)
           \/ procs[p].pc \in Asleep /\ queue' = Append(queue, p),
           direct' = direct \cup {k} \/ (direct' = direct \ {k} /\ rec.op = "compute"),
           UNCHANGED <<index, inflight, lru, swrDisabled>>, called' \in 0 .. MaxCalls
    PROVE  IInv'
<1>0. PICK base : base = [procs EXCEPT ![p] = rec]
  OBVIOUS
<1>1. /\ base \in [Procs -> ProcRecords] /\ \A x \in Procs : base[x] \in ProcRecords
      /\ base[p] = rec /\ \A x \in Procs \ {p} : base[x] = procs[x]
  BY <1>0 DEF Good, IInv, ProcsInv
<1>2. procs' = [x \in Procs |-> [base[x] EXCEPT !.owed = @ \ {k}]]
  BY <1>0 DEF Stores
<1>3. ASSUME NEW x \in Procs
      PROVE  /\ procs'[x] \in ProcRecords
             /\ procs'[x].pc = base[x].pc /\ procs'[x].op = base[x].op /\ procs'[x].key = base[x].key
             /\ procs'[x].tags = base[x].tags /\ procs'[x].tag = base[x].tag /\ procs'[x].on = base[x].on
             /\ procs'[x].todo = base[x].todo /\ procs'[x].owed = base[x].owed \ {k}
  <2>1. base[x] \in ProcRecords /\ procs'[x] = [base[x] EXCEPT !.owed = base[x].owed \ {k}]
    BY <1>1, <1>2
  <2>2. base[x].owed \ {k} \in SUBSET Keys
    BY <2>1 DEF ProcRecords
  <2>3. procs'[x] \in ProcRecords
    BY <2>1, <2>2 DEF ProcRecords
  <2> QED BY <2>1, <2>3 DEF ProcRecords
<1>4. /\ procs'[p].pc = "tag" /\ procs'[p].key = k /\ procs'[p].tags = TagsOf[k] /\ procs'[p].op = rec.op
      /\ procs'[p].tag = rec.tag /\ procs'[p].on = rec.on
  <2>1. p \in Procs /\ base[p] = rec
    BY <1>1
  <2> QED BY <1>3, <2>1
<1>5. ASSUME NEW x \in Procs, x # p
      PROVE  /\ procs'[x].pc = procs[x].pc /\ procs'[x].op = procs[x].op /\ procs'[x].key = procs[x].key
             /\ procs'[x].tags = procs[x].tags /\ procs'[x].tag = procs[x].tag /\ procs'[x].on = procs[x].on
             /\ procs'[x].todo = procs[x].todo /\ procs'[x].owed = procs[x].owed \ {k}
             /\ Same(x)
  <2>1. base[x] = procs[x]
    BY <1>1, <1>5
  <2>2. /\ procs'[x].pc = procs[x].pc /\ procs'[x].op = procs[x].op /\ procs'[x].key = procs[x].key
        /\ procs'[x].tags = procs[x].tags /\ procs'[x].tag = procs[x].tag /\ procs'[x].on = procs[x].on
        /\ procs'[x].todo = procs[x].todo /\ procs'[x].owed = procs[x].owed \ {k}
    BY <1>3, <2>1
  <2> QED BY <2>2 DEF Same
<1>6. ProcsInv'
  <2>1. ASSUME NEW x \in Procs
        PROVE  Good(x, procs'[x])
    <3>1. procs'[x] \in ProcRecords
      BY <1>3
    <3>2. CASE x = p
      BY <1>4, <3>1, <3>2 DEF Good
    <3>3. CASE x # p
      <4>1. Good(x, procs[x])
        BY DEF IInv, ProcsInv
      <4> QED BY <1>5, <3>1, <3>3, <4>1 DEF Good
    <3> QED BY <3>2, <3>3
  <2>2. procs' \in [Procs -> ProcRecords]
    BY <1>2, <1>3
  <2> QED BY <2>1, <2>2 DEF ProcsInv, Good, Suffix, TagSet, ProcRecords
<1>7. FlightInv'
  <2>1. Calls \subseteq Procs /\ Flights \subseteq Procs /\ None \notin Flights
    BY CacheAssumption DEF Procs
  <2>2. ASSUME NEW f \in Flights
        PROVE  /\ procs'[f].pc # "idle" <=> procs[f].pc # "idle"
               /\ procs[f].pc # "idle" => procs'[f].key = procs[f].key
    <3>1. CASE f = p
      BY <1>4, <3>1
    <3>2. CASE f # p
      BY <1>5, <2>1, <3>2
    <3> QED BY <3>1, <3>2
  <2>3. /\ \A f \in Flights : procs'[f].pc # "idle" => inflight'[procs'[f].key] = f
        /\ \A x \in Keys : inflight'[x] # None => procs'[inflight'[x]].pc # "idle" /\ procs'[inflight'[x]].key = x
    BY <2>2 DEF IInv, FlightInv, MapsOK
  <2>4. ASSUME NEW c \in Calls, procs'[c].pc = "joined"
        PROVE  procs'[procs'[c].on].pc # "idle"
    <3>1. c # p /\ c \in Procs
      BY <1>4, <2>1, <2>4
    <3>2. procs[c].pc = "joined" /\ procs'[c].on = procs[c].on
      BY <1>5, <2>4, <3>1
    <3>3. procs[c].on \in Flights /\ procs[procs[c].on].pc # "idle"
      BY <3>1, <3>2 DEF IInv, FlightInv, ProcsInv, Good
    <3> QED BY <2>2, <3>2, <3>3
  <2> QED BY <2>3, <2>4 DEF FlightInv
<1>8. QueueInv' /\ IndexInv'
  <2>0. PICK n : n = Len(queue')
    OBVIOUS
  <2>1. procs'[p].pc \notin Asleep /\ \A x \in Procs \ {p} : Same(x)
    BY <1>4, <1>5 DEF Asleep
  <2>2. PICK d : QueueInv' /\ Shifted(d, n) /\ queue'[n] = p /\ (d = 1 => queue[1] = p)
    <3>1. CASE queue # <<>> /\ p = Head(queue) /\ queue' = Append(Tail(queue), p)
      <4>1. QueueInv' /\ Shifted(1, n) /\ queue'[n] = p /\ queue[1] = p
        BY <2>0, <2>1, <3>1, FrontMoves
      <4> QED BY <4>1
    <3>2. CASE procs[p].pc \in Asleep /\ queue' = Append(queue, p)
      <4>1. QueueInv' /\ Shifted(0, n) /\ queue'[n] = p
        BY <2>0, <2>1, <3>2, OneComes
      <4> QED BY <4>1
    <3> QED BY <3>1, <3>2
  <2>3. d = 1 => \A x, i, t : ~Turn(1, "tag", x, i, t)
    BY <2>2 DEF Turn
  <2>4. \A x \in Keys : x # k /\ store'[x] # "none" => store[x] # "none"
    BY DEF IInv, MapsOK
  <2>5. /\ Shifted(d, n) /\ n = Len(queue') /\ procs'[queue'[n]].pc = "tag"
        /\ procs'[queue'[n]].key = k /\ procs'[queue'[n]].tags = TagsOf[k] /\ index' = index
    BY <1>4, <2>0, <2>2
  <2>6. IndexInv'
    BY <2>3, <2>4, <2>5, IndexSet
  <2> QED BY <2>2, <2>6
<1>9. OwedInv'
  <2> SUFFICES ASSUME NEW c \in Calls, procs'[c].op = "invalidate", NEW x \in procs'[c].owed, store'[x] # "none"
               PROVE  x \in procs'[c].todo \/ (procs'[c].pc = "reread" /\ procs'[c].key = x)
    BY DEF OwedInv, Owes
  <2>1. c \in Procs /\ c # p
    BY <1>4 DEF Procs
  <2>2. /\ x # k /\ x \in procs[c].owed /\ procs[c].op = "invalidate" /\ procs'[c].todo = procs[c].todo
        /\ procs'[c].pc = procs[c].pc /\ procs'[c].key = procs[c].key
    BY <1>5, <2>1
  <2>3. x \in Keys
    BY <2>1, <2>2 DEF IInv, ProcsInv, ProcRecords
  <2>4. store[x] # "none"
    BY <2>2, <2>3 DEF IInv, MapsOK
  <2> QED BY <2>2, <2>4 DEF IInv, OwedInv, Owes
<1>10. LruInv'
  <2>1. ASSUME NEW x \in Procs, Tagging(procs[x])
        PROVE  Tagging(procs'[x]) /\ procs'[x].key = procs[x].key
    <3>1. x # p
      BY <2>1 DEF Tagging
    <3> QED BY <1>5, <2>1, <3>1 DEF Tagging
  <2>2. rec.op = "compute" => Tagging(procs'[p])
    BY <1>4 DEF Tagging
  <2>3. Counted' \subseteq Counted
    <3> SUFFICES ASSUME NEW x \in Counted' PROVE x \in Counted
      OBVIOUS
    <3>1. /\ x \in Keys /\ store'[x] # "none" /\ x \notin direct'
          /\ \A q \in Procs : Tagging(procs'[q]) => procs'[q].key # x
      BY DEF Counted, Tagging
    <3>2. x # k
      BY <1>4, <2>2, <3>1
    <3>3. store[x] # "none" /\ x \notin direct
      BY <3>1, <3>2 DEF IInv, MapsOK
    <3> QED BY <2>1, <3>1, <3>3 DEF Counted
  <2> QED BY <2>3, LruShrinks DEF IInv, MapsOK
<1>11. MapsOK'
  BY DEF IInv, MapsOK, Ages
<1> QED BY <1>6, <1>7, <1>8, <1>9, <1>10, <1>11 DEF IInv

LEMMA ComputedStep ==
    ASSUME IInv, queue # <<>>, NEW p, p = Head(queue), Computed(p), UNCHANGED <<swrDisabled, called>>
    PROVE  IInv'
<1> DEFINE k == procs[p].key
           rec == [procs[p] EXCEPT !.pc = "tag", !.tags = TagsOf[k]]
<1>1. /\ p \in Procs /\ Good(p, procs[p]) /\ procs[p] \in ProcRecords /\ procs[p].pc = "computed"
      /\ k \in Keys /\ procs[p].op = "compute" /\ procs[p].on = None
  BY HeadFacts DEF Good, Computed
<1>2. TagsOf[k] \in Seq(Tags)
  BY <1>1, SuffixFacts
<1>3. rec \in ProcRecords
  <2>1. "tag" \in Pcs
    BY DEF Pcs
  <2> QED BY <1>1, <1>2, <2>1 DEF ProcRecords
<1>4. rec.pc = "tag" /\ rec.tags = TagsOf[k] /\ rec.key = k /\ rec.op = "compute" /\ rec.on = None
  BY <1>1 DEF ProcRecords
<1>5. /\ procs' = Stores([procs EXCEPT ![p] = rec], k) /\ queue' = Append(Tail(queue), p)
      /\ store' = [store EXCEPT ![k] = "fresh"] /\ direct' = direct \ {k}
      /\ UNCHANGED <<index, inflight, lru>>
  <2>1. [procs EXCEPT ![p].pc = "tag", ![p].tags = TagsOf[k]] = [procs EXCEPT ![p] = rec]
    BY <1>1 DEF IInv, ProcsInv, ProcRecords
  <2> QED BY <2>1 DEF Computed
<1> HIDE DEF rec, k
<1>6. Good(p, rec)
  BY <1>1, <1>3, <1>4 DEF Good, FlightPcs
<1>7. called' \in 0 .. MaxCalls
  BY DEF IInv, MapsOK
<1> QED BY <1>1, <1>4, <1>5, <1>6, <1>7, StoreStep DEF k

(* The LRU is brought up to date, and the oldest entries beyond its bound go. *)
LEMMA StoredItStep ==
    ASSUME IInv, queue # <<>>, NEW p, p = Head(queue), StoredIt(p), UNCHANGED <<swrDisabled, called>>
    PROVE  IInv'
<1> DEFINE k == procs[p].key
           l == Touched(lru, k)
<1>1. /\ p \in Procs /\ procs[p].pc = "stored" /\ k \in Keys /\ lru \in Seq(Keys)
  BY HeadFacts DEF Good, StoredIt, IInv, MapsOK
<1>2. l \in Seq(Keys) /\ ToSet(lru) \cup {k} \subseteq ToSet(l)
  BY <1>1, TouchedFacts
<1>3. /\ lru' = Kept(l) /\ store' = [x \in Keys |-> IF x \in Evicted(l) THEN "none" ELSE store[x]]
      /\ direct' = direct \ Evicted(l) /\ Finish(p) /\ UNCHANGED <<index, inflight>>
  BY DEF StoredIt
<1> HIDE DEF l, k
<1>4. /\ lru' \in Seq(Keys) /\ (MaxEntries > 0 => Len(lru') <= MaxEntries)
      /\ \A x \in ToSet(l) : x \in Evicted(l) \/ x \in ToSet(lru')
  BY <1>2, <1>3, KeptFacts
<1>5. MapsOK' /\ Shrinks
  BY <1>3, <1>4 DEF IInv, MapsOK, Shrinks
<1>6. \A x \in Procs : x # p => procs'[x] = procs[x]
  BY <1>3 DEF Finish, Await, Suspend, IInv, ProcsInv
<1>7. LruInv'
  <2> SUFFICES ASSUME MaxEntries > 0
               PROVE  Counted' \subseteq ToSet(lru') /\ Cardinality(Counted') <= MaxEntries
    BY DEF LruInv
  <2>1. ASSUME NEW x \in Counted'
        PROVE  x \in ToSet(lru')
    <3>1. /\ x \in Keys /\ store'[x] # "none" /\ x \notin direct'
          /\ \A q \in Procs : Tagging(procs'[q]) => procs'[q].key # x
      BY <2>1 DEF Counted, Tagging
    <3>2. x \notin Evicted(l) /\ store[x] # "none" /\ x \notin direct
      BY <1>3, <3>1
    <3>3. x # k => x \in Counted
      BY <1>1, <1>6, <3>1, <3>2 DEF Counted, k
    <3>4. x \in ToSet(l)
      BY <1>2, <3>3 DEF IInv, LruInv
    <3> QED BY <1>4, <3>2, <3>4
  <2>2. /\ IsFiniteSet(ToSet(lru')) /\ Cardinality(ToSet(lru')) <= Len(lru') /\ Len(lru') \in Nat
    BY <1>4, ToSetFinite
  <2>3. Counted' \subseteq ToSet(lru')
    BY <2>1
  <2>4. /\ Cardinality(Counted') <= Cardinality(ToSet(lru'))
        /\ Cardinality(ToSet(lru')) \in Nat /\ Cardinality(Counted') \in Nat
    BY <2>2, <2>3, FS_Subset, FS_CardinalityType
  <2>5. Cardinality(Counted') <= MaxEntries
    BY <1>4, <2>2, <2>4, CacheAssumption
  <2> QED BY <2>3, <2>5
<1> QED BY <1>1, <1>3, <1>5, <1>7, FinishStep

(* A promise leaves its key, and who waits for it has the answer.             *)
LEMMA LeavingStep ==
    ASSUME IInv, queue # <<>>, NEW f, f = Head(queue), Leaving(f), UNCHANGED <<swrDisabled, called>>
    PROVE  IInv'
<1> DEFINE k == procs[f].key
<1>1. /\ f \in Procs /\ Good(f, procs[f]) /\ f \in Flights /\ k \in Keys /\ procs[f].pc = "leaving"
      /\ f # None
  BY HeadFacts, CacheAssumption DEF Good, Leaving
<1>2. /\ inflight' = [inflight EXCEPT ![k] = None] /\ queue' = Tail(queue)
      /\ procs' = [x \in Procs |-> IF x = f \/ procs[x].on = f THEN Idle ELSE procs[x]]
      /\ UNCHANGED <<store, index, lru, direct, swrDisabled, called>>
  BY DEF Leaving
<1>3. inflight[k] = f
  BY <1>1 DEF IInv, FlightInv
<1> HIDE DEF k
<1>4. Idle \in ProcRecords /\ Idle.pc = "idle" /\ Idle.op = None /\ Idle.on = None /\ Idle.owed = {}
  BY IdleTyped DEF Idle
<1>5. None # "invalidate" /\ None # "compute" /\ Calls \subseteq Procs /\ Flights \subseteq Procs /\ None \notin Flights
  BY CacheAssumption DEF CallOps, Procs
<1>6. ASSUME NEW x \in Procs
      PROVE  /\ Good(x, procs[x]) /\ procs[x] \in ProcRecords
             /\ x = f \/ procs[x].on = f => procs'[x] = Idle
             /\ x # f /\ procs[x].on # f => procs'[x] = procs[x]
             /\ procs[x].on = f => procs[x].pc = "joined" /\ x \notin Flights
  <2>1. Good(x, procs[x]) /\ procs[x] \in ProcRecords
    BY DEF IInv, ProcsInv
  <2> QED BY <1>1, <1>2, <2>1 DEF Good, FlightPcs
<1>7. ProcsInv'
  <2>1. ASSUME NEW x \in Procs
        PROVE  procs'[x] \in ProcRecords /\ Good(x, procs'[x])
    <3>1. Good(x, Idle)
      BY <1>4, <1>5 DEF Good, FlightPcs
    <3> QED BY <1>4, <1>6, <3>1
  <2>2. procs' \in [Procs -> ProcRecords]
    BY <1>2, <2>1
  <2> QED BY <2>1, <2>2 DEF ProcsInv, Good, Suffix, TagSet, ProcRecords
<1>8. FlightInv'
  <2>1. \A g \in Flights : g # f => procs'[g] = procs[g]
    BY <1>5, <1>6
  <2>2. inflight'[k] = None /\ \A x \in Keys : x # k => inflight'[x] = inflight[x]
    BY <1>1, <1>2 DEF IInv, MapsOK, k
  <2>3. procs'[f].pc = "idle"
    BY <1>1, <1>4, <1>6
  <2>4. ASSUME NEW g \in Flights, procs'[g].pc # "idle"
        PROVE  inflight'[procs'[g].key] = g
    <3>1. g # f /\ procs'[g] = procs[g]
      BY <2>1, <2>3, <2>4
    <3>2. inflight[procs[g].key] = g /\ procs[g].key \in Keys
      BY <1>5, <1>6, <2>4, <3>1 DEF IInv, FlightInv, Good, FlightPcs
    <3> QED BY <1>3, <2>2, <3>1, <3>2
  <2>5. ASSUME NEW x \in Keys, inflight'[x] # None
        PROVE  procs'[inflight'[x]].pc # "idle" /\ procs'[inflight'[x]].key = x
    <3>1. x # k /\ inflight'[x] = inflight[x]
      BY <2>2, <2>5
    <3>2. procs[inflight[x]].pc # "idle" /\ procs[inflight[x]].key = x /\ inflight[x] \in Flights
      BY <2>5, <3>1 DEF IInv, FlightInv, MapsOK
    <3>3. inflight[x] # f
      BY <3>1, <3>2 DEF k
    <3> QED BY <2>1, <3>1, <3>2, <3>3
  <2>6. ASSUME NEW c \in Calls, procs'[c].pc = "joined"
        PROVE  procs'[procs'[c].on].pc # "idle"
    <3>1. c # f /\ procs[c].on # f /\ procs'[c] = procs[c]
      BY <1>4, <1>5, <1>6, <2>6
    <3>2. procs[c].on \in Flights /\ procs[procs[c].on].pc # "idle"
      BY <1>5, <1>6, <2>6, <3>1 DEF IInv, FlightInv, Good
    <3> QED BY <2>1, <3>1, <3>2
  <2> QED BY <2>4, <2>5, <2>6 DEF FlightInv
<1>9. QueueInv' /\ IndexInv'
  <2>0. PICK n : n = Len(queue)
    OBVIOUS
  <2>1. ASSUME NEW x \in Procs \ {Head(queue)}
        PROVE  procs[x].pc \in Asleep \/ Same(x)
    BY <1>6 DEF Asleep, Same
  <2>2. queue[1] = f /\ QueueInv' /\ Shifted(1, n) /\ n \in Nat /\ Len(queue') = n - 1
    BY <1>2, <2>0, <2>1, FrontSleeps
  <2>3. \A x, i, t : ~Turn(1, "tag", x, i, t) /\ ~Turn(n, "untag", x, i, t)'
    BY <1>1, <2>2 DEF Turn
  <2>4. index' = index /\ \A x \in Keys : store'[x] # "none" => store[x] # "none"
    BY <1>2
  <2>5. IndexInv'
    BY <2>2, <2>3, <2>4, IndexKept
  <2> QED BY <2>2, <2>5
<1>10. OwedInv'
  <2> SUFFICES ASSUME NEW c \in Calls, procs'[c].op = "invalidate", NEW x \in procs'[c].owed, store'[x] # "none"
               PROVE  x \in procs'[c].todo \/ (procs'[c].pc = "reread" /\ procs'[c].key = x)
    BY DEF OwedInv, Owes
  <2>1. procs'[c] = procs[c]
    BY <1>4, <1>5, <1>6
  <2> QED BY <1>2, <2>1 DEF IInv, OwedInv, Owes
<1>11. LruInv'
  <2>1. ASSUME NEW x \in Procs, Tagging(procs[x])
        PROVE  Tagging(procs'[x]) /\ procs'[x].key = procs[x].key
    <3>1. procs[x].pc \in {"tag", "stored"}
      BY <2>1 DEF Tagging
    <3> QED BY <1>1, <1>6, <2>1, <3>1
  <2>2. Shrinks /\ lru' \in Seq(Keys)
    BY <1>2 DEF IInv, MapsOK, Shrinks
  <2> QED BY <1>2, <2>1, <2>2, LruKept
<1>12. MapsOK'
  BY <1>1, <1>2 DEF IInv, MapsOK
<1> QED BY <1>7, <1>8, <1>9, <1>10, <1>11, <1>12 DEF IInv

-----------------------------------------------------------------------------
(* The other steps: a compute ends, a call begins, time passes.               *)

LEMMA ComputeEndsStep ==
    ASSUME IInv, NEW p \in Procs, ComputeSettles(p)
    PROVE  IInv'
<1>1. /\ Good(p, procs[p]) /\ procs[p] \in ProcRecords /\ procs[p].pc = "computing"
      /\ procs[p].key \in Keys /\ procs[p].op = "compute" /\ procs[p].on = None
  BY DEF IInv, ProcsInv, Good, ComputeSettles, ComputeEnds
<1>2. PICK pc \in {"computed", "failed"} : procs' = [procs EXCEPT ![p].pc = pc]
  BY DEF ComputeSettles, ComputeEnds
<1> DEFINE rec == [procs[p] EXCEPT !.pc = pc]
<1>3. /\ procs' = [procs EXCEPT ![p] = rec] /\ queue' = Append(queue, p)
      /\ UNCHANGED <<store, index, inflight, lru, direct, swrDisabled, called>>
  BY <1>2 DEF ComputeSettles, ComputeEnds, IInv, ProcsInv
<1>4. rec \in ProcRecords
  <2>1. pc \in Pcs
    BY DEF Pcs
  <2> QED BY <1>1, <2>1 DEF ProcRecords
<1>5. rec.pc = pc /\ rec.op = "compute" /\ rec.key = procs[p].key /\ rec.on = None
  BY <1>1 DEF ProcRecords
<1> HIDE DEF rec
<1>6. Moves(p, rec)
  BY <1>1, <1>3, <1>5 DEF Moves, Asleep
<1>7. Good(p, rec)
  BY <1>1, <1>4, <1>5 DEF Good, FlightPcs
<1>8. Flies(p, rec) /\ OwesAll(rec) /\ rec.pc # "untag" /\ ~Tagging(procs[p]) /\ procs[p].pc # "tag"
  BY <1>1, <1>5 DEF Flies, OwesAll, Tagging
<1>9. MapsOK' /\ Shrinks
  BY <1>3 DEF IInv, MapsOK, Shrinks
<1> QED BY <1>3, <1>6, <1>7, <1>8, <1>9, PlainStep

LEMMA EnterStep ==
    ASSUME IInv, NEW c \in Calls, NEW rec, Enter(c, rec), rec \in ProcRecords,
           rec.on = None, rec.op \in CallOps \ {"set"}, rec.pc \in {"got", "found", "raw", "untag", "listed"},
           rec.op = "invalidate" <=> rec.pc = "listed",
           rec.op = "invalidate" => rec.tag \in Tags,
           rec.pc # "listed" => rec.key \in Keys,
           rec.pc = "found" => rec.op = "compute",
           rec.pc = "untag" => Suffix(rec.tags, rec.key) /\ store'[rec.key] = "none",
           OwesAll(rec), MapsOK', index' = index, inflight' = inflight, lru' = lru, Shrinks,
           \A k \in Keys : store'[k] # "none" /\ k \in direct => k \in direct'
    PROVE  IInv'
<1>1. c \in Procs /\ c \notin Flights /\ procs[c].pc = "idle"
  BY CacheAssumption DEF Enter, Procs
<1>2. Moves(c, rec)
  BY <1>1 DEF Moves, Enter, Asleep
<1>3. Good(c, rec)
  BY <1>1 DEF Good
<1>4. Flies(c, rec) /\ ~Tagging(procs[c])
  BY <1>1 DEF Flies, Tagging
<1> QED BY <1>1, <1>2, <1>3, <1>4, PlainStep

LEMMA ReadCallStep ==
    ASSUME IInv, NEW c \in Calls, NEW k \in Keys, NEW op \in {"get", "compute", "single"}, NEW swr \in BOOLEAN,
           NEW pc \in {"got", "found", "raw"}, pc = "found" => op = "compute",
           \/ Enter(c, [Call(c, op, k) EXCEPT !.pc = pc, !.swr = swr])
           \/ Enter(c, [Call(c, op, k) EXCEPT !.pc = pc]),
           UNCHANGED <<store, index, inflight, lru, direct, swrDisabled>>, called' \in 0 .. MaxCalls
    PROVE  IInv'
<1> DEFINE e == store[k]
           call == [Idle EXCEPT !.op = op, !.key = k, !.held = e]
<1>1. e \in Ages \cup {"none"} /\ pc \in Pcs /\ op \in CallOps /\ k \in Keys \cup {None}
  BY DEF Pcs, CallOps, IInv, MapsOK
<1>2. PICK rec : /\ Enter(c, rec)
                 /\ rec = [call EXCEPT !.pc = pc, !.swr = swr] \/ rec = [call EXCEPT !.pc = pc]
  <2>1. CASE Enter(c, [Call(c, op, k) EXCEPT !.pc = pc, !.swr = swr])
    BY <2>1 DEF Call
  <2>2. CASE Enter(c, [Call(c, op, k) EXCEPT !.pc = pc])
    BY <2>2 DEF Call
  <2> QED BY <2>1, <2>2
<1> HIDE DEF e
<1>3. call \in ProcRecords /\ call.op = op /\ call.key = k /\ call.on = None /\ call.owed = {}
  BY <1>1, IdleTyped DEF ProcRecords, Idle
<1> HIDE DEF call
<1>4. rec \in ProcRecords
  BY <1>1, <1>2, <1>3 DEF ProcRecords
<1>5. rec.pc = pc /\ rec.op = op /\ rec.key = k /\ rec.on = None /\ rec.owed = {}
  BY <1>2, <1>3 DEF ProcRecords
<1>6. OwesAll(rec) /\ rec.op # "invalidate" /\ rec.op \in CallOps \ {"set"}
  BY <1>5 DEF OwesAll, CallOps
<1>7. MapsOK' /\ Shrinks
  BY DEF IInv, MapsOK, Shrinks
<1> QED BY <1>2, <1>4, <1>5, <1>6, <1>7, EnterStep

LEMMA CacheSetStep ==
    ASSUME IInv, NEW c \in Calls, NEW k \in Keys, CacheSet(c, k), UNCHANGED swrDisabled, called' \in 0 .. MaxCalls
    PROVE  IInv'
<1> DEFINE tags == TagsOf[k]
           rec == [Idle EXCEPT !.pc = "tag", !.op = "set", !.key = k, !.tags = tags]
<1>1. "tag" \in Pcs /\ "set" \in CallOps /\ k \in Keys \cup {None} /\ tags \in Seq(Tags)
  BY SuffixFacts DEF Pcs, CallOps
<1>2. /\ procs' = Stores([procs EXCEPT ![c] = rec], k) /\ queue' = Append(queue, c)
      /\ store' = [store EXCEPT ![k] = "fresh"] /\ direct' = direct \cup {k}
      /\ procs[c].pc = "idle" /\ UNCHANGED <<index, inflight, lru>>
  BY DEF CacheSet
<1> HIDE DEF tags
<1>3. rec \in ProcRecords
  BY <1>1, IdleTyped DEF ProcRecords
<1>4. rec.pc = "tag" /\ rec.op = "set" /\ rec.key = k /\ rec.tags = tags /\ rec.on = None
  BY DEF Idle
<1> HIDE DEF rec
<1>5. c \in Procs /\ c \notin Flights /\ procs[c].pc \in Asleep
  BY <1>2, CacheAssumption DEF Procs, Asleep
<1>6. Good(c, rec)
  BY <1>3, <1>4, <1>5 DEF Good
<1> QED BY <1>2, <1>4, <1>5, <1>6, StoreStep DEF tags

LEMMA CacheDelStep ==
    ASSUME IInv, NEW c \in Calls, NEW k \in Keys, CacheDel(c, k), UNCHANGED swrDisabled, called' \in 0 .. MaxCalls
    PROVE  IInv'
<1>1. PICK hint \in {<<>>, TagsOf[k]} :
        Enter(c, [Idle EXCEPT !.pc = "untag", !.op = "del", !.key = k, !.tags = hint])
  BY DEF CacheDel
<1> DEFINE rec == [Idle EXCEPT !.pc = "untag", !.op = "del", !.key = k, !.tags = hint]
<1>2. /\ "untag" \in Pcs /\ "del" \in CallOps /\ k \in Keys \cup {None} /\ hint \in Seq(Tags) /\ Suffix(hint, k)
  BY SuffixFacts DEF Pcs, CallOps
<1>3. rec \in ProcRecords
  BY <1>2, IdleTyped DEF ProcRecords
<1>4. rec.pc = "untag" /\ rec.op = "del" /\ rec.key = k /\ rec.tags = hint /\ rec.on = None
  BY DEF Idle
<1>5. Enter(c, rec)
  BY <1>1
<1> HIDE DEF rec
<1>6. /\ store' = [store EXCEPT ![k] = "none"] /\ direct' = direct \ {k}
      /\ UNCHANGED <<index, inflight, lru>>
  BY DEF CacheDel
<1>7. MapsOK' /\ Shrinks /\ store'[k] = "none" /\ OwesAll(rec)
  BY <1>4, <1>6 DEF IInv, MapsOK, Shrinks, OwesAll
<1>8. \A x \in Keys : store'[x] # "none" /\ x \in direct => x \in direct'
  BY <1>6, <1>7
<1>9. rec.op \in CallOps \ {"set"}
  BY <1>4 DEF CallOps
<1> QED BY <1>2, <1>3, <1>4, <1>5, <1>6, <1>7, <1>8, <1>9, EnterStep

(* What it owes is listed under its tag: an entry is listed but while it is   *)
(* being tagged.                                                              *)
LEMMA InvalidateStep ==
    ASSUME IInv, NEW c \in Calls, NEW t \in Tags, CacheInvalidateTag(c, t), UNCHANGED swrDisabled,
           called' \in 0 .. MaxCalls
    PROVE  IInv'
<1> DEFINE todo == index[t]
           owed == {k \in Stored : t \in TagSet(k) /\ ~BeingTagged(k)}
           rec == [Idle EXCEPT !.pc = "listed", !.op = "invalidate", !.tag = t, !.todo = todo, !.owed = owed]
<1>1. /\ "listed" \in Pcs /\ "invalidate" \in CallOps /\ t \in Tags \cup {None}
      /\ todo \in SUBSET Keys /\ owed \in SUBSET Keys
  BY DEF Pcs, CallOps, IInv, MapsOK, Stored
<1>2. Enter(c, rec) /\ UNCHANGED <<store, index, inflight, lru, direct>>
  BY DEF CacheInvalidateTag
<1>3. ASSUME NEW k \in owed
      PROVE  k \in todo
  <2>1. k \in Keys /\ store[k] # "none" /\ t \in TagSet(k) /\ ~BeingTagged(k)
    BY <1>3 DEF Stored
  <2>2. \A b, j \in Nat : ~Turn(b, "tag", k, j, t)
    <3> SUFFICES ASSUME NEW b \in Nat, NEW j \in Nat, Turn(b, "tag", k, j, t)
                 PROVE  FALSE
      OBVIOUS
    <3>1. queue[b] \in Procs /\ procs[queue[b]].pc = "tag" /\ procs[queue[b]].key = k
      BY ElementOfSeq DEF Turn, IInv, QueueInv
    <3> QED BY <2>1, <3>1 DEF BeingTagged
  <2> QED BY <2>1, <2>2 DEF IInv, IndexInv
<1> HIDE DEF todo, owed
<1>4. rec \in ProcRecords
  BY <1>1, IdleTyped DEF ProcRecords
<1>5. /\ rec.pc = "listed" /\ rec.op = "invalidate" /\ rec.tag = t /\ rec.todo = todo /\ rec.owed = owed
      /\ rec.on = None
  BY DEF Idle
<1> HIDE DEF rec
<1>6. MapsOK' /\ Shrinks
  BY <1>2 DEF IInv, MapsOK, Shrinks
<1>7. OwesAll(rec) /\ rec.op \in CallOps \ {"set"}
  BY <1>3, <1>5 DEF OwesAll, CallOps
<1> QED BY <1>2, <1>4, <1>5, <1>6, <1>7, EnterStep

LEMMA CacheClearStep ==
    ASSUME IInv, CacheClear, UNCHANGED swrDisabled, called' \in 0 .. MaxCalls
    PROVE  IInv'
<1>1. /\ store' = [k \in Keys |-> "none"] /\ index' = [t \in Tags |-> {}] /\ direct' = {}
      /\ UNCHANGED <<inflight, lru, procs, queue>>
  BY DEF CacheClear
<1>2. MapsOK'
  BY <1>1 DEF IInv, MapsOK
<1>3. ProcsInv' /\ FlightInv'
  BY <1>1 DEF IInv, ProcsInv, FlightInv, Good, Suffix, TagSet, ProcRecords
<1>4. QueueInv'
  BY <1>1 DEF IInv, QueueInv, Asleep
<1>5. \A k \in Keys : store'[k] = "none"
  BY <1>1
<1>6. IndexInv'
  BY <1>5 DEF IndexInv, TagSet
<1>7. OwedInv'
  <2>1. ASSUME NEW c \in Calls, NEW k \in procs'[c].owed
        PROVE  k \in Keys
    BY <1>1, <2>1 DEF IInv, ProcsInv, ProcRecords, Procs
  <2> QED BY <1>5, <2>1 DEF OwedInv, Owes
<1>8. LruInv'
  <2>1. \A x \in Procs : Tagging(procs[x]) => Tagging(procs'[x]) /\ procs'[x].key = procs[x].key
    BY <1>1
  <2>2. Shrinks /\ \A k \in Keys : store'[k] # "none" /\ k \in direct => k \in direct'
    BY <1>5 DEF Shrinks
  <2> QED BY <1>1, <2>1, <2>2, LruKept DEF IInv, MapsOK
<1> QED BY <1>2, <1>3, <1>4, <1>6, <1>7, <1>8 DEF IInv

LEMMA CallStartsStep ==
    ASSUME IInv, CallStarts
    PROVE  IInv'
<1>1. called' \in 0 .. MaxCalls /\ UNCHANGED swrDisabled
  BY CacheAssumption DEF CallStarts, IInv, MapsOK
<1>2. ASSUME NEW c \in Calls, NEW k \in Keys, CacheGet(c, k)
      PROVE  IInv'
  BY <1>1, <1>2, ReadCallStep DEF CacheGet
<1>3. ASSUME NEW c \in Calls, NEW k \in Keys, NEW swr \in BOOLEAN, GetOrCompute(c, k, swr)
      PROVE  IInv'
  BY <1>1, <1>3, ReadCallStep DEF GetOrCompute
<1>4. ASSUME NEW c \in Calls, NEW k \in Keys, NEW swr \in BOOLEAN, GetOrComputeSingleFlight(c, k, swr)
      PROVE  IInv'
  <2> DEFINE pc == IF swr THEN "raw" ELSE "got"
  <2>1. pc \in {"got", "found", "raw"} /\ pc # "found"
    OBVIOUS
  <2>2. Enter(c, [Call(c, "single", k) EXCEPT !.pc = pc, !.swr = swr])
    BY <1>4 DEF GetOrComputeSingleFlight
  <2>3. UNCHANGED <<store, index, inflight, lru, direct>>
    BY <1>4 DEF GetOrComputeSingleFlight
  <2> HIDE DEF pc
  <2> QED BY <1>1, <2>1, <2>2, <2>3, ReadCallStep
<1> QED BY <1>1, <1>2, <1>3, <1>4, CacheSetStep, CacheDelStep, InvalidateStep, CacheClearStep DEF CallStarts

(* Only an entry's age changes, and what the calls that hold it know of it.   *)
LEMMA AgeStep ==
    ASSUME IInv, NEW k \in Keys, Age(k), UNCHANGED <<swrDisabled, called>>
    PROVE  IInv'
<1>1. store[k] \in {"fresh", "stale"} /\ store' = [store EXCEPT ![k] = Older[@]]
  BY DEF Age, Older
<1>2. Older[store[k]] \in {"stale", "dead"}
  BY <1>1 DEF Older
<1>3. PICK e \in {"stale", "dead"} : /\ store' = [store EXCEPT ![k] = e]
                                     /\ \A x \in Procs : procs'[x] = procs[x] \/ procs'[x] = [procs[x] EXCEPT !.held = e]
                                     /\ procs' = [x \in Procs |-> procs'[x]]
  <2>1. \A x \in Procs : procs[x] \in ProcRecords
    BY DEF IInv, ProcsInv
  <2>2. ASSUME NEW x \in Procs
        PROVE  procs'[x] = procs[x] \/ procs'[x] = [procs[x] EXCEPT !.held = Older[store[k]]]
    <3>1. procs'[x] = procs[x] \/ (procs[x].held = store[k] /\ procs'[x] = [procs[x] EXCEPT !.held = Older[@]])
      BY DEF Age
    <3> QED BY <3>1
  <2>3. procs' = [x \in Procs |-> procs'[x]]
    BY DEF Age
  <2> QED BY <1>1, <1>2, <2>2, <2>3
<1>4. ASSUME NEW x \in Procs
      PROVE  /\ procs'[x] \in ProcRecords
             /\ procs'[x].pc = procs[x].pc /\ procs'[x].op = procs[x].op /\ procs'[x].key = procs[x].key
             /\ procs'[x].tags = procs[x].tags /\ procs'[x].tag = procs[x].tag /\ procs'[x].on = procs[x].on
             /\ procs'[x].todo = procs[x].todo /\ procs'[x].owed = procs[x].owed
             /\ Same(x)
  <2>1. procs[x] \in ProcRecords /\ e \in Ages \cup {"none"}
    BY DEF IInv, ProcsInv, Ages
  <2>2. procs'[x] \in ProcRecords
    BY <1>3, <2>1 DEF ProcRecords
  <2>3. /\ procs'[x].pc = procs[x].pc /\ procs'[x].op = procs[x].op /\ procs'[x].key = procs[x].key
        /\ procs'[x].tags = procs[x].tags /\ procs'[x].tag = procs[x].tag /\ procs'[x].on = procs[x].on
        /\ procs'[x].todo = procs[x].todo /\ procs'[x].owed = procs[x].owed
    BY <1>3, <2>1 DEF ProcRecords
  <2> QED BY <2>2, <2>3 DEF Same
<1>5. /\ UNCHANGED <<index, inflight, lru, direct, queue>>
      /\ store' \in [Keys -> Ages \cup {"none"}] /\ \A x \in Keys : store'[x] # "none" <=> store[x] # "none"
  BY <1>1, <1>3 DEF Age, IInv, MapsOK, Ages
<1>6. MapsOK'
  BY <1>5 DEF IInv, MapsOK
<1>7. ProcsInv'
  <2>1. ASSUME NEW x \in Procs
        PROVE  Good(x, procs'[x])
    <3>1. Good(x, procs[x])
      BY DEF IInv, ProcsInv
    <3> QED BY <1>4, <3>1 DEF Good
  <2>2. procs' \in [Procs -> ProcRecords]
    BY <1>3, <1>4
  <2> QED BY <2>1, <2>2 DEF ProcsInv, Good, Suffix, TagSet, ProcRecords
<1>8. FlightInv'
  <2>1. Calls \subseteq Procs /\ Flights \subseteq Procs /\ None \notin Flights
    BY CacheAssumption DEF Procs
  <2>2. \A f \in Flights : procs'[f].pc = procs[f].pc /\ procs'[f].key = procs[f].key
    BY <1>4, <2>1
  <2>3. /\ \A f \in Flights : procs'[f].pc # "idle" => inflight'[procs'[f].key] = f
        /\ \A x \in Keys : inflight'[x] # None => procs'[inflight'[x]].pc # "idle" /\ procs'[inflight'[x]].key = x
    BY <1>5, <2>2 DEF IInv, FlightInv, MapsOK
  <2>4. ASSUME NEW c \in Calls, procs'[c].pc = "joined"
        PROVE  procs'[procs'[c].on].pc # "idle"
    <3>1. c \in Procs /\ procs[c].pc = "joined" /\ procs'[c].on = procs[c].on
      BY <1>4, <2>1, <2>4
    <3>2. procs[c].on \in Flights /\ procs[procs[c].on].pc # "idle"
      BY <3>1 DEF IInv, FlightInv, ProcsInv, Good
    <3> QED BY <2>2, <3>1, <3>2
  <2> QED BY <2>3, <2>4 DEF FlightInv
<1>9. QueueInv' /\ IndexInv'
  <2>0. PICK n : n = Len(queue) + 1
    OBVIOUS
  <2>1. QueueInv' /\ Shifted(0, n) /\ n \in Nat /\ Len(queue) \in Nat
    BY <1>4, <1>5, <2>0, QueueStays
  <2>2. \A x, i, t : ~Turn(n, "untag", x, i, t)'
    BY <1>5, <2>0, <2>1 DEF Turn
  <2>3. IndexInv'
    BY <1>5, <2>1, <2>2, IndexKept
  <2> QED BY <2>1, <2>3
<1>10. OwedInv'
  <2> SUFFICES ASSUME NEW c \in Calls, procs'[c].op = "invalidate", NEW x \in procs'[c].owed, store'[x] # "none"
               PROVE  x \in procs'[c].todo \/ (procs'[c].pc = "reread" /\ procs'[c].key = x)
    BY DEF OwedInv, Owes
  <2>1. c \in Procs
    BY DEF Procs
  <2>2. /\ procs[c].op = "invalidate" /\ x \in procs[c].owed /\ x \in Keys
        /\ procs'[c].todo = procs[c].todo /\ procs'[c].pc = procs[c].pc /\ procs'[c].key = procs[c].key
    BY <1>4, <2>1 DEF IInv, ProcsInv, ProcRecords
  <2> QED BY <1>5, <2>2 DEF IInv, OwedInv, Owes
<1>11. LruInv'
  <2>1. \A x \in Procs : Tagging(procs[x]) => Tagging(procs'[x]) /\ procs'[x].key = procs[x].key
    BY <1>4 DEF Tagging
  <2> QED BY <1>5, <1>6, <2>1, LruKept DEF MapsOK, Shrinks
<1> QED BY <1>6, <1>7, <1>8, <1>9, <1>10, <1>11 DEF IInv

-----------------------------------------------------------------------------
(* The theorems.                                                              *)

LEMMA InitIInv ==
    Init => IInv
<1> SUFFICES ASSUME Init PROVE IInv
  OBVIOUS
<1>1. Idle \in ProcRecords /\ Idle.pc = "idle" /\ Idle.op = None /\ Idle.on = None
  BY IdleTyped DEF Idle
<1>2. \A p \in Procs : procs[p] = Idle
  BY DEF Init
<1>3. None # "invalidate" /\ None # "compute" /\ Calls \subseteq Procs /\ Flights \subseteq Procs
  BY CacheAssumption DEF CallOps, Procs
<1>4. MapsOK
  BY CacheAssumption, EmptySeq DEF Init, MapsOK
<1>5. ProcsInv
  BY <1>1, <1>2, <1>3 DEF Init, ProcsInv, Good, FlightPcs
<1>6. queue = <<>> /\ Len(queue) = 0 /\ QueueInv
  BY EmptySeq DEF Init, QueueInv
<1>7. FlightInv
  BY <1>1, <1>2, <1>3 DEF Init, FlightInv
<1>8. IndexInv
  BY DEF Init, IndexInv
<1>9. OwedInv
  BY <1>1, <1>2, <1>3 DEF OwedInv
<1>10. LruInv
  <2>1. Counted = {}
    BY DEF Init, Counted
  <2> QED BY <2>1, FS_EmptySet, CacheAssumption DEF LruInv
<1> QED BY <1>4, <1>5, <1>6, <1>7, <1>8, <1>9, <1>10 DEF IInv

LEMMA MicrotaskStep ==
    ASSUME IInv, Microtask
    PROVE  IInv'
<1> DEFINE p == Head(queue)
<1>1. queue # <<>> /\ Resume(p) /\ UNCHANGED <<swrDisabled, called>>
  BY DEF Microtask
<1> HIDE DEF p
<1>2. p = Head(queue)
  BY DEF p
<1>3. CASE Got(p)
  BY <1>1, <1>2, <1>3, GotStep
<1>4. CASE Hit(p)
  BY <1>1, <1>2, <1>4, HitStep
<1>5. CASE Raw(p)
  BY <1>1, <1>2, <1>5, RawStep
<1>6. CASE Missed(p)
  BY <1>1, <1>2, <1>6, MissedStep
<1>7. CASE Found(p)
  BY <1>1, <1>2, <1>7, FoundStep
<1>8. CASE Untag(p)
  BY <1>1, <1>2, <1>8, UntagStep
<1>9. CASE Listed(p)
  BY <1>1, <1>2, <1>9, ListedStep
<1>10. CASE Reread(p)
  BY <1>1, <1>2, <1>10, RereadStep
<1>11. CASE Computed(p)
  BY <1>1, <1>2, <1>11, ComputedStep
<1>12. CASE TagKey(p)
  BY <1>1, <1>2, <1>12, TagKeyStep
<1>13. CASE StoredIt(p)
  BY <1>1, <1>2, <1>13, StoredItStep
<1>14. CASE Failed(p)
  BY <1>1, <1>2, <1>14, FailedStep
<1>15. CASE Leaving(p)
  BY <1>1, <1>2, <1>15, LeavingStep
<1> QED BY <1>1, <1>3, <1>4, <1>5, <1>6, <1>7, <1>8, <1>9, <1>10, <1>11, <1>12, <1>13, <1>14, <1>15 DEF Resume

LEMMA NextIInv ==
    ASSUME IInv, [Next]_vars
    PROVE  IInv'
<1>1. CASE CallStarts
  BY <1>1, CallStartsStep
<1>2. CASE Microtask
  BY <1>2, MicrotaskStep
<1>3. ASSUME NEW p \in Procs, ComputeSettles(p)
      PROVE  IInv'
  BY <1>3, ComputeEndsStep
<1>4. ASSUME NEW k \in Keys, Age(k), UNCHANGED <<swrDisabled, called>>
      PROVE  IInv'
  BY <1>4, AgeStep
<1>5. CASE UNCHANGED vars
  <2>1. UNCHANGED <<store, index, inflight, lru, direct, procs, queue, swrDisabled, called>>
    BY <1>5 DEF vars
  <2>2. MapsOK' /\ FlightInv' /\ QueueInv'
    BY <2>1 DEF IInv, MapsOK, FlightInv, QueueInv, Asleep
  <2>3. ProcsInv'
    BY <2>1 DEF IInv, ProcsInv, Good, Suffix, TagSet, ProcRecords
  <2>4. IndexInv'
    BY <2>1 DEF IInv, IndexInv, Turn, TagSet
  <2>5. OwedInv' /\ LruInv'
    BY <2>1 DEF IInv, OwedInv, Owes, LruInv, Counted, Tagging
  <2> QED BY <2>2, <2>3, <2>4, <2>5 DEF IInv
<1> QED BY <1>1, <1>2, <1>3, <1>4, <1>5 DEF Next

(* The strengthening of the invariants below holds throughout.                *)
THEOREM SpecIInv == Spec => []IInv
<1>1. IInv /\ [Next]_vars => IInv'
  BY NextIInv
<1> QED BY InitIInv, <1>1, PTL DEF Spec

(* TypeOK, for any keys, tags, callers and bound: the cache's maps and the    *)
(* state of every coroutine have the types they are declared with.            *)
THEOREM SpecTypeOK == Spec => []TypeOK
<1>1. IInv => TypeOK
  BY DEF IInv, MapsOK, ProcsInv, QueueInv, TypeOK
<1> QED BY SpecIInv, <1>1, PTL

(* __CACHE_INFLIGHT__ for any keys and callers: every promise under way is    *)
(* the one its key is registered with, and who joined one is answered by it.  *)
THEOREM SpecSingleFlight == Spec => []SingleFlight
<1>1. IInv => SingleFlight
  BY DEF IInv, FlightInv, SingleFlight
<1> QED BY SpecIInv, <1>1, PTL

(* maxEntries, whatever it is: but for the keys a computeAndSet has stored    *)
(* and not yet counted, and those a plain cacheSet stored, the store holds no *)
(* more entries than the bound.                                               *)
THEOREM SpecStoreBounded == Spec => []StoreBounded
<1>1. Stored \ (direct \cup Uncounted) = Counted
  BY DEF Stored, Uncounted, Counted, Tagging
<1>2. IInv => StoreBounded
  BY <1>1 DEF IInv, LruInv, StoreBounded
<1> QED BY SpecIInv, <1>2, PTL

(* A call of cacheInvalidateTag ends only when nothing is left on its list.   *)
LEMMA InvalidationEnds ==
    ASSUME IInv, Next, NEW c \in Calls, procs[c].op = "invalidate", procs'[c].pc = "idle"
    PROVE  procs[c].todo = {} /\ procs[c].pc # "reread" /\ store' = store
<1>1. /\ c \in Procs /\ c \notin Flights /\ Good(c, procs[c]) /\ procs[c] \in ProcRecords
      /\ procs[c].pc \in {"listed", "untag", "reread"} /\ procs[c].on = None /\ None \notin Flights
      /\ procs \in [Procs -> ProcRecords]
  BY CacheAssumption DEF IInv, ProcsInv, Good, Procs
<1>2. ASSUME NEW k, NEW x \in Procs, NEW rec, x # c, procs' = Stores([procs EXCEPT ![x] = rec], k)
      PROVE  FALSE
  BY <1>1, <1>2 DEF Stores, ProcRecords
<1>3. ASSUME NEW x \in Procs, NEW rec, x # c \/ rec.pc # "idle", procs' = [procs EXCEPT ![x] = rec]
      PROVE  FALSE
  BY <1>1, <1>3
<1>4. ~CallStarts
  <2>1. ASSUME NEW x \in Calls, NEW rec, Enter(x, rec)
        PROVE  FALSE
    BY <1>1, <1>3, <2>1 DEF Enter, Procs
  <2>2. ASSUME NEW x \in Calls, NEW k \in Keys, CacheSet(x, k)
        PROVE  FALSE
    BY <1>1, <1>2, <2>2 DEF CacheSet, Procs
  <2>3. ~CacheClear
    BY <1>1 DEF CacheClear
  <2> QED BY <2>1, <2>2, <2>3 DEF CallStarts, CacheGet, GetOrCompute, GetOrComputeSingleFlight, CacheDel, CacheInvalidateTag
<1>5. \A p \in Procs : ~ComputeSettles(p)
  <2> SUFFICES ASSUME NEW p \in Procs, ComputeSettles(p)
               PROVE  FALSE
    OBVIOUS
  <2>1. PICK pc : procs' = [procs EXCEPT ![p] = [procs[p] EXCEPT !.pc = pc]]
    BY <1>1 DEF ComputeSettles, ComputeEnds
  <2>2. p # c
    BY <1>1 DEF ComputeSettles, ComputeEnds
  <2> QED BY <1>3, <2>1, <2>2
<1>6. \A k \in Keys : ~Age(k)
  <2> SUFFICES ASSUME NEW k \in Keys, Age(k)
               PROVE  FALSE
    OBVIOUS
  <2>1. procs'[c] = procs[c] \/ procs'[c] = [procs[c] EXCEPT !.held = Older[@]]
    BY <1>1 DEF Age
  <2>2. procs'[c].pc = procs[c].pc
    BY <1>1, <2>1 DEF ProcRecords
  <2> QED BY <1>1, <2>2
<1>7. PICK p : p = Head(queue) /\ queue # <<>> /\ Resume(p)
  BY <1>4, <1>5, <1>6 DEF Next, Microtask
<1>8. p \in Procs
  BY <1>7, HeadFacts
<1>9. CASE p = c
  <2>0. \A rec : Await(c, rec) => rec.pc = "idle"
    BY <1>1, <1>3 DEF Await
  <2>1. Untag(c) \/ Listed(c) \/ Reread(c)
    <3>1. ~Got(c) /\ ~Hit(c) /\ ~Raw(c) /\ ~Missed(c) /\ ~Found(c)
      BY <1>1 DEF Got, Hit, Raw, Missed, Found
    <3>2. ~Computed(c) /\ ~TagKey(c) /\ ~StoredIt(c) /\ ~Failed(c) /\ ~Leaving(c)
      BY <1>1 DEF Computed, TagKey, StoredIt, Failed, Leaving
    <3>3. Resume(c)
      BY <1>7, <1>9
    <3> QED BY <3>1, <3>2, <3>3 DEF Resume
  <2>2. ~Reread(c)
    <3>1. \A tags, k : [procs[c] EXCEPT !.pc = "untag", !.key = k, !.tags = tags, !.held = "none"].pc = "untag"
      BY <1>1 DEF ProcRecords
    <3> QED BY <2>0, <3>1 DEF Reread, Delete
  <2>3. ASSUME Untag(c), procs[c].tags # <<>>
        PROVE  FALSE
    <3>1. procs[c].pc = "untag" /\ Await(c, [procs[c] EXCEPT !.tags = Tail(procs[c].tags)])
      BY <2>3 DEF Untag
    <3>2. [procs[c] EXCEPT !.tags = Tail(procs[c].tags)].pc = "untag"
      BY <1>1, <3>1 DEF ProcRecords
    <3> QED BY <2>0, <3>1, <3>2
  <2>4. Deleted(c) /\ store' = store /\ procs[c].pc # "reread"
    BY <2>1, <2>2, <2>3 DEF Untag, Listed
  <2>5. CASE procs[c].todo # {}
    <3>1. PICK k \in procs[c].todo :
            Await(c, [procs[c] EXCEPT !.pc = "reread", !.key = k, !.todo = @ \ {k}, !.held = store[k]])
      BY <2>4, <2>5 DEF Deleted
    <3>2. [procs[c] EXCEPT !.pc = "reread", !.key = k, !.todo = @ \ {k}, !.held = store[k]].pc = "reread"
      BY <1>1 DEF ProcRecords
    <3> QED BY <2>0, <3>1, <3>2
  <2> QED BY <2>4, <2>5
<1>10. CASE p # c
  <2>1. \A rec : ~Await(p, rec) /\ ~Suspend(p, rec)
    BY <1>3, <1>8, <1>10 DEF Await, Suspend
  <2>2. ~Finish(p) /\ ~Compute(p)
    BY <2>1 DEF Finish, Compute
  <2>3. ASSUME NEW f \in Flights, NEW frec, NEW prec, procs' = [procs EXCEPT ![f] = frec, ![p] = prec]
        PROVE  FALSE
    <3>1. f # c
      BY <1>1
    <3>2. procs'[c] = procs[c]
      BY <1>1, <1>10, <2>3, <3>1
    <3> QED BY <1>1, <3>2
  <2>4. ~ServeStale(p) /\ ~Missed(p)
    <3>1. ASSUME ServeStale(p)
          PROVE  FALSE
      <4>1. \E f \in Flights : procs' = [procs EXCEPT ![f] = Computing(procs[p].key), ![p] = Idle]
        BY <2>2, <3>1 DEF ServeStale
      <4> QED BY <2>3, <4>1
    <3>2. ASSUME Missed(p)
          PROVE  FALSE
      <4>1. \E f \in Flights :
              procs' = [procs EXCEPT
                ![f] = [Call(f, "compute", procs[p].key) EXCEPT !.pc = "found", !.swr = procs[p].swr],
                ![p] = [Idle EXCEPT !.pc = "joined", !.on = f]]
        BY <2>1, <3>2 DEF Missed
      <4> QED BY <2>3, <4>1
    <3> QED BY <3>1, <3>2
  <2>5. ~Deleted(p)
    BY <2>1, <2>2 DEF Deleted
  <2>6. ~Got(p) /\ ~Hit(p) /\ ~Raw(p) /\ ~Found(p)
    BY <2>1, <2>2, <2>4 DEF Got, Hit, Raw, Found, TouchAndFinish, Delete, ReadEntry
  <2>7. ~Untag(p) /\ ~Listed(p) /\ ~Reread(p) /\ ~TagKey(p) /\ ~StoredIt(p) /\ ~Failed(p)
    BY <2>1, <2>2, <2>5 DEF Untag, Listed, Reread, Delete, TagKey, StoredIt, Failed
  <2>8. ~Computed(p)
    <3>1. [procs EXCEPT ![p].pc = "tag", ![p].tags = TagsOf[procs[p].key]] =
            [procs EXCEPT ![p] = [procs[p] EXCEPT !.pc = "tag", !.tags = TagsOf[procs[p].key]]]
      BY <1>1, <1>8 DEF ProcRecords
    <3>2. Computed(p) => procs' = Stores([procs EXCEPT ![p] = [procs[p] EXCEPT !.pc = "tag", !.tags = TagsOf[procs[p].key]]], procs[p].key)
      BY <3>1 DEF Computed
    <3> QED BY <1>2, <1>8, <1>10, <3>2
  <2>9. ~Leaving(p)
    <3>1. procs[p].pc = "leaving" => p \in Flights
      BY <1>8 DEF IInv, ProcsInv, Good
    <3> QED BY <1>1, <1>10, <3>1 DEF Leaving
  <2> QED BY <1>7, <2>4, <2>6, <2>7, <2>8, <2>9 DEF Resume
<1> QED BY <1>9, <1>10

(* cacheInvalidateTag, for any keys, tags and callers: when it ends, no entry *)
(* of its tag is left whose set had ended when it began, but for those set    *)
(* anew meanwhile.                                                            *)
THEOREM SpecInvalidationHolds == Spec => InvalidationHolds
<1>1. ASSUME IInv, Next, NEW c \in Calls, procs[c].op = "invalidate", procs'[c].pc = "idle", NEW k \in procs[c].owed
      PROVE  store'[k] = "none"
  <2>1. procs[c].todo = {} /\ procs[c].pc # "reread" /\ store' = store
    BY <1>1, InvalidationEnds
  <2> QED BY <1>1, <2>1 DEF IInv, OwedInv, Owes
<1>2. IInv /\ [Next]_vars =>
        [\A c \in Calls : procs[c].op = "invalidate" /\ procs'[c].pc = "idle"
                            => \A k \in procs[c].owed : store'[k] = "none"]_vars
  BY <1>1
<1> QED BY SpecIInv, <1>2, PTL DEF Spec, InvalidationHolds
=============================================================================
