--------------------------- MODULE ExporterProofs ----------------------------
(* The invariants of Exporter and that it implements ExportChannel, for any   *)
(* sizes of queue, batch, envelope and events.                                *)
(*                                                                            *)
(* An entry point may record events and then flush, so what is proved of a    *)
(* flush is about the queue q and the counters m it begins with, after r      *)
(* events (Entered), which are not those of the state.                        *)
EXTENDS Exporter, FiniteSetTheorems, SequenceTheorems, WellFoundedInduction, TLAPS

Counters == [{"enqueued", "dropped", "sent", "trimmed"} -> Nat]

(* A run of consecutive events.                                               *)
Interval(lo, n) == [i \in 1..n |-> lo + i]

LEMMA IntervalSet ==
  ASSUME NEW lo \in Nat, NEW n \in Nat
  PROVE  /\ Interval(lo, n) \in Seq(Nat) /\ Len(Interval(lo, n)) = n
         /\ ToSet(Interval(lo, n)) = (lo + 1)..(lo + n)
         /\ IsFiniteSet(ToSet(Interval(lo, n)))
         /\ Cardinality(ToSet(Interval(lo, n))) = n
<1>1. /\ Interval(lo, n) \in Seq(Nat) /\ Len(Interval(lo, n)) = n
      /\ DOMAIN Interval(lo, n) = 1..n
  BY DEF Interval
<1>2. ToSet(Interval(lo, n)) = (lo + 1)..(lo + n)
  <2>1. \A e \in (lo + 1)..(lo + n) : e - lo \in 1..n /\ Interval(lo, n)[e - lo] = e
    BY DEF Interval
  <2>2. \A i \in 1..n : Interval(lo, n)[i] \in (lo + 1)..(lo + n)
    BY DEF Interval
  <2> QED BY <1>1, <2>1, <2>2 DEF ToSet
<1>3. IsFiniteSet((lo + 1)..(lo + n)) /\ Cardinality((lo + 1)..(lo + n)) = n
  BY FS_Interval
<1> QED BY <1>1, <1>2, <1>3

LEMMA LeastExists ==
  ASSUME NEW S \in SUBSET Nat, S # {}
  PROVE  \E i \in S : \A j \in S : i <= j
<1> DEFINE R == {ss \in Nat \X Nat : ss[1] < ss[2]}
<1>1. IsWellFoundedOn(R, Nat)
  BY NatLessThanWellFounded DEF OpToRel
<1>2. PICK i \in S : \A j \in S : ~(<<j, i>> \in R)
  <2> HIDE DEF R
  <2> QED BY <1>1, WFMin
<1>3. \A j \in S : ~(j < i)
  BY <1>2
<1> QED BY <1>3

(* Trimming takes events off the front, and leaves one at least.              *)
LEMMA TrimmedInterval ==
  ASSUME NEW lo \in Nat, NEW n \in Nat \ {0}
  PROVE  \E a \in Nat, l \in Nat \ {0} :
           a >= lo /\ a + l = lo + n /\ Trimmed(Interval(lo, n)) = Interval(a, l)
<1> DEFINE b == Interval(lo, n)
           S == {k \in 1..n : k = n \/ Fits(SubSeq(b, k, n))}
<1>1. S \in SUBSET Nat /\ n \in S
  OBVIOUS
<1>2. Len(b) = n
  BY IntervalSet
<1>3. Min(S) \in S
  <2> HIDE DEF S
  <2>1. \E i \in S : \A j \in S : i <= j
    BY <1>1, LeastExists
  <2> QED BY <2>1 DEF Min
<1>4. Min(S) \in 1..n
  BY <1>3
<1>5. Trimmed(b) = SubSeq(b, Min(S), n)
  <2> HIDE DEF b
  <2>1. Trimmed(b) =
          SubSeq(b, Min({k \in 1..Len(b) : k = Len(b) \/ Fits(SubSeq(b, k, Len(b)))}), Len(b))
    BY DEF Trimmed
  <2> QED BY <1>2, <2>1
<1>6. PICK j \in 1..n : j = Min(S)
  BY <1>4
<1>7. PICK a \in Nat, l \in Nat \ {0} : a = lo + j - 1 /\ l = n - j + 1
  <2>1. lo + j - 1 \in Nat /\ n - j + 1 \in Nat \ {0}
    BY <1>6
  <2> QED BY <2>1
<1>8. SubSeq(b, j, n) = Interval(a, l)
  <2>1. j \in Nat \ {0} /\ j <= n + 1 /\ n \in Nat /\ n <= n /\ l \in Nat
    OBVIOUS
  <2> QED BY <1>7, <2>1 DEF Interval
<1>9. a >= lo /\ a + l = lo + n
  BY <1>7
<1> HIDE DEF S
<1> QED BY <1>5, <1>6, <1>8, <1>9

-----------------------------------------------------------------------------
(* The queue and the counters an entry point flushes.                         *)

Failed == failed["retryable"] \cup failed["refused"]
Balanced(m, q) ==
  m["enqueued"] = m["sent"] + m["trimmed"] + Len(q) + Cardinality(InFlight) + Cardinality(Failed)

(* q holds the newest of r events, m counts them, and what has left the queue *)
(* of the state is older than q.                                              *)
Entered(q, m, r) ==
  /\ q \in Seq(Events) /\ Len(q) <= MaxSize
  /\ r \in recorded..MaxEvents /\ Len(q) <= r
  /\ q = Interval(r - Len(q), Len(q))
  /\ recorded - Len(queue) <= r - Len(q)
  /\ m \in Counters /\ Balanced(m, q)
  /\ Cardinality(InFlight) \in Nat /\ Cardinality(Failed) \in Nat

LEMMA AddOne ==
  ASSUME NEW a \in Nat, NEW b \in Nat, NEW c \in Nat, NEW d \in Nat, NEW e \in Nat, NEW f \in Nat,
         a = b + c + d + e + f
  PROVE  a + 1 = b + c + (d + 1) + e + f
OBVIOUS

LEMMA EnteredNext ==
  ASSUME NEW q, NEW m, NEW r, Entered(q, m, r), r < MaxEvents,
         recorded \in Nat, Len(queue) \in Nat
  PROVE  Entered(Enqueued(q, r + 1), Counted(m, q), r + 1)
<1>1. /\ q \in Seq(Events) /\ Len(q) \in Nat /\ r \in Nat /\ MaxEvents \in Nat /\ MaxSize \in Nat \ {0}
      /\ m \in Counters /\ q = Interval(r - Len(q), Len(q)) /\ Len(q) <= r
      /\ recorded - Len(queue) <= r - Len(q) /\ r + 1 \in recorded..MaxEvents
      /\ Len(q) <= MaxSize /\ r + 1 \in Events
  BY ExporterAssumption DEF Entered, Events
<1>2. \A i \in 1..Len(q) : q[i] = r - Len(q) + i
  BY <1>1 DEF Interval
<1>5. /\ m["enqueued"] \in Nat /\ m["sent"] \in Nat /\ m["trimmed"] \in Nat
      /\ Cardinality(InFlight) \in Nat /\ Cardinality(Failed) \in Nat /\ Balanced(m, q)
  BY DEF Entered, Counters
<1>6. /\ Len(q) \in Nat /\ r \in Nat /\ Len(q) <= r /\ Len(q) <= MaxSize /\ MaxSize \in Nat \ {0}
      /\ recorded - Len(queue) <= r - Len(q) /\ r + 1 \in recorded..MaxEvents
  BY <1>1
<1>7. ASSUME NEW Q \in Seq(Events), NEW M \in Counters, Balanced(M, Q), Len(Q) \in Nat,
             (Len(Q) = Len(q) + 1 /\ Len(q) < MaxSize) \/ Len(Q) = Len(q),
             Q = Interval(r + 1 - Len(Q), Len(Q))
      PROVE  Entered(Q, M, r + 1)
  <2>1. Len(Q) <= MaxSize /\ Len(Q) <= r + 1 /\ recorded - Len(queue) <= r + 1 - Len(Q)
    BY <1>6, <1>7
  <2> QED BY <1>5, <1>6, <1>7, <2>1 DEF Entered
<1>3. CASE Len(q) < MaxSize
  <2>1. Enqueued(q, r + 1) = Append(q, r + 1) /\ Counted(m, q) = [m EXCEPT !["enqueued"] = @ + 1]
    BY <1>3 DEF Enqueued, Counted
  <2>2. Append(q, r + 1) \in Seq(Events) /\ Len(Append(q, r + 1)) = Len(q) + 1
    BY <1>1
  <2>3. Append(q, r + 1) = Interval(r + 1 - (Len(q) + 1), Len(q) + 1)
    <3>1. \A i \in 1..Len(q) + 1 : Append(q, r + 1)[i] = r - Len(q) + i
      <4>1. \A i \in 1..Len(q) : Append(q, r + 1)[i] = q[i]
        BY <1>1
      <4>2. Append(q, r + 1)[Len(q) + 1] = r + 1
        BY <1>1
      <4>3. \A i \in 1..Len(q) + 1 : i \in 1..Len(q) \/ i = Len(q) + 1
        BY <1>1
      <4>4. r - Len(q) + (Len(q) + 1) = r + 1
        BY <1>1
      <4> QED BY <1>2, <4>1, <4>2, <4>3, <4>4
    <3>2. Append(q, r + 1) = [i \in 1..Len(q) + 1 |-> Append(q, r + 1)[i]]
      BY <1>1
    <3>3. r + 1 - (Len(q) + 1) = r - Len(q)
      BY <1>1
    <3> QED BY <3>1, <3>2, <3>3 DEF Interval
  <2>4. Counted(m, q) \in Counters /\ Balanced(Counted(m, q), Append(q, r + 1))
    <3>1. [m EXCEPT !["enqueued"] = @ + 1] \in Counters
      BY <1>1 DEF Counters
    <3> DEFINE c == [m EXCEPT !["enqueued"] = @ + 1]
    <3>2. c["enqueued"] = m["enqueued"] + 1 /\ c["sent"] = m["sent"] /\ c["trimmed"] = m["trimmed"]
      BY <1>1 DEF Counters
    <3> HIDE DEF c
    <3>3. Balanced(c, Append(q, r + 1))
      <4>1. Len(q) \in Nat
        BY <1>1
      <4>2. m["enqueued"] = m["sent"] + m["trimmed"] + Len(q) + Cardinality(InFlight) + Cardinality(Failed)
        BY <1>5 DEF Balanced
      <4>3. m["enqueued"] + 1
              = m["sent"] + m["trimmed"] + (Len(q) + 1) + Cardinality(InFlight) + Cardinality(Failed)
        BY <1>5, <4>1, <4>2
      <4> QED BY <2>2, <3>2, <4>3 DEF Balanced
    <3> QED BY <2>1, <3>1, <3>3 DEF c
  <2> DEFINE Q == Append(q, r + 1)
             M == Counted(m, q)
  <2>5. /\ Q \in Seq(Events) /\ Len(Q) = Len(q) + 1 /\ Len(Q) \in Nat
        /\ M \in Counters /\ Balanced(M, Q) /\ Q = Interval(r + 1 - (Len(q) + 1), Len(q) + 1)
    BY <1>6, <2>2, <2>3, <2>4
  <2> HIDE DEF Q, M
  <2>6. Entered(Q, M, r + 1)
    BY <1>3, <1>7, <2>5
  <2> QED BY <2>1, <2>6 DEF Q, M
<1>4. CASE ~(Len(q) < MaxSize)
  <2>1. Enqueued(q, r + 1) = Append(Tail(q), r + 1) /\ Counted(m, q) = [m EXCEPT !["dropped"] = @ + 1]
    BY <1>4 DEF Enqueued, Counted
  <2>2. Len(q) \in Nat \ {0} /\ Tail(q) \in Seq(Events) /\ Len(Tail(q)) = Len(q) - 1
    BY <1>1, <1>4
  <2>6. Len(q) \in Nat \ {0}
    BY <2>2
  <2>3. Append(Tail(q), r + 1) \in Seq(Events) /\ Len(Append(Tail(q), r + 1)) = Len(q)
    BY <1>1, <2>2
  <2>4. Append(Tail(q), r + 1) = Interval(r + 1 - Len(q), Len(q))
    <3>1. \A i \in 1..Len(q) - 1 : Tail(q)[i] = q[i + 1]
      BY <1>1, <2>2
    <3>2. \A i \in 1..Len(q) : Append(Tail(q), r + 1)[i] = r + 1 - Len(q) + i
      <4>1. \A i \in 1..Len(q) - 1 : Append(Tail(q), r + 1)[i] = Tail(q)[i]
        BY <2>2
      <4>2. Append(Tail(q), r + 1)[Len(q)] = r + 1
        BY <2>2
      <4>3. \A i \in 1..Len(q) - 1 : Tail(q)[i] = r + 1 - Len(q) + i
        <5>1. \A i \in 1..Len(q) - 1 : i + 1 \in 1..Len(q) /\ r - Len(q) + (i + 1) = r + 1 - Len(q) + i
          BY <1>1, <2>2
        <5> QED BY <1>2, <3>1, <5>1
      <4>4. \A i \in 1..Len(q) : i \in 1..Len(q) - 1 \/ i = Len(q)
        BY <2>6
      <4>5. r + 1 - Len(q) + Len(q) = r + 1
        BY <1>1
      <4> QED BY <4>1, <4>2, <4>3, <4>4, <4>5
    <3>3. Append(Tail(q), r + 1) = [i \in 1..Len(q) |-> Append(Tail(q), r + 1)[i]]
      <4> DEFINE Q == Append(Tail(q), r + 1)
      <4>1. Q \in Seq(Events) /\ Len(Q) = Len(q)
        BY <2>3
      <4> HIDE DEF Q
      <4>2. Q = [i \in 1..Len(Q) |-> Q[i]]
        BY <4>1
      <4> QED BY <4>1, <4>2 DEF Q
    <3> QED BY <3>2, <3>3 DEF Interval
  <2>5. Counted(m, q) \in Counters /\ Balanced(Counted(m, q), Append(Tail(q), r + 1))
    <3>1. [m EXCEPT !["dropped"] = @ + 1] \in Counters
      BY <1>1 DEF Counters
    <3> DEFINE c == [m EXCEPT !["dropped"] = @ + 1]
    <3>2. c["enqueued"] = m["enqueued"] /\ c["sent"] = m["sent"] /\ c["trimmed"] = m["trimmed"]
      BY <1>1 DEF Counters
    <3> HIDE DEF c
    <3>3. Balanced(c, Append(Tail(q), r + 1))
      BY <1>5, <2>3, <3>2 DEF Balanced
    <3> QED BY <2>1, <3>1, <3>3 DEF c
  <2> QED BY <1>1, <1>7, <2>1, <2>3, <2>4, <2>5
<1> QED BY <1>3, <1>4

(* A flush keeps the newest of the queue; what it takes off is lost but for   *)
(* batch, which holds each of its events once.                                *)
IsBatch(batch, q, r) ==
  /\ batch \in Seq(Events) /\ batch # <<>>
  /\ ToSet(batch) \subseteq (r - Len(q) + 1)..(r - Len(queue'))
  /\ IsFiniteSet(ToSet(batch)) /\ Cardinality(ToSet(batch)) = Len(batch)
  /\ Len(batch) <= Len(q) - Len(queue')
  /\ flights' = flights \cup {[batch |-> batch, taken |-> FALSE]}

LEMMA FlushEffect ==
  ASSUME NEW q, NEW m, NEW r, Entered(q, m, r), Flush(q, m), recorded \in Nat
  PROVE  /\ queue' \in Seq(Events) /\ Len(queue') <= Len(q)
         /\ queue' = Interval(r - Len(queue'), Len(queue'))
         /\ \/ UNCHANGED flights /\ queue' = q /\ metrics' = m
            \/ \E batch : /\ IsBatch(batch, q, r)
                           /\ metrics' = [m EXCEPT !["trimmed"] = @ + (Len(q) - Len(queue') - Len(batch))]
<1>1. /\ q \in Seq(Events) /\ Len(q) \in Nat /\ r \in Nat /\ r <= MaxEvents /\ Len(q) <= r
      /\ q = Interval(r - Len(q), Len(q)) /\ MaxItems \in Nat \ {0} /\ MaxEvents \in Nat
  BY ExporterAssumption DEF Entered
<1>2. CASE q = <<>>
  BY <1>1, <1>2 DEF Flush
<1>3. CASE q # <<>>
  <2> DEFINE n == Min({MaxItems, Len(q)})
             lo == r - Len(q)
             batch == Trimmed(SubSeq(q, 1, n))
  <2>1. Len(q) \in Nat \ {0} /\ lo \in Nat
    BY <1>1, <1>3, EmptySeq
  <2>2. n \in 1..Len(q)
    <3>1. n = MaxItems \/ n = Len(q)
      BY <1>1 DEF Min
    <3>2. n <= Len(q)
      BY <1>1 DEF Min
    <3> QED BY <1>1, <2>1, <3>1, <3>2
  <2>3. /\ queue' = SubSeq(q, n + 1, Len(q))
        /\ flights' = flights \cup {[batch |-> batch, taken |-> FALSE]}
        /\ metrics' = [m EXCEPT !["trimmed"] = @ + (n - Len(batch))]
    BY <1>3 DEF Flush
  <2> HIDE DEF n
  <2>4. SubSeq(q, 1, n) = Interval(lo, n) /\ queue' = Interval(lo + n, Len(q) - n)
    <3>1. PICK l \in Nat, k \in Nat : l = Len(q) /\ k = l - n
      BY <2>1, <2>2
    <3>2. /\ n \in Nat \ {0} /\ n + 1 \in Nat \ {0} /\ 1 \in Nat \ {0} /\ lo \in Nat /\ lo + n \in Nat
          /\ n <= l /\ 1 <= n + 1 /\ l <= l /\ n + 1 <= l + 1 /\ n \in Nat
          /\ lo = lo + 1 - 1 /\ n = n - 1 + 1 /\ lo + n = lo + (n + 1) - 1 /\ k = l - (n + 1) + 1
      BY <2>1, <2>2, <3>1
    <3> HIDE DEF lo
    <3>3. SubSeq(Interval(lo, l), 1, n) = Interval(lo, n)
      BY <3>2 DEF Interval
    <3>4. SubSeq(Interval(lo, l), n + 1, l) = Interval(lo + n, k)
      BY <3>2 DEF Interval
    <3>5. q = Interval(lo, l)
      BY <1>1, <3>1 DEF lo
    <3> QED BY <2>3, <3>1, <3>3, <3>4, <3>5
  <2>5. /\ Len(queue') = Len(q) - n /\ r - Len(queue') = lo + n
        /\ queue' \in Seq(Events) /\ Len(queue') <= Len(q)
    <3>1. Len(queue') = Len(q) - n
      <4>1. lo + n \in Nat /\ Len(q) - n \in Nat
        BY <2>1, <2>2
      <4>2. Len(Interval(lo + n, Len(q) - n)) = Len(q) - n
        BY <4>1, IntervalSet
      <4> QED BY <2>4, <4>2
    <3>2. queue' \in Seq(Events)
      BY <1>1, <2>2, <2>3
    <3> QED BY <1>1, <2>1, <2>2, <3>1, <3>2
  <2>6. PICK a \in Nat, l \in Nat \ {0} :
          a >= lo /\ a + l = lo + n /\ batch = Interval(a, l)
    <3>1. n \in Nat \ {0}
      BY <2>1, <2>2
    <3>2. batch = Trimmed(Interval(lo, n))
      BY <2>4
    <3> HIDE DEF lo, batch
    <3>3. \E a \in Nat, l \in Nat \ {0} :
            a >= lo /\ a + l = lo + n /\ Trimmed(Interval(lo, n)) = Interval(a, l)
      BY <2>1, <3>1, TrimmedInterval
    <3> QED BY <3>2, <3>3
  <2> HIDE DEF batch
  <2>8. /\ Len(batch) = l /\ ToSet(batch) = (a + 1)..(a + l)
        /\ IsFiniteSet(ToSet(batch)) /\ Cardinality(ToSet(batch)) = Len(batch)
    BY <2>6, IntervalSet
  <2>9. batch \in Seq(Events) /\ batch # <<>>
    <3>1. \A i \in 1..l : a + i \in Events
      BY <1>1, <2>1, <2>2, <2>6 DEF Events
    <3>2. batch \in Seq(Events)
      BY <2>6, <3>1 DEF Interval
    <3> QED BY <2>6, <2>8, <3>2, EmptySeq
  <2>10. IsBatch(batch, q, r)
    <3>1. (a + 1)..(a + l) \subseteq (r - Len(q) + 1)..(r - Len(queue'))
      BY <1>1, <2>1, <2>2, <2>5, <2>6
    <3>2. l <= Len(q) - Len(queue')
      BY <1>1, <2>1, <2>2, <2>5, <2>6
    <3> QED BY <2>3, <2>8, <2>9, <3>1, <3>2 DEF IsBatch
  <2>11. n - Len(batch) = Len(q) - Len(queue') - Len(batch)
    BY <2>1, <2>2, <2>5
  <2> QED BY <2>3, <2>4, <2>5, <2>10, <2>11
<1> QED BY <1>2, <1>3

-----------------------------------------------------------------------------
(* The inductive invariant.  Everything that has left the queue is older than *)
(* all that waits (at most Left), and no event is in two posts, or in a post  *)
(* and among the failed, or in a post not yet taken and among the accepted.   *)

Left == recorded - Len(queue)
Batches == [batch : Seq(Events), taken : BOOLEAN]

FlightOK(p, left, acc) ==
  /\ p \in Batches /\ p.batch # <<>>
  /\ ToSet(p.batch) \subseteq 1..left
  /\ IsFiniteSet(ToSet(p.batch)) /\ Cardinality(ToSet(p.batch)) = Len(p.batch)
  /\ ~p.taken => ToSet(p.batch) \cap acc = {}

FlightsApart ==
  \A p, o \in flights : p = o \/ ToSet(p.batch) \cap ToSet(o.batch) = {}

IInv ==
  /\ TypeOK /\ QueueKeepsNewest /\ CountersBalance
  /\ Left \in Nat
  /\ \A p \in flights : FlightOK(p, Left, accepted)
  /\ FlightsApart
  /\ Failed \cup accepted \subseteq 1..Left
  /\ Failed \cap InFlight = {}

(* What a step needs to know of the numbers and the finite sets.              *)
LEMMA Facts ==
  ASSUME IInv
  PROVE  /\ MaxEvents \in Nat /\ recorded \in Nat /\ recorded <= MaxEvents
         /\ Len(queue) \in Nat /\ Left \in Nat /\ Left <= recorded
         /\ InFlight \subseteq 1..Left /\ IsFiniteSet(InFlight) /\ Cardinality(InFlight) \in Nat
         /\ IsFiniteSet(Failed) /\ Cardinality(Failed) \in Nat
         /\ queue \in Seq(Events) /\ metrics \in Counters
<1>1. MaxEvents \in Nat /\ recorded \in 0..MaxEvents /\ queue \in Seq(Events) /\ metrics \in Counters
  BY ExporterAssumption DEF IInv, TypeOK, Counters
<1>2. Len(queue) \in Nat /\ Left \in Nat /\ Left <= recorded
  BY <1>1 DEF IInv, Left
<1>3. InFlight \subseteq 1..Left /\ Failed \subseteq 1..Left
  BY DEF IInv, InFlight, FlightOK
<1>4. IsFiniteSet(1..Left)
  BY <1>2, FS_Interval
<1>5. IsFiniteSet(InFlight) /\ IsFiniteSet(Failed)
  BY <1>3, <1>4, FS_Subset
<1>6. Cardinality(InFlight) \in Nat /\ Cardinality(Failed) \in Nat
  BY <1>5, FS_CardinalityType
<1> QED BY <1>1, <1>2, <1>3, <1>5, <1>6

LEMMA QueueSet ==
  ASSUME IInv
  PROVE  queue = Interval(Left, Len(queue)) /\ ToSet(queue) = (Left + 1)..recorded
<1>1. queue = Interval(Left, Len(queue))
  <2>1. queue = [i \in 1..Len(queue) |-> recorded - Len(queue) + i]
    BY DEF IInv, QueueKeepsNewest
  <2> QED BY <2>1 DEF Interval, Left
<1>2. ToSet(queue) = (Left + 1)..(Left + Len(queue))
  <2>1. ToSet(Interval(Left, Len(queue))) = (Left + 1)..(Left + Len(queue))
    BY Facts, IntervalSet
  <2> QED BY <1>1, <2>1
<1>3. Left + Len(queue) = recorded
  BY Facts DEF Left
<1> QED BY <1>1, <1>2, <1>3

LEMMA EnteredAtOnce ==
  ASSUME IInv
  PROVE  Entered(queue, metrics, recorded)
<1>1. queue = Interval(recorded - Len(queue), Len(queue))
  BY QueueSet DEF Left
<1>2. Balanced(metrics, queue)
  BY DEF IInv, CountersBalance, Balanced, Failed
<1>3. Len(queue) <= recorded /\ recorded \in recorded..MaxEvents
  BY Facts DEF Left
<1>4. Len(queue) <= MaxSize
  BY DEF IInv, TypeOK
<1>5. recorded - Len(queue) <= recorded - Len(queue)
  BY Facts
<1> QED BY <1>1, <1>2, <1>3, <1>4, <1>5, Facts DEF Entered

LEMMA InvInit == Init => IInv
<1> SUFFICES ASSUME Init PROVE IInv
  OBVIOUS
<1>1. InFlight = {} /\ Failed = {} /\ Len(queue) = 0 /\ recorded = 0 /\ Left = 0 /\ queue \in Seq(Events)
  <2>1. recorded = 0 /\ Len(queue) = 0 /\ queue \in Seq(Events)
    BY DEF Init
  <2>2. InFlight = {}
    BY DEF Init, InFlight
  <2>3. Failed = {}
    BY DEF Init, Failed
  <2> QED BY <2>1, <2>2, <2>3 DEF Left
<1>2. Cardinality({}) = 0
  BY FS_EmptySet
<1>3. TypeOK
  BY <1>1, ExporterAssumption DEF Init, TypeOK
<1>4. QueueKeepsNewest
  <2>1. queue = [i \in 1..Len(queue) |-> queue[i]]
    BY <1>1
  <2> QED BY <1>1, <2>1 DEF QueueKeepsNewest
<1>5. CountersBalance
  BY <1>1, <1>2 DEF Init, CountersBalance, Failed
<1> QED BY <1>1, <1>3, <1>4, <1>5 DEF Init, IInv, FlightsApart

(* The queue of the next state, and the counts, are the same whichever entry  *)
(* point led to them.                                                         *)
LEMMA NextNewest ==
  ASSUME NEW r \in Nat, queue' \in Seq(Events), Len(queue') <= r, recorded' = r,
         queue' = Interval(r - Len(queue'), Len(queue'))
  PROVE  QueueKeepsNewest' /\ Left' = r - Len(queue') /\ Left' \in Nat
<1>1. Len(queue') \in Nat
  OBVIOUS
<1>2. Left' = r - Len(queue') /\ Left' \in Nat
  BY <1>1 DEF Left
<1>3. QueueKeepsNewest'
  BY DEF QueueKeepsNewest, Interval
<1> QED BY <1>2, <1>3

\* What lies above an interval is apart from it.
LEMMA IntervalsApart ==
  ASSUME NEW low \in Nat, NEW mid \in Nat, NEW high \in Nat, low <= mid,
         NEW S, S \subseteq (mid + 1)..high
  PROVE  S \cap 1..low = {} /\ S \subseteq 1..high
  OBVIOUS

(* What has left the queue is not less.                                       *)
LEMMA OlderStay ==
  ASSUME IInv, Left' \in Nat, Left <= Left', UNCHANGED <<accepted, failed>>
  PROVE  /\ \A p \in flights : FlightOK(p, Left', accepted')
         /\ Failed' \cup accepted' \subseteq 1..Left'
<1>1. 1..Left \subseteq 1..Left'
  BY Facts
<1> QED BY <1>1 DEF IInv, FlightOK, Failed

LEMMA QuietInv ==
  ASSUME IInv, NEW q, NEW m, NEW r, Entered(q, m, r), recorded' = r, queue' = q, metrics' = m,
         armed' \in BOOLEAN, retries' \in Nat, UNCHANGED <<flights, accepted, failed>>
  PROVE  IInv'
<1>1. /\ q \in Seq(Events) /\ Len(q) <= MaxSize /\ Len(q) <= r /\ q = Interval(r - Len(q), Len(q))
      /\ r \in recorded..MaxEvents /\ Left <= r - Len(q) /\ m \in Counters /\ Balanced(m, q)
  BY DEF Entered, Left
<1>2. r \in Nat /\ r \in 0..MaxEvents
  BY <1>1, Facts
<1>3. QueueKeepsNewest' /\ Left' = r - Len(q) /\ Left' \in Nat
  BY <1>1, <1>2, NextNewest
<1>4. TypeOK'
  BY <1>1, <1>2 DEF IInv, TypeOK, Counters
<1>5. InFlight' = InFlight /\ Failed' = Failed
  BY DEF InFlight, Failed
<1>6. CountersBalance'
  BY <1>1, <1>5 DEF CountersBalance, Balanced, Failed
<1>7. /\ \A p \in flights' : FlightOK(p, Left', accepted')
      /\ Failed' \cup accepted' \subseteq 1..Left'
  BY <1>1, <1>3, OlderStay
<1> QED BY <1>3, <1>4, <1>5, <1>6, <1>7 DEF IInv, FlightsApart

LEMMA FlushInv ==
  ASSUME IInv, NEW q, NEW m, NEW r, Entered(q, m, r), recorded' = r, Flush(q, m),
         armed' \in BOOLEAN, retries' \in Nat, UNCHANGED <<accepted, failed>>
  PROVE  /\ IInv' /\ Left' <= recorded'
         /\ Waiting' \subseteq Waiting \cup (recorded + 1)..recorded'
<1>1. /\ q \in Seq(Events) /\ Len(q) <= MaxSize /\ Len(q) <= r /\ q = Interval(r - Len(q), Len(q))
      /\ r \in recorded..MaxEvents /\ Left <= r - Len(q) /\ m \in Counters /\ Balanced(m, q)
      /\ Len(q) \in Nat
  BY DEF Entered, Left
<1>2. r \in Nat /\ r \in 0..MaxEvents /\ r - Len(q) \in Nat /\ recorded <= r
  BY <1>1, Facts
<1>3. /\ queue' \in Seq(Events) /\ Len(queue') <= Len(q) /\ Len(queue') \in Nat
      /\ queue' = Interval(r - Len(queue'), Len(queue'))
  BY FlushEffect, Facts
<1>4. /\ QueueKeepsNewest' /\ Left' = r - Len(queue') /\ Left' \in Nat
      /\ r - Len(q) <= Left' /\ Left <= Left' /\ Left' <= recorded'
  <2>1. Len(queue') <= r
    BY <1>1, <1>2, <1>3
  <2>2. QueueKeepsNewest' /\ Left' = r - Len(queue') /\ Left' \in Nat
    BY <1>2, <1>3, <2>1, NextNewest
  <2> QED BY <1>1, <1>2, <1>3, <2>2, Facts
<1>5. ASSUME UNCHANGED flights, queue' = q, metrics' = m
      PROVE  IInv'
  BY <1>5, QuietInv
<1>6. ASSUME NEW batch, IsBatch(batch, q, r),
             metrics' = [m EXCEPT !["trimmed"] = @ + (Len(q) - Len(queue') - Len(batch))]
      PROVE  IInv'
  <2> DEFINE new == [batch |-> batch, taken |-> FALSE]
  <2>1. /\ batch \in Seq(Events) /\ batch # <<>> /\ Len(batch) \in Nat
        /\ ToSet(batch) \subseteq (r - Len(q) + 1)..Left'
        /\ IsFiniteSet(ToSet(batch)) /\ Cardinality(ToSet(batch)) = Len(batch)
        /\ Len(batch) <= Len(q) - Len(queue') /\ flights' = flights \cup {new}
    BY <1>4, <1>6 DEF IsBatch
  <2>2. ToSet(batch) \cap 1..Left = {} /\ ToSet(batch) \subseteq 1..Left'
    <3>1. /\ Left \in Nat /\ r - Len(q) \in Nat /\ Left' \in Nat /\ Left <= r - Len(q)
          /\ ToSet(batch) \subseteq (r - Len(q) + 1)..Left'
      BY <1>1, <1>2, <1>4, <2>1, Facts
    <3> QED BY ONLY <3>1, IntervalsApart
  <2>3. /\ \A p \in flights : FlightOK(p, Left', accepted')
        /\ Failed' \cup accepted' \subseteq 1..Left'
    BY <1>4, OlderStay
  <2>4. accepted \subseteq 1..Left /\ Failed \subseteq 1..Left
    BY DEF IInv
  <2>5. FlightOK(new, Left', accepted')
    BY <2>1, <2>2, <2>4 DEF FlightOK, Batches
  <2>6. InFlight' = InFlight \cup ToSet(batch) /\ Failed' = Failed
    <3>1. \A p : p \in flights' <=> p \in flights \/ p = new
      BY <2>1
    <3>2. new.batch = batch
      OBVIOUS
    <3> HIDE DEF new
    <3>3. InFlight' = InFlight \cup ToSet(batch)
      BY <3>1, <3>2 DEF InFlight
    <3> QED BY <3>3 DEF Failed
  <2>7. InFlight \cap ToSet(batch) = {} /\ Failed \cap ToSet(batch) = {}
    BY <2>2, <2>4, Facts
  <2>8. FlightsApart'
    <3>1. \A p \in flights : ToSet(p.batch) \subseteq InFlight
      BY DEF InFlight
    <3>2. \A p \in flights : ToSet(p.batch) \cap ToSet(new.batch) = {}
      BY <2>7, <3>1
    <3> HIDE DEF new
    <3> QED BY <2>1, <3>2 DEF IInv, FlightsApart
  <2>9. Cardinality(InFlight') = Cardinality(InFlight) + Len(batch)
    <3>1. Cardinality(InFlight \cup ToSet(batch))
            = Cardinality(InFlight) + Cardinality(ToSet(batch)) - Cardinality(InFlight \cap ToSet(batch))
      BY <2>1, Facts, FS_Union
    <3>2. Cardinality(InFlight \cap ToSet(batch)) = 0
      BY <2>7, FS_EmptySet
    <3> QED BY <2>1, <2>6, <3>1, <3>2, Facts
  <2>10. metrics' \in Counters /\ CountersBalance'
    <3> DEFINE d == Len(q) - Len(queue') - Len(batch)
               c == [m EXCEPT !["trimmed"] = @ + d]
    <3>1. d \in Nat /\ Len(q) = Len(queue') + d + Len(batch)
      BY <1>1, <1>3, <2>1
    <3> HIDE DEF d
    <3>2. /\ c \in Counters /\ c["enqueued"] = m["enqueued"] /\ c["sent"] = m["sent"]
          /\ c["trimmed"] = m["trimmed"] + d
      BY <1>1, <3>1 DEF Counters
    <3>3. metrics' = c
      BY <1>6 DEF d
    <3>4. m["enqueued"] \in Nat /\ m["sent"] \in Nat /\ m["trimmed"] \in Nat
      BY <1>1 DEF Counters
    <3>5. m["enqueued"] = m["sent"] + m["trimmed"] + Len(q) + Cardinality(InFlight) + Cardinality(Failed)
      BY <1>1 DEF Balanced
    <3>6. m["enqueued"] = m["sent"] + (m["trimmed"] + d) + Len(queue')
                           + (Cardinality(InFlight) + Len(batch)) + Cardinality(Failed)
      <4>1. PICK a \in Nat : a = Cardinality(InFlight)
        BY Facts
      <4>2. PICK b \in Nat : b = Cardinality(Failed)
        BY Facts
      <4>3. PICK k \in Nat : k = Len(queue')
        BY <1>3
      <4>4. PICK l \in Nat : l = Len(batch)
        BY <2>1
      <4>5. m["enqueued"] = m["sent"] + m["trimmed"] + (k + d + l) + a + b
        BY <3>1, <3>5, <4>1, <4>2, <4>3, <4>4
      <4>6. m["enqueued"] = m["sent"] + (m["trimmed"] + d) + k + (a + l) + b
        BY <3>1, <3>4, <4>5
      <4> QED BY <4>1, <4>2, <4>3, <4>4, <4>6
    <3> HIDE DEF c
    <3> QED BY <2>6, <2>9, <3>2, <3>3, <3>6 DEF CountersBalance, Failed
  <2>11. TypeOK'
    <3>1. \A p \in flights' : p.batch \in Seq(Events) /\ p.batch # <<>> /\ p.taken \in BOOLEAN
      <4>1. new.batch \in Seq(Events) /\ new.batch # <<>> /\ new.taken \in BOOLEAN
        BY <2>1
      <4>2. \A p \in flights' : p \in flights \/ p = new
        BY <2>1
      <4> QED BY <4>1, <4>2 DEF IInv, TypeOK
    <3>2. Len(queue') <= MaxSize
      BY <1>1, <1>3, ExporterAssumption
    <3> QED BY <1>2, <1>3, <2>10, <3>1, <3>2 DEF IInv, TypeOK, Counters
  <2> HIDE DEF new
  <2> QED BY <1>4, <2>1, <2>3, <2>5, <2>6, <2>7, <2>8, <2>10, <2>11 DEF IInv
<1>7. IInv'
  BY <1>5, <1>6, FlushEffect, Facts
<1>8. Waiting' \subseteq Waiting \cup (recorded + 1)..recorded'
  <2>1. ToSet(queue') = (Left' + 1)..recorded' /\ ToSet(queue) = (Left + 1)..recorded
    <3>1. ToSet(queue') = (Left' + 1)..(Left' + Len(queue'))
      <4>1. queue' = Interval(Left', Len(queue'))
        BY <1>3, <1>4
      <4>2. ToSet(Interval(Left', Len(queue'))) = (Left' + 1)..(Left' + Len(queue'))
        BY <1>3, <1>4, IntervalSet
      <4> QED BY <4>1, <4>2
    <3>2. Left' + Len(queue') = recorded'
      BY <1>2, <1>3, <1>4
    <3> QED BY <3>1, <3>2, QueueSet
  <2>2. (Left' + 1)..recorded' \subseteq (Left + 1)..recorded \cup (recorded + 1)..recorded'
    BY <1>2, <1>4, Facts
  <2>3. \A p \in flights' : p \in flights \/ ToSet(p.batch) \subseteq (Left + 1)..recorded'
    <3>1. ASSUME NEW batch, IsBatch(batch, q, r)
          PROVE  \A p \in flights' : p \in flights \/ ToSet(p.batch) \subseteq (Left + 1)..recorded'
      <4>1. (r - Len(q) + 1)..(r - Len(queue')) \subseteq (Left + 1)..recorded'
        BY <1>1, <1>2, <1>3, <1>4, Facts
      <4>2. ToSet(batch) \subseteq (Left + 1)..recorded'
        BY <3>1, <4>1 DEF IsBatch
      <4> QED BY <3>1, <4>2 DEF IsBatch
    <3> QED BY <3>1, FlushEffect, Facts
  <2>4. (Left + 1)..recorded' \subseteq (Left + 1)..recorded \cup (recorded + 1)..recorded'
    BY <1>2, <1>4, Facts
  <2> QED BY <2>1, <2>2, <2>3, <2>4 DEF Waiting
<1> QED BY <1>4, <1>7, <1>8

-----------------------------------------------------------------------------
(* The answers to a post.                                                     *)

LEMMA RestStay ==
  ASSUME IInv, UNCHANGED <<queue, recorded>>
  PROVE  QueueKeepsNewest' /\ Left' = Left
<1>1. QueueKeepsNewest'
  BY DEF IInv, QueueKeepsNewest
<1>2. Left' = Left
  BY DEF Left
<1> QED BY <1>1, <1>2

LEMMA TakesInv ==
  ASSUME IInv, NEW p \in flights, EndpointTakes(p)
  PROVE  IInv' /\ Channel!Deliver
<1> DEFINE o == [p EXCEPT !.taken = TRUE]
<1>1. /\ ~p.taken /\ flights' = (flights \ {p}) \cup {o}
      /\ accepted' = accepted \cup ToSet(p.batch)
      /\ UNCHANGED <<queue, recorded, armed, retries, metrics, failed>>
  BY DEF EndpointTakes
<1>2. FlightOK(p, Left, accepted) /\ p \in Batches
  BY DEF IInv, FlightOK
<1>3. o \in Batches /\ o.batch = p.batch /\ o.taken
  BY <1>2 DEF Batches
<1> HIDE DEF o
<1>4. \A f : f \in flights' <=> f = o \/ (f \in flights /\ f # p)
  BY <1>1
<1>5. QueueKeepsNewest' /\ Left' = Left
  BY <1>1, RestStay
<1>6. \A f \in flights : f # p => ToSet(f.batch) \cap ToSet(p.batch) = {}
  BY DEF IInv, FlightsApart
<1>7. \A f \in flights' : FlightOK(f, Left', accepted')
  <2>1. FlightOK(o, Left, accepted')
    BY <1>2, <1>3 DEF FlightOK
  <2>2. \A f \in flights : f # p => FlightOK(f, Left, accepted')
    BY <1>1, <1>6 DEF FlightOK, IInv
  <2> QED BY <1>4, <1>5, <2>1, <2>2
<1>8. FlightsApart'
  BY <1>3, <1>4, <1>6 DEF FlightsApart, IInv
<1>9. InFlight' = InFlight /\ Failed' = Failed
  BY <1>1, <1>3, <1>4 DEF InFlight, Failed
<1>10. CountersBalance'
  BY <1>1, <1>9 DEF CountersBalance, Failed, IInv
<1>11. ToSet(p.batch) \subseteq 1..Left /\ accepted \subseteq 1..Left /\ 1..Left \subseteq Events
  BY <1>2, Facts DEF FlightOK, IInv, Events
<1>12. TypeOK'
  <2>1. \A f \in flights' : f.batch \in Seq(Events) /\ f.batch # <<>> /\ f.taken \in BOOLEAN
    BY <1>2, <1>3, <1>4 DEF IInv, TypeOK, FlightOK, Batches
  <2> QED BY <1>1, <1>11, <2>1 DEF IInv, TypeOK
<1>13. IInv'
  BY <1>1, <1>5, <1>7, <1>8, <1>9, <1>10, <1>11, <1>12 DEF IInv
<1>14. Channel!Deliver
  <2>1. ToSet(queue) \cap ToSet(p.batch) = {}
    <3>1. ToSet(queue) \cap 1..Left = {}
      BY QueueSet, Facts
    <3> QED BY <1>11, <3>1
  <2>2. ToSet(p.batch) \subseteq Waiting
    BY <1>1 DEF Waiting
  <2>3. \A e : e \in Waiting' <=> \/ e \in ToSet(queue)
                                  \/ \E f \in flights : f # p /\ ~f.taken /\ e \in ToSet(f.batch)
    BY <1>1, <1>3, <1>4 DEF Waiting
  <2>4. \A e : e \in Waiting <=> \/ e \in ToSet(queue)
                                 \/ \E f \in flights : ~f.taken /\ e \in ToSet(f.batch)
    BY DEF Waiting
  <2>5. Waiting' = Waiting \ ToSet(p.batch)
    BY <1>1, <1>6, <2>1, <2>3, <2>4
  <2>6. ((1..recorded) \ (Waiting \cup accepted))' = (1..recorded) \ (Waiting \cup accepted)
    BY <1>1, <2>2, <2>5
  <2> QED BY <1>1, <2>2, <2>5, <2>6 DEF Channel!Deliver
<1> QED BY <1>13, <1>14

(* Whatever the answer, the post is over.                                     *)
LEMMA PostOver ==
  ASSUME IInv, NEW p \in flights, flights' = flights \ {p}, UNCHANGED <<queue, recorded, accepted>>
  PROVE  /\ QueueKeepsNewest' /\ Left' = Left /\ FlightsApart'
         /\ \A f \in flights' : FlightOK(f, Left', accepted')
         /\ \A f \in flights' : f.batch \in Seq(Events) /\ f.batch # <<>> /\ f.taken \in BOOLEAN
         /\ InFlight' = InFlight \ ToSet(p.batch) /\ ToSet(p.batch) \subseteq InFlight
         /\ IsFiniteSet(ToSet(p.batch)) /\ Cardinality(ToSet(p.batch)) = Len(p.batch)
         /\ ToSet(p.batch) \subseteq 1..Left /\ Len(p.batch) \in Nat
         /\ Cardinality(InFlight') \in Nat
         /\ Cardinality(InFlight) = Cardinality(InFlight') + Len(p.batch)
         /\ Waiting' \subseteq Waiting \cup (recorded + 1)..recorded'
<1>1. QueueKeepsNewest' /\ Left' = Left
  BY RestStay
<1>2. FlightsApart' /\ \A f \in flights' : FlightOK(f, Left', accepted')
  BY <1>1 DEF IInv, FlightsApart
<1>3. \A f \in flights' : f.batch \in Seq(Events) /\ f.batch # <<>> /\ f.taken \in BOOLEAN
  BY DEF IInv, TypeOK
<1>4. ToSet(p.batch) \subseteq InFlight
  BY DEF InFlight
<1>5. \A f \in flights : f # p => ToSet(f.batch) \cap ToSet(p.batch) = {}
  BY DEF IInv, FlightsApart
<1>6. InFlight' = InFlight \ ToSet(p.batch)
  BY <1>4, <1>5 DEF InFlight
<1>7. /\ IsFiniteSet(ToSet(p.batch)) /\ Cardinality(ToSet(p.batch)) = Len(p.batch)
      /\ ToSet(p.batch) \subseteq 1..Left /\ Len(p.batch) \in Nat
  BY DEF IInv, FlightOK, Batches
<1>8. /\ Cardinality(InFlight') \in Nat
      /\ Cardinality(InFlight) = Cardinality(InFlight') + Len(p.batch)
  <2>1. /\ IsFiniteSet(InFlight \ ToSet(p.batch))
        /\ Cardinality(InFlight \ ToSet(p.batch))
             = Cardinality(InFlight) - Cardinality(InFlight \cap ToSet(p.batch))
    BY Facts, FS_Difference
  <2>2. InFlight \cap ToSet(p.batch) = ToSet(p.batch)
    BY <1>4
  <2>3. Cardinality(InFlight \ ToSet(p.batch)) \in Nat
    BY <2>1, FS_CardinalityType
  <2>4. PICK a \in Nat, c \in Nat, l \in Nat :
          a = Cardinality(InFlight) /\ c = Cardinality(InFlight \ ToSet(p.batch)) /\ l = Len(p.batch)
    BY <1>7, <2>3, Facts
  <2>5. c = a - l
    BY <1>7, <2>1, <2>2, <2>4
  <2>6. a = c + l
    BY <2>5
  <2> QED BY <1>6, <2>4, <2>6
<1>9. Waiting' \subseteq Waiting \cup (recorded + 1)..recorded'
  BY DEF Waiting
<1> QED BY <1>1, <1>2, <1>3, <1>4, <1>6, <1>7, <1>8, <1>9

LEMMA OkInv ==
  ASSUME IInv, NEW p \in flights, AnsweredOk(p)
  PROVE  IInv'
<1>1. /\ flights' = flights \ {p} /\ metrics' = [metrics EXCEPT !["sent"] = @ + Len(p.batch)]
      /\ UNCHANGED <<queue, recorded, armed, retries, accepted, failed>>
  BY DEF AnsweredOk
<1>2. Failed' = Failed
  BY <1>1 DEF Failed
<1>3. Failed \cap InFlight' = {}
  BY <1>1, PostOver DEF IInv
<1>4. metrics' \in Counters /\ CountersBalance'
  <2> DEFINE c == [metrics EXCEPT !["sent"] = @ + Len(p.batch)]
  <2>1. Len(p.batch) \in Nat
    BY <1>1, PostOver
  <2>2. /\ c \in Counters /\ c["enqueued"] = metrics["enqueued"] /\ c["trimmed"] = metrics["trimmed"]
        /\ c["sent"] = metrics["sent"] + Len(p.batch)
    BY <2>1, Facts DEF Counters
  <2>3. metrics' = c
    BY <1>1
  <2> HIDE DEF c
  <2>4. /\ metrics["enqueued"] \in Nat /\ metrics["sent"] \in Nat /\ metrics["trimmed"] \in Nat
    BY Facts DEF Counters
  <2>5. metrics["enqueued"] = metrics["sent"] + metrics["trimmed"] + Len(queue)
                               + Cardinality(InFlight) + Cardinality(Failed)
    BY DEF IInv, CountersBalance, Failed
  <2>6. PICK a \in Nat, l \in Nat : /\ a = Cardinality(InFlight') /\ l = Len(p.batch)
                                    /\ Cardinality(InFlight) = a + l
    BY <1>1, PostOver
  <2>7. PICK b \in Nat, k \in Nat : b = Cardinality(Failed) /\ k = Len(queue)
    BY Facts
  <2>8. metrics["enqueued"] = metrics["sent"] + metrics["trimmed"] + k + (a + l) + b
    BY <2>5, <2>6, <2>7
  <2>9. metrics["enqueued"] = (metrics["sent"] + l) + metrics["trimmed"] + k + a + b
    BY <2>4, <2>8
  <2> QED BY <1>1, <1>2, <2>2, <2>3, <2>6, <2>7, <2>9 DEF CountersBalance, Failed
<1>5. TypeOK'
  BY <1>1, <1>4, PostOver DEF IInv, TypeOK, Counters
<1> QED BY <1>1, <1>2, <1>3, <1>4, <1>5, PostOver DEF IInv

LEMMA FailInv ==
  ASSUME IInv, NEW p \in flights, AnsweredRetryable(p) \/ AnsweredRefused(p)
  PROVE  IInv'
<1>1. /\ flights' = flights \ {p} /\ UNCHANGED <<queue, recorded, armed, metrics, accepted>>
      /\ retries' \in Nat
  BY DEF AnsweredRetryable, AnsweredRefused, IInv, TypeOK
<1>2. ToSet(p.batch) \subseteq Events
  <2>1. 1..Left \subseteq Events
    BY Facts DEF Events
  <2> QED BY <1>1, <2>1, PostOver
<1>3. failed' \in [{"retryable", "refused"} -> SUBSET Events] /\ Failed' = Failed \cup ToSet(p.batch)
  <2>1. failed \in [{"retryable", "refused"} -> SUBSET Events]
    BY DEF IInv, TypeOK
  <2>2. CASE AnsweredRetryable(p)
    BY <1>2, <2>1, <2>2 DEF AnsweredRetryable, Failed
  <2>3. CASE AnsweredRefused(p)
    BY <1>2, <2>1, <2>3 DEF AnsweredRefused, Failed
  <2> QED BY <2>2, <2>3
<1>4. Failed' \cap InFlight' = {} /\ Failed' \cup accepted' \subseteq 1..Left'
  <2>1. Failed \cap InFlight = {} /\ Failed \cup accepted \subseteq 1..Left
    BY DEF IInv
  <2>2. InFlight' = InFlight \ ToSet(p.batch) /\ ToSet(p.batch) \subseteq 1..Left /\ Left' = Left
    BY <1>1, PostOver
  <2> QED BY <1>1, <1>3, <2>1, <2>2
<1>5. CountersBalance'
  <2>1. Cardinality(Failed') = Cardinality(Failed) + Len(p.batch)
    <3>1. Failed \cap ToSet(p.batch) = {}
      BY <1>1, PostOver DEF IInv
    <3>2. IsFiniteSet(ToSet(p.batch)) /\ Cardinality(ToSet(p.batch)) = Len(p.batch) /\ Len(p.batch) \in Nat
      BY <1>1, PostOver
    <3>3. Cardinality(Failed \cup ToSet(p.batch))
            = Cardinality(Failed) + Cardinality(ToSet(p.batch)) - Cardinality(Failed \cap ToSet(p.batch))
      BY <3>2, Facts, FS_Union
    <3>4. Cardinality(Failed \cap ToSet(p.batch)) = 0
      BY <3>1, FS_EmptySet
    <3> QED BY <1>3, <3>2, <3>3, <3>4, Facts
  <2>2. /\ metrics["enqueued"] \in Nat /\ metrics["sent"] \in Nat /\ metrics["trimmed"] \in Nat
    BY Facts DEF Counters
  <2>3. metrics["enqueued"] = metrics["sent"] + metrics["trimmed"] + Len(queue)
                               + Cardinality(InFlight) + Cardinality(Failed)
    BY DEF IInv, CountersBalance, Failed
  <2>4. PICK a \in Nat, l \in Nat : /\ a = Cardinality(InFlight') /\ l = Len(p.batch)
                                    /\ Cardinality(InFlight) = a + l
    BY <1>1, PostOver
  <2>5. PICK b \in Nat, k \in Nat : b = Cardinality(Failed) /\ k = Len(queue)
    BY Facts
  <2>6. metrics["enqueued"] = metrics["sent"] + metrics["trimmed"] + k + (a + l) + b
    BY <2>3, <2>4, <2>5
  <2>7. metrics["enqueued"] = metrics["sent"] + metrics["trimmed"] + k + a + (b + l)
    BY <2>2, <2>6
  <2>8. Cardinality(Failed') = b + l
    BY <2>1, <2>4, <2>5
  <2> QED BY <1>1, <2>4, <2>5, <2>7, <2>8 DEF CountersBalance, Failed
<1>6. TypeOK'
  BY <1>1, <1>3, PostOver DEF IInv, TypeOK
<1> QED BY <1>1, <1>4, <1>5, <1>6, PostOver DEF IInv

-----------------------------------------------------------------------------
(* The entry points and the timers, and the theorems.                         *)

(* Some events may be recorded and some lost: the channel accepts.            *)
LEMMA ChannelAccepts ==
  ASSUME IInv, recorded' \in 0..MaxEvents, recorded <= recorded', UNCHANGED accepted,
         Waiting' \subseteq Waiting \cup (recorded + 1)..recorded'
  PROVE  Channel!Accept
<1> DEFINE new == (recorded + 1)..recorded'
           gone == (Waiting \cup new) \ Waiting'
           lost == (1..recorded) \ (Waiting \cup accepted)
<1>1. recorded \in Nat /\ recorded' \in Nat /\ recorded' <= MaxEvents /\ MaxEvents \in Nat
      /\ Left \in Nat /\ Left <= recorded
  BY Facts
<1>2. Waiting \subseteq 1..recorded /\ accepted \subseteq 1..recorded /\ Waiting \cap accepted = {}
  <2>1. 1..Left \subseteq 1..recorded /\ (Left + 1)..recorded \subseteq 1..recorded
        /\ 1..Left \cap (Left + 1)..recorded = {}
    BY <1>1
  <2>2. accepted \subseteq 1..Left /\ ToSet(queue) = (Left + 1)..recorded
    BY QueueSet DEF IInv
  <2>3. \A p \in flights : ToSet(p.batch) \subseteq 1..Left
                           /\ (~p.taken => ToSet(p.batch) \cap accepted = {})
    BY DEF IInv, FlightOK
  <2> QED BY <2>1, <2>2, <2>3 DEF Waiting
<1>3. /\ 1..recorded' = 1..recorded \cup new /\ 1..recorded \cap new = {}
      /\ new \subseteq Events
  BY <1>1 DEF Events
<1> HIDE DEF new
<1>4. new \in SUBSET (Events \ (Waiting \cup accepted \cup lost))
  BY <1>2, <1>3
<1>5. gone \in SUBSET (Waiting \cup new) /\ Waiting' = (Waiting \cup new) \ gone
  BY DEF new
<1>6. ((1..recorded) \ (Waiting \cup accepted))' = lost \cup gone
  <2>1. (1..recorded') \ (Waiting' \cup accepted) = lost \cup gone
    BY <1>2, <1>3, <1>5
  <2> QED BY <2>1
<1>7. \E n \in SUBSET (Events \ (Waiting \cup accepted \cup lost)) :
        \E g \in SUBSET (Waiting \cup n) :
          /\ Waiting' = (Waiting \cup n) \ g
          /\ ((1..recorded) \ (Waiting \cup accepted))' = lost \cup g
          /\ UNCHANGED accepted
  <2> HIDE DEF gone, lost
  <2> QED BY <1>4, <1>5, <1>6
<1> QED BY <1>7 DEF Channel!Accept

LEMMA RecordInv ==
  ASSUME IInv, Record
  PROVE  IInv' /\ Waiting' \subseteq Waiting \cup (recorded + 1)..recorded'
<1>1. /\ recorded < MaxEvents /\ recorded' = recorded + 1 /\ queue' = Enqueued(queue, recorded + 1)
      /\ metrics' = Counted(metrics, queue) /\ armed' = TRUE
      /\ UNCHANGED <<flights, retries, accepted, failed>>
  BY DEF Record
<1>2. Entered(Enqueued(queue, recorded + 1), Counted(metrics, queue), recorded + 1)
  BY <1>1, EnteredAtOnce, EnteredNext, Facts
<1>3. retries' \in Nat
  BY <1>1 DEF IInv, TypeOK
<1>4. IInv'
  BY <1>1, <1>2, <1>3, QuietInv
<1>5. ToSet(queue') \subseteq (Left + 1)..recorded'
  <2> DEFINE q == Enqueued(queue, recorded + 1)
             r == recorded + 1
  <2>1. /\ q \in Seq(Events) /\ Len(q) \in Nat /\ Len(q) <= r /\ Left <= r - Len(q)
        /\ q = Interval(r - Len(q), Len(q)) /\ r \in Nat
    BY <1>2, Facts DEF Entered, Left
  <2> HIDE DEF q, r
  <2>2. PICK lo \in Nat, n \in Nat : lo = r - Len(q) /\ n = Len(q) /\ lo + n = r /\ Left <= lo
    <3>1. r - Len(q) \in Nat
      BY <2>1
    <3> QED BY <2>1, <3>1
  <2>3. ToSet(q) = (lo + 1)..(lo + n)
    BY <2>1, <2>2, IntervalSet
  <2>4. ToSet(q) \subseteq (Left + 1)..r
    BY <2>1, <2>2, <2>3, Facts
  <2> QED BY <1>1, <2>4 DEF q, r
<1>6. (Left + 1)..recorded' \subseteq (Left + 1)..recorded \cup (recorded + 1)..recorded'
  BY <1>1, Facts
<1>7. Waiting' \subseteq Waiting \cup (recorded + 1)..recorded'
  BY <1>1, <1>5, <1>6, QueueSet DEF Waiting
<1> QED BY <1>4, <1>7

(* What the flushes of one, two or no events have in common.                  *)
LEMMA FlushStep ==
  ASSUME IInv, NEW q, NEW m, NEW r, Entered(q, m, r), recorded' = r, Flush(q, m),
         armed' \in BOOLEAN, retries' \in Nat, UNCHANGED <<accepted, failed>>
  PROVE  IInv' /\ Channel!Accept
<1>1. recorded' \in 0..MaxEvents /\ recorded <= recorded'
  BY Facts DEF Entered
<1>2. IInv' /\ Waiting' \subseteq Waiting \cup (recorded + 1)..recorded'
  BY FlushInv
<1> QED BY <1>1, <1>2, ChannelAccepts

LEMMA RecordedFlush ==
  ASSUME IInv, recorded < MaxEvents, recorded' = recorded + 1,
         Flush(Enqueued(queue, recorded'), Counted(metrics, queue)),
         armed' \in BOOLEAN, retries' \in Nat, UNCHANGED <<accepted, failed>>
  PROVE  IInv' /\ Channel!Accept
<1>1. Entered(Enqueued(queue, recorded + 1), Counted(metrics, queue), recorded + 1)
  BY EnteredAtOnce, EnteredNext, Facts
<1> QED BY <1>1, FlushStep

LEMMA EntryStep ==
  ASSUME IInv, Record \/ ExportNow \/ RecordAnomaly \/ IntervalFires \/ RetryFires
  PROVE  IInv' /\ Channel!Accept
<1>1. armed \in BOOLEAN /\ retries \in Nat
  BY DEF IInv, TypeOK
<1>2. CASE Record
  <2>1. recorded' \in 0..MaxEvents /\ recorded <= recorded' /\ UNCHANGED accepted
    BY <1>2, Facts DEF Record
  <2> QED BY <1>2, <2>1, RecordInv, ChannelAccepts
<1>3. CASE ExportNow
  <2>1. CASE Flush(queue, metrics) /\ UNCHANGED <<recorded, armed, retries, accepted, failed>>
    BY <1>1, <2>1, EnteredAtOnce, FlushStep
  <2>2. CASE ~(Flush(queue, metrics) /\ UNCHANGED <<recorded, armed, retries, accepted, failed>>)
    BY <1>1, <1>3, <2>2, RecordedFlush DEF ExportNow
  <2> QED BY <2>1, <2>2
<1>4. CASE RecordAnomaly
  <2>1. CASE /\ recorded < MaxEvents /\ recorded' = recorded + 1
             /\ Flush(Enqueued(queue, recorded'), Counted(metrics, queue))
             /\ UNCHANGED <<armed, retries, accepted, failed>>
    BY <1>1, <2>1, RecordedFlush
  <2> DEFINE q == Enqueued(queue, recorded + 1)
             m == Counted(metrics, queue)
  <2>2. CASE /\ recorded + 1 < MaxEvents /\ recorded' = recorded + 2
             /\ Flush(Enqueued(q, recorded'), Counted(m, q))
             /\ armed' = TRUE /\ UNCHANGED <<retries, accepted, failed>>
    <3>1. Entered(q, m, recorded + 1)
      <4>1. recorded < MaxEvents
        BY <2>2, Facts
      <4> QED BY <4>1, EnteredAtOnce, EnteredNext, Facts
    <3> HIDE DEF q, m
    <3>2. Entered(Enqueued(q, recorded + 1 + 1), Counted(m, q), recorded + 1 + 1)
      BY <2>2, <3>1, EnteredNext, Facts
    <3>3. recorded + 1 + 1 = recorded'
      BY <2>2, Facts
    <3>4. Entered(Enqueued(q, recorded'), Counted(m, q), recorded')
      BY <3>2, <3>3
    <3> QED BY <1>1, <2>2, <3>4, FlushStep
  <2> QED BY <1>4, <2>1, <2>2 DEF RecordAnomaly
<1>5. CASE IntervalFires
  BY <1>1, <1>5, EnteredAtOnce, FlushStep DEF IntervalFires
<1>6. CASE RetryFires
  <2>1. retries' \in Nat
    BY <1>1, <1>6 DEF RetryFires
  <2> QED BY <1>1, <1>6, <2>1, EnteredAtOnce, FlushStep DEF RetryFires
<1> QED BY <1>2, <1>3, <1>4, <1>5, <1>6

LEMMA AnswerStep ==
  ASSUME IInv, NEW p \in flights,
         AnsweredOk(p) \/ AnsweredRetryable(p) \/ AnsweredRefused(p)
  PROVE  IInv' /\ Channel!Accept
<1>1. /\ flights' = flights \ {p} /\ UNCHANGED <<queue, recorded, accepted>>
  BY DEF AnsweredOk, AnsweredRetryable, AnsweredRefused
<1>2. recorded' \in 0..MaxEvents /\ recorded <= recorded'
  BY <1>1, Facts
<1>3. Waiting' \subseteq Waiting \cup (recorded + 1)..recorded'
  BY <1>1, PostOver
<1> QED BY <1>1, <1>2, <1>3, ChannelAccepts, OkInv, FailInv

LEMMA NextStep ==
  ASSUME IInv, Next
  PROVE  IInv' /\ Channel!Next
<1>1. CASE Record \/ ExportNow \/ RecordAnomaly \/ IntervalFires \/ RetryFires
  BY <1>1, EntryStep DEF Channel!Next
<1>2. ASSUME NEW p \in flights,
             EndpointTakes(p) \/ AnsweredOk(p) \/ AnsweredRetryable(p) \/ AnsweredRefused(p)
      PROVE  IInv' /\ Channel!Next
  BY <1>2, TakesInv, AnswerStep DEF Channel!Next
<1> QED BY <1>1, <1>2 DEF Next

LEMMA Stutter ==
  ASSUME IInv, UNCHANGED vars
  PROVE  IInv' /\ UNCHANGED <<Waiting, accepted, (1..recorded) \ (Waiting \cup accepted)>>
<1>1. /\ queue' = queue /\ recorded' = recorded /\ flights' = flights /\ metrics' = metrics
      /\ accepted' = accepted /\ failed' = failed /\ armed' = armed /\ retries' = retries
  BY DEF vars
<1>2. Left' = Left /\ Failed' = Failed /\ InFlight' = InFlight /\ Waiting' = Waiting
  BY <1>1 DEF Left, Failed, InFlight, Waiting
<1>3. TypeOK' /\ QueueKeepsNewest' /\ CountersBalance' /\ FlightsApart'
  BY <1>1, <1>2 DEF IInv, TypeOK, QueueKeepsNewest, CountersBalance, Failed, FlightsApart
<1> QED BY <1>1, <1>2, <1>3 DEF IInv

(* The inductive invariant holds, which the theorems below follow from.        *)
THEOREM SpecIInv == Spec => []IInv
<1>1. IInv /\ [Next]_vars => IInv'
  BY NextStep, Stutter
<1> QED BY <1>1, InvInit, PTL DEF Spec

(* The queue is bounded, and every event is one that was recorded.            *)
THEOREM SpecTypeOK == Spec => []TypeOK
<1>1. IInv => TypeOK
  BY DEF IInv
<1> QED BY <1>1, SpecIInv, PTL

(* Whatever is dropped, trimmed or sent is older than all that waits.         *)
THEOREM SpecQueueKeepsNewest == Spec => []QueueKeepsNewest
<1>1. IInv => QueueKeepsNewest
  BY DEF IInv
<1> QED BY <1>1, SpecIInv, PTL

(* The counters account for every event, in the queue, in a post or lost.     *)
THEOREM SpecCountersBalance == Spec => []CountersBalance
<1>1. IInv => CountersBalance
  BY DEF IInv
<1> QED BY <1>1, SpecIInv, PTL

(* The exporter is a channel that delivers no event twice.                    *)
THEOREM SpecImplementsChannel == Spec => ImplementsChannel
<1>1. Init => Channel!Init
  BY DEF Init, Channel!Init, Waiting, ToSet
<1>2. IInv /\ [Next]_vars => [Channel!Next]_(Channel!cvars)
  BY NextStep, Stutter DEF Channel!cvars
<1> QED BY <1>1, <1>2, SpecIInv, PTL DEF Spec, ImplementsChannel, Channel!Spec

=============================================================================
