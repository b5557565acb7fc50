------------------------------ MODULE Exporter -------------------------------
(***************************************************************************)
(* platform/observability/exporter.ts with its queue and transport, after   *)
(* initExporter found it enabled with an endpoint.  Events are numbered in   *)
(* the order they are recorded.  A flush takes a batch off the queue and     *)
(* posts it; nothing waits for the answer, so any number of batches may be   *)
(* in flight.  The delays of the timers are left out: a pending timer may    *)
(* fire at any moment.                                                       *)
(***************************************************************************)
EXTENDS Naturals, Sequences, FiniteSets, SequencesExt

CONSTANTS MaxEvents,     \* bound on the events recorded
          MaxSize,       \* MAX_SIZE of the queue
          MaxItems,      \* MAX_ITEMS_PER_BATCH
          Bytes,         \* the size of each event
          MaxEnvelope    \* maxEnvelopeBytes

Events == 1..MaxEvents

ASSUME ExporterAssumption ==
  /\ MaxEvents \in Nat /\ MaxSize \in Nat \ {0} /\ MaxItems \in Nat \ {0}
  /\ MaxEnvelope \in Nat
  /\ Bytes \in [Events -> 0..MaxEnvelope]   \* maxEventBytes fits any envelope

VARIABLES queue,
          recorded,    \* events given to enqueue so far
          flights,     \* posts without an answer yet
          armed,       \* intervalId # null
          retries,     \* retry timers pending
          metrics,     \* counters of observability.export.*
          accepted,    \* history: events the endpoint took
          failed       \* history: events of posts that failed, retryably or not

vars == <<queue, recorded, flights, armed, retries, metrics, accepted, failed>>

InFlight == UNION {ToSet(p.batch) : p \in flights}

TypeOK ==
  /\ queue \in Seq(Events) /\ Len(queue) <= MaxSize
  /\ recorded \in 0..MaxEvents
  /\ \A p \in flights : p.batch \in Seq(Events) /\ p.batch # <<>> /\ p.taken \in BOOLEAN
  /\ armed \in BOOLEAN /\ retries \in Nat
  /\ metrics \in [{"enqueued", "dropped", "sent", "trimmed"} -> Nat]
  /\ accepted \subseteq Events
  /\ failed \in [{"retryable", "refused"} -> SUBSET Events]

-----------------------------------------------------------------------------
(* The queue. *)

\* Mutant: a full queue refuses the new event instead of dropping the oldest.
MutEnqueued(q, e) == IF Len(q) < MaxSize THEN Append(q, e) ELSE q

\* Mutant: the queue is not bounded.
MutUnbounded(q, e) == Append(q, e)

\* enqueue: a full queue drops its oldest event.
Enqueued(q, e) == IF Len(q) < MaxSize THEN Append(q, e) ELSE Append(Tail(q), e)

\* Mutant: an event that displaces another counts as enqueued as well.
MutCounted(m, q) ==
  IF Len(q) < MaxSize THEN [m EXCEPT !["enqueued"] = @ + 1]
                      ELSE [m EXCEPT !["dropped"] = @ + 1, !["enqueued"] = @ + 1]

\* enqueue answers false when it dropped one, and the caller counts "dropped".
Counted(m, q) ==
  IF Len(q) < MaxSize THEN [m EXCEPT !["enqueued"] = @ + 1]
                      ELSE [m EXCEPT !["dropped"] = @ + 1]

Fits(batch) == FoldLeft(LAMBDA sum, e : sum + Bytes[e], 0, batch) <= MaxEnvelope

\* The batch without its oldest events until the envelope fits.
Trimmed(batch) ==
  LET n == Len(batch)
      from == Min({k \in 1..n : k = n \/ Fits(SubSeq(batch, k, n))})
  IN  SubSeq(batch, from, n)

\* flush, from queue q and counters m.
Flush(q, m) ==
  IF q = <<>> THEN queue' = q /\ metrics' = m /\ UNCHANGED flights
  ELSE LET n == Min({MaxItems, Len(q)})
           batch == Trimmed(SubSeq(q, 1, n))
       IN  /\ queue' = SubSeq(q, n + 1, Len(q))
           /\ flights' = flights \cup {[batch |-> batch, taken |-> FALSE]}
           /\ metrics' = [m EXCEPT !["trimmed"] = @ + (n - Len(batch))]

-----------------------------------------------------------------------------
(* Actions. *)

Init ==
  /\ queue = <<>> /\ recorded = 0 /\ flights = {}
  /\ armed = TRUE /\ retries = 0      \* initExporter has called scheduleFlush
  /\ metrics = [c \in {"enqueued", "dropped", "sent", "trimmed"} |-> 0]
  /\ accepted = {} /\ failed = [k \in {"retryable", "refused"} |-> {}]

\* recordMetricsExport, recordTraceExport.
Record ==
  /\ recorded < MaxEvents
  /\ recorded' = recorded + 1
  /\ queue' = Enqueued(queue, recorded')
  /\ metrics' = Counted(metrics, queue)
  /\ armed' = TRUE
  /\ UNCHANGED <<flights, retries, accepted, failed>>

\* exportNow: with a trace to dump, that is recorded first.
ExportNow ==
  \/ /\ Flush(queue, metrics)
     /\ UNCHANGED <<recorded, armed, retries, accepted, failed>>
  \/ /\ recorded < MaxEvents
     /\ recorded' = recorded + 1
     /\ Flush(Enqueued(queue, recorded'), Counted(metrics, queue))
     /\ armed' = TRUE
     /\ UNCHANGED <<retries, accepted, failed>>

\* recordAnomalyExport: an event, perhaps a trace, and a flush.
RecordAnomaly ==
  \/ /\ recorded < MaxEvents
     /\ recorded' = recorded + 1
     /\ Flush(Enqueued(queue, recorded'), Counted(metrics, queue))
     /\ UNCHANGED <<armed, retries, accepted, failed>>
  \/ /\ recorded + 1 < MaxEvents
     /\ recorded' = recorded + 2
     /\ LET q == Enqueued(queue, recorded + 1)
        IN  Flush(Enqueued(q, recorded'), Counted(Counted(metrics, queue), q))
     /\ armed' = TRUE
     /\ UNCHANGED <<retries, accepted, failed>>

\* Mutant: the interval is not armed again.
MutIntervalFires ==
  /\ armed
  /\ Flush(queue, metrics)
  /\ armed' = FALSE
  /\ UNCHANGED <<recorded, retries, accepted, failed>>

\* The timer of scheduleFlush: it flushes and arms itself again.
IntervalFires ==
  /\ armed
  /\ Flush(queue, metrics)
  /\ armed' = TRUE
  /\ UNCHANGED <<recorded, retries, accepted, failed>>

RetryFires ==
  /\ retries > 0
  /\ retries' = retries - 1
  /\ Flush(queue, metrics)
  /\ UNCHANGED <<recorded, armed, accepted, failed>>

\* The endpoint takes the batch; the answer is still to come.
EndpointTakes(p) ==
  /\ ~p.taken
  /\ flights' = (flights \ {p}) \cup {[p EXCEPT !.taken = TRUE]}
  /\ accepted' = accepted \cup ToSet(p.batch)
  /\ UNCHANGED <<queue, recorded, armed, retries, metrics, failed>>

\* 2xx.
AnsweredOk(p) ==
  /\ p.taken
  /\ flights' = flights \ {p}
  /\ metrics' = [metrics EXCEPT !["sent"] = @ + Len(p.batch)]
  /\ UNCHANGED <<queue, recorded, armed, retries, accepted, failed>>

\* Mutant: a batch whose post failed is put back, taken or not.
MutAnsweredRetryable(p) ==
  /\ flights' = flights \ {p}
  /\ retries' = retries + 1
  /\ queue' = p.batch \o queue
  /\ failed' = [failed EXCEPT !["retryable"] = @ \cup ToSet(p.batch)]
  /\ UNCHANGED <<recorded, armed, metrics, accepted>>

\* 408, 429, 5xx, a network error or the 15 second abort, which may all come
\* after the endpoint took the batch: another flush is scheduled.
AnsweredRetryable(p) ==
  /\ flights' = flights \ {p}
  /\ retries' = retries + 1
  /\ failed' = [failed EXCEPT !["retryable"] = @ \cup ToSet(p.batch)]
  /\ UNCHANGED <<queue, recorded, armed, metrics, accepted>>

\* Another status: the endpoint does not want the batch.
AnsweredRefused(p) ==
  /\ ~p.taken
  /\ flights' = flights \ {p}
  /\ failed' = [failed EXCEPT !["refused"] = @ \cup ToSet(p.batch)]
  /\ UNCHANGED <<queue, recorded, armed, retries, metrics, accepted>>

Next ==
  \/ Record \/ ExportNow \/ RecordAnomaly
  \/ IntervalFires \/ RetryFires
  \/ \E p \in flights : \/ EndpointTakes(p) \/ AnsweredOk(p)
                        \/ AnsweredRetryable(p) \/ AnsweredRefused(p)

Spec == Init /\ [][Next]_vars

\* A timer that is pending fires.
FairSpec == Spec /\ WF_vars(IntervalFires)

-----------------------------------------------------------------------------
(* Properties. *)

\* Backpressure and flushes together keep the newest events, in order: whatever
\* is dropped, trimmed or sent is older than all that waits (exportQueue.ts 12-33).
QueueKeepsNewest ==
  queue = [i \in 1..Len(queue) |-> recorded - Len(queue) + i]

\* The counters account for every event: those counted as enqueued and neither
\* sent nor trimmed are waiting, in flight or failed, although a full
\* queue counts the event it takes as "dropped" (exportQueue.ts 13-17).
CountersBalance ==
  metrics["enqueued"] = metrics["sent"] + metrics["trimmed"] + Len(queue)
    + Cardinality(InFlight) + Cardinality(failed["retryable"] \cup failed["refused"])

\* No event that waits stays for ever, however often posts fail (the interval
\* of scheduleFlush is always armed again, exporter.ts 113-125).
QueuedLeaves ==
  \A e \in Events : (\E i \in DOMAIN queue : queue[i] = e)
                    ~> ~(\E i \in DOMAIN queue : queue[i] = e)

\* No event is delivered twice or comes back after it was given up, through
\* posts whose answer is lost and flushes that overtake each other.
Waiting == ToSet(queue) \cup UNION {ToSet(p.batch) : p \in {f \in flights : ~f.taken}}
Channel == INSTANCE ExportChannel WITH
             pending <- Waiting, delivered <- accepted,
             lost <- (1..recorded) \ (Waiting \cup accepted)
ImplementsChannel == Channel!Spec

=============================================================================
