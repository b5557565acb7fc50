---------------------------- MODULE ExportChannel ----------------------------
(***************************************************************************)
(* What the telemetry exporter promises: a channel that may lose events but *)
(* never delivers one twice and never brings back one it gave up.           *)
(***************************************************************************)
CONSTANT Events

VARIABLES pending, delivered, lost

cvars == <<pending, delivered, lost>>

ChannelTypeOK ==
  /\ pending \subseteq Events /\ delivered \subseteq Events /\ lost \subseteq Events

Init == pending = {} /\ delivered = {} /\ lost = {}

\* New events enter; some of what is pending, the new ones included, may be lost.
Accept ==
  \E new \in SUBSET (Events \ (pending \cup delivered \cup lost)) :
    \E gone \in SUBSET (pending \cup new) :
      /\ pending' = (pending \cup new) \ gone
      /\ lost' = lost \cup gone
      /\ UNCHANGED delivered

\* The other end takes events.
Deliver ==
  \E batch \in SUBSET pending :
    /\ pending' = pending \ batch
    /\ delivered' = delivered \cup batch
    /\ UNCHANGED lost

Next == Accept \/ Deliver

Spec == Init /\ [][Next]_cvars

=============================================================================
