--------------------------- MODULE BreakerContract ---------------------------
(***************************************************************************)
(* What a circuit breaker promises, apart from how calls, retries and      *)
(* late answers drive it.  The breaker trips into OPEN with a cool-down,   *)
(* may be tripped again while it is OPEN, probes only once the cool-down   *)
(* is over and recovers only from a probe that has seen enough successes.  *)
(* CircuitBreaker is the implementation; it is shown to refine this.       *)
(***************************************************************************)
EXTENDS Naturals

CONSTANTS Cooldowns,   \* the cool-downs the configurations ask for
          Quotas       \* the numbers of successes they ask for

VARIABLES state, cooldown, good

vars == <<state, cooldown, good>>

Init == state = "CLOSED" /\ cooldown = 0 /\ good = 0

Trip ==
  /\ state' = "OPEN"
  /\ cooldown' \in Cooldowns
  /\ good' = 0

Probe ==
  /\ state = "OPEN" /\ cooldown = 0
  /\ state' = "HALF_OPEN"
  /\ good' = 0
  /\ UNCHANGED cooldown

ProbeSucceeds ==
  /\ state = "HALF_OPEN"
  /\ good' = good + 1
  /\ UNCHANGED <<state, cooldown>>

Recover ==
  /\ state = "HALF_OPEN"
  /\ \E quota \in Quotas : good + 1 >= quota
  /\ state' = "CLOSED"
  /\ cooldown' = 0
  /\ good' = 0

Cool ==
  /\ cooldown > 0
  /\ cooldown' = cooldown - 1
  /\ UNCHANGED <<state, good>>

Next == Trip \/ Probe \/ ProbeSucceeds \/ Recover \/ Cool

Spec == Init /\ [][Next]_vars

=============================================================================
