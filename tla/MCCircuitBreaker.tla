-------------------------- MODULE MCCircuitBreaker ---------------------------
(* CircuitBreaker for TLC: callers of one key, with two configurations that *)
(* disagree on everything.                                                  *)
EXTENDS CircuitBreaker, TLC

MCPatient == [failureThreshold |-> 3, successThreshold |-> 2, openMs |-> 2, maxRetries |-> 1]
MCHasty   == [failureThreshold |-> 1, successThreshold |-> 1, openMs |-> 1, maxRetries |-> 0]
MCConfigs == {MCPatient, MCHasty}

=============================================================================
