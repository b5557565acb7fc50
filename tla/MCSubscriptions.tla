--------------------------- MODULE MCSubscriptions ---------------------------
(* Two callers, in one process or in two. *)
EXTENDS Subscriptions, TLC

CONSTANTS c1, c2, t1, t2, p1, p2

OneProcess == [c \in Callers |-> p1]

TwoProcesses == [c \in Callers |-> IF c = c1 THEN p1 ELSE p2]

MCTimes == 1..2

Symmetry == Permutations(Tenants) \cup Permutations(Callers)

=============================================================================
