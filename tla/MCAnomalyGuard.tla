---------------------------- MODULE MCAnomalyGuard ----------------------------
(* Two events of a kind are tolerated for 401, one for logins, and windows of *)
(* one and two ticks: an event is newer, exactly as old, or older than each.  *)
EXTENDS AnomalyGuard, TLC

CONSTANTS h1, h2, e1, e2, e3

MCWindow == [k \in Kinds |-> IF k = "401" THEN 2 ELSE 1]
MCThreshold == [k \in Kinds |-> IF k = "401" THEN 2 ELSE 1]
MCSymmetry == Permutations(Hashes) \cup Permutations(Events)

=============================================================================
