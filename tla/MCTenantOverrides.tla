-------------------------- MODULE MCTenantOverrides --------------------------
(* Two tabs of one operator, a payload of ordinary size and one too large. *)
EXTENDS TenantOverrides, TLC

CONSTANTS p1, p2, big

MCPayloads == {p1, p2, big}
MCOversized == {big}
MCSymmetry == Permutations(Tabs) \cup Permutations({p1, p2})

=============================================================================
