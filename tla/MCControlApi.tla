---------------------------- MODULE MCControlApi -----------------------------
(* Two tenants, a table of providers with two rows beside that of tenants,    *)
(* pages of one row, and an audit log of up to two rows to begin with.        *)
EXTENDS ControlApi

CONSTANTS A, B, default, p1, p2

MCIds == [t \in Tables |-> IF t = "tenants" THEN {default, B} ELSE {p1, p2}]
MCSeeds == [t \in Tables |-> IF t = "tenants" THEN {default} ELSE {p1}]
MCOld == {<<A, B, A>>}

=============================================================================
