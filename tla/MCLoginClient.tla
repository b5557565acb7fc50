---------------------------- MODULE MCLoginClient ----------------------------
(* Two tabs and two requests, made in the same tab or in different ones. *)
EXTENDS LoginClient

CONSTANTS t1, t2, q1, q2

MCTabsOf == [q \in Requests |-> IF q = q1 THEN {t1} ELSE Tabs]

=============================================================================
