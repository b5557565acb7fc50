-------------------------- MODULE SubscriptionLedger --------------------------
(* What a subscription store promises: a record changes only by being put     *)
(* there, one tenant at a time, or is lost with all the others.               *)

CONSTANTS Tenants, Records, NoRecord

VARIABLE ledger

Blank == [t \in Tenants |-> NoRecord]

Put(t, rec) == ledger' = [ledger EXCEPT ![t] = rec]

Lose == ledger' = Blank

Init == ledger \in [Tenants -> Records \cup {NoRecord}]

Next == Lose \/ \E t \in Tenants, rec \in Records : Put(t, rec)

Spec == Init /\ [][Next]_ledger

=============================================================================
