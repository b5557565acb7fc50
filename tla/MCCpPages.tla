------------------------------ MODULE MCCpPages ------------------------------
(* Two contents over two routes, the optional column filled and left empty, on *)
(* a host without a catalogue (the repository as it is) and on one that has one. *)
EXTENDS CpPages, TLC

CONSTANTS r1, r2, a, b, f

MCContents ==
  {[route |-> r1, title |-> a, perms |-> a, status |-> "ACTIVE", flag |-> f],
   [route |-> r2, title |-> b, perms |-> b, status |-> "EXPERIMENTAL", flag |-> None]}

\* One route is in the catalogue from the start.
MCDelivered ==
  [r \in Routes |-> IF r = r1 THEN [perms |-> b, status |-> "ACTIVE", flag |-> None]
                    ELSE Absent]

MCShipped == {Unreadable, MCDelivered}

MCSymmetry == Permutations(Operators) \cup Permutations(Ids)

=============================================================================
