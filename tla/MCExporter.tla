----------------------------- MODULE MCExporter ------------------------------
(* Event 3 fills most of an envelope: it cannot go with another. *)
EXTENDS Exporter

MCBytes == [e \in Events |-> IF e = 3 THEN 3 ELSE 1]

=============================================================================
