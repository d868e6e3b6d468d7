---------------------------- MODULE MCIncidents ----------------------------
(* Small instances of Incidents for TLC: what the risk engines publish.     *)
EXTENDS Incidents, TLC

CONSTANT c1

Body(customer, account, score) == [customer |-> customer, account |-> account, score |-> score]

OneBody == {Body(c1, None, 50)}

(* A second one of the same identity, which calls for a higher severity. *)
TwoBodies == OneBody \cup {Body(None, c1, 75)}

AnalystSymmetry == Permutations(Analysts)
=============================================================================
