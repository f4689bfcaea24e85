-------------------------------- MODULE MCLot --------------------------------
(* Lots of two documents that differ in their number. *)
EXTENDS Lot, TLC

CONSTANTS n1, n2, c1, b1

TwoNumbers == {n1, n2}
OneCode == {c1}
OneBody == {b1}

TwoDocs == {sign_xml(generate_xml(n, Normal, c1, b1, FALSE)) : n \in TwoNumbers}

Symmetry == Permutations(TwoNumbers)
=============================================================================
