----------------------------- MODULE MCIssuance ------------------------------
(* Model values for Issuance. *)
EXTENDS Issuance, TLC

CONSTANTS n1, c1, c2, b1, b2, t1, t2

OneNumber == {n1}
TwoCodes == {c1, c2}
OneCode == {c1}
TwoBodies == {b1, b2}
OneBody == {b1}
OneTask == {t1}
TwoTasks == {t1, t2}

NormalAndSvc == {Normal, tp_emis[SvcType]}
NormalOnly == {Normal}
SvcOnly == {tp_emis[SvcType]}

Symmetry == Permutations(TwoBodies) \cup Permutations(TwoTasks)
=============================================================================
