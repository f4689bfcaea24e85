------------------------------ MODULE MCEventLot ------------------------------
(* Two cancellations and an EPEC; the lot id of a caller. *)
EXTENDS EventLot, TLC

CONSTANTS k1, k2, k3, lotA

Keys == {k1, k2}
OneCallerId == {lotA}
Cancellations == {[tpEvento |-> EVT_CANCELA, chNFe |-> k, nSeqEvento |-> 1] : k \in Keys}
AnEpec == {[tpEvento |-> EPEC, chNFe |-> k3, nSeqEvento |-> 1]}
Events == Cancellations \cup AnEpec

Symmetry == Permutations(Keys)
=============================================================================
