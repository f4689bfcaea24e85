---------------------------- MODULE EmissionTypes ----------------------------
(* Contingency types and their tpEmis digits.                              *)

EXTENDS Optional

ContingencyType == {"SvcAn", "SvcRs", "Epec", "FsDa", "FsIa", "Offline"}

tp_emis == [SvcAn |-> 6, SvcRs |-> 7, Epec |-> 4,
            FsDa |-> 5, FsIa |-> 2, Offline |-> 9]

Normal == 1
EmissionType == {1, 2, 4, 5, 6, 7, 9}

\* The SVC every state is assigned to, and the contingency types that have
\* a web service of their own.
SvcContingency == {"SvcAn", "SvcRs"}
=============================================================================
