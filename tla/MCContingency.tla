--------------------------- MODULE MCContingency ----------------------------
(* Justifications for Contingency: every text of up to two tokens, and a   *)
(* few longer ones, some made of the record's own syntax.                  *)
EXTENDS Contingency

Symbols == {"a", "Q", "B", "L", "type"}
EveryToken ==
    Symbols \cup {"S", "timestamp", ",", ":", "2", "EPEC", "OFFLINE"}

Digits == [n \in 0..9 |-> ToString(n)]

SvcAndEpec == {"SvcRs", "Epec"}

Pasted == {
    <<"S", "a", "a", "L">>,
    <<"a", "B", "Q", "B">>,
    <<"a", "Q", "timestamp">>,
    <<"a", "Q", ",", "Q", "type", "Q", ":", "Q", "EPEC">>,
    <<"a", "Q", "type", "Q", "S", ":", "S", "Q", "EPEC">>,
    <<"Q", "timestamp", "Q", ":", "2", ",", "a">>,
    <<"S", "Q", "type", "Q", ":", "Q", "OFFLINE", "Q", "a">>}

ShortReasons == UNION {[1..n -> Symbols] : n \in 1..2} \cup Pasted
=============================================================================
