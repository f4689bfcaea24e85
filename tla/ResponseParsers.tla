--------------------------- MODULE ResponseParsers ---------------------------
(***************************************************************************)
(* fiscal_sefaz::response_parsers.  A raw response is its top-level cStat, *)
(* its receipt number, and the protNFe and retEvento elements in it, in    *)
(* the order of the text; what the client's methods return is the part of  *)
(* it that a parser picks.                                                 *)
(***************************************************************************)
EXTENDS Optional, Sequences

RawResponse(cStat, nRec, prots, rets) ==
    [cStat |-> cStat, nRec |-> nRec, prots |-> prots, rets |-> rets]

FirstOnly(seq) == IF seq = <<>> THEN <<>> ELSE <<seq[1]>>

autorizacao_without_protocol(raw) ==
    [status_code |-> IF raw.prots = <<>> THEN raw.cStat ELSE raw.prots[1].cStat,
     nRec |-> raw.nRec, prots |-> <<>>, rets |-> <<>>]

\* AuthorizationResponse: of the protNFe elements only the first is kept,
\* and its cStat hides the one of the response; no event is kept.
parse_autorizacao_response(raw) ==
    [status_code |-> IF raw.prots = <<>> THEN raw.cStat ELSE raw.prots[1].cStat,
     nRec |-> raw.nRec, prots |-> FirstOnly(raw.prots), rets |-> <<>>]

\* CancellationResponse, with the raw response the client adds to it: the
\* status is that of the first event.
parse_cancellation_response(raw) ==
    [status_code |-> IF raw.rets = <<>> THEN raw.cStat ELSE raw.rets[1].cStat,
     nRec |-> None, prots |-> raw.prots, rets |-> raw.rets]

recibo_first_only(raw) ==
    [status_code |-> raw.cStat, nRec |-> raw.nRec,
     prots |-> FirstOnly(raw.prots), rets |-> <<>>]

\* ConsultaReciboResponse: every protNFe, in its place.  (One without cStat
\* would be skipped; cStat is mandatory in a protNFe.)
parse_consulta_recibo_response(raw) ==
    [status_code |-> raw.cStat, nRec |-> raw.nRec,
     prots |-> raw.prots, rets |-> <<>>]

situacao_without_events(raw) ==
    [status_code |-> raw.cStat, nRec |-> None,
     prots |-> FirstOnly(raw.prots), rets |-> <<>>]

\* ConsultaSituacaoResponse: the protocol and all events.
parse_consulta_situacao_response(raw) ==
    [status_code |-> raw.cStat, nRec |-> None,
     prots |-> FirstOnly(raw.prots), rets |-> raw.rets]
=============================================================================
