------------------------------ MODULE Complement ------------------------------
(***************************************************************************)
(* fiscal_core::complement: joining a request with SEFAZ's answer to it.   *)
(* Pure operators.  A response is the sequence of the protNFe (or          *)
(* retEvento) elements found in it, in the order of the text.              *)
(***************************************************************************)
EXTENDS NfeDocument, Sequences

StatusesWithDuplicate ==
    {"100", "150", "110", "205", "301", "302", "303", "204"}

VALID_PROTOCOL_STATUSES == {"100", "150", "110", "205", "301", "302", "303"}
VALID_CANCEL_STATUSES == {"135", "136", "155"}
EVT_CANCELA == "110111"
EVT_CANCELA_SUBSTITUICAO == "110112"

SefazRejection(code) == [kind |-> "SefazRejection", code |-> code]
XmlParsing(what) == [kind |-> "XmlParsing", code |-> what]

\* Positions of seq at which P holds, and the first of a set of positions:
\* what a `for' loop that breaks at the first hit selects.
First(S) == CHOOSE i \in S : \A j \in S : i <= j

(***************************************************************************)
(* attach_protocol.  `nfe' is None when the request holds no <NFe>.        *)
(***************************************************************************)
KeyMatches(nfe, prots) ==
    {i \in DOMAIN prots :
        nfe.signed /\ IsKey(extract_inf_nfe_id(nfe), prots[i].chNFe)}

ExactMatches(nfe, prots) ==
    {i \in DOMAIN prots :
        /\ nfe.signed
        /\ prots[i].digVal = digest_value(nfe)
        /\ IsKey(extract_inf_nfe_id(nfe), prots[i].chNFe)}

nfeProcSwapped(nfe, prot) == [kind |-> "nfeProc", nfe |-> prot, prot |-> nfe, rets |-> <<>>]

nfeProc(nfe, prot) == [kind |-> "nfeProc", nfe |-> nfe, prot |-> prot, rets |-> <<>>]

attach_protocol(nfe, prots) ==
    LET exact == ExactMatches(nfe, prots)
        prot  == prots[First(exact)]
    IN  IF nfe = None THEN XmlParsing("NFe")
        ELSE IF exact # {} THEN
            IF prot.cStat \in VALID_PROTOCOL_STATUSES
            THEN nfeProc(nfe, prot)
            ELSE SefazRejection(prot.cStat)
        ELSE IF prots = <<>> THEN XmlParsing("protNFe")
        ELSE IF \A i \in DOMAIN prots : prots[i].digVal = None
        THEN SefazRejection(prots[1].cStat)
        ELSE XmlParsing("digest")

(***************************************************************************)
(* attach_cancellation: the first retEvento that registers a cancellation  *)
(* of the key in the protocol is appended; without one the document is     *)
(* written back as it was.  Nothing keeps a second call from appending     *)
(* again.                                                                  *)
(***************************************************************************)
IsEventOf(ret, key) ==
    /\ ret.tpEvento \in {EVT_CANCELA, EVT_CANCELA_SUBSTITUICAO}
    /\ ret.chNFe = key

IsCancellationOf(ret, key) ==
    /\ ret.cStat \in VALID_CANCEL_STATUSES
    /\ ret.tpEvento \in {EVT_CANCELA, EVT_CANCELA_SUBSTITUICAO}
    /\ ret.chNFe = key

attach_cancellation(proc, rets) ==
    LET hits == {i \in DOMAIN rets : IsCancellationOf(rets[i], proc.prot.chNFe)}
    IN  IF hits = {} THEN proc
        ELSE [proc EXCEPT !.rets = Append(@, rets[First(hits)])]
=============================================================================
