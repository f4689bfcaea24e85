------------------------------- MODULE Events --------------------------------
(***************************************************************************)
(* fiscal_sefaz::request_builders: the event of each builder.  A document  *)
(* is named by the parts of its access key that matter here: the state of  *)
(* its issuer, the model and the emission type.  The free texts, dates and *)
(* quantities of an event are left out.                                    *)
(***************************************************************************)
EXTENDS Endpoints, Naturals

\* What identifies an event at SEFAZ, and what a cancelling event refers to.
build_event_id(type, key, seq) == [type |-> type, key |-> key, seq |-> seq]

AccessKeyOrgan(key) == get_state_code(key.uf)

\* The author a detEvento names: the organ of the author's state and the
\* kind of author (1 issuer, 2 buyer, 8 successor, 0 not told).
Author(organ, tpAutor) == [organ |-> organ, tpAutor |-> tpAutor]
Unsaid == Author(None, 0)

build_event_xml_with_org(key, type, seq, author, names, override) ==
    [id |-> build_event_id(type, key, seq),
     cOrgao |-> IF override # None THEN override ELSE AccessKeyOrgan(key),
     author |-> author, names |-> names]

build_event_xml(key, type, seq, names) ==
    build_event_xml_with_org(key, type, seq, Unsaid, names, None)

event_of_the_state(key, type, seq, author) ==
    build_event_xml_with_org(key, type, seq, author, None, None)

NationalEvent(key, type, seq, author) ==
    build_event_xml_with_org(key, type, seq, author, None, 91)
-----------------------------------------------------------------------------
build_cancela_request(key, seq) == build_event_xml(key, 110111, seq, None)
build_cce_request(key, seq) == build_event_xml(key, 110110, seq, None)

ManifestationTypes == {210200, 210210, 210220, 210240}

\* The type comes as text: one that is not a number becomes 0.
build_manifesta_request(key, type, seq) ==
    NationalEvent(key, IF type \in Nat THEN type ELSE 0, seq, Unsaid)

build_cancel_substituicao_request(key, ref, seq) ==
    build_event_xml_with_org(key, 110112, seq, Author(AccessKeyOrgan(key), 1), ref, None)

build_ator_interessado_request(key, uf, tpAutor, seq) ==
    NationalEvent(key, 110150, seq, Author(get_state_code(uf), tpAutor))
build_comprovante_entrega_request(key, uf, seq) ==
    NationalEvent(key, 110130, seq, Author(get_state_code(uf), 1))
build_cancel_comprovante_entrega_request(key, uf, seq) ==
    NationalEvent(key, 110131, seq, Author(get_state_code(uf), 1))
build_insucesso_entrega_request(key, uf, seq) ==
    NationalEvent(key, 110192, seq, Author(get_state_code(uf), 0))
build_cancel_insucesso_entrega_request(key, uf, seq) ==
    NationalEvent(key, 110193, seq, Author(get_state_code(uf), 0))

build_prorrogacao_request(key, second, seq) ==
    build_event_xml(key, IF second THEN 111501 ELSE 111500, seq, None)

\* The request it cancels is named by the cancellation's own number.
build_cancel_prorrogacao_request(key, second, seq) ==
    build_event_xml(key, IF second THEN 111503 ELSE 111502, seq,
                    build_event_id(IF second THEN 111501 ELSE 111500, key, seq))

EPEC == 110140
build_epec_request(key) ==
    NationalEvent(key, EPEC, 1, Author(AccessKeyOrgan(key), 1))
build_epec_nfce_request(key) ==
    build_event_xml_with_org(key, EPEC, 1, Author(AccessKeyOrgan(key), 1), None,
                             AccessKeyOrgan(key))

build_conciliacao_request(key, cancel, seq, override) ==
    build_event_xml_with_org(key, IF cancel THEN 110751 ELSE 110750, seq,
                             Unsaid, None, override)

\* A lot has the organ of the state it is sent to; EPEC is not sent in lots.
build_event_batch_request(uf, items) ==
    {[id |-> build_event_id(i.type, i.key, i.seq), cOrgao |-> get_state_code(uf),
      author |-> Unsaid, names |-> None] : i \in {j \in items : j.type # EPEC}}
-----------------------------------------------------------------------------
(* The events of the tax reform.  An unknown state has no organ.           *)
svrs_org_override(uf) == IF uf = "SVRS" THEN 92 ELSE None

RtcEvent(type, tpAutor, key, uf, seq, override) ==
    build_event_xml_with_org(key, type, seq, Author(get_state_code(uf), tpAutor),
                             None, override)

\* The kind of author is each builder's own, but for personal consumption the
\* caller says it, and the cancellation of an event tells none.
build_rtc_info_pagto_integral(k, uf, n, o) == RtcEvent(112110, 1, k, uf, n, o)
build_rtc_importacao_zfm(k, uf, n, o) == RtcEvent(112120, 1, k, uf, n, o)
build_rtc_roubo_perda_fornecedor(k, uf, n, o) == RtcEvent(112130, 1, k, uf, n, o)
build_rtc_fornecimento_nao_realizado(k, uf, n, o) == RtcEvent(112140, 1, k, uf, n, o)
build_rtc_atualizacao_data_entrega(k, uf, n, o) == RtcEvent(112150, 1, k, uf, n, o)
build_rtc_sol_aprop_cred_presumido(k, uf, n, o) == RtcEvent(211110, 2, k, uf, n, o)
build_rtc_destino_consumo_pessoal(k, uf, n, tpAutor, o) ==
    RtcEvent(211120, tpAutor, k, uf, n, o)
build_rtc_roubo_perda_adquirente(k, uf, n, o) == RtcEvent(211124, 2, k, uf, n, o)
build_rtc_aceite_debito(k, uf, n, o) == RtcEvent(211128, 2, k, uf, n, o)
build_rtc_imobilizacao_item(k, uf, n, o) == RtcEvent(211130, 2, k, uf, n, o)
build_rtc_apropriacao_credito_comb(k, uf, n, o) == RtcEvent(211140, 2, k, uf, n, o)
build_rtc_apropriacao_credito_bens(k, uf, n, o) == RtcEvent(211150, 2, k, uf, n, o)
build_rtc_manif_transf_cred_ibs(k, uf, n, o) == RtcEvent(212110, 8, k, uf, n, o)
build_rtc_manif_transf_cred_cbs(k, uf, n, o) == RtcEvent(212120, 8, k, uf, n, o)

\* It names the event it cancels by type and protocol.
build_rtc_cancela_evento(k, uf, n, type, o) ==
    [RtcEvent(110001, 0, k, uf, n, o) EXCEPT !.names = type]
=============================================================================
