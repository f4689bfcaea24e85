------------------------------- MODULE Routing -------------------------------
(***************************************************************************)
(* fiscal_sefaz::client: every method of SefazClient, the endpoint it      *)
(* posts to and what it posts, against authorities that hold documents.    *)
(* A document is its key and the environment it was built for; an          *)
(* authority takes documents of the environment it serves.  One call is    *)
(* under way at a time: the methods share no state.                        *)
(***************************************************************************)
EXTENDS Events, FiniteSets

CONSTANTS Issuers,      \* the states issuers are in
          Supplier,     \* the state of the issuer of a received document
          MaxHeld       \* bound: documents registered

ASSUME RoutingAssumption == Issuers \subseteq UF /\ Supplier \in UF /\ MaxHeld \in Nat
ASSUME NoneIsNoValue == None \notin {"async", "SVCAN", "SVCRS"} /\ None # 91

VARIABLES uf,        \* the state of the issuer that runs the application
          held,      \* documents registered: where, by which authority
          receipts,  \* lots taken: by which authority, with which documents
          known,     \* documents the application knows to be registered
          wire       \* the call under way: a request, a failure or None
vars == <<uf, held, receipts, known, wire>>

Normal == 1
Svc == 6

Key(state, model, tpEmis) == [uf |-> state, model |-> model, tpEmis |-> tpEmis]
OwnKeys == {Key(uf, 55, Normal), Key(uf, 55, Svc), Key(uf, 65, Normal)}
Received == Key(Supplier, 55, Normal)
Document(key, env) == [key |-> key, env |-> env]
OwnDocuments(model) ==
    {Document(k, env) : k \in {o \in OwnKeys : o.model = model}, env \in SefazEnvironment}

\* What a request says: its tpAmb, the documents it is about, its lot and
\* its events.
Body(tpAmb, keys, nRec, events) ==
    [tpAmb |-> tpAmb, keys |-> keys, nRec |-> nRec, events |-> events]
EventBody(env, event) == Body(env, {event.id.key}, None, {event})

build_status_request(env) == Body(env, {}, None, {})
build_autorizacao_request(doc) == Body(doc.env, {doc.key}, None, {})
\* Documents in a lot are answered by a receipt.
build_autorizacao_batch_request(env, keys) == Body(env, keys, "async", {})
build_consulta_request(key, env) == Body(env, {key}, None, {})
build_consulta_recibo_request(receipt) == Body(receipt.env, {}, receipt, {})
build_inutilizacao_request(env) == Body(env, {}, None, {})
build_dist_dfe_request(env, keys) == Body(env, keys, None, {})
\* The only request that does not tell its environment.
build_cadastro_request == Body(None, {}, None, {})
build_epec_nfce_status_request(env) == Body(env, {}, None, {})
build_csc_request(env) == Body(env, {}, None, {})

Failed(op, error) == [op |-> op, error |-> error]
-----------------------------------------------------------------------------
(* SefazClient: from the address to the request on the wire.  The envelope *)
(* needs the code of a state; the four kinds of it wrap the same request.  *)
InEnvelope(op, service, url, state, body, wrap) ==
    IF url \in Failure THEN Failed(op, url)
    ELSE IF get_state_code(state) = None THEN Failed(op, InvalidStateCode)
    ELSE [op |-> op, service |-> service, at |-> url.at, env |-> url.env,
          wrap |-> wrap, body |-> body]
IsPosted(w) == w # None /\ "at" \in DOMAIN w

build_envelope(op, service, url, state, body) ==
    InEnvelope(op, service, url, state, body, "nfeDadosMsg")
build_envelope_compressed(op, service, url, state, body) ==
    InEnvelope(op, service, url, state, body, "nfeDadosMsgZip")
build_envelope_with_header(op, service, url, state, body) ==
    InEnvelope(op, service, url, state, body, "nfeCabecMsg")
build_envelope_dist_dfe(op, service, url, state, body) ==
    InEnvelope(op, service, url, state, body, "nfeDistDFeInteresse")

send_to_url(op, service, url, state, body) ==
    build_envelope(op, service, url, state, body)

ModelUrl(service, state, env, model) ==
    get_sefaz_url_for_model(state, env, SefazService[service].url_key, model)

send_model(op, service, state, env, body, model) ==
    send_to_url(op, service, ModelUrl(service, state, env, model), state, body)

send_model_compressed(op, service, state, env, body, model) ==
    build_envelope_compressed(op, service, ModelUrl(service, state, env, model), state, body)

send_as_nfce(op, service, state, env, body) ==
    send_model(op, service, state, env, body, 65)

send(op, service, state, env, body) == send_model(op, service, state, env, body, 55)

send_an(op, service, env, body) ==
    build_envelope(op, service, get_an_url(env, SefazService[service].url_key), "AN", body)

send_cadastro_raw(state, env, body) ==
    build_envelope_with_header("cadastro", "ConsultaCadastro",
        ModelUrl("ConsultaCadastro", state, env, 55), state, body)

dist_dfe_to_consulta(op, env, body) ==
    build_envelope_dist_dfe(op, "ConsultaProtocolo",
        get_an_url(env, SefazService.ConsultaProtocolo.url_key), "AN", body)

send_dist_dfe_raw(op, env, body) ==
    build_envelope_dist_dfe(op, "DistribuicaoDFe",
        get_an_url(env, SefazService.DistribuicaoDFe.url_key), "AN", body)

\* A request of an application with nothing under way, and its end.
Call(w) == /\ wire = None
           /\ wire' = w
           /\ UNCHANGED <<uf, held, receipts, known>>

SendEvent(op, state, env, event) ==
    Call(send(op, "RecepcaoEvento", state, env, EventBody(env, event)))
SendNationalEvent(op, env, event) ==
    Call(send_an(op, "RecepcaoEvento", env, EventBody(env, event)))
-----------------------------------------------------------------------------
(* client/authorize.rs *)
status(env) == Call(send("status", "StatusServico", uf, env, build_status_request(env)))

authorize_opts(op, doc, env, compress, model) ==
    LET body == build_autorizacao_request(doc)
    IN  Call(IF compress
             THEN send_model_compressed(op, "Autorizacao", uf, env, body, model)
             ELSE send_model(op, "Autorizacao", uf, env, body, model))
authorize(doc, env) == authorize_opts("authorize", doc, env, FALSE, 55)
authorize_compressed(doc, env) == authorize_opts("authorize", doc, env, TRUE, 55)
authorize_nfce(doc, env) == authorize_opts("authorize_nfce", doc, env, FALSE, 65)
authorize_nfce_compressed(doc, env) == authorize_opts("authorize_nfce", doc, env, TRUE, 65)

authorize_batch_opts(op, env, keys, compress, model) ==
    LET body == build_autorizacao_batch_request(env, keys)
    IN  Call(IF Cardinality(keys) \notin 1..50 THEN Failed(op, InvalidTaxData)
             ELSE IF compress
             THEN send_model_compressed(op, "Autorizacao", uf, env, body, model)
             ELSE send_model(op, "Autorizacao", uf, env, body, model))
authorize_batch(env, keys) == authorize_batch_opts("authorize_batch", env, keys, FALSE, 55)
authorize_batch_compressed(env, keys) ==
    authorize_batch_opts("authorize_batch", env, keys, TRUE, 55)
authorize_batch_nfce(env, keys) ==
    authorize_batch_opts("authorize_batch_nfce", env, keys, FALSE, 65)

\* To the virtual authorizer; the envelope has the issuer's state all the same.
authorize_contingency(doc, env) ==
    Call(send_to_url("authorize_contingency", "Autorizacao",
             get_sefaz_contingency_url(uf, env, SefazService.Autorizacao.url_key),
             uf, build_autorizacao_request(doc)))

\* The receipt of a lot does not tell of which model it is.
consult_receipt(r) ==
    Call(send("consult_receipt", "RetAutorizacao", uf, r.env,
              build_consulta_recibo_request(r)))

consult(key, env) ==
    Call(send("consult", "ConsultaProtocolo", uf, env, build_consulta_request(key, env)))

\* The environment is the document's own.
sefaz_validate(doc) ==
    Call(send("sefaz_validate", "ConsultaProtocolo", uf, doc.env,
              build_consulta_request(doc.key, doc.env)))
-----------------------------------------------------------------------------
(* client/events.rs *)
cancel(doc) == SendEvent("cancel", uf, doc.env, build_cancela_request(doc.key, 1))
cce(doc) == SendEvent("cce", uf, doc.env, build_cce_request(doc.key, 1))
inutilize(env) ==
    Call(send("inutilize", "Inutilizacao", uf, env, build_inutilizacao_request(env)))
manifest(key, env, type) ==
    SendNationalEvent("manifest", env, build_manifesta_request(key, type, 1))
dist_dfe(env) ==
    Call(send_dist_dfe_raw("dist_dfe", env, build_dist_dfe_request(env, {})))
download(key, env) ==
    Call(send_dist_dfe_raw("download", env, build_dist_dfe_request(env, {key})))
cadastro(env) == Call(send_cadastro_raw(uf, env, build_cadastro_request))
epec(key, env) == SendNationalEvent("epec", env, build_epec_request(key))
epec_nfce_status(env) ==
    Call(send_model("epec_nfce_status", "EpecNfceStatusServico", uf, env,
                    build_epec_nfce_status_request(env), 65))
epec_nfce(key, env) ==
    Call(send_model("epec_nfce", "RecepcaoEpecNfce", uf, env,
                    EventBody(env, build_epec_nfce_request(key)), 65))
cancel_substituicao(doc, ref) ==
    Call(send_model("cancel_substituicao", "RecepcaoEvento", uf, doc.env,
            EventBody(doc.env, build_cancel_substituicao_request(doc.key, ref, 1)), 65))
csc(env) == Call(send_model("csc", "CscNFCe", uf, env, build_csc_request(env), 65))

lot_to(op, state, env, items) ==
    LET body == Body(env, {i.key : i \in items}, None,
                     build_event_batch_request(state, items))
    IN  Call(IF state = "AN" THEN send_an(op, "RecepcaoEvento", env, body)
             ELSE send(op, "RecepcaoEvento", state, env, body))
event_batch(env, items) == lot_to("event_batch", uf, env, items)
manifest_batch(env, items) == lot_to("manifest_batch", "AN", env, items)

conciliacao(doc, undo) ==
    LET effective_uf == IF doc.key.model = 55 THEN "SVRS" ELSE uf
    IN  SendEvent("conciliacao", effective_uf, doc.env,
            build_conciliacao_request(doc.key, undo, 1, svrs_org_override(effective_uf)))
-----------------------------------------------------------------------------
(* client/delivery.rs *)
ator_interessado(doc) == SendNationalEvent("ator_interessado", doc.env,
    build_ator_interessado_request(doc.key, uf, 1, 1))
comprovante_entrega(doc) == SendNationalEvent("comprovante_entrega", doc.env,
    build_comprovante_entrega_request(doc.key, uf, 1))
cancel_comprovante_entrega(doc) == SendNationalEvent("cancel_comprovante_entrega", doc.env,
    build_cancel_comprovante_entrega_request(doc.key, uf, 1))
insucesso_entrega(doc) == SendNationalEvent("insucesso_entrega", doc.env,
    build_insucesso_entrega_request(doc.key, uf, 1))
cancel_insucesso_entrega(doc) == SendNationalEvent("cancel_insucesso_entrega", doc.env,
    build_cancel_insucesso_entrega_request(doc.key, uf, 1))
prorrogacao(doc, second) == SendEvent("prorrogacao", uf, doc.env,
    build_prorrogacao_request(doc.key, second, 1))
cancel_prorrogacao(doc, second) == SendEvent("cancel_prorrogacao", uf, doc.env,
    build_cancel_prorrogacao_request(doc.key, second, 1))
-----------------------------------------------------------------------------
(* client/rtc.rs.  at is the state the caller names: its own, or "SVRS".   *)
send_rtc_event(op, at, doc, event) == SendEvent(op, at, doc.env, event)
Org(at) == svrs_org_override(at)

rtc_info_pagto_integral(d, at) == send_rtc_event("rtc_info_pagto_integral", at, d,
    build_rtc_info_pagto_integral(d.key, at, 1, Org(at)))
rtc_importacao_zfm(d, at) == send_rtc_event("rtc_importacao_zfm", at, d,
    build_rtc_importacao_zfm(d.key, at, 1, Org(at)))
rtc_roubo_perda_fornecedor(d, at) == send_rtc_event("rtc_roubo_perda_fornecedor", at, d,
    build_rtc_roubo_perda_fornecedor(d.key, at, 1, Org(at)))
rtc_fornecimento_nao_realizado(d, at) ==
    send_rtc_event("rtc_fornecimento_nao_realizado", at, d,
        build_rtc_fornecimento_nao_realizado(d.key, at, 1, Org(at)))
rtc_atualizacao_data_entrega(d, at) ==
    send_rtc_event("rtc_atualizacao_data_entrega", at, d,
        build_rtc_atualizacao_data_entrega(d.key, at, 1, Org(at)))
rtc_cancela_evento(d, at) == send_rtc_event("rtc_cancela_evento", at, d,
    build_rtc_cancela_evento(d.key, at, 1, 112110, Org(at)))
rtc_sol_aprop_cred_presumido(d, at) ==
    send_rtc_event("rtc_sol_aprop_cred_presumido", at, d,
        build_rtc_sol_aprop_cred_presumido(d.key, at, 1, Org(at)))
rtc_destino_consumo_pessoal(d, at, tpAutor) ==
    send_rtc_event("rtc_destino_consumo_pessoal", at, d,
        build_rtc_destino_consumo_pessoal(d.key, at, 1, tpAutor, Org(at)))
rtc_roubo_perda_adquirente(d, at) == send_rtc_event("rtc_roubo_perda_adquirente", at, d,
    build_rtc_roubo_perda_adquirente(d.key, at, 1, Org(at)))
rtc_aceite_debito(d, at) == send_rtc_event("rtc_aceite_debito", at, d,
    build_rtc_aceite_debito(d.key, at, 1, Org(at)))
rtc_imobilizacao_item(d, at) == send_rtc_event("rtc_imobilizacao_item", at, d,
    build_rtc_imobilizacao_item(d.key, at, 1, Org(at)))
rtc_apropriacao_credito_comb(d, at) ==
    send_rtc_event("rtc_apropriacao_credito_comb", at, d,
        build_rtc_apropriacao_credito_comb(d.key, at, 1, Org(at)))
rtc_apropriacao_credito_bens(d, at) ==
    send_rtc_event("rtc_apropriacao_credito_bens", at, d,
        build_rtc_apropriacao_credito_bens(d.key, at, 1, Org(at)))
rtc_manif_transf_cred_ibs(d, at) == send_rtc_event("rtc_manif_transf_cred_ibs", at, d,
    build_rtc_manif_transf_cred_ibs(d.key, at, 1, Org(at)))
rtc_manif_transf_cred_cbs(d, at) == send_rtc_event("rtc_manif_transf_cred_cbs", at, d,
    build_rtc_manif_transf_cred_cbs(d.key, at, 1, Org(at)))
-----------------------------------------------------------------------------
(* The authorities.  One holds what it registered; a virtual contingency   *)
(* authorizer passes what it registered to the issuer's own.               *)
Receipt(at, env, keys) == [at |-> at, env |-> env, keys |-> keys]
Holding(at, doc) == [at |-> at, key |-> doc.key, env |-> doc.env]
HeldBy(at, key, env) == Holding(at, Document(key, env)) \in held

Register(docs) == held' = held \cup {Holding(wire.at, d) : d \in docs}
Tell(docs) == \/ known' = known \cup docs
              \/ known' = known      \* the answer is lost, or refuses

\* An authority registers documents of the environment it serves.
AnswerAutorizacao ==
    LET docs == {Document(k, wire.env) : k \in wire.body.keys}
    IN  IF wire.body.tpAmb # wire.env \/ Cardinality(held) >= MaxHeld
        THEN UNCHANGED <<held, receipts, known>>
        ELSE /\ Register(docs)
             /\ IF wire.body.nRec = "async"
                THEN /\ receipts' \in {receipts, receipts \cup
                            {Receipt(wire.at, wire.env, wire.body.keys)}}
                     /\ known' = known
                ELSE Tell(docs) /\ receipts' = receipts

AnswerRetAutorizacao ==
    /\ Tell(IF wire.body.nRec.at # wire.at THEN {}
            ELSE {Document(k, wire.env) : k \in wire.body.nRec.keys})
    /\ UNCHANGED <<held, receipts>>

AnswerConsulta ==
    /\ Tell({Document(k, wire.env) :
                k \in {j \in wire.body.keys : HeldBy(wire.at, j, wire.env)}})
    /\ UNCHANGED <<held, receipts>>

Answer ==
    /\ IsPosted(wire)
    /\ CASE wire.service = "Autorizacao" -> AnswerAutorizacao
         [] wire.service = "RetAutorizacao" -> AnswerRetAutorizacao
         [] wire.service = "ConsultaProtocolo" -> AnswerConsulta
         [] OTHER -> UNCHANGED <<held, receipts, known>>
    /\ wire' = None
    /\ UNCHANGED uf

\* A call that failed, or whose request was lost, is over.
NoAnswer == /\ wire # None
            /\ wire' = None
            /\ UNCHANGED <<uf, held, receipts, known>>

HomeAuthorizer(model) ==
    IF model = 65 THEN get_state_nfce_authorizer(uf) ELSE get_state_authorizer(uf)
Home(model, env) == HomeAuthorizer(model)[env].NfeAutorizacao.at

Transfer == \E h \in held :
    /\ h.key.tpEmis = Svc
    /\ held' = held \cup {Holding(Home(55, h.env), h)}
    /\ UNCHANGED <<uf, receipts, known, wire>>
-----------------------------------------------------------------------------
Init == /\ uf \in Issuers
        /\ held = {} /\ receipts = {} /\ known = {}
        /\ wire = None

Authorization == \E env, e \in SefazEnvironment :
    LET nfe == Key(uf, 55, Normal) nfce == Key(uf, 65, Normal)
    IN  \/ status(env)
        \/ authorize(Document(nfe, e), env)
        \/ authorize_compressed(Document(nfe, e), env)
        \/ authorize_nfce(Document(nfce, e), env)
        \/ authorize_nfce_compressed(Document(nfce, e), env)
        \/ \E keys \in {{}, {nfe}} :
             authorize_batch(env, keys) \/ authorize_batch_compressed(env, keys)
        \/ authorize_batch_nfce(env, {nfce})
        \/ authorize_contingency(Document(Key(uf, 55, Svc), e), env)
        \/ \E key \in OwnKeys : consult(key, env)
        \/ \E r \in receipts : consult_receipt(r)
        \/ \E doc \in known : sefaz_validate(doc)

OfTheEnvironment == \E env \in SefazEnvironment :
    \/ inutilize(env)
    \/ \E type \in ManifestationTypes :
         \/ manifest(Received, env, type)
         \/ manifest_batch(env, {[type |-> type, key |-> Received, seq |-> 1]})
    \/ dist_dfe(env)
    \/ download(Received, env)
    \/ cadastro(env)
    \/ epec(Key(uf, 55, Normal), env)
    \/ epec_nfce_status(env)
    \/ epec_nfce(Key(uf, 65, Normal), env)
    \/ csc(env)

OfAnIssuedDocument == \E doc \in known :
    \/ cancel(doc)
    \/ cce(doc)
    \/ doc.key.model = 65 /\ cancel_substituicao(doc, doc.key)
    \/ event_batch(doc.env, {[type |-> t, key |-> doc.key, seq |-> 1] : t \in {110110, EPEC}})
    \/ \E undo \in BOOLEAN : conciliacao(doc, undo)
    \/ ator_interessado(doc)
    \/ comprovante_entrega(doc)
    \/ cancel_comprovante_entrega(doc)
    \/ insucesso_entrega(doc)
    \/ cancel_insucesso_entrega(doc)
    \/ \E second \in BOOLEAN : prorrogacao(doc, second) \/ cancel_prorrogacao(doc, second)
    \/ \E at \in {uf, "SVRS"} :
         \/ rtc_info_pagto_integral(doc, at)
         \/ rtc_importacao_zfm(doc, at)
         \/ rtc_roubo_perda_fornecedor(doc, at)
         \/ rtc_fornecimento_nao_realizado(doc, at)
         \/ rtc_atualizacao_data_entrega(doc, at)
         \/ rtc_cancela_evento(doc, at)

OfAReceivedDocument == \E env \in SefazEnvironment, at \in {uf, "SVRS"} :
    LET doc == Document(Received, env)
    IN  \/ rtc_sol_aprop_cred_presumido(doc, at)
        \/ rtc_destino_consumo_pessoal(doc, at, 2)
        \/ rtc_roubo_perda_adquirente(doc, at)
        \/ rtc_aceite_debito(doc, at)
        \/ rtc_imobilizacao_item(doc, at)
        \/ rtc_apropriacao_credito_comb(doc, at)
        \/ rtc_apropriacao_credito_bens(doc, at)
        \/ rtc_manif_transf_cred_ibs(doc, at)
        \/ rtc_manif_transf_cred_cbs(doc, at)

Next == \/ Authorization
        \/ OfTheEnvironment
        \/ OfAnIssuedDocument
        \/ OfAReceivedDocument
        \/ Answer
        \/ NoAnswer
        \/ Transfer

Spec == Init /\ [][Next]_vars
-----------------------------------------------------------------------------
TypeOK ==
    /\ uf \in Issuers
    /\ \A h \in held : h.key \in OwnKeys /\ h.env \in SefazEnvironment
    /\ \A r \in receipts : r.keys \subseteq OwnKeys /\ r.env \in SefazEnvironment
    /\ \A d \in known : d.key \in OwnKeys /\ d.env \in SefazEnvironment
    /\ IsPosted(wire) => /\ wire.at # "nowhere"
                         /\ wire.service \in DOMAIN SefazService

\* The states an authority answers for: its own, or those it stands in for.
Jurisdiction(at, model) ==
    {s \in UF : (IF model = 65 THEN get_state_nfce_authorizer(s)
                 ELSE get_state_authorizer(s)).production.NfeAutorizacao.at = at}

\* cOrgao of an event and the address it is posted to are decided in different
\* functions: the Ambiente Nacional gets the events that name it (91), a state's
\* authority those that name a state it answers for.  (Events of a buyer about a
\* document of another state are told apart below.)
OrgaoServed ==
    IsPosted(wire) => \A e \in wire.body.events :
        IF wire.at = "AN" THEN e.cOrgao = 91
        ELSE e.id.key.uf = uf =>
             \E s \in Jurisdiction(wire.at, 55) \cup Jurisdiction(wire.at, 65) :
                 get_state_code(s) = e.cOrgao

\* A request that tells its environment is posted to an endpoint of it, but for
\* a document built for the other environment.  A key does not tell the
\* environment: all the same, the application takes a document for registered
\* only in the environment in which an authority holds it.
EnvironmentKept ==
    /\ IsPosted(wire) => \/ wire.body.tpAmb \in {None, wire.env}
                         \/ wire.service = "Autorizacao"
    /\ \A d \in known : \E h \in held : h.key = d.key /\ h.env = d.env

\* Whatever was lost on the way, what the application asks about a document of
\* model 55 that its authority holds (from the start, or passed on by the virtual
\* authorizer), and the cancellation by substitution of an NFC-e, reach an
\* authority that holds it; and the receipt of a lot of model 55 is asked where
\* it was given.
FollowUps == {"consult", "sefaz_validate", "cancel", "cce", "prorrogacao",
              "cancel_prorrogacao", "event_batch", "cancel_substituicao",
              "conciliacao"}
MissesItsDocument(k) ==
    HeldBy(Home(k.model, wire.env), k, wire.env) /\ ~HeldBy(wire.at, k, wire.env)
AskedWhereHeld ==
    IsPosted(wire) =>
        /\ wire.op \in FollowUps => \A k \in wire.body.keys :
              \/ k.model = 65 /\ wire.op # "cancel_substituicao"
              \/ ~MissesItsDocument(k)
        /\ wire.op = "consult_receipt" =>
              \/ \E k \in wire.body.nRec.keys : k.model = 65
              \/ wire.body.nRec.at = wire.at

\* The authority of the contingency is another one than that of the state, for
\* when the state's is down, and the one the emission type on the document names.
ContingencyElsewhere ==
    IsPosted(wire) /\ wire.op = "authorize_contingency" =>
        /\ wire.at # Home(55, wire.env)
        /\ (wire.at = SVCRS[wire.env].NfeAutorizacao.at)
              <=> (contingency_for_state(uf) = "SvcRs")

\* "For NF-e (model 55) the event is sent to SVRS": the reconciliation of a
\* document is sent, and not refused before it leaves.
ConciliacaoIsSent ==
    wire # None /\ wire.op = "conciliacao" => IsPosted(wire)
=============================================================================
