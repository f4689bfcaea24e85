--------------------------- MODULE Routing_proofs ----------------------------
(***************************************************************************)
(* Proofs about Routing: where a request of the client goes, for every     *)
(* state of the issuer, any number of documents held, and any order of     *)
(* calls and losses.                                                       *)
(***************************************************************************)
EXTENDS Routing, TLAPS

\* The authority a state's requests go to, by model.
At(model, state) ==
    (IF model = 65 THEN get_state_nfce_authorizer(state)
     ELSE get_state_authorizer(state)).production.NfeAutorizacao.at

\* A table whose endpoints, but for the taxpayer register, are all of one
\* authority and of the environment they stand under.
TableOf(table, at) ==
    \A env \in SefazEnvironment :
        /\ Mandatory \subseteq DOMAIN table[env]
        /\ \A key \in DOMAIN table[env] \ {Cadastro} :
              table[env][key] = Endpoint(at, env, key)

-----------------------------------------------------------------------------
(* The tables. *)

\* A table of an authorizer is of that authority.
LEMMA TableIsOne ==
    ASSUME NEW at, NEW keys, Mandatory \subseteq keys
    PROVE  TableOf(AuthorizerServices(at, keys), at)
  BY DEF TableOf, AuthorizerServices

\* A taxpayer register that stands elsewhere leaves the rest as it is.
LEMMA RegisterElsewhere ==
    ASSUME NEW at, NEW keys, Mandatory \subseteq keys, NEW url,
           SefazEnvironment \subseteq DOMAIN url
    PROVE  TableOf(WithCadastro(AuthorizerServices(at, keys), url), at)
  BY DEF TableOf, AuthorizerServices, WithCadastro

\* The authority of each state, for model 55.
LEMMA StateTable ==
    ASSUME NEW state \in UF
    PROVE  \E at : /\ TableOf(get_state_authorizer(state), at)
                   /\ at = IF state = "MA" THEN "SVAN"
                           ELSE IF state \in DOMAIN OwnAuthorizers THEN state ELSE "SVRS"
  <1>1. CASE state \in DOMAIN OwnAuthorizers \ {"MA", "RS"}
    <2>1. \E keys : Mandatory \subseteq keys /\ OwnAuthorizers[state] = AuthorizerServices(state, keys)
      BY <1>1 DEF OwnAuthorizers, AM, BA, GO, MG, MS, MT, PE, PR, SP
    <2> QED BY <1>1, <2>1, TableIsOne DEF get_state_authorizer
  <1>2. CASE state = "MA"
    <2>1. get_state_authorizer(state) = AuthorizerServices("SVAN", Mandatory)
      BY <1>2 DEF get_state_authorizer, OwnAuthorizers, SVAN
    <2> QED BY <1>2, <2>1, TableIsOne
  <1>3. CASE state = "RS"
    <2>1. get_state_authorizer(state) = RS /\ "RS" \in DOMAIN OwnAuthorizers
      BY <1>3 DEF get_state_authorizer, OwnAuthorizers
    <2>2. TableOf(RS, "RS")
      BY RegisterElsewhere DEF RS
    <2> QED BY <1>3, <2>1, <2>2
  <1>4. CASE state \notin DOMAIN OwnAuthorizers
    <2>1. get_state_authorizer(state) = SVRS
      BY <1>4 DEF get_state_authorizer, VirtualStates
    <2>2. TableOf(SVRS, "SVRS")
      BY TableIsOne DEF SVRS
    <2>3. state # "MA"
      BY <1>4 DEF OwnAuthorizers
    <2> QED BY <1>4, <2>1, <2>2, <2>3
  <1> QED BY <1>1, <1>2, <1>3, <1>4

\* The authority of each state, for model 65.
LEMMA NfceTable ==
    ASSUME NEW state \in UF
    PROVE  \E at : TableOf(get_state_nfce_authorizer(state), at) /\ at \notin {"nowhere", "AN"}
  <1>1. \E at, keys : /\ Mandatory \subseteq keys /\ at \notin {"nowhere", "AN"}
                      /\ get_state_nfce_authorizer(state) = AuthorizerServices(at, keys)
    <2>1. CASE state \in DOMAIN NfceAuthorizers
      BY <2>1 DEF get_state_nfce_authorizer, NfceAuthorizers, AM_NFCE, GO_NFCE, MG_NFCE,
                  MS_NFCE, MT_NFCE, RS_NFCE, SP_NFCE, PR_NFCE
    <2>2. CASE state \notin DOMAIN NfceAuthorizers
      BY <2>2 DEF get_state_nfce_authorizer, SVRS_NFCE
    <2> QED BY <2>1, <2>2
  <1> QED BY <1>1, TableIsOne

\* The table of a state is of the authority that At names, which is not the
\* Ambiente Nacional; SVRS and AN are no states.
LEMMA TableOfState ==
    ASSUME NEW state \in UF, NEW model
    PROVE  /\ TableOf(IF model = 65 THEN get_state_nfce_authorizer(state)
                      ELSE get_state_authorizer(state), At(model, state))
           /\ At(model, state) \notin {"nowhere", "AN"}
  <1> DEFINE table == IF model = 65 THEN get_state_nfce_authorizer(state)
                      ELSE get_state_authorizer(state)
  <1>1. PICK at : TableOf(table, at) /\ at \notin {"nowhere", "AN"}
    <2>1. state \notin {"nowhere", "AN"}
      BY DEF UF, STATE_IBGE_CODES
    <2> QED BY <2>1, StateTable, NfceTable
  <1>2. table.production.NfeAutorizacao = Endpoint(at, "production", "NfeAutorizacao")
    <2> HIDE DEF table
    <2> QED BY <1>1 DEF TableOf, SefazEnvironment, Mandatory, Cadastro
  <1>3. At(model, state) = at
    BY <1>2 DEF At, Endpoint
  <1> QED BY <1>1, <1>3

\* What is no state has no table: SVRS and AN are refused before the address.
LEMMA NoState ==
    ASSUME NEW state, state \notin UF
    PROVE  get_state_authorizer(state) = None /\ get_state_nfce_authorizer(state) = None
  BY DEF get_state_authorizer, get_state_nfce_authorizer, UF, VirtualStates,
         OwnAuthorizers, NfceAuthorizers, STATE_IBGE_CODES

\* Where Home is.
LEMMA HomeIsAt ==
    ASSUME NEW model, NEW env \in SefazEnvironment, uf \in UF
    PROVE  Home(model, env) = At(model, uf)
  <1> DEFINE table == HomeAuthorizer(model)
  <1>1. TableOf(table, At(model, uf))
    BY TableOfState DEF HomeAuthorizer
  <1>2. table[env].NfeAutorizacao = Endpoint(At(model, uf), env, "NfeAutorizacao")
    <2> HIDE DEF table
    <2> QED BY <1>1 DEF TableOf, Mandatory, Cadastro
  <1> QED BY <1>2 DEF Home, Endpoint
-----------------------------------------------------------------------------
(* What is posted, by the way it is sent. *)

\* A call that is posted has an address, and says what it was told to.
LEMMA Enveloped ==
    ASSUME NEW op, NEW service, NEW url, NEW state, NEW body, NEW wrap,
           IsPosted(InEnvelope(op, service, url, state, body, wrap))
    PROVE  LET w == InEnvelope(op, service, url, state, body, wrap)
           IN  /\ url \notin Failure
               /\ w.op = op /\ w.service = service /\ w.body = body
               /\ w.at = url.at /\ w.env = url.env
  <1>1. \A error : "at" \notin DOMAIN Failed(op, error)
    BY DEF Failed
  <1> QED BY <1>1 DEF InEnvelope, IsPosted

\* A service of a table has the table's authority and the environment asked for.
LEMMA Resolved ==
    ASSUME NEW table, NEW at, TableOf(table, at), NEW env \in SefazEnvironment,
           NEW key, key # Cadastro, Resolve(table, key, env) \notin Failure
    PROVE  Resolve(table, key, env) = Endpoint(at, env, key)
  BY DEF Resolve, get_url, TableOf, Failure

\* To an authority of a state.
LEMMA PostedToState ==
    ASSUME NEW op, NEW service, NEW state, NEW env \in SefazEnvironment, NEW body,
           NEW model, NEW wrap, SefazService[service].url_key # Cadastro,
           IsPosted(InEnvelope(op, service, ModelUrl(service, state, env, model), state, body, wrap))
    PROVE  LET w == InEnvelope(op, service, ModelUrl(service, state, env, model), state, body, wrap)
           IN  /\ w.op = op /\ w.service = service /\ w.body = body /\ w.env = env
               /\ state \in UF /\ w.at = At(model, state) /\ w.at \notin {"nowhere", "AN"}
  <1> DEFINE url == ModelUrl(service, state, env, model)
             w == InEnvelope(op, service, url, state, body, wrap)
             table == IF model = 65 THEN get_state_nfce_authorizer(state)
                      ELSE get_state_authorizer(state)
             key == SefazService[service].url_key
  <1>1. url = Resolve(table, key, env)
    BY DEF ModelUrl, get_sefaz_url_for_model
  <1> HIDE DEF url
  <1>2. /\ url \notin Failure
        /\ w.op = op /\ w.service = service /\ w.body = body
        /\ w.at = url.at /\ w.env = url.env
    BY Enveloped DEF url
  <1>3. state \in UF
    BY <1>1, <1>2, NoState DEF Resolve, Failure
  <1>4. TableOf(table, At(model, state)) /\ At(model, state) \notin {"nowhere", "AN"}
    BY <1>3, TableOfState
  <1>5. url = Endpoint(At(model, state), env, key)
    <2> HIDE DEF table, key
    <2> QED BY <1>1, <1>2, <1>4, Resolved DEF key
  <1> QED BY <1>2, <1>3, <1>4, <1>5 DEF url, Endpoint

\* To the Ambiente Nacional.
LEMMA PostedToAN ==
    ASSUME NEW op, NEW service, NEW env \in SefazEnvironment, NEW body, NEW wrap,
           NEW key \in {"RecepcaoEvento", "NfeDistribuicaoDFe"},
           IsPosted(InEnvelope(op, service, get_an_url(env, key), "AN", body, wrap))
    PROVE  LET w == InEnvelope(op, service, get_an_url(env, key), "AN", body, wrap)
           IN  /\ w.op = op /\ w.service = service /\ w.body = body /\ w.env = env
               /\ w.at = "AN"
  <1> DEFINE url == get_an_url(env, key)
  <1>1. key \in DOMAIN AN[env] /\ AN[env][key] = Endpoint("AN", env, key)
    BY DEF AN, Mandatory
  <1>2. url \notin Failure => url = Endpoint("AN", env, key)
    BY <1>1 DEF get_an_url, Resolve, get_url, Failure
  <1> HIDE DEF url
  <1>3. LET w == InEnvelope(op, service, url, "AN", body, wrap)
        IN  /\ url \notin Failure
            /\ w.op = op /\ w.service = service /\ w.body = body
            /\ w.at = url.at /\ w.env = url.env
    BY Enveloped DEF url
  <1> QED BY <1>2, <1>3 DEF url, Endpoint

\* To the virtual authorizer of the contingency, which is not the state's own
\* and is the one fiscal_core::contingency names.
LEMMA PostedToSvc ==
    ASSUME NEW op, NEW state \in UF, NEW env \in SefazEnvironment, NEW body, NEW wrap,
           IsPosted(InEnvelope(op, "Autorizacao",
               get_sefaz_contingency_url(state, env, SefazService.Autorizacao.url_key),
               state, body, wrap))
    PROVE  LET w == InEnvelope(op, "Autorizacao",
               get_sefaz_contingency_url(state, env, SefazService.Autorizacao.url_key),
               state, body, wrap)
           IN  /\ w.op = op /\ w.service = "Autorizacao" /\ w.body = body /\ w.env = env
               /\ w.at = IF contingency_for_state(state) = "SvcRs" THEN "SVRS" ELSE "SVAN"
               /\ w.at # At(55, state)
  <1> DEFINE key == SefazService.Autorizacao.url_key
             url == get_sefaz_contingency_url(state, env, key)
             at == IF contingency_for_state(state) = "SvcRs" THEN "SVRS" ELSE "SVAN"
             table == IF contingency_for_state(state) = "SvcRs" THEN SVCRS ELSE SVCAN
  <1>1. key = "NfeAutorizacao"
    BY DEF SefazService, Meta
  <1>2. TableOf(table, at)
    <2>1. TableOf(SVCRS, "SVRS")
      BY RegisterElsewhere DEF SVCRS, SefazEnvironment
    <2>2. TableOf(SVCAN, "SVAN")
      BY TableIsOne DEF SVCAN
    <2> QED BY <2>1, <2>2
  <1>3. url = Resolve(table, key, env)
    <2>1. get_state_contingency_authorizer(state) =
            IF contingency_for_state(state) = "SvcRs" THEN "SVCRS" ELSE "SVCAN"
      BY DEF get_state_contingency_authorizer, contingency_for_state
    <2>2. None # "SVCRS" /\ None # "SVCAN"
      BY NoneIsNoValue
    <2> QED BY <2>1, <2>2 DEF get_sefaz_contingency_url
  <1> HIDE DEF table, at
  <1>4. url \notin Failure => url = Endpoint(at, env, key)
    BY <1>1, <1>2, <1>3, Resolved DEF Cadastro
  <1>5. LET w == InEnvelope(op, "Autorizacao", url, state, body, wrap)
        IN  /\ url \notin Failure
            /\ w.op = op /\ w.service = "Autorizacao" /\ w.body = body
            /\ w.at = url.at /\ w.env = url.env
    <2> HIDE DEF url
    <2> QED BY Enveloped DEF url
  <1>6. at # At(55, state)
    <2>1. PICK own : /\ TableOf(get_state_authorizer(state), own)
                     /\ own = IF state = "MA" THEN "SVAN"
                              ELSE IF state \in DOMAIN OwnAuthorizers THEN state ELSE "SVRS"
      BY StateTable
    <2>2. get_state_authorizer(state).production.NfeAutorizacao
            = Endpoint(own, "production", "NfeAutorizacao")
      BY <2>1 DEF TableOf, SefazEnvironment, Mandatory, Cadastro
    <2>3. At(55, state) = own
      BY <2>2 DEF At, Endpoint
    <2>4. own # at
      BY <2>1 DEF at, contingency_for_state, OwnAuthorizers, UF, STATE_IBGE_CODES
    <2> QED BY <2>3, <2>4
  <1> HIDE DEF url
  <1> QED BY <1>4, <1>5, <1>6 DEF at, url, Endpoint

\* The taxpayer register of a state's table, where there is one.
LEMMA RegisterOfState ==
    ASSUME NEW state \in UF, NEW env \in SefazEnvironment,
           Cadastro \in DOMAIN get_state_authorizer(state)[env]
    PROVE  get_state_authorizer(state)[env][Cadastro].at # "nowhere"
  <1>1. CASE state \in DOMAIN OwnAuthorizers \ {"MA", "RS"}
    <2>1. \E keys : OwnAuthorizers[state] = AuthorizerServices(state, keys) /\ state # "nowhere"
      BY <1>1 DEF OwnAuthorizers, AM, BA, GO, MG, MS, MT, PE, PR, SP
    <2> QED BY <1>1, <2>1 DEF get_state_authorizer, AuthorizerServices, Endpoint
  <1>2. CASE state = "MA"
    BY <1>2 DEF get_state_authorizer, OwnAuthorizers, SVAN, AuthorizerServices, Endpoint
  <1>3. CASE state = "RS"
    <2>1. get_state_authorizer(state) = RS
      BY <1>3 DEF get_state_authorizer, OwnAuthorizers
    <2>2. RS[env][Cadastro] = Endpoint("SVRS", "production", Cadastro)
      BY DEF RS, WithCadastro
    <2> QED BY <2>1, <2>2 DEF Endpoint
  <1>4. CASE state \notin DOMAIN OwnAuthorizers
    BY <1>4 DEF get_state_authorizer, VirtualStates, SVRS, AuthorizerServices, Endpoint
  <1> QED BY <1>1, <1>2, <1>3, <1>4
-----------------------------------------------------------------------------
(* What is true of every request on the wire.  Sound says it of a request; *)
(* RInv adds that what the application knows and what a receipt promises   *)
(* is held by some authority.                                              *)

Served(w) == \A e \in w.body.events :
    IF w.at = "AN" THEN e.cOrgao = 91
    ELSE e.id.key.uf = uf => /\ w.at \in {At(55, uf), At(65, uf)}
                             /\ e.cOrgao = get_state_code(uf)

Followed(w) == w.op \in FollowUps =>
    /\ w.env \in SefazEnvironment
    /\ \A k \in w.body.keys :
          (k.model = 65 /\ w.op # "cancel_substituicao") \/ w.at = At(k.model, uf)

OfALot(keys, at) == (\E k \in keys : k.model = 65) \/ at = At(55, uf)

Sound(w) == IsPosted(w) =>
    /\ w.at # "nowhere" /\ w.service \in DOMAIN SefazService
    /\ w.body.tpAmb \in {None, w.env} \/ w.service = "Autorizacao"
    /\ Served(w)
    /\ Followed(w)
    /\ w.service = "Autorizacao" =>
         /\ w.env \in SefazEnvironment /\ w.body.keys \subseteq OwnKeys
         /\ w.body.nRec = "async" => OfALot(w.body.keys, w.at)
    /\ w.service = "RetAutorizacao" \/ w.op = "consult_receipt" =>
         /\ w.body.nRec \in receipts /\ w.env = w.body.nRec.env
         /\ w.at = At(55, uf)
    /\ w.op = "authorize_contingency" =>
         /\ w.env \in SefazEnvironment
         /\ w.at = IF contingency_for_state(uf) = "SvcRs" THEN "SVRS" ELSE "SVAN"
         /\ w.at # At(55, uf)

IsHeld(key, env) == \E h \in held : h.key = key /\ h.env = env

Kept ==
    /\ \A h \in held : h.key \in OwnKeys /\ h.env \in SefazEnvironment
    /\ \A d \in known : IsHeld(d.key, d.env)
    /\ \A r \in receipts :
         /\ r.env \in SefazEnvironment /\ r.keys \subseteq OwnKeys
         /\ \A k \in r.keys : IsHeld(k, r.env)
         /\ OfALot(r.keys, r.at)

RInv == uf \in Issuers /\ Kept /\ Sound(wire)

\* A model is 65 or is treated as 55.
LEMMA OtherModels ==
    ASSUME NEW model, NEW state, model # 65
    PROVE  At(model, state) = At(55, state)
  BY DEF At

\* A request to the issuer's own authority, that is neither an authorization
\* nor the query of a receipt.
Plain(op, service, state, env, body, model) ==
    /\ op \notin {"authorize_contingency", "consult_receipt"}
    /\ service \in DOMAIN SefazService /\ SefazService[service].url_key # Cadastro
    /\ service \notin {"Autorizacao", "RetAutorizacao"}
    /\ state \in {uf, "SVRS"} /\ env \in SefazEnvironment
    /\ model \in {55, 65}
    /\ body.tpAmb \in {None, env}
    /\ \A e \in body.events :
           state = uf /\ e.id.key.uf = uf => e.cOrgao = get_state_code(uf)
    /\ op \in FollowUps => \A k \in body.keys :
           (k.model = 65 /\ op # "cancel_substituicao") \/ (k.model = 65 <=> model = 65)

\* What a plain request is on the wire.
LEMMA StateRequest ==
    ASSUME uf \in UF, NEW op, NEW service, NEW state, NEW env, NEW body, NEW model, NEW wrap,
           Plain(op, service, state, env, body, model)
    PROVE  Sound(InEnvelope(op, service, ModelUrl(service, state, env, model), state, body, wrap))
  <1> DEFINE w == InEnvelope(op, service, ModelUrl(service, state, env, model), state, body, wrap)
  <1> SUFFICES ASSUME IsPosted(w) PROVE Sound(w)
    BY DEF Sound
  <1>1. /\ w.op = op /\ w.service = service /\ w.body = body /\ w.env = env
        /\ state \in UF /\ w.at = At(model, state) /\ w.at \notin {"nowhere", "AN"}
    BY PostedToState DEF Plain
  <1> HIDE DEF w
  <1>2. state = uf
    BY <1>1 DEF UF, Plain
  <1>3. Served(w)
    BY <1>1, <1>2 DEF Served, Plain
  <1>4. Followed(w)
    BY <1>1, <1>2, OtherModels DEF Followed, Plain
  <1> QED BY <1>1, <1>3, <1>4 DEF Sound, Plain

\* A request to the Ambiente Nacional.
LEMMA NationalRequest ==
    ASSUME NEW op, NEW service \in DOMAIN SefazService, NEW env \in SefazEnvironment,
           NEW body, NEW wrap, NEW key \in {"RecepcaoEvento", "NfeDistribuicaoDFe"},
           service \notin {"Autorizacao", "RetAutorizacao"},
           op \notin {"authorize_contingency", "consult_receipt"} \cup FollowUps,
           body.tpAmb = env,
           \A e \in body.events : e.cOrgao = 91
    PROVE  Sound(InEnvelope(op, service, get_an_url(env, key), "AN", body, wrap))
  <1> DEFINE w == InEnvelope(op, service, get_an_url(env, key), "AN", body, wrap)
  <1> SUFFICES ASSUME IsPosted(w) PROVE Sound(w)
    BY DEF Sound
  <1>1. /\ w.op = op /\ w.service = service /\ w.body = body /\ w.env = env
        /\ w.at = "AN"
    BY PostedToAN
  <1> HIDE DEF w
  <1> QED BY <1>1 DEF Sound, Served, Followed
-----------------------------------------------------------------------------
(* The calls of the client, by the group of Next they are in: each puts a  *)
(* sound request on the wire.                                              *)

\* Events for an authority of a state.
LEMMA StateEvents ==
    ASSUME uf \in UF, NEW op, NEW state \in {uf, "SVRS"}, NEW env \in SefazEnvironment, NEW body,
           op \notin {"authorize_contingency", "consult_receipt", "cancel_substituicao"},
           body.tpAmb = env,
           \A e \in body.events :
               state = uf /\ e.id.key.uf = uf => e.cOrgao = get_state_code(uf)
    PROVE  Sound(InEnvelope(op, "RecepcaoEvento", ModelUrl("RecepcaoEvento", state, env, 55),
                            state, body, "nfeDadosMsg"))
  <1>1. Plain(op, "RecepcaoEvento", state, env, body, 55)
    BY DEF Plain, SefazService, Meta, Cadastro
  <1> QED BY <1>1, StateRequest

\* An event to an authority of a state.
LEMMA StateEvent ==
    ASSUME uf \in UF, NEW op, NEW state \in {uf, "SVRS"}, NEW env \in SefazEnvironment, NEW event,
           op \notin {"authorize_contingency", "consult_receipt", "cancel_substituicao"},
           state = uf /\ event.id.key.uf = uf => event.cOrgao = get_state_code(uf),
           SendEvent(op, state, env, event)
    PROVE  \E w : Call(w) /\ Sound(w)
  <1> DEFINE body == EventBody(env, event)
             w == InEnvelope(op, "RecepcaoEvento",
                             ModelUrl("RecepcaoEvento", state, env, 55), state, body, "nfeDadosMsg")
  <1>1. Call(w)
    BY DEF SendEvent, send, send_model, send_to_url, build_envelope
  <1>2. /\ body.tpAmb = env /\ body.events = {event}
        /\ body.keys = {event.id.key}
    BY DEF EventBody, Body
  <1>4. Sound(w)
    <2>1. \A e \in body.events : state = uf /\ e.id.key.uf = uf => e.cOrgao = get_state_code(uf)
      BY <1>2
    <2> HIDE DEF body
    <2> QED BY <1>2, <2>1, StateEvents
  <1> QED BY <1>1, <1>4

\* An event to the Ambiente Nacional.
LEMMA NationalEvents ==
    ASSUME NEW op, NEW env \in SefazEnvironment, NEW event,
           op \notin {"authorize_contingency", "consult_receipt"} \cup FollowUps,
           event.cOrgao = 91,
           SendNationalEvent(op, env, event)
    PROVE  \E w : Call(w) /\ Sound(w)
  <1> DEFINE body == EventBody(env, event)
             w == InEnvelope(op, "RecepcaoEvento", get_an_url(env, "RecepcaoEvento"), "AN",
                             body, "nfeDadosMsg")
  <1>1. /\ "RecepcaoEvento" \in DOMAIN SefazService
        /\ SefazService["RecepcaoEvento"].url_key = "RecepcaoEvento"
    BY DEF SefazService, Meta
  <1>2. Call(w)
    BY <1>1 DEF SendNationalEvent, send_an, build_envelope
  <1>3. body.tpAmb = env /\ body.events = {event}
    BY DEF EventBody, Body
  <1>4. Sound(w)
    <2> HIDE DEF body
    <2> QED BY <1>1, <1>3, NationalRequest
  <1> QED BY <1>2, <1>4

\* The states have no organ of their own in an event: it is the one of the key.
LEMMA OverrideOfUf ==
    ASSUME uf \in UF
    PROVE  Org(uf) = None
  BY DEF Org, svrs_org_override, UF

\* About a document received from another issuer.
LEMMA CallsOfAReceivedDocument ==
    ASSUME uf \in UF, OfAReceivedDocument
    PROVE  \E w : Call(w) /\ Sound(w)
  <1>1. PICK env \in SefazEnvironment, at \in {uf, "SVRS"} :
          LET doc == Document(Received, env)
          IN  \/ rtc_sol_aprop_cred_presumido(doc, at)
              \/ rtc_destino_consumo_pessoal(doc, at, 2)
              \/ rtc_roubo_perda_adquirente(doc, at)
              \/ rtc_aceite_debito(doc, at)
              \/ rtc_imobilizacao_item(doc, at)
              \/ rtc_apropriacao_credito_comb(doc, at)
              \/ rtc_apropriacao_credito_bens(doc, at)
              \/ rtc_manif_transf_cred_ibs(doc, at)
              \/ rtc_manif_transf_cred_cbs(doc, at)
    BY DEF OfAReceivedDocument
  <1> DEFINE doc == Document(Received, env)
  <1>2. \A type, tpAutor, seq :
          LET event == RtcEvent(type, tpAutor, doc.key, at, seq, Org(at))
          IN  at = uf /\ event.id.key.uf = uf => event.cOrgao = get_state_code(uf)
    BY OverrideOfUf DEF RtcEvent, build_event_xml_with_org, build_event_id, AccessKeyOrgan
  <1>3. \A op, type, tpAutor, seq :
          (/\ op \notin {"authorize_contingency", "consult_receipt", "cancel_substituicao"}
           /\ SendEvent(op, at, doc.env, RtcEvent(type, tpAutor, doc.key, at, seq, Org(at))))
          => \E w : Call(w) /\ Sound(w)
    <2>1. doc.env \in SefazEnvironment
      BY DEF Document
    <2> HIDE DEF doc
    <2> QED BY <1>2, <2>1, StateEvent
  <1> HIDE DEF doc
  <1>a. CASE rtc_sol_aprop_cred_presumido(doc, at)
    BY <1>3, <1>a DEF rtc_sol_aprop_cred_presumido, send_rtc_event, build_rtc_sol_aprop_cred_presumido
  <1>b. CASE rtc_destino_consumo_pessoal(doc, at, 2)
    BY <1>3, <1>b DEF rtc_destino_consumo_pessoal, send_rtc_event, build_rtc_destino_consumo_pessoal
  <1>c. CASE rtc_roubo_perda_adquirente(doc, at)
    BY <1>3, <1>c DEF rtc_roubo_perda_adquirente, send_rtc_event, build_rtc_roubo_perda_adquirente
  <1>d. CASE rtc_aceite_debito(doc, at)
    BY <1>3, <1>d DEF rtc_aceite_debito, send_rtc_event, build_rtc_aceite_debito
  <1>e. CASE rtc_imobilizacao_item(doc, at)
    BY <1>3, <1>e DEF rtc_imobilizacao_item, send_rtc_event, build_rtc_imobilizacao_item
  <1>f. CASE rtc_apropriacao_credito_comb(doc, at)
    BY <1>3, <1>f DEF rtc_apropriacao_credito_comb, send_rtc_event, build_rtc_apropriacao_credito_comb
  <1>g. CASE rtc_apropriacao_credito_bens(doc, at)
    BY <1>3, <1>g DEF rtc_apropriacao_credito_bens, send_rtc_event, build_rtc_apropriacao_credito_bens
  <1>h. CASE rtc_manif_transf_cred_ibs(doc, at)
    BY <1>3, <1>h DEF rtc_manif_transf_cred_ibs, send_rtc_event, build_rtc_manif_transf_cred_ibs
  <1>i. CASE rtc_manif_transf_cred_cbs(doc, at)
    BY <1>3, <1>i DEF rtc_manif_transf_cred_cbs, send_rtc_event, build_rtc_manif_transf_cred_cbs
  <1> QED BY <1>1, <1>a, <1>b, <1>c, <1>d, <1>e, <1>f, <1>g, <1>h, <1>i DEF doc

\* About a document the application knows to be registered.
LEMMA CallsOfAnIssuedDocument ==
    ASSUME uf \in UF, Kept, OfAnIssuedDocument
    PROVE  \E w : Call(w) /\ Sound(w)
  <1>1. PICK doc \in known :
          \/ cancel(doc)
          \/ cce(doc)
          \/ doc.key.model = 65 /\ cancel_substituicao(doc, doc.key)
          \/ event_batch(doc.env, {[type |-> t, key |-> doc.key, seq |-> 1] : t \in {110110, EPEC}})
          \/ \E undo \in BOOLEAN : conciliacao(doc, undo)
          \/ ator_interessado(doc)
          \/ comprovante_entrega(doc)
          \/ cancel_comprovante_entrega(doc)
          \/ insucesso_entrega(doc)
          \/ cancel_insucesso_entrega(doc)
          \/ \E second \in BOOLEAN : prorrogacao(doc, second) \/ cancel_prorrogacao(doc, second)
          \/ \E at \in {uf, "SVRS"} :
               \/ rtc_info_pagto_integral(doc, at)
               \/ rtc_importacao_zfm(doc, at)
               \/ rtc_roubo_perda_fornecedor(doc, at)
               \/ rtc_fornecimento_nao_realizado(doc, at)
               \/ rtc_atualizacao_data_entrega(doc, at)
               \/ rtc_cancela_evento(doc, at)
    BY DEF OfAnIssuedDocument
  <1>2. doc.env \in SefazEnvironment
    BY <1>1 DEF Kept, IsHeld
  <1>3. \A op, at, event :
          (/\ op \notin {"authorize_contingency", "consult_receipt", "cancel_substituicao"}
           /\ at \in {uf, "SVRS"}
           /\ at = uf /\ event.id.key.uf = uf => event.cOrgao = get_state_code(uf)
           /\ SendEvent(op, at, doc.env, event))
          => \E w : Call(w) /\ Sound(w)
    BY <1>2, StateEvent
  <1>4. \A op, event :
          (/\ op \notin {"authorize_contingency", "consult_receipt"} \cup FollowUps
           /\ event.cOrgao = 91
           /\ SendNationalEvent(op, doc.env, event))
          => \E w : Call(w) /\ Sound(w)
    BY <1>2, NationalEvents
  <1>a. CASE cancel(doc)
    <2>1. LET event == build_cancela_request(doc.key, 1)
          IN  event.id.key.uf = uf => event.cOrgao = get_state_code(uf)
      BY DEF build_cancela_request, build_event_xml, build_event_xml_with_org, build_event_id, AccessKeyOrgan
    <2> QED BY <1>3, <1>a, <2>1 DEF cancel
  <1>b. CASE cce(doc)
    <2>1. LET event == build_cce_request(doc.key, 1)
          IN  event.id.key.uf = uf => event.cOrgao = get_state_code(uf)
      BY DEF build_cce_request, build_event_xml, build_event_xml_with_org, build_event_id, AccessKeyOrgan
    <2> QED BY <1>3, <1>b, <2>1 DEF cce
  <1>c. CASE doc.key.model = 65 /\ cancel_substituicao(doc, doc.key)
    <2> DEFINE event == build_cancel_substituicao_request(doc.key, doc.key, 1)
               body == EventBody(doc.env, event)
               w == InEnvelope("cancel_substituicao", "RecepcaoEvento",
                        ModelUrl("RecepcaoEvento", uf, doc.env, 65), uf, body, "nfeDadosMsg")
    <2>1. Call(w)
      BY <1>c DEF cancel_substituicao, send_model, send_to_url, build_envelope
    <2>2. event.id.key = doc.key /\ event.cOrgao = get_state_code(doc.key.uf)
      BY DEF build_cancel_substituicao_request, build_event_xml_with_org, build_event_id, AccessKeyOrgan
    <2>3. body.tpAmb = doc.env /\ body.events = {event} /\ body.keys = {doc.key}
      BY <2>2 DEF EventBody, Body
    <2> HIDE DEF body, event
    <2>4. Plain("cancel_substituicao", "RecepcaoEvento", uf, doc.env, body, 65)
      BY <1>2, <1>c, <2>2, <2>3 DEF Plain, SefazService, Meta, Cadastro
    <2>5. Sound(w)
      BY <2>4, StateRequest
    <2> QED BY <2>1, <2>5
  <1>d. CASE event_batch(doc.env, {[type |-> t, key |-> doc.key, seq |-> 1] : t \in {110110, EPEC}})
    <2> DEFINE lot == {[type |-> t, key |-> doc.key, seq |-> 1] : t \in {110110, EPEC}}
               body == Body(doc.env, {i.key : i \in lot}, None, build_event_batch_request(uf, lot))
               w == InEnvelope("event_batch", "RecepcaoEvento",
                        ModelUrl("RecepcaoEvento", uf, doc.env, 55), uf, body, "nfeDadosMsg")
    <2>1. Call(w)
      <3>1. uf # "AN"
        BY DEF UF
      <3> HIDE DEF lot
      <3> QED BY <1>d, <3>1 DEF event_batch, lot_to, send, send_model, send_to_url, build_envelope, lot
    <2>2. body.tpAmb = doc.env
      BY DEF Body
    <2>3. \A e \in body.events : uf = uf /\ e.id.key.uf = uf => e.cOrgao = get_state_code(uf)
      BY DEF Body, build_event_batch_request
    <2> HIDE DEF body, lot
    <2>4. Sound(w)
      BY <1>2, <2>2, <2>3, StateEvents
    <2> QED BY <2>1, <2>4
  <1>e. CASE \E undo \in BOOLEAN : conciliacao(doc, undo)
    <2>1. PICK undo \in BOOLEAN : conciliacao(doc, undo)
      BY <1>e
    <2> DEFINE at == IF doc.key.model = 55 THEN "SVRS" ELSE uf
               event == build_conciliacao_request(doc.key, undo, 1, svrs_org_override(at))
    <2>2. at \in {uf, "SVRS"}
      OBVIOUS
    <2>3. at = uf /\ event.id.key.uf = uf => event.cOrgao = get_state_code(uf)
      BY OverrideOfUf DEF build_conciliacao_request, build_event_xml_with_org, build_event_id,
                          AccessKeyOrgan, Org
    <2>4. SendEvent("conciliacao", at, doc.env, event)
      BY <2>1 DEF conciliacao
    <2> HIDE DEF at, event
    <2> QED BY <1>3, <2>2, <2>3, <2>4
  <1>f. CASE ator_interessado(doc)
    <2>1. build_ator_interessado_request(doc.key, uf, 1, 1).cOrgao = 91
      BY NoneIsNoValue DEF build_ator_interessado_request, NationalEvent, build_event_xml_with_org
    <2>2. "ator_interessado" \notin {"authorize_contingency", "consult_receipt"} \cup FollowUps
      BY DEF FollowUps
    <2> QED BY <1>4, <1>f, <2>1, <2>2 DEF ator_interessado
  <1>g. CASE comprovante_entrega(doc)
    <2>1. build_comprovante_entrega_request(doc.key, uf, 1).cOrgao = 91
      BY NoneIsNoValue DEF build_comprovante_entrega_request, NationalEvent, build_event_xml_with_org
    <2>2. "comprovante_entrega" \notin {"authorize_contingency", "consult_receipt"} \cup FollowUps
      BY DEF FollowUps
    <2> QED BY <1>4, <1>g, <2>1, <2>2 DEF comprovante_entrega
  <1>h. CASE cancel_comprovante_entrega(doc)
    <2>1. build_cancel_comprovante_entrega_request(doc.key, uf, 1).cOrgao = 91
      BY NoneIsNoValue DEF build_cancel_comprovante_entrega_request, NationalEvent, build_event_xml_with_org
    <2>2. "cancel_comprovante_entrega" \notin {"authorize_contingency", "consult_receipt"} \cup FollowUps
      BY DEF FollowUps
    <2> QED BY <1>4, <1>h, <2>1, <2>2 DEF cancel_comprovante_entrega
  <1>i. CASE insucesso_entrega(doc)
    <2>1. build_insucesso_entrega_request(doc.key, uf, 1).cOrgao = 91
      BY NoneIsNoValue DEF build_insucesso_entrega_request, NationalEvent, build_event_xml_with_org
    <2>2. "insucesso_entrega" \notin {"authorize_contingency", "consult_receipt"} \cup FollowUps
      BY DEF FollowUps
    <2> QED BY <1>4, <1>i, <2>1, <2>2 DEF insucesso_entrega
  <1>j. CASE cancel_insucesso_entrega(doc)
    <2>1. build_cancel_insucesso_entrega_request(doc.key, uf, 1).cOrgao = 91
      BY NoneIsNoValue DEF build_cancel_insucesso_entrega_request, NationalEvent, build_event_xml_with_org
    <2>2. "cancel_insucesso_entrega" \notin {"authorize_contingency", "consult_receipt"} \cup FollowUps
      BY DEF FollowUps
    <2> QED BY <1>4, <1>j, <2>1, <2>2 DEF cancel_insucesso_entrega
  <1>k. CASE \E second \in BOOLEAN : prorrogacao(doc, second) \/ cancel_prorrogacao(doc, second)
    <2>1. PICK second \in BOOLEAN : prorrogacao(doc, second) \/ cancel_prorrogacao(doc, second)
      BY <1>k
    <2>2. \A event \in {build_prorrogacao_request(doc.key, second, 1),
                         build_cancel_prorrogacao_request(doc.key, second, 1)} :
            event.id.key.uf = uf => event.cOrgao = get_state_code(uf)
      BY DEF build_prorrogacao_request, build_cancel_prorrogacao_request, build_event_xml,
             build_event_xml_with_org, build_event_id, AccessKeyOrgan
    <2> QED BY <1>3, <2>1, <2>2 DEF prorrogacao, cancel_prorrogacao
  <1>l. ASSUME NEW at \in {uf, "SVRS"},
              \/ rtc_info_pagto_integral(doc, at)
              \/ rtc_importacao_zfm(doc, at)
              \/ rtc_roubo_perda_fornecedor(doc, at)
              \/ rtc_fornecimento_nao_realizado(doc, at)
              \/ rtc_atualizacao_data_entrega(doc, at)
              \/ rtc_cancela_evento(doc, at)
       PROVE  \E w : Call(w) /\ Sound(w)
    <2>1. \A type, tpAutor :
            LET event == RtcEvent(type, tpAutor, doc.key, at, 1, Org(at))
            IN  at = uf /\ event.id.key.uf = uf => event.cOrgao = get_state_code(uf)
      BY OverrideOfUf DEF RtcEvent, build_event_xml_with_org, build_event_id, AccessKeyOrgan
    <2>2. \A op, type, tpAutor :
            (/\ op \notin {"authorize_contingency", "consult_receipt", "cancel_substituicao"}
             /\ SendEvent(op, at, doc.env, RtcEvent(type, tpAutor, doc.key, at, 1, Org(at))))
            => \E w : Call(w) /\ Sound(w)
      BY <1>3, <2>1
    <2>a. CASE rtc_info_pagto_integral(doc, at)
      BY <2>2, <2>a DEF rtc_info_pagto_integral, send_rtc_event, build_rtc_info_pagto_integral
    <2>b. CASE rtc_importacao_zfm(doc, at)
      BY <2>2, <2>b DEF rtc_importacao_zfm, send_rtc_event, build_rtc_importacao_zfm
    <2>c. CASE rtc_roubo_perda_fornecedor(doc, at)
      BY <2>2, <2>c DEF rtc_roubo_perda_fornecedor, send_rtc_event, build_rtc_roubo_perda_fornecedor
    <2>d. CASE rtc_fornecimento_nao_realizado(doc, at)
      BY <2>2, <2>d DEF rtc_fornecimento_nao_realizado, send_rtc_event, build_rtc_fornecimento_nao_realizado
    <2>e. CASE rtc_atualizacao_data_entrega(doc, at)
      BY <2>2, <2>e DEF rtc_atualizacao_data_entrega, send_rtc_event, build_rtc_atualizacao_data_entrega
    <2>f. CASE rtc_cancela_evento(doc, at)
      <3> DEFINE event == build_rtc_cancela_evento(doc.key, at, 1, 112110, Org(at))
      <3>1. at = uf /\ event.id.key.uf = uf => event.cOrgao = get_state_code(uf)
        BY OverrideOfUf DEF build_rtc_cancela_evento, RtcEvent, build_event_xml_with_org, build_event_id,
                            AccessKeyOrgan
      <3>2. SendEvent("rtc_cancela_evento", at, doc.env, event)
        BY <2>f DEF rtc_cancela_evento, send_rtc_event
      <3> HIDE DEF event
      <3> QED BY <1>3, <3>1, <3>2
    <2> QED BY <1>l, <2>a, <2>b, <2>c, <2>d, <2>e, <2>f
  <1> QED BY <1>1, <1>a, <1>b, <1>c, <1>d, <1>e, <1>f, <1>g, <1>h, <1>i, <1>j, <1>k, <1>l

\* A request of no document, of an environment alone.
LEMMA PlainCall ==
    ASSUME uf \in UF, NEW op, NEW service, NEW env, NEW body, NEW model, NEW wrap,
           Plain(op, service, uf, env, body, model),
           Call(InEnvelope(op, service, ModelUrl(service, uf, env, model), uf, body, wrap))
    PROVE  \E w : Call(w) /\ Sound(w)
  BY StateRequest

\* The taxpayer register is the one service that may stand elsewhere, and whose
\* request does not tell the environment.
LEMMA CadastroCall ==
    ASSUME uf \in UF, NEW env \in SefazEnvironment, cadastro(env)
    PROVE  \E w : Call(w) /\ Sound(w)
  <1> DEFINE url == ModelUrl("ConsultaCadastro", uf, env, 55)
             w == InEnvelope("cadastro", "ConsultaCadastro", url, uf, build_cadastro_request, "nfeCabecMsg")
             table == get_state_authorizer(uf)
  <1>1. Call(w)
    BY DEF cadastro, send_cadastro_raw, build_envelope_with_header
  <1>2. Sound(w)
    <2> SUFFICES ASSUME IsPosted(w) PROVE Sound(w)
      BY DEF Sound
    <2>1. url = Resolve(table, Cadastro, env)
      BY DEF ModelUrl, get_sefaz_url_for_model, SefazService, Meta
    <2> HIDE DEF url, table
    <2>2. /\ url \notin Failure
          /\ w.op = "cadastro" /\ w.service = "ConsultaCadastro" /\ w.body = build_cadastro_request
          /\ w.at = url.at
      BY Enveloped
    <2>3. Cadastro \in DOMAIN table[env] /\ url = table[env][Cadastro]
      BY <2>1, <2>2 DEF Resolve, get_url, Failure
    <2>4. url.at # "nowhere"
      BY <2>3, RegisterOfState DEF table
    <2>5. build_cadastro_request.tpAmb = None /\ build_cadastro_request.events = {}
      BY DEF build_cadastro_request, Body
    <2> HIDE DEF w
    <2>6. "ConsultaCadastro" \in DOMAIN SefazService
      BY DEF SefazService
    <2> QED BY <2>2, <2>4, <2>5, <2>6 DEF Sound, Served, Followed, FollowUps
  <1> QED BY <1>1, <1>2

\* About no document of the issuer that is registered yet.
LEMMA CallsOfTheEnvironment ==
    ASSUME uf \in UF, OfTheEnvironment
    PROVE  \E w : Call(w) /\ Sound(w)
  <1>1. PICK env \in SefazEnvironment :
          \/ inutilize(env)
          \/ \E type \in ManifestationTypes :
               \/ manifest(Received, env, type)
               \/ manifest_batch(env, {[type |-> type, key |-> Received, seq |-> 1]})
          \/ dist_dfe(env)
          \/ download(Received, env)
          \/ cadastro(env)
          \/ epec(Key(uf, 55, Normal), env)
          \/ epec_nfce_status(env)
          \/ epec_nfce(Key(uf, 65, Normal), env)
          \/ csc(env)
    BY DEF OfTheEnvironment
  <1>2. \A op, service, body, key, wrap :
          (/\ service \in DOMAIN SefazService
           /\ key \in {"RecepcaoEvento", "NfeDistribuicaoDFe"}
           /\ service \notin {"Autorizacao", "RetAutorizacao"}
           /\ op \notin {"authorize_contingency", "consult_receipt"} \cup FollowUps
           /\ body.tpAmb = env
           /\ \A e \in body.events : e.cOrgao = 91
           /\ Call(InEnvelope(op, service, get_an_url(env, key), "AN", body, wrap)))
          => \E w : Call(w) /\ Sound(w)
    BY NationalRequest
  <1>3. SefazService.RecepcaoEvento.url_key = "RecepcaoEvento" /\ "RecepcaoEvento" \in DOMAIN SefazService
        /\ SefazService.DistribuicaoDFe.url_key = "NfeDistribuicaoDFe" /\ "DistribuicaoDFe" \in DOMAIN SefazService
    BY DEF SefazService, Meta
  <1>a. CASE inutilize(env)
    <2>1. Plain("inutilize", "Inutilizacao", uf, env, build_inutilizacao_request(env), 55)
      BY DEF Plain, SefazService, Meta, Cadastro, build_inutilizacao_request, Body, FollowUps
    <2> QED BY <1>a, <2>1, PlainCall DEF inutilize, send, send_model, send_to_url, build_envelope
  <1>b. ASSUME NEW type \in ManifestationTypes, manifest(Received, env, type)
        PROVE  \E w : Call(w) /\ Sound(w)
    <2>1. build_manifesta_request(Received, type, 1).cOrgao = 91
      BY NoneIsNoValue DEF build_manifesta_request, NationalEvent, build_event_xml_with_org
    <2>2. "manifest" \notin {"authorize_contingency", "consult_receipt"} \cup FollowUps
      BY DEF FollowUps
    <2> QED BY <1>b, <2>1, <2>2, NationalEvents DEF manifest
  <1>c. ASSUME NEW type \in ManifestationTypes,
               manifest_batch(env, {[type |-> type, key |-> Received, seq |-> 1]})
        PROVE  \E w : Call(w) /\ Sound(w)
    <2> DEFINE lot == {[type |-> type, key |-> Received, seq |-> 1]}
               body == Body(env, {i.key : i \in lot}, None, build_event_batch_request("AN", lot))
    <2>1. Call(InEnvelope("manifest_batch", "RecepcaoEvento", get_an_url(env, "RecepcaoEvento"),
                          "AN", body, "nfeDadosMsg"))
      <3> HIDE DEF lot
      <3> QED BY <1>c, <1>3 DEF manifest_batch, lot_to, send_an, build_envelope, lot
    <2>2. body.tpAmb = env
      BY DEF Body
    <2>3. \A e \in body.events : e.cOrgao = 91
      BY DEF Body, build_event_batch_request, get_state_code, STATE_IBGE_CODES
    <2>4. "manifest_batch" \notin {"authorize_contingency", "consult_receipt"} \cup FollowUps
      BY DEF FollowUps
    <2> HIDE DEF body
    <2> QED BY <1>2, <1>3, <2>1, <2>2, <2>3, <2>4
  <1>d. CASE dist_dfe(env)
    <2> DEFINE body == build_dist_dfe_request(env, {})
    <2>1. body.tpAmb = env /\ body.events = {}
      BY DEF build_dist_dfe_request, Body
    <2>2. "dist_dfe" \notin {"authorize_contingency", "consult_receipt"} \cup FollowUps
      BY DEF FollowUps
    <2>3. Call(InEnvelope("dist_dfe", "DistribuicaoDFe", get_an_url(env, "NfeDistribuicaoDFe"),
                          "AN", body, "nfeDistDFeInteresse"))
      BY <1>d, <1>3 DEF dist_dfe, send_dist_dfe_raw, build_envelope_dist_dfe
    <2> HIDE DEF body
    <2> QED BY <1>2, <1>3, <2>1, <2>2, <2>3
  <1>e. CASE download(Received, env)
    <2> DEFINE body == build_dist_dfe_request(env, {Received})
    <2>1. body.tpAmb = env /\ body.events = {}
      BY DEF build_dist_dfe_request, Body
    <2>2. "download" \notin {"authorize_contingency", "consult_receipt"} \cup FollowUps
      BY DEF FollowUps
    <2>3. Call(InEnvelope("download", "DistribuicaoDFe", get_an_url(env, "NfeDistribuicaoDFe"),
                          "AN", body, "nfeDistDFeInteresse"))
      BY <1>e, <1>3 DEF download, send_dist_dfe_raw, build_envelope_dist_dfe
    <2> HIDE DEF body
    <2> QED BY <1>2, <1>3, <2>1, <2>2, <2>3
  <1>f. CASE cadastro(env)
    BY <1>f, CadastroCall
  <1>g. CASE epec(Key(uf, 55, Normal), env)
    <2>1. build_epec_request(Key(uf, 55, Normal)).cOrgao = 91
      BY NoneIsNoValue DEF build_epec_request, NationalEvent, build_event_xml_with_org
    <2>2. "epec" \notin {"authorize_contingency", "consult_receipt"} \cup FollowUps
      BY DEF FollowUps
    <2> QED BY <1>g, <2>1, <2>2, NationalEvents DEF epec
  <1>h. CASE epec_nfce_status(env)
    <2>1. Plain("epec_nfce_status", "EpecNfceStatusServico", uf, env, build_epec_nfce_status_request(env), 65)
      BY DEF Plain, SefazService, Meta, Cadastro, build_epec_nfce_status_request, Body, FollowUps
    <2> QED BY <1>h, <2>1, PlainCall DEF epec_nfce_status, send_model, send_to_url, build_envelope
  <1>i. CASE epec_nfce(Key(uf, 65, Normal), env)
    <2> DEFINE event == build_epec_nfce_request(Key(uf, 65, Normal))
               body == EventBody(env, event)
    <2>1. event.cOrgao = get_state_code(uf)
      BY DEF build_epec_nfce_request, build_event_xml_with_org, AccessKeyOrgan, Key
    <2>2. body.tpAmb = env /\ body.events = {event}
      <3> HIDE DEF event
      <3> QED BY DEF EventBody, Body
    <2>3. Call(InEnvelope("epec_nfce", "RecepcaoEpecNfce", ModelUrl("RecepcaoEpecNfce", uf, env, 65),
                          uf, body, "nfeDadosMsg"))
      BY <1>i DEF epec_nfce, send_model, send_to_url, build_envelope
    <2> HIDE DEF body, event
    <2>4. Plain("epec_nfce", "RecepcaoEpecNfce", uf, env, body, 65)
      BY <2>1, <2>2 DEF Plain, SefazService, Meta, Cadastro, FollowUps
    <2> QED BY <2>3, <2>4, PlainCall
  <1>j. CASE csc(env)
    <2>1. Plain("csc", "CscNFCe", uf, env, build_csc_request(env), 65)
      BY DEF Plain, SefazService, Meta, Cadastro, build_csc_request, Body, FollowUps
    <2> QED BY <1>j, <2>1, PlainCall DEF csc, send_model, send_to_url, build_envelope
  <1> QED BY <1>1, <1>a, <1>b, <1>c, <1>d, <1>e, <1>f, <1>g, <1>h, <1>i, <1>j

\* An authorization, of a document or of a lot of them.
LEMMA AuthorizationCall ==
    ASSUME uf \in UF, NEW op, NEW env \in SefazEnvironment, NEW body, NEW model, NEW wrap,
           op \notin {"authorize_contingency", "consult_receipt"} \cup FollowUps,
           body.events = {}, body.keys \subseteq OwnKeys,
           body.nRec = "async" => model = 55 \/ \E k \in body.keys : k.model = 65,
           Call(InEnvelope(op, "Autorizacao", ModelUrl("Autorizacao", uf, env, model), uf, body, wrap))
    PROVE  \E w : Call(w) /\ Sound(w)
  <1> DEFINE w == InEnvelope(op, "Autorizacao", ModelUrl("Autorizacao", uf, env, model), uf, body, wrap)
  <1>1. ASSUME IsPosted(w) PROVE Sound(w)
    <2>1. SefazService["Autorizacao"].url_key # Cadastro /\ "Autorizacao" \in DOMAIN SefazService
      BY DEF SefazService, Meta, Cadastro
    <2>2. /\ w.op = op /\ w.service = "Autorizacao" /\ w.body = body /\ w.env = env
          /\ w.at = At(model, uf) /\ w.at \notin {"nowhere", "AN"}
      BY <1>1, <2>1, PostedToState
    <2> HIDE DEF w
    <2>3. body.nRec = "async" => OfALot(body.keys, w.at)
      BY <2>2 DEF OfALot
    <2> QED BY <2>1, <2>2, <2>3 DEF Sound, Served, Followed
  <1> QED BY <1>1 DEF Sound

\* A lot too long, or of nothing, is not sent.
LEMMA BatchCall ==
    ASSUME uf \in UF, NEW op \in {"authorize_batch", "authorize_batch_nfce"},
           NEW env \in SefazEnvironment, NEW keys \in SUBSET OwnKeys,
           NEW compress \in BOOLEAN, NEW model,
           model = 55 \/ \E k \in keys : k.model = 65,
           authorize_batch_opts(op, env, keys, compress, model)
    PROVE  \E w : Call(w) /\ Sound(w)
  <1> DEFINE body == build_autorizacao_batch_request(env, keys)
  <1>1. CASE Cardinality(keys) \notin 1..50
    <2>1. Call(Failed(op, InvalidTaxData))
      BY <1>1 DEF authorize_batch_opts
    <2>2. Sound(Failed(op, InvalidTaxData))
      BY DEF Sound, IsPosted, Failed
    <2> QED BY <2>1, <2>2
  <1>2. CASE Cardinality(keys) \in 1..50
    <2>1. body.events = {} /\ body.keys = keys
      BY DEF build_autorizacao_batch_request, Body
    <2>2. \E wrap : Call(InEnvelope(op, "Autorizacao", ModelUrl("Autorizacao", uf, env, model), uf, body, wrap))
      BY <1>2 DEF authorize_batch_opts, send_model, send_to_url, build_envelope,
                  send_model_compressed, build_envelope_compressed
    <2>3. op \notin {"authorize_contingency", "consult_receipt"} \cup FollowUps
      BY DEF FollowUps
    <2> HIDE DEF body
    <2> QED BY <2>1, <2>2, <2>3, AuthorizationCall
  <1> QED BY <1>1, <1>2

\* One document, answered at once.
LEMMA DocumentCall ==
    ASSUME uf \in UF, NEW op \in {"authorize", "authorize_nfce"}, NEW env \in SefazEnvironment,
           NEW doc, doc.key \in OwnKeys, NEW compress \in BOOLEAN, NEW model,
           authorize_opts(op, doc, env, compress, model)
    PROVE  \E w : Call(w) /\ Sound(w)
  <1> DEFINE body == build_autorizacao_request(doc)
  <1>1. body.events = {} /\ body.keys = {doc.key} /\ body.nRec = None
    BY DEF build_autorizacao_request, Body
  <1>2. \E wrap : Call(InEnvelope(op, "Autorizacao", ModelUrl("Autorizacao", uf, env, model), uf, body, wrap))
    BY DEF authorize_opts, send_model, send_to_url, build_envelope,
           send_model_compressed, build_envelope_compressed
  <1>3. op \notin {"authorize_contingency", "consult_receipt"} \cup FollowUps
    BY DEF FollowUps
  <1>4. body.nRec # "async"
    BY <1>1, NoneIsNoValue
  <1> HIDE DEF body
  <1> QED BY <1>1, <1>2, <1>3, <1>4, AuthorizationCall

\* To the virtual authorizer, of the document built for it.
LEMMA ContingencyCall ==
    ASSUME uf \in UF, NEW env \in SefazEnvironment, NEW doc, doc.key \in OwnKeys,
           authorize_contingency(doc, env)
    PROVE  \E w : Call(w) /\ Sound(w)
  <1> DEFINE body == build_autorizacao_request(doc)
             w == InEnvelope("authorize_contingency", "Autorizacao",
                     get_sefaz_contingency_url(uf, env, SefazService.Autorizacao.url_key),
                     uf, body, "nfeDadosMsg")
  <1>1. Call(w)
    BY DEF authorize_contingency, send_to_url, build_envelope
  <1>2. body.events = {} /\ body.keys = {doc.key} /\ body.nRec = None
    BY DEF build_autorizacao_request, Body
  <1>3. body.nRec # "async"
    BY <1>2, NoneIsNoValue
  <1> HIDE DEF body
  <1>4. ASSUME IsPosted(w) PROVE Sound(w)
    <2>1. /\ w.op = "authorize_contingency" /\ w.service = "Autorizacao" /\ w.body = body /\ w.env = env
          /\ w.at = IF contingency_for_state(uf) = "SvcRs" THEN "SVRS" ELSE "SVAN"
          /\ w.at # At(55, uf)
      BY <1>4, PostedToSvc
    <2> HIDE DEF w
    <2>2. "Autorizacao" \in DOMAIN SefazService
      BY DEF SefazService
    <2> QED BY <1>2, <1>3, <2>1, <2>2 DEF Sound, Served, Followed, FollowUps
  <1> QED BY <1>1, <1>4 DEF Sound

\* The query of a receipt goes to the state's authority for model 55.
LEMMA ReceiptCall ==
    ASSUME uf \in UF, Kept, NEW r \in receipts, consult_receipt(r)
    PROVE  \E w : Call(w) /\ Sound(w)
  <1> DEFINE body == build_consulta_recibo_request(r)
             w == InEnvelope("consult_receipt", "RetAutorizacao", ModelUrl("RetAutorizacao", uf, r.env, 55),
                             uf, body, "nfeDadosMsg")
  <1>1. Call(w)
    BY DEF consult_receipt, send, send_model, send_to_url, build_envelope
  <1>2. body.events = {} /\ body.tpAmb = r.env /\ body.nRec = r
    BY DEF build_consulta_recibo_request, Body
  <1> HIDE DEF body
  <1>3. ASSUME IsPosted(w) PROVE Sound(w)
    <2>1. r.env \in SefazEnvironment
      BY DEF Kept
    <2>2. SefazService["RetAutorizacao"].url_key # Cadastro /\ "RetAutorizacao" \in DOMAIN SefazService
      BY DEF SefazService, Meta, Cadastro
    <2>3. /\ w.op = "consult_receipt" /\ w.service = "RetAutorizacao" /\ w.body = body /\ w.env = r.env
          /\ w.at = At(55, uf) /\ w.at \notin {"nowhere", "AN"}
      BY <1>3, <2>1, <2>2, PostedToState
    <2> HIDE DEF w
    <2> QED BY <1>2, <2>2, <2>3 DEF Sound, Served, Followed, FollowUps
  <1> QED BY <1>1, <1>3 DEF Sound

\* To authorize, and to ask what became of it.
LEMMA CallsOfAuthorization ==
    ASSUME uf \in UF, Kept, Authorization
    PROVE  \E w : Call(w) /\ Sound(w)
  <1> DEFINE nfe == Key(uf, 55, Normal)
             nfce == Key(uf, 65, Normal)
  <1>1. PICK env \in SefazEnvironment, e \in SefazEnvironment :
          \/ status(env)
          \/ authorize(Document(nfe, e), env)
          \/ authorize_compressed(Document(nfe, e), env)
          \/ authorize_nfce(Document(nfce, e), env)
          \/ authorize_nfce_compressed(Document(nfce, e), env)
          \/ \E keys \in {{}, {nfe}} :
               authorize_batch(env, keys) \/ authorize_batch_compressed(env, keys)
          \/ authorize_batch_nfce(env, {nfce})
          \/ authorize_contingency(Document(Key(uf, 55, Svc), e), env)
          \/ \E key \in OwnKeys : consult(key, env)
          \/ \E r \in receipts : consult_receipt(r)
          \/ \E doc \in known : sefaz_validate(doc)
    BY DEF Authorization
  <1>2. {nfe, nfce, Key(uf, 55, Svc)} \subseteq OwnKeys /\ nfce.model = 65
    BY DEF OwnKeys, Key
  <1>3. \A k : Document(k, e).key = k
    BY DEF Document
  <1> HIDE DEF nfe, nfce
  <1>a. CASE status(env)
    <2>1. Plain("status", "StatusServico", uf, env, build_status_request(env), 55)
      BY DEF Plain, SefazService, Meta, Cadastro, build_status_request, Body, FollowUps
    <2> QED BY <1>a, <2>1, PlainCall DEF status, send, send_model, send_to_url, build_envelope
  <1>b. CASE authorize(Document(nfe, e), env)
    <2> DEFINE doc == Document(nfe, e)
    <2>1. doc.key \in OwnKeys
      BY <1>2, <1>3
    <2>2. authorize_opts("authorize", doc, env, FALSE, 55)
      BY <1>b DEF authorize
    <2> HIDE DEF doc
    <2> QED BY <2>1, <2>2, DocumentCall
  <1>c. CASE authorize_compressed(Document(nfe, e), env)
    <2> DEFINE doc == Document(nfe, e)
    <2>1. doc.key \in OwnKeys
      BY <1>2, <1>3
    <2>2. authorize_opts("authorize", doc, env, TRUE, 55)
      BY <1>c DEF authorize_compressed
    <2> HIDE DEF doc
    <2> QED BY <2>1, <2>2, DocumentCall
  <1>d. CASE authorize_nfce(Document(nfce, e), env)
    <2> DEFINE doc == Document(nfce, e)
    <2>1. doc.key \in OwnKeys
      BY <1>2, <1>3
    <2>2. authorize_opts("authorize_nfce", doc, env, FALSE, 65)
      BY <1>d DEF authorize_nfce
    <2> HIDE DEF doc
    <2> QED BY <2>1, <2>2, DocumentCall
  <1>e. CASE authorize_nfce_compressed(Document(nfce, e), env)
    <2> DEFINE doc == Document(nfce, e)
    <2>1. doc.key \in OwnKeys
      BY <1>2, <1>3
    <2>2. authorize_opts("authorize_nfce", doc, env, TRUE, 65)
      BY <1>e DEF authorize_nfce_compressed
    <2> HIDE DEF doc
    <2> QED BY <2>1, <2>2, DocumentCall
  <1>f. ASSUME NEW keys \in {{}, {nfe}},
               authorize_batch(env, keys) \/ authorize_batch_compressed(env, keys)
        PROVE  \E w : Call(w) /\ Sound(w)
    <2>1. keys \in SUBSET OwnKeys
      BY <1>2
    <2> QED BY <1>f, <2>1, BatchCall DEF authorize_batch, authorize_batch_compressed
  <1>g. CASE authorize_batch_nfce(env, {nfce})
    <2>1. {nfce} \in SUBSET OwnKeys /\ \E k \in {nfce} : k.model = 65
      BY <1>2
    <2> QED BY <1>g, <2>1, BatchCall DEF authorize_batch_nfce
  <1>h. CASE authorize_contingency(Document(Key(uf, 55, Svc), e), env)
    BY <1>2, <1>3, <1>h, ContingencyCall
  <1>i. ASSUME NEW key \in OwnKeys, consult(key, env)
        PROVE  \E w : Call(w) /\ Sound(w)
    <2>1. Plain("consult", "ConsultaProtocolo", uf, env, build_consulta_request(key, env), 55)
      BY DEF Plain, SefazService, Meta, Cadastro, build_consulta_request, Body
    <2> QED BY <1>i, <2>1, PlainCall DEF consult, send, send_model, send_to_url, build_envelope
  <1>j. ASSUME NEW r \in receipts, consult_receipt(r)
        PROVE  \E w : Call(w) /\ Sound(w)
    BY <1>j, ReceiptCall
  <1>k. ASSUME NEW doc \in known, sefaz_validate(doc)
        PROVE  \E w : Call(w) /\ Sound(w)
    <2>1. doc.env \in SefazEnvironment
      BY DEF Kept, IsHeld
    <2>2. Plain("sefaz_validate", "ConsultaProtocolo", uf, doc.env,
                build_consulta_request(doc.key, doc.env), 55)
      BY <2>1 DEF Plain, SefazService, Meta, Cadastro, build_consulta_request, Body
    <2> QED BY <1>k, <2>2, PlainCall DEF sefaz_validate, send, send_model, send_to_url, build_envelope
  <1> QED BY <1>1, <1>a, <1>b, <1>c, <1>d, <1>e, <1>f, <1>g, <1>h, <1>i, <1>j, <1>k
-----------------------------------------------------------------------------
(* The steps.                                                              *)

\* A call changes the wire alone.
LEMMA CallKeeps ==
    ASSUME RInv, NEW w, Call(w), Sound(w)
    PROVE  RInv'
  <1>1. wire' = w /\ uf' = uf /\ held' = held /\ receipts' = receipts /\ known' = known
    BY DEF Call
  <1>2. Kept'
    BY <1>1 DEF RInv, Kept, IsHeld, OwnKeys, OfALot
  <1>3. Sound(wire)'
    BY <1>1 DEF Sound, Served, Followed, OfALot, OwnKeys
  <1> QED BY <1>1, <1>2, <1>3 DEF RInv

\* With nothing on the wire, there is what is held to look after.
LEMMA WireEmpty ==
    ASSUME uf \in Issuers, uf' = uf, Kept', wire' = None
    PROVE  RInv'
  <1>1. Sound(wire)'
    BY DEF Sound, IsPosted
  <1> QED BY <1>1 DEF RInv

\* What is held stays held.
LEMMA HeldGrows ==
    ASSUME Kept, uf' = uf, held \subseteq held',
           \A h \in held' \ held : h.key \in OwnKeys /\ h.env \in SefazEnvironment,
           \A d \in known' \ known : IsHeld(d.key, d.env)',
           \A r \in receipts' \ receipts :
               /\ r.env \in SefazEnvironment /\ r.keys \subseteq OwnKeys
               /\ \A k \in r.keys : IsHeld(k, r.env)'
               /\ OfALot(r.keys, r.at)
    PROVE  Kept'
  <1>1. OwnKeys' = OwnKeys
    BY DEF OwnKeys
  <1>2. \A key, env : IsHeld(key, env) => IsHeld(key, env)'
    BY DEF IsHeld
  <1>3. \A keys, at : OfALot(keys, at) => OfALot(keys, at)'
    BY DEF OfALot
  <1>4. \A h \in held' : h.key \in OwnKeys' /\ h.env \in SefazEnvironment
    BY <1>1 DEF Kept
  <1>5. \A d \in known' : IsHeld(d.key, d.env)'
    BY <1>2 DEF Kept
  <1>6. \A r \in receipts' :
          /\ r.env \in SefazEnvironment /\ r.keys \subseteq OwnKeys'
          /\ \A k \in r.keys : IsHeld(k, r.env)'
          /\ OfALot(r.keys, r.at)'
    <2> TAKE r \in receipts'
    <2>1. CASE r \in receipts
      BY <1>1, <1>2, <1>3, <2>1 DEF Kept
    <2>2. CASE r \notin receipts
      BY <1>1, <1>3, <2>2
    <2> QED BY <2>1, <2>2
  <1> QED BY <1>4, <1>5, <1>6 DEF Kept

\* The documents of an authorization are registered, and only then told of or
\* promised by a receipt.
LEMMA AutorizacaoKeeps ==
    ASSUME RInv, IsPosted(wire), wire.service = "Autorizacao", AnswerAutorizacao,
           uf' = uf, wire' = None
    PROVE  RInv'
  <1> DEFINE docs == {Document(k, wire.env) : k \in wire.body.keys}
  <1>1. /\ wire.env \in SefazEnvironment /\ wire.body.keys \subseteq OwnKeys
        /\ wire.body.nRec = "async" => OfALot(wire.body.keys, wire.at)
    BY DEF RInv, Sound
  <1>2. CASE UNCHANGED <<held, receipts, known>>
    <2>1. Kept'
      BY <1>2, HeldGrows DEF RInv
    <2> QED BY <2>1, WireEmpty DEF RInv
  <1>3. CASE ~ UNCHANGED <<held, receipts, known>>
    <2>1. /\ Register(docs)
          /\ IF wire.body.nRec = "async"
             THEN /\ receipts' \in {receipts, receipts \cup
                                       {Receipt(wire.at, wire.env, wire.body.keys)}}
                  /\ known' = known
             ELSE Tell(docs) /\ receipts' = receipts
      BY <1>3 DEF AnswerAutorizacao
    <2>2. \A d \in docs : d.key \in wire.body.keys /\ d.env = wire.env
      BY DEF Document
    <2>3. held' = held \cup {Holding(wire.at, d) : d \in docs}
      BY <2>1 DEF Register
    <2>4. \A h \in held' \ held : h.key \in OwnKeys /\ h.env \in SefazEnvironment
      <3> HIDE DEF docs
      <3> QED BY <1>1, <2>2, <2>3 DEF Holding
    <2>5. \A d \in docs : IsHeld(d.key, d.env)'
      <3> TAKE d \in docs
      <3>1. Holding(wire.at, d) \in held'
        <4> HIDE DEF docs
        <4> QED BY <2>3
      <3>2. Holding(wire.at, d).key = d.key /\ Holding(wire.at, d).env = d.env
        BY DEF Holding
      <3> HIDE DEF docs
      <3> QED BY <3>1, <3>2, <2>2 DEF IsHeld
    <2>6. \A k \in wire.body.keys : \E h \in held' : h.key = k /\ h.env = wire.env
      <3> TAKE k \in wire.body.keys
      <3> DEFINE h == Holding(wire.at, Document(k, wire.env))
      <3>1. h \in held'
        BY <2>3
      <3>2. h.key = k /\ h.env = wire.env
        BY DEF Holding, Document
      <3> HIDE DEF h
      <3> QED BY <3>1, <3>2
    <2>7. \A d \in known' \ known : IsHeld(d.key, d.env)'
      <3> HIDE DEF docs
      <3> QED BY <2>1, <2>5 DEF Tell
    <2>8. \A r \in receipts' \ receipts :
            /\ r.env \in SefazEnvironment /\ r.keys \subseteq OwnKeys
            /\ \A k \in r.keys : IsHeld(k, r.env)'
            /\ OfALot(r.keys, r.at)
      <3> TAKE r \in receipts' \ receipts
      <3>1. r = Receipt(wire.at, wire.env, wire.body.keys) /\ wire.body.nRec = "async"
        <4> HIDE DEF docs
        <4> QED BY <2>1
      <3>2. r.at = wire.at /\ r.env = wire.env /\ r.keys = wire.body.keys
        BY <3>1 DEF Receipt
      <3>3. \A k \in r.keys : IsHeld(k, r.env)'
        BY <2>6, <3>2 DEF IsHeld
      <3>4. OfALot(r.keys, r.at)
        BY <1>1, <3>1, <3>2 DEF OfALot
      <3> QED BY <1>1, <3>2, <3>3, <3>4
    <2> HIDE DEF docs
    <2>9. Kept'
      <3>1. held \subseteq held'
        BY <2>3
      <3> QED BY <2>4, <2>7, <2>8, <3>1, HeldGrows DEF RInv
    <2> QED BY <2>9, WireEmpty DEF RInv
  <1> QED BY <1>2, <1>3

\* A receipt is answered with documents held since it was given.
LEMMA RetAutorizacaoKeeps ==
    ASSUME RInv, IsPosted(wire), wire.service = "RetAutorizacao", AnswerRetAutorizacao,
           uf' = uf, wire' = None
    PROVE  RInv'
  <1> DEFINE r == wire.body.nRec
             docs == IF r.at # wire.at THEN {} ELSE {Document(k, wire.env) : k \in r.keys}
  <1>1. r \in receipts /\ wire.env = r.env
    BY DEF RInv, Sound
  <1>2. Tell(docs) /\ UNCHANGED <<held, receipts>>
    BY DEF AnswerRetAutorizacao
  <1>3. \A d \in docs : d.key \in r.keys /\ d.env = r.env
    BY <1>1 DEF Document
  <1> HIDE DEF docs, r
  <1>4. \A d \in docs : IsHeld(d.key, d.env)'
    BY <1>1, <1>2, <1>3 DEF RInv, Kept, IsHeld
  <1>5. \A d \in known' \ known : IsHeld(d.key, d.env)'
    BY <1>2, <1>4 DEF Tell
  <1>6. Kept'
    BY <1>2, <1>5, HeldGrows DEF RInv
  <1> QED BY <1>6, WireEmpty DEF RInv

\* A query finds what the authority asked holds.
LEMMA ConsultaKeeps ==
    ASSUME RInv, IsPosted(wire), AnswerConsulta, uf' = uf, wire' = None
    PROVE  RInv'
  <1> DEFINE found == {j \in wire.body.keys : HeldBy(wire.at, j, wire.env)}
             docs == {Document(k, wire.env) : k \in found}
  <1>1. Tell(docs) /\ UNCHANGED <<held, receipts>>
    BY DEF AnswerConsulta
  <1>2. \A d \in docs : IsHeld(d.key, d.env)'
    BY <1>1 DEF HeldBy, Holding, Document, IsHeld
  <1> HIDE DEF docs
  <1>3. \A d \in known' \ known : IsHeld(d.key, d.env)'
    BY <1>1, <1>2 DEF Tell
  <1>4. Kept'
    BY <1>1, <1>3, HeldGrows DEF RInv
  <1> QED BY <1>4, WireEmpty DEF RInv

\* What a virtual authorizer passes on is the document it registered.
LEMMA TransferKeeps ==
    ASSUME RInv, Transfer
    PROVE  RInv'
  <1>1. PICK h \in held : /\ held' = held \cup {Holding(Home(55, h.env), h)}
                          /\ UNCHANGED <<uf, receipts, known, wire>>
    BY DEF Transfer
  <1>2. \A g \in held' \ held : g.key \in OwnKeys /\ g.env \in SefazEnvironment
    BY <1>1 DEF RInv, Kept, Holding
  <1>3. Kept'
    BY <1>1, <1>2, HeldGrows DEF RInv
  <1>4. Sound(wire)'
    BY <1>1 DEF RInv, Sound, Served, Followed, OfALot, OwnKeys
  <1> QED BY <1>1, <1>3, <1>4 DEF RInv

\* Every step preserves it.
LEMMA RInvSteps ==
    ASSUME RInv, [Next]_vars
    PROVE  RInv'
  <1>1. uf \in UF
    BY RoutingAssumption DEF RInv
  <1>2. CASE Authorization
    BY <1>1, <1>2, CallsOfAuthorization, CallKeeps DEF RInv
  <1>3. CASE OfTheEnvironment
    BY <1>1, <1>3, CallsOfTheEnvironment, CallKeeps
  <1>4. CASE OfAnIssuedDocument
    BY <1>1, <1>4, CallsOfAnIssuedDocument, CallKeeps DEF RInv
  <1>5. CASE OfAReceivedDocument
    BY <1>1, <1>5, CallsOfAReceivedDocument, CallKeeps
  <1>6. CASE Answer
    <2>1. IsPosted(wire) /\ wire' = None /\ uf' = uf
      BY <1>6 DEF Answer
    <2>2. CASE wire.service = "Autorizacao"
      BY <1>6, <2>1, <2>2, AutorizacaoKeeps DEF Answer
    <2>3. CASE wire.service = "RetAutorizacao"
      BY <1>6, <2>1, <2>3, RetAutorizacaoKeeps DEF Answer
    <2>4. CASE wire.service = "ConsultaProtocolo"
      BY <1>6, <2>1, <2>4, ConsultaKeeps DEF Answer
    <2>5. CASE wire.service \notin {"Autorizacao", "RetAutorizacao", "ConsultaProtocolo"}
      <3>1. UNCHANGED <<held, receipts, known>>
        BY <1>6, <2>5 DEF Answer
      <3>2. Kept'
        BY <2>1, <3>1, HeldGrows DEF RInv
      <3> QED BY <2>1, <3>2, WireEmpty DEF RInv
    <2> QED BY <2>2, <2>3, <2>4, <2>5
  <1>7. CASE NoAnswer
    <2>1. wire' = None /\ UNCHANGED <<uf, held, receipts, known>>
      BY <1>7 DEF NoAnswer
    <2>2. Kept'
      BY <2>1, HeldGrows DEF RInv
    <2> QED BY <2>1, <2>2, WireEmpty DEF RInv
  <1>8. CASE Transfer
    BY <1>8, TransferKeeps
  <1>9. CASE UNCHANGED vars
    <2>1. Kept'
      BY <1>9, HeldGrows DEF RInv, vars
    <2>2. Sound(wire)'
      BY <1>9 DEF RInv, vars, Sound, Served, Followed, OfALot, OwnKeys
    <2> QED BY <1>9, <2>1, <2>2 DEF RInv, vars
  <1> QED BY <1>2, <1>3, <1>4, <1>5, <1>6, <1>7, <1>8, <1>9 DEF Next

\* RInv is an invariant of the client and its authorities.
THEOREM Correct == Spec => []RInv
  <1>1. Init => RInv
    BY DEF Init, RInv, Kept, Sound, IsPosted
  <1>2. RInv /\ [Next]_vars => RInv'
    BY RInvSteps
  <1> QED BY <1>1, <1>2, PTL DEF Spec
-----------------------------------------------------------------------------
(* What follows from it.                                                   *)

\* Documents, receipts and the request on the wire are of their types.
THEOREM Types == Spec => []TypeOK
  <1>1. RInv => TypeOK
    <2> SUFFICES ASSUME RInv PROVE TypeOK
      OBVIOUS
    <2>1. \A d \in known : d.key \in OwnKeys /\ d.env \in SefazEnvironment
      <3> TAKE d \in known
      <3>1. PICK h \in held : h.key = d.key /\ h.env = d.env
        BY DEF RInv, Kept, IsHeld
      <3> QED BY <3>1 DEF RInv, Kept
    <2> QED BY <2>1 DEF RInv, Kept, Sound, TypeOK
  <1> QED BY <1>1, Correct, PTL

\* Every request but an authorization says the environment of the endpoint it
\* is posted to, and what the application knows is held in that environment:
\* the part of an authority that serves the other one never answers for it.
THEOREM Environment == Spec => []EnvironmentKept
  <1>1. RInv => EnvironmentKept
    BY DEF RInv, Kept, IsHeld, Sound, EnvironmentKept
  <1> QED BY <1>1, Correct, PTL

\* The organ an event names and the authority it is posted to are decided in
\* different functions and agree, for every kind of event.
THEOREM Organ == Spec => []OrgaoServed
  <1>1. RInv => OrgaoServed
    <2> SUFFICES ASSUME RInv, IsPosted(wire), NEW e \in wire.body.events,
                        wire.at # "AN", e.id.key.uf = uf
                 PROVE  \E s \in Jurisdiction(wire.at, 55) \cup Jurisdiction(wire.at, 65) :
                            get_state_code(s) = e.cOrgao
      BY DEF OrgaoServed, RInv, Sound, Served
    <2>1. wire.at \in {At(55, uf), At(65, uf)} /\ e.cOrgao = get_state_code(uf)
      BY DEF RInv, Sound, Served
    <2>2. uf \in UF
      BY RoutingAssumption DEF RInv
    <2>3. uf \in Jurisdiction(At(55, uf), 55) /\ uf \in Jurisdiction(At(65, uf), 65)
      BY <2>2 DEF Jurisdiction, At
    <2> QED BY <2>1, <2>3
  <1> QED BY <1>1, Correct, PTL

\* What is asked about a document its authority holds reaches an authority that
\* holds it, whatever was lost or passed on before; a receipt of a lot of model
\* 55 is asked where it was given.
THEOREM Asked == Spec => []AskedWhereHeld
  <1>1. RInv => AskedWhereHeld
    <2> SUFFICES ASSUME RInv, IsPosted(wire)
                 PROVE  /\ wire.op \in FollowUps => \A k \in wire.body.keys :
                              \/ k.model = 65 /\ wire.op # "cancel_substituicao"
                              \/ ~MissesItsDocument(k)
                        /\ wire.op = "consult_receipt" =>
                              \/ \E k \in wire.body.nRec.keys : k.model = 65
                              \/ wire.body.nRec.at = wire.at
      BY DEF AskedWhereHeld
    <2>1. uf \in UF
      BY RoutingAssumption DEF RInv
    <2>2. ASSUME wire.op \in FollowUps, NEW k \in wire.body.keys
          PROVE  \/ k.model = 65 /\ wire.op # "cancel_substituicao"
                 \/ ~MissesItsDocument(k)
      <3>1. CASE wire.at = At(k.model, uf)
        <4>1. wire.env \in SefazEnvironment
          BY <2>2 DEF RInv, Sound, Followed
        <4>2. Home(k.model, wire.env) = wire.at
          BY <2>1, <3>1, <4>1, HomeIsAt
        <4> QED BY <4>2 DEF MissesItsDocument
      <3> QED BY <2>2, <3>1 DEF RInv, Sound, Followed
    <2>3. ASSUME wire.op = "consult_receipt"
          PROVE  (\E k \in wire.body.nRec.keys : k.model = 65) \/ wire.body.nRec.at = wire.at
      BY <2>3 DEF RInv, Sound, Kept, OfALot
    <2> QED BY <2>2, <2>3
  <1> QED BY <1>1, Correct, PTL

\* In every state the virtual authorizer is another authority than the state's
\* own, and the one of the emission type: the tables of fiscal_core and of
\* fiscal_sefaz say the same.
THEOREM Elsewhere == Spec => []ContingencyElsewhere
  <1>1. RInv => ContingencyElsewhere
    <2> SUFFICES ASSUME RInv, IsPosted(wire), wire.op = "authorize_contingency"
                 PROVE  /\ wire.at # Home(55, wire.env)
                        /\ (wire.at = SVCRS[wire.env].NfeAutorizacao.at)
                              <=> (contingency_for_state(uf) = "SvcRs")
      BY DEF ContingencyElsewhere
    <2>1. uf \in UF
      BY RoutingAssumption DEF RInv
    <2>2. /\ wire.env \in SefazEnvironment
          /\ wire.at = IF contingency_for_state(uf) = "SvcRs" THEN "SVRS" ELSE "SVAN"
          /\ wire.at # At(55, uf)
      BY DEF RInv, Sound
    <2>3. Home(55, wire.env) = At(55, uf)
      BY <2>1, <2>2, HomeIsAt
    <2>4. SVCRS[wire.env].NfeAutorizacao.at = "SVRS"
      <3>1. TableOf(SVCRS, "SVRS")
        BY RegisterElsewhere DEF SVCRS, SefazEnvironment
      <3>2. SVCRS[wire.env].NfeAutorizacao = Endpoint("SVRS", wire.env, "NfeAutorizacao")
        BY <2>2, <3>1 DEF TableOf, Mandatory, Cadastro
      <3> QED BY <3>2 DEF Endpoint
    <2> QED BY <2>2, <2>3, <2>4
  <1> QED BY <1>1, Correct, PTL
=============================================================================
