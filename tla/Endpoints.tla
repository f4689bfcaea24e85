------------------------------ MODULE Endpoints ------------------------------
(***************************************************************************)
(* fiscal_sefaz::urls and ::services.  An endpoint is the authority that   *)
(* answers there, the environment and the service; two tables with the     *)
(* same text of a URL have the same endpoint.  A table gives the endpoints *)
(* of an authorizer by environment and service key.                        *)
(***************************************************************************)
EXTENDS Optional

SefazEnvironment == {"production", "homologation"}

\* Services every AuthorizerServices has a field for, and optional ones.
Mandatory == {"NfeStatusServico", "NfeAutorizacao", "NfeRetAutorizacao",
              "NfeConsultaProtocolo", "NfeInutilizacao", "RecepcaoEvento"}
Cadastro == "NfeConsultaCadastro"
OptionalServices == {Cadastro, "NfeDistribuicaoDFe", "CscNFCe", "RecepcaoEPEC",
                     "EPECStatusServico", "NfeConsultaDest", "NfeDownloadNF"}
ServiceKey == Mandatory \cup OptionalServices

Endpoint(at, env, key) == [at |-> at, env |-> env, key |-> key]

one_environment(at, keys) ==
    [env \in SefazEnvironment |-> [key \in keys |-> Endpoint(at, "production", key)]]

AuthorizerServices(at, keys) ==
    [env \in SefazEnvironment |-> [key \in keys |-> Endpoint(at, env, key)]]

\* A taxpayer register that stands elsewhere, with an endpoint by environment.
WithCadastro(table, url) ==
    [env \in DOMAIN url |->
        [key \in DOMAIN table[env] \cup {Cadastro} |->
            IF key = Cadastro THEN url[env] ELSE table[env][key]]]
-----------------------------------------------------------------------------
(* Model 55. *)
AM == AuthorizerServices("AM", Mandatory)
BA == AuthorizerServices("BA", Mandatory \cup {Cadastro})
GO == AuthorizerServices("GO", Mandatory \cup {Cadastro})
MG == AuthorizerServices("MG", Mandatory \cup {Cadastro})
MS == AuthorizerServices("MS", Mandatory \cup {Cadastro})
MT == AuthorizerServices("MT", Mandatory \cup {Cadastro})
PE == AuthorizerServices("PE", Mandatory \cup {Cadastro})
PR == AuthorizerServices("PR", Mandatory \cup {Cadastro})
SP == AuthorizerServices("SP", Mandatory \cup {Cadastro})

\* The taxpayer register of SVRS is the production one in both environments.
RS == WithCadastro(AuthorizerServices("RS", Mandatory),
        [env \in SefazEnvironment |-> Endpoint("SVRS", "production", Cadastro)])

SVRS == AuthorizerServices("SVRS", Mandatory \cup {Cadastro})
SVAN == AuthorizerServices("SVAN", Mandatory)

\* The fields the Ambiente Nacional does not serve hold the empty text, an address that is nowhere.
NoUrl == Endpoint("nowhere", "nowhere", "nowhere")
AN == [env \in SefazEnvironment |->
        [key \in Mandatory \cup {"NfeDistribuicaoDFe", "RecepcaoEPEC",
                                 "NfeConsultaDest", "NfeDownloadNF"} |->
            IF key \in Mandatory \ {"RecepcaoEvento"} THEN NoUrl
            ELSE Endpoint("AN", env, key)]]

\* The SVC authorizers answer at the URLs of SVAN and SVRS.
SVCAN == AuthorizerServices("SVAN", Mandatory)
SVCRS == WithCadastro(AuthorizerServices("SVRS", Mandatory),
           [production |-> Endpoint("SVRS", "production", Cadastro),
            homologation |-> NoUrl])

(* Model 65.  Goias answers for both models at the same URLs. *)
AM_NFCE == AuthorizerServices("AM_NFCE", Mandatory \cup {"CscNFCe"})
GO_NFCE == AuthorizerServices("GO", Mandatory \cup {"CscNFCe"})
MG_NFCE == AuthorizerServices("MG_NFCE", Mandatory)
MS_NFCE == AuthorizerServices("MS_NFCE", Mandatory)
MT_NFCE == AuthorizerServices("MT_NFCE", Mandatory)
RS_NFCE == AuthorizerServices("RS_NFCE", Mandatory)
SP_NFCE == AuthorizerServices("SP_NFCE",
             Mandatory \cup {"RecepcaoEPEC", "EPECStatusServico"})
PR_NFCE == AuthorizerServices("PR_NFCE", Mandatory)
SVRS_NFCE == AuthorizerServices("SVRS_NFCE", Mandatory)
-----------------------------------------------------------------------------
STATE_IBGE_CODES ==
    [AC |-> 12, AL |-> 27, AP |-> 16, AM |-> 13, BA |-> 29, CE |-> 23, DF |-> 53,
     ES |-> 32, GO |-> 52, MA |-> 21, MT |-> 51, MS |-> 50, MG |-> 31, PA |-> 15,
     PB |-> 25, PR |-> 41, PE |-> 26, PI |-> 22, RJ |-> 33, RN |-> 24, RS |-> 43,
     RO |-> 11, RR |-> 14, SC |-> 42, SP |-> 35, SE |-> 28, TO |-> 17,
     AN |-> 91, SVRS |-> 92]

\* The states and the Federal District.
UF == DOMAIN STATE_IBGE_CODES \ {"AN", "SVRS"}

get_state_code(uf) ==
    IF uf \in DOMAIN STATE_IBGE_CODES THEN STATE_IBGE_CODES[uf] ELSE None

get_state_by_code(code) ==
    IF \E uf \in DOMAIN STATE_IBGE_CODES : STATE_IBGE_CODES[uf] = code
    THEN CHOOSE uf \in DOMAIN STATE_IBGE_CODES : STATE_IBGE_CODES[uf] = code
    ELSE None
-----------------------------------------------------------------------------
OwnAuthorizers ==
    [AM |-> AM, BA |-> BA, GO |-> GO, MG |-> MG, MS |-> MS, MT |-> MT,
     PE |-> PE, PR |-> PR, RS |-> RS, SP |-> SP, MA |-> SVAN]
VirtualStates == UF \ DOMAIN OwnAuthorizers

get_state_authorizer(uf) ==
    IF uf \in DOMAIN OwnAuthorizers THEN OwnAuthorizers[uf]
    ELSE IF uf \in VirtualStates THEN SVRS ELSE None

NfceAuthorizers ==
    [AM |-> AM_NFCE, GO |-> GO_NFCE, MG |-> MG_NFCE, MS |-> MS_NFCE,
     MT |-> MT_NFCE, PR |-> PR_NFCE, RS |-> RS_NFCE, SP |-> SP_NFCE]

get_state_nfce_authorizer(uf) ==
    IF uf \in DOMAIN NfceAuthorizers THEN NfceAuthorizers[uf]
    ELSE IF uf \in UF THEN SVRS_NFCE ELSE None

maranhao_in_svcan(uf) ==
    IF uf \in {"AM", "BA", "GO", "MS", "MT", "PE", "PR"} THEN "SVCRS"
    ELSE IF uf \in UF THEN "SVCAN" ELSE None

get_state_contingency_authorizer(uf) ==
    IF uf \in {"AM", "BA", "GO", "MA", "MS", "MT", "PE", "PR"} THEN "SVCRS"
    ELSE IF uf \in UF THEN "SVCAN" ELSE None

\* fiscal_core::contingency keeps a list of its own (an unknown state panics).
contingency_for_state(uf) ==
    IF uf \in {"AM", "BA", "GO", "MA", "MS", "MT", "PE", "PR"} THEN "SvcRs"
    ELSE IF uf \in UF THEN "SvcAn" ELSE None

\* A mandatory service is found even if its text is empty; an optional one
\* only if it has an endpoint.
get_url(table, key, env) ==
    IF key \notin DOMAIN table[env] THEN None
    ELSE IF key \in OptionalServices /\ table[env][key] = NoUrl THEN None
    ELSE table[env][key]

InvalidStateCode == [error |-> "InvalidStateCode"]
XmlGeneration == [error |-> "XmlGeneration"]
InvalidTaxData == [error |-> "InvalidTaxData"]
Failure == {InvalidStateCode, XmlGeneration, InvalidTaxData}

Resolve(table, key, env) ==
    IF table = None THEN InvalidStateCode
    ELSE LET url == get_url(table, key, env)
         IN  IF url = None THEN XmlGeneration ELSE url

get_sefaz_url_for_model(uf, env, key, model) ==
    Resolve(IF model = 65 THEN get_state_nfce_authorizer(uf)
            ELSE get_state_authorizer(uf), key, env)

get_sefaz_url(uf, env, key) == get_sefaz_url_for_model(uf, env, key, 55)

get_an_url(env, key) == Resolve(AN, key, env)

get_sefaz_contingency_url(uf, env, key) ==
    LET svc == get_state_contingency_authorizer(uf)
    IN  Resolve(IF svc = None THEN None ELSE IF svc = "SVCAN" THEN SVCAN ELSE SVCRS,
                key, env)
-----------------------------------------------------------------------------
(* SefazService: the key of the URL, and what the SOAP envelope says. *)
Meta(key, method, operation) ==
    [url_key |-> key, method |-> method, operation |-> operation]

SefazService ==
    [StatusServico |-> Meta("NfeStatusServico", "nfeStatusServicoNF", "NFeStatusServico4"),
     Autorizacao |-> Meta("NfeAutorizacao", "nfeAutorizacaoLote", "NFeAutorizacao4"),
     RetAutorizacao |->
        Meta("NfeRetAutorizacao", "nfeRetAutorizacaoLote", "NFeRetAutorizacao4"),
     ConsultaProtocolo |->
        Meta("NfeConsultaProtocolo", "nfeConsultaNF", "NFeConsultaProtocolo4"),
     Inutilizacao |-> Meta("NfeInutilizacao", "nfeInutilizacaoNF", "NFeInutilizacao4"),
     RecepcaoEvento |-> Meta("RecepcaoEvento", "nfeRecepcaoEvento", "NFeRecepcaoEvento4"),
     DistribuicaoDFe |->
        Meta("NfeDistribuicaoDFe", "nfeDistDFeInteresse", "NFeDistribuicaoDFe"),
     ConsultaCadastro |-> Meta(Cadastro, "consultaCadastro", "CadConsultaCadastro4"),
     CscNFCe |-> Meta("CscNFCe", "admCscNFCe", "CscNFCe"),
     RecepcaoEPEC |-> Meta("RecepcaoEPEC", "nfeRecepcaoEvento", "RecepcaoEvento"),
     EPECStatusServico |->
        Meta("EPECStatusServico", "nfeStatusServicoNF2", "NfeStatusServico2"),
     RecepcaoEpecNfce |-> Meta("RecepcaoEPEC", "nfeRecepcaoEvento", "RecepcaoEvento"),
     EpecNfceStatusServico |->
        Meta("EPECStatusServico", "nfeStatusServicoNF2", "NfeStatusServico2"),
     NfeConsultaDest |-> Meta("NfeConsultaDest", "nfeConsultaNFDest", "NfeConsultaDest"),
     NfeDownloadNF |-> Meta("NfeDownloadNF", "nfeDownloadNF", "NfeDownloadNF")]
=============================================================================
