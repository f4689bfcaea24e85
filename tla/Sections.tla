------------------------------ MODULE Sections -------------------------------
(***************************************************************************)
(* fiscal_core::xml_builder, the parts of an invoice that are not items:   *)
(* ide, emit, dest, transp, cobr, pag and the optional groups.  d is what  *)
(* the caller set, s the settings, cNF the number drawn for the access     *)
(* key.  Whether a tax id is written as CNPJ or CPF is left out: both are  *)
(* the tag "taxId".                                                        *)
(***************************************************************************)
EXTENDS Det

SectionLimit == [obsCont |-> 10, obsFisco |-> 10, procRef |-> 100, forDia |-> 31, deduc |-> 10, defensivo |-> 20]
-----------------------------------------------------------------------------
build_references(d) ==
    Write(d, "refNFe", {"refNFe"}) \cup Write(d, "refNFeSig", {"refNFeSig"})
    \cup Write(d, "refNF", {"cUF", "AAMM", "CNPJ", "mod", "serie", "nNF"})
    \cup Write(d, "refNFP", {"cUF", "AAMM", "taxId", "IE", "mod", "serie", "nNF"})
    \cup Write(d, "refCTe", {"refCTe"}) \cup Write(d, "refECF", {"mod", "nECF", "nCOO"})

build_compra_gov(d)     == Write(d, "gCompraGov", {"tpEnteGov", "pRedutor", "tpOperGov"})
build_pag_antecipado(d) == Write(d, "gPagAntecipado", {"refNFe"})

\* A state's offset, in hours behind UTC: AC, then AM, RO, RR, MT and MS, then the others.
UtcOffset(uf) == CASE uf = 12 -> 5 [] uf \in {13, 11, 14, 51, 50} -> 4 [] OTHER -> 3
StateOf(d)    == Amount(d, "enderEmit", "UF")

\* The offset of a date is replaced and its digits are kept: another instant,
\* unless the caller's offset is that of the state.
format_datetime_nfe(v, uf) == 100 * (v \div 100) + UtcOffset(uf)
Restamp(dates, uf) == {Leaf(l.n, l.in, l.m, l.tag, format_datetime_nfe(l.v, uf)) : l \in dates}

\* The last digit of the access key: a function of the key, which repeats what
\* is in the document but for the number drawn.
check_digit(cNF) == cNF % 10

Ones    == {"tpNF", "idDest", "tpImp", "finNFe"}
Zeros   == {"indFinal", "indPres", "procEmi"}
build_ide(s, d, cNF) ==
    Put(0, "ide", "cNF", cNF) \cup Put(0, "ide", "mod", s.model) \cup Put(0, "ide", "tpEmis", s.tpEmis)
    \cup Put(0, "ide", "cUF", StateOf(d)) \cup Put(0, "ide", "cDV", check_digit(cNF))
    \cup Put(0, "ide", "tpAmb", IF s.homologation THEN 2 ELSE 1)
    \cup Put(0, "ide", "cMunFG", Amount(d, "enderEmit", "cMun"))
    \cup Write(d, "ide", {"natOp", "serie", "nNF", "indIntermed", "xJust"})
    \cup Restamp(Write(d, "ide", {"dhEmi", "dhCont"}), StateOf(d))
    \cup (IF s.model = 55 THEN Restamp(Write(d, "ide", {"dhSaiEnt"}), StateOf(d)) ELSE {})
    \cup (UNION {WriteOr(d, 0, "ide", tag, 1) : tag \in Ones}) \cup OrZero(d, 0, "ide", Zeros)
    \cup WriteOr(d, 0, "ide", "verProc", Supplied)
    \cup build_references(d)
    \cup Pl010(s, build_compra_gov(d) \cup build_pag_antecipado(d))

build_address_fields(d, in) ==
    Write(d, in, {"xLgr", "nro", "xCpl", "xBairro", "cMun", "xMun", "UF", "CEP", "fone"})
    \cup Put(0, in, "cPais", 1058) \cup Put(0, in, "xPais", Supplied)

\* The CNAE is written only with the municipal registration, the trade name
\* only when it is not blank.
build_emit(s, d) ==
    Write(d, "emit", {"taxId", "xNome", "IE", "IEST", "IM"})
    \cup {l \in Write(d, "emit", {"xFant"}) : l.v \notin {Empty, White}}
    \cup build_address_fields(d, "enderEmit")
    \cup (IF Has(d, "emit", "IM") THEN Write(d, "emit", {"CNAE"}) ELSE {})
    \cup Put(0, "emit", "CRT", s.tax_regime)

\* An address the recipient does not give is the issuer's, field by field; the
\* state alone is not completed when it is empty.
OfIssuer == {"xLgr", "nro", "xBairro", "cMun", "xMun", "CEP"}
OrOfIssuer(d, tag) ==
    IF Filled(d, "enderDest", tag) THEN Write(d, "enderDest", {tag})
    ELSE Put(0, "enderDest", tag, Amount(d, "enderEmit", tag))
RecipientAddress(d) ==
    (UNION {OrOfIssuer(d, tag) : tag \in OfIssuer})
    \cup WriteOr(d, 0, "enderDest", "UF", StateOf(d))
    \cup WriteOr(d, 0, "enderDest", "cPais", 1058) \cup WriteOr(d, 0, "enderDest", "xPais", Supplied)
    \cup Write(d, "enderDest", {"xCpl", "fone"})

Contributor(s, d) ==
    IF s.model = 65 THEN Put(0, "dest", "indIEDest", 9)
    ELSE WriteOr(d, 0, "dest", "indIEDest", IF Has(d, "dest", "IE") THEN 1 ELSE 9)

build_dest(s, d) ==
    IF ~Given(d, "dest") THEN {}
    ELSE Write(d, "dest", {"taxId", "ISUF", "IM", "email"})
         \cup (IF s.homologation /\ (Filled(d, "dest", "xNome") \/ s.model = 65)
               THEN Put(0, "dest", "xNome", Notice) ELSE {l \in Write(d, "dest", {"xNome"}) : l.v # Empty})
         \cup Contributor(s, d)
         \cup (IF s.model = 55 THEN RecipientAddress(d) \cup Write(d, "dest", {"IE"}) ELSE {})

build_location_children(d, in) ==
    Write(d, in, {"taxId", "xNome", "xLgr", "nro", "xCpl", "xBairro", "cMun", "xMun", "UF", "CEP", "cPais",
                  "xPais", "fone", "email", "IE"})
build_withdrawal(d) == build_location_children(d, "retirada")
build_delivery(d)   == build_location_children(d, "entrega")
build_aut_xml(d)    == Write(d, "autXML", {"taxId"})
-----------------------------------------------------------------------------
\* A wagon only without vehicles, a barge only without either.
OnRoad(d)      == Given(d, "veicTransp") \/ Given(d, "reboque")
Wagon(d)       == IF OnRoad(d) THEN {} ELSE Write(d, "transp", {"vagao"})
Barge(d)       == IF OnRoad(d) \/ Has(d, "transp", "vagao") THEN {} ELSE Write(d, "transp", {"balsa"})

build_transp(d) ==
    IF ~Given(d, "transp") THEN Put(0, "transp", "modFrete", 9)
    ELSE Write(d, "transp", {"modFrete"}) \cup Wagon(d) \cup Barge(d)
         \cup Write(d, "transporta", {"taxId", "xNome", "IE", "xEnder", "xMun", "UF"})
         \cup Write(d, "retTransp", {"vServ", "vBCRet", "pICMSRet", "vICMSRet", "CFOP", "cMunFG"})
         \cup Write(d, "veicTransp", {"placa", "UF", "RNTC"}) \cup Write(d, "reboque", {"placa", "UF", "RNTC"})
         \cup Write(d, "vol", {"qVol", "esp", "marca", "nVol", "pesoL", "pesoB"})
         \cup Write(d, "lacres", {"nLacre"})

build_cobr(d) ==
    Write(d, "fat", {"nFat", "vOrig", "vDesc", "vLiq"}) \cup Write(d, "dup", {"nDup", "dVenc", "vDup"})

\* Mutant: cards of an integrated terminal only.
IntegratedCards(d) ==
    {l \in Write(d, "card", {"tpIntegra", "CNPJ", "tBand", "cAut", "CNPJReceb", "idTermPag"}) :
        /\ \E p \in Of(d, "detPag") : p.m = l.m
        /\ \E o \in Write(d, "card", {"tpIntegra"}) : o.m = l.m /\ o.v = 1}
\* The i-th card goes with the i-th payment, and only when tpIntegra is 1 or 2.
CardsWithPayment(d) ==
    {l \in Write(d, "card", {"tpIntegra", "CNPJ", "tBand", "cAut", "CNPJReceb", "idTermPag"}) :
        /\ \E p \in Of(d, "detPag") : p.m = l.m
        /\ \E o \in Write(d, "card", {"tpIntegra"}) : o.m = l.m /\ o.v \in {1, 2}}

build_pag(d) ==
    IF ~Given(d, "detPag") THEN Put(0, "detPag", "tPag", 90) \cup Put(0, "detPag", "vPag", 0)
    ELSE Write(d, "detPag", {"indPag", "tPag", "xPag", "vPag", "dPag", "CNPJPag", "UFPag"})
         \cup CardsWithPayment(d)
         \cup {l \in Write(d, "pag", {"vTroco"}) : l.v > 0}
-----------------------------------------------------------------------------
build_intermediary(d) == Write(d, "infIntermed", {"CNPJ", "idCadIntTran"})

\* The reason of the contingency is added to the note of the taxpayer.
build_inf_adic(d) ==
    Write(d, "infAdic", {"infAdFisco", "infCpl"})
    \cup (IF Has(d, "ide", "xJust") THEN Put(0, "infAdic", "contingencia", Amount(d, "ide", "xJust")) ELSE {})
    \cup FirstOf(d, "obsCont", {"xCampo", "xTexto"}, SectionLimit["obsCont"])
    \cup FirstOf(d, "obsFisco", {"xCampo", "xTexto"}, SectionLimit["obsFisco"])
    \cup FirstOf(d, "procRef", {"nProc", "indProc", "tpAto"}, SectionLimit["procRef"])

build_export(d)   == Write(d, "exporta", {"UFSaidaPais", "xLocExporta", "xLocDespacho"})
build_purchase(d) == Write(d, "compra", {"xNEmp", "xPed", "xCont"})

build_cana(d) ==
    Write(d, "cana", {"safra", "ref", "qTotMes", "qTotAnt", "qTotGer", "vFor", "vTotDed", "vLiqFor"})
    \cup FirstOf(d, "forDia", {"dia", "qtde"}, SectionLimit["forDia"])
    \cup FirstOf(d, "deduc", {"xDed", "vDed"}, SectionLimit["deduc"])

\* The hash is of the secret and of the access key; it needs the secret's id.
compute_hash_csrt(csrt, cNF) == 1000 * cNF + csrt
build_tech_responsible_with_key(d, cNF) ==
    Write(d, "infRespTec", {"CNPJ", "xContato", "email", "fone"})
    \cup IF Has(d, "infRespTec", "CSRT") /\ Has(d, "infRespTec", "idCSRT")
         THEN Write(d, "infRespTec", {"idCSRT"})
              \cup Put(0, "infRespTec", "hashCSRT",
                       compute_hash_csrt(Amount(d, "infRespTec", "CSRT"), cNF))
         ELSE {}

build_agropecuario(d) ==
    Write(d, "guiaTransito", {"tpGuia", "UFGuia", "serieGuia", "nGuia"})
    \cup FirstOf(d, "defensivo", {"nReceituario", "CPFRespTec"}, SectionLimit["defensivo"])
-----------------------------------------------------------------------------
(* The totals.  t is the sum of the DetResults of the items that count.    *)

calculate_v_nf(t, deduz, vServ) ==
    t.vProd - t.vDesc - (IF deduz THEN t.vICMSDeson ELSE 0) + t.vST + t.vFCPST + t.vFrete + t.vSeg + t.vOutro
    + t.vII + t.vIPI + t.vIPIDevol + t.vPISST + t.vCOFINSST + vServ

build_issqn_tot(d) ==
    {l \in Write(d, "ISSQNtot", {"vServ", "vBC", "vISS", "vPIS", "vCOFINS", "vDeducao", "vOutro", "vDescIncond",
                                 "vDescCond", "vISSRet"}) : l.v > 0}
    \cup Write(d, "ISSQNtot", {"dCompet", "cRegTrib"})

build_ret_trib(d) ==
    Write(d, "retTrib", {"vRetPIS", "vRetCOFINS", "vRetCSLL", "vBCIRRF", "vIRRF", "vBCRetPrev", "vRetPrev"})

\* The value of the invoice with IBS, CBS and IS, unless the caller states it.
v_nf_tot(d, vNF) ==
    IF Has(d, "total", "vNFTot") THEN Amount(d, "total", "vNFTot")
    ELSE vNF + Amount(d, "gIBS", "vIBS") + Amount(d, "gCBSTot", "vCBS") + Amount(d, "ISTot", "vIS")

AlwaysTotalled == {"vBC", "vICMS", "vICMSDeson", "vFCP", "vBCST", "vST", "vFCPST", "vFCPSTRet", "vProd", "vFrete",
                   "vSeg", "vDesc", "vII", "vIPI", "vIPIDevol", "vPIS", "vCOFINS", "vOutro"}

build_total(s, d, t, deduz) ==
    LET vNF == calculate_v_nf(t, deduz, Amount(d, "ISSQNtot", "vServ"))
        tot == v_nf_tot(d, vNF) IN
    (UNION {Put(0, "ICMSTot", tag, t[tag]) : tag \in AlwaysTotalled})
    \cup Put(0, "ICMSTot", "vNF", vNF)
    \cup (IF t.vTotTrib > 0 THEN Put(0, "ICMSTot", "vTotTrib", t.vTotTrib) ELSE {})
    \cup (IF Given(d, "ISSQNtot") THEN build_issqn_tot(d) ELSE {})
    \cup Pl010(s, build_is_tot_xml(d)
                   \cup IF ~Given(d, "IBSCBSTot") THEN {}
                        ELSE build_ibs_cbs_tot_xml(d)
                             \cup IF tot > 0 THEN Put(0, "total", "vNFTot", tot) ELSE {})
    \cup build_ret_trib(d)
=============================================================================
