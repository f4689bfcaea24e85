------------------------------- MODULE TxtXml --------------------------------
(***************************************************************************)
(* fiscal_core::convert::build_*.  The XML of an invoice is the set of its *)
(* elements that carry a value of the TXT: where the element stands, its   *)
(* tag and the line its value was read from.  Padding of decimals, defaults *)
(* and the order of the elements are left out.                             *)
(***************************************************************************)
EXTENDS TxtParser, FiniteSets

\* A part of the XML: the n-th of its kind, and the m-th inside it.
At(part, n, m) == [part |-> part, n |-> n, m |-> m]
The(part) == At(part, 0, 0)

\* The elements written from the fields that a record has.
Written(at, tags, fs) ==
    {[at |-> at, tag |-> f, from |-> fs[f].from] : f \in tags \cap DOMAIN fs}
IfPresent(at, tags, fs) == IF fs = None THEN {} ELSE Written(at, tags, fs)
OfEach(part, n, tags, list) == UNION {Written(At(part, n, m), tags, list[m]) : m \in DOMAIN list}
\* The values of a tax, kept one by one.
OfTax(at, item, tax, tags) ==
    {[at |-> at, tag |-> f, from |-> item.scalar[<<tax, f>>].from] :
        f \in {t \in tags : item.scalar[<<tax, t>>] # None}}
-----------------------------------------------------------------------------
build_ide(p) ==
    LET d == p.slot["ide"]
        tags == (Ide \ {"dhCont", "xJust"}) \cup {"indIntermed"}
        contingency == IF {"dhCont", "xJust"} \subseteq DOMAIN d THEN {"dhCont", "xJust"} ELSE {}
        nf == p.list["nf_ref_nf"]
        issued == {"cUF", "AAMM", "CNPJ", "mod", "serie", "nNF"}
    IN  Written(The("ide"), tags \cup contingency, d)
        \cup OfEach("refNFe", 0, {"refNFe"}, p.list["nf_ref"])
        \cup (UNION {Written(At("refNF", 0, k),
                             IF "IE" \in DOMAIN nf[k] THEN issued \cup {"CPF", "IE"} ELSE issued,
                             nf[k]) : k \in DOMAIN nf})
        \cup OfEach("refCTe", 0, {"refCTe"}, p.list["nf_ref_cte"])
        \cup OfEach("refECF", 0, {"mod", "nECF", "nCOO"}, p.list["nf_ref_ecf"])

build_emit(p) ==
    Written(The("emit"), {"CNPJ", "CPF", "xNome", "xFant", "IE", "IEST", "IM", "CNAE", "CRT"},
            p.slot["emit"])
    \cup Written(The("enderEmit"), Address, p.slot["ender_emit"])

build_dest(p) ==
    Written(The("dest"), {"CNPJ", "CPF", "idEstrangeiro", "xNome", "indIEDest", "IE", "ISUF", "IM",
                          "email"}, p.slot["dest"])
    \cup (IF "xLgr" \in DOMAIN p.slot["ender_dest"]
            THEN Written(The("enderDest"), Address, p.slot["ender_dest"]) ELSE {})

build_local_section(tag, fs) == IfPresent(The(tag), Local \cup {"CNPJ", "CPF", "xNome"}, fs)

build_aut_xml(p) == OfEach("autXML", 0, {"CNPJ", "CPF"}, p.list["aut_xml"])
-----------------------------------------------------------------------------
build_prod(item, n) ==
    LET comb == item.one["comb"] IN
    Written(At("prod", n, 0), Product \cup {"cBenef"}, item.prod)
    \cup IfPresent(At("prod", n, 0), {"CEST"}, item.one["cest"])
    \cup IfPresent(At("gCred", n, 0), {"cCredPresumido", "pCredPresumido", "vCredPresumido"},
                   item.one["g_cred"])
    \cup (UNION {Written(At("DI", n, m), Local400["I18"], item.many["di"][m].own)
                 \cup UNION {Written(At("adi", n, m), Local400["I25"], item.many["di"][m].adi[a]) :
                             a \in DOMAIN item.many["di"][m].adi} : m \in DOMAIN item.many["di"]})
    \cup OfEach("detExport", n, {"nDraw", "nRE", "chNFe"}, item.many["det_export"])
    \cup (UNION {IF {"nRE", "chNFe"} \cap DOMAIN e = {} THEN {}
                 ELSE Written(At("detExport", n, 0), {"qExport"}, e) : e \in {item.many["det_export"][m] :
                             m \in DOMAIN item.many["det_export"]}})
    \cup OfEach("rastro", n, Local400["I80"], item.many["rastro"])
    \cup IfPresent(At("veicProd", n, 0), Local400["JA"], item.one["veic_prod"])
    \cup IfPresent(At("med", n, 0), Local400["K"], item.one["med"])
    \cup OfEach("arma", n, Local400["L"], item.many["arma"])
    \cup (IF comb = None THEN {}
            ELSE Written(At("comb", n, 0), Local400["LA"], comb)
                 \cup IfPresent(At("CIDE", n, 0), structure_400["LA07"], item.one["comb_cide"])
                 \cup IfPresent(At("encerrante", n, 0), structure_400["LA11"], item.one["encerrante"]))
    \cup OfEach("NVE", n, {"NVE"}, item.many["nve"])
    \cup IfPresent(At("prod", n, 0), {"nRECOPI"}, item.one["recopi"])

IcmsTags ==
    ((UNION {Icms[ref] : ref \in DOMAIN Icms}) \cup (UNION {IcmsSpecial[ref] : ref \in DOMAIN IcmsSpecial}))
    \ {"vBCSTDest", "vICMSSTDest"}

build_icms(item, n) == IfPresent(At("ICMS", n, 0), IcmsTags, item.one["icms"])

\* The CST of an item and what it says: None when there is no line for it.
Cst(item, tax) == item.scalar[<<tax, "CST">>]

build_ipi(item, n) ==
    IF item.one["ipi_header"] = None /\ Cst(item, "ipi") = None THEN {}
    ELSE IfPresent(At("IPI", n, 0), {"qSelo", "cEnq"}, item.one["ipi_header"])
         \cup (IF Cst(item, "ipi") = None THEN {}
               ELSE OfTax(At("IPI", n, 0), item, "ipi",
                          IF Cst(item, "ipi").is = "full" THEN {"CST", "vBC", "pIPI", "qUnid", "vUnid", "vIPI"}
                          ELSE {"CST"}))

build_pis(item, n) ==
    IF Cst(item, "pis") = None THEN {}
    ELSE OfTax(At("PIS", n, 0), item, "pis",
               IF Cst(item, "pis").is = "full" THEN {"CST", "vBC", "pPIS", "qBCProd", "vAliqProd", "vPIS"}
               ELSE {"CST"})

build_pis_st(item, n) ==
    IF item.one["pis_st"] = None THEN {}
    ELSE OfTax(At("PISST", n, 0), item, "pis_st", {"vBC", "pPIS", "qBCProd", "vAliqProd", "vPIS"})

build_cofins(item, n) ==
    IF Cst(item, "cofins") = None THEN {}
    ELSE OfTax(At("COFINS", n, 0), item, "cofins",
               IF Cst(item, "cofins").is = "full"
                 THEN {"CST", "vBC", "pCOFINS", "qBCProd", "vAliqProd", "vCOFINS"} ELSE {"CST"})

build_cofins_st(item, n) ==
    IF item.one["cofins_st"] = None THEN {}
    ELSE OfTax(At("COFINSST", n, 0), item, "cofins_st", {"vBC", "pCOFINS", "qBCProd", "vAliqProd", "vCOFINS"})

build_icms_ufdest(item, n) == IfPresent(At("ICMSUFDest", n, 0), Local400["NA"], item.one["icms_ufdest"])
build_ii(item, n) == IfPresent(At("II", n, 0), Local400["P"], item.one["ii"])
build_issqn(item, n) == IfPresent(At("ISSQN", n, 0), Local400["U"], item.one["issqn"])
build_imposto_devol(item, n) ==
    IfPresent(At("impostoDevol", n, 0), Local400["UA"], item.one["imposto_devol"])

build_imposto(item, n) ==
    OfTax(At("imposto", n, 0), item, "item", {"vTotTrib"})
    \cup build_icms(item, n) \cup build_icms_ufdest(item, n) \cup build_ipi(item, n) \cup build_ii(item, n)
    \cup build_pis(item, n) \cup build_pis_st(item, n) \cup build_cofins(item, n) \cup build_cofins_st(item, n)
    \cup build_issqn(item, n)

\* Items are numbered by their place; the number of the H line is not used.
build_det(item, n) ==
    build_prod(item, n) \cup build_imposto(item, n) \cup build_imposto_devol(item, n)
    \cup OfTax(At("det", n, 0), item, "item", {"infAdProd"})
-----------------------------------------------------------------------------
build_total(p) ==
    Written(The("ICMSTot"), Tot400, p.slot["totals"])
    \cup IfPresent(The("ISSQNtot"), Local400["W17"], p.slot["issqn_tot"])
    \cup IfPresent(The("retTrib"), Local400["W23"], p.slot["ret_trib"])

build_transp(p) ==
    LET vol == p.list["volumes"] IN
    Written(The("transp"), {"modFrete"}, p.slot["transp"])
    \cup IfPresent(The("retTransp"), Local400["X11"], p.slot["ret_transp"])
    \cup IfPresent(The("transporta"), {"CNPJ", "CPF", "xNome", "IE", "xEnder", "xMun", "UF"},
                   p.slot["transporta"])
    \cup IfPresent(The("veicTransp"), Vehicle, p.slot["veic_transp"])
    \cup OfEach("reboque", 0, Vehicle, p.list["reboque"])
    \cup IfPresent(The("transp"), {"vagao"}, p.slot["vagao"])
    \cup IfPresent(The("transp"), {"balsa"}, p.slot["balsa"])
    \cup (UNION {Written(At("vol", 0, k), Common["X26"], vol[k].own)
                 \cup UNION {Written(At("vol", 0, k), {"nLacre"}, vol[k].lacres[s]) :
                             s \in DOMAIN vol[k].lacres} : k \in DOMAIN vol})

\* Written only when the invoice has a bill (Y02).
build_cobr(p) ==
    IF p.slot["fat"] = None THEN {}
    ELSE Written(The("fat"), Common["Y02"], p.slot["fat"])
         \cup OfEach("dup", 0, Common["Y07"], p.list["dup"])

\* The card is written only for the two values of tpIntegra that the XSD has.
CardTags == {"tpIntegra", "CNPJ", "tBand", "cAut", "CNPJReceb", "idTermPag"}
build_pag(p) ==
    LET pag == p.list["det_pag"]
        Card(k) == "tpIntegra" \in DOMAIN pag[k] /\ pag[k]["tpIntegra"].is = "full"
    IN  (UNION {Written(At("detPag", 0, k), {"indPag", "tPag", "xPag", "vPag"}
                                            \cup (IF Card(k) THEN CardTags ELSE {}), pag[k]) :
                k \in DOMAIN pag})
        \cup IfPresent(The("pag"), {"vTroco"}, p.slot["pag"])

\* Observations without a name are passed over.
OfEachNamed(part, list) ==
    LET named == {k \in DOMAIN list : "xCampo" \in DOMAIN list[k]}
    IN  UNION {Written(At(part, 0, Cardinality({j \in named : j <= k})), {"xCampo", "xTexto"}, list[k]) :
                 k \in named}

build_inf_adic(p) ==
    Written(The("infAdic"), {"infAdFisco", "infCpl"}, p.slot["inf_adic"])
    \cup OfEachNamed("obsCont", p.list["obs_cont"])
    \cup OfEachNamed("obsFisco", p.list["obs_fisco"])
    \cup OfEach("procRef", 0, {"nProc", "indProc"}, p.list["proc_ref"])

build_cana(p) ==
    IF p.slot["cana"] = None THEN {}
    ELSE Written(The("cana"), structure_400["ZC"], p.slot["cana"])
         \cup OfEach("forDia", 0, {"dia", "qtde"}, p.list["for_dia"])
         \cup OfEach("deduc", 0, {"xDed", "vDed"}, p.list["deduc"])

build_rest(p) ==
    IfPresent(The("infIntermed"), {"CNPJ", "idCadIntTran"}, p.slot["inf_intermed"])
    \cup IfPresent(The("exporta"), Local400["ZA"], p.slot["exporta"])
    \cup IfPresent(The("compra"), structure_400["ZB"], p.slot["compra"])
    \cup IfPresent(The("infRespTec"), Local400["ZD"], p.slot["inf_resp_tec"])
    \cup IfPresent(The("infNFeSupl"), {"qrcode", "urlChave"}, p.slot["inf_nfe_supl"])

build_xml(p) ==
    IfPresent(The("infNFe"), {"versao", "Id"}, p.slot["hdr"])
    \cup build_ide(p) \cup build_emit(p) \cup build_dest(p)
    \cup build_local_section("retirada", p.slot["retirada"])
    \cup build_local_section("entrega", p.slot["entrega"]) \cup build_aut_xml(p)
    \cup (UNION {build_det(p.items[n], n) : n \in DOMAIN p.items})
    \cup build_total(p) \cup build_transp(p) \cup build_cobr(p) \cup build_pag(p) \cup build_inf_adic(p)
    \cup build_cana(p) \cup build_rest(p)
=============================================================================
