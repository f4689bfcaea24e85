--------------------------------- MODULE Det ---------------------------------
(***************************************************************************)
(* fiscal_core::xml_builder::det: from an item to its <det>.  h is the     *)
(* item, n its place in the list, s the settings of the invoice: model,    *)
(* homologation, pl010 (the schema) and tax_regime.                        *)
(***************************************************************************)
EXTENDS Icms, Taxes

\* What the program writes instead of a description when the document is of
\* no fiscal value.
Notice == -2

Limit == [gCred |-> 4, DI |-> 100, adi |-> 999, detExport |-> 500, rastro |-> 500, arma |-> 500]
MaxNve == 8

\* Simples Nacional (1), also with an excess of revenue (2); 3 is the normal regime.
is_simples(s) == s.tax_regime \in {1, 2}
-----------------------------------------------------------------------------
build_comb_xml(h) ==
    Write(h, "comb", {"cProdANP", "descANP", "pGLP", "pGNn", "pGNi", "vPart", "CODIF", "qTemp", "UFCons", "pBio"})
    \cup Write(h, "CIDE", {"qBCProd", "vAliqProd", "vCIDE"})
    \cup Write(h, "encerrante", {"nBico", "nBomba", "nTanque", "vEncIni", "vEncFin"})
    \cup Write(h, "origComb", {"indImport", "cUFOrig", "pOrig"})

\* A vehicle, or a medicine, or weapons, or the RECOPI number of paper.
OneOfKind(h) ==
    IF Given(h, "veicProd")
    THEN Write(h, "veicProd", {"tpOp", "chassi", "cCor", "xCor", "pot", "cilin", "pesoL", "pesoB", "nSerie",
             "tpComb", "nMotor", "CMT", "dist", "anoMod", "anoFab", "tpPint", "tpVeic", "espVeic", "VIN",
             "condVeic", "cMod", "cCorDENATRAN", "lota", "tpRest"})
    ELSE IF Given(h, "med") THEN Write(h, "med", {"cProdANVISA", "xMotivoIsencao", "vPMC"})
    ELSE IF Given(h, "arma")
    THEN FirstOf(h, "arma", {"tpArma", "nSerie", "nCano", "descr"}, Limit["arma"])
    ELSE {l \in Write(h, "prod", {"nRECOPI"}) : l.v # Empty}

build_prod_options(h) ==
    FirstOf(h, "rastro", {"nLote", "qLote", "dFab", "dVal", "cAgreg"}, Limit["rastro"])
    \cup OneOfKind(h) \cup build_comb_xml(h)

\* The CNPJ of the acquirer, or else the CPF; each DI with its own additions.
build_di_xml(h) ==
    {l \in Of(h, "DI") :
        /\ l.m[1] <= Limit["DI"]
        /\ \/ l.tag \in {"nDI", "dDI", "xLocDesemb", "UFDesemb", "dDesemb", "tpViaTransp", "vAFRMM", "tpIntermedio",
                         "CNPJ", "UFTerceiro", "cExportador"}
           \/ l.tag = "CPF" /\ ~\E o \in Of(h, "DI") : o.m = l.m /\ o.tag = "CNPJ"}
    \cup {l \in FirstOf(h, "adi", {"nAdicao", "nSeqAdic", "cFabricante", "vDescDI", "nDraw"}, Limit["adi"]) :
            l.m[1] <= Limit["DI"]}

build_det_export_xml(h) ==
    FirstOf(h, "detExport", {"nDraw", "nRE", "chNFe", "qExport"}, Limit["detExport"])

\* vItem is computed by build_det.
build_det_extras(h, vItem) ==
    Write(h, "det", {"infAdProd"})
    \cup Write(h, "obsCont", {"xCampo", "xTexto"}) \cup Write(h, "obsFisco", {"xCampo", "xTexto"})
    \cup vItem
    \cup Write(h, "DFeReferenciado", {"chaveAcesso", "nItem"})

\* Mutant: the total of the item stands in for its price.
TaxableTotal(h, n) ==
    LET commercial == [uTrib |-> "uCom", qTrib |-> "qCom", vUnTrib |-> "vProd"] IN
    UNION {WriteOr(h, n, "prod", tag, Amount(h, "prod", commercial[tag])) : tag \in DOMAIN commercial}
\* The commercial unit stands in for the taxable one.
Taxable(h, n) ==
    LET commercial == [uTrib |-> "uCom", qTrib |-> "qCom", vUnTrib |-> "vUnCom"] IN
    UNION {WriteOr(h, n, "prod", tag, Amount(h, "prod", commercial[tag])) : tag \in DOMAIN commercial}

\* The item the caller has numbered 1, whatever its place.
Description(s, h, n) ==
    IF Value(h, "det", "nItem", 0) = 1 /\ s.homologation /\ s.model = 65
    THEN Put(n, "prod", "xProd", Notice) ELSE Write(h, "prod", {"xProd"})

build_prod(s, h, n) ==
    Write(h, "prod", {"cProd", "cBarra", "NCM", "cBenef", "EXTIPI", "CFOP", "uCom", "qCom", "vUnCom", "vProd",
                      "cBarraTrib", "vFrete", "vSeg", "vDesc", "vOutro", "xPed", "nItemPed", "nFCI"})
    \cup {l \in Write(h, "prod", {"indBemMovelUsado"}) : l.v = 1}
    \cup Description(s, h, n) \cup Taxable(h, n)
    \cup WriteOr(h, n, "prod", "cEAN", Supplied) \cup WriteOr(h, n, "prod", "cEANTrib", Supplied)
    \cup WriteOr(h, n, "prod", "indTot", 1)
    \cup (IF Has(h, "prod", "CEST") THEN Write(h, "prod", {"CEST", "indEscala", "CNPJFab"}) ELSE {})
    \cup Pl010(s, Write(h, "prod", {"tpCredPresIBSZFM"}))
    \cup Write(h, "NVE", {"NVE"})
    \cup FirstOf(h, "gCred", {"cCredPresumido", "pCredPresumido", "vCredPresumido"}, Limit["gCred"])
    \cup build_di_xml(h) \cup build_det_export_xml(h) \cup build_prod_options(h)
-----------------------------------------------------------------------------
\* An item of service has ISSQN and no ICMS.
has_issqn(h) == Given(h, "ISSQN")

IcmsTotals(s, h, n) == IF has_issqn(h) THEN {} ELSE icms_totals(is_simples(s), h, n)

build_imposto(s, h, n) ==
    {l \in Write(h, "imposto", {"vTotTrib"}) : l.v > 0}
    \cup (IF has_issqn(h) THEN build_issqn_xml(h) ELSE build_icms_xml(is_simples(s), h, n))
    \cup (IF Has(h, "IPI", "CST") THEN build_ipi_xml(h, n) ELSE {})
    \cup (IF Given(h, "PISST") THEN build_pis_st_xml(h, n) ELSE build_pis_xml(h, n))
    \cup (IF Given(h, "COFINSST") THEN build_cofins_st_xml(h, n) ELSE build_cofins_xml(h, n))
    \cup (IF Has(h, "II", "vBC") THEN build_ii_xml(h, n) ELSE {})
    \cup Pl010(s, build_is_xml(h) \cup (IF Given(h, "IBSCBS") THEN build_ibs_cbs_xml(h, n) ELSE {}))

build_imposto_devol(h) == Write(h, "impostoDevol", {"pDevol", "vIPIDevol"})
-----------------------------------------------------------------------------
(* DetResult: what the item adds to the totals.                            *)

v_ipi(h)       == IF Has(h, "IPI", "CST") THEN Amount(h, "IPI", "vIPI") ELSE 0
v_ii(h)        == IF Has(h, "II", "vBC") THEN Amount(h, "II", "vII") ELSE 0
v_pis_st(h)    == IF Value(h, "PISST", "indSomaPISST", 0) = 1 THEN Amount(h, "PISST", "vPIS") ELSE 0
v_cofins_st(h) == IF Value(h, "COFINSST", "indSomaCOFINSST", 0) = 1 THEN Amount(h, "COFINSST", "vCOFINS") ELSE 0
ind_deduz_deson(h) == Value(h, "ICMS", "indDeduzDeson", 0) = 1
ind_tot(h)     == Value(h, "prod", "indTot", 1)

\* Mutant: the IPI that is given back is forgotten.
NoIpiDevol(h) == v_ii(h) + v_ipi(h) + v_pis_st(h) + v_cofins_st(h)
TaxesOnTop(h) == v_ii(h) + v_ipi(h) + Amount(h, "impostoDevol", "vIPIDevol") + v_pis_st(h) + v_cofins_st(h)

\* The value of the item, unless the caller states it.
v_item(s, h, n) ==
    IF Has(h, "det", "vItem") THEN Amount(h, "det", "vItem")
    ELSE LET st == IcmsTotals(s, h, n) IN
         Amount(h, "prod", "vProd") - Amount(h, "prod", "vDesc")
         - (IF ind_deduz_deson(h) THEN Amount(h, "ICMS", "vICMSDeson") ELSE 0)
         + Amount(st, "ICMS", "vICMSST") + Amount(st, "ICMS", "vFCPST")
         + Amount(h, "prod", "vFrete") + Amount(h, "prod", "vSeg") + Amount(h, "prod", "vOutro") + TaxesOnTop(h)

DetResult(s, h, n) ==
    [totals      |-> IcmsTotals(s, h, n),
     vProd       |-> Amount(h, "prod", "vProd"),
     vIPI        |-> v_ipi(h),
     vPIS        |-> Amount(h, "PIS", "vPIS"),
     vCOFINS     |-> Amount(h, "COFINS", "vCOFINS"),
     vII         |-> v_ii(h),
     vFrete      |-> Amount(h, "prod", "vFrete"),
     vSeg        |-> Amount(h, "prod", "vSeg"),
     vDesc       |-> Amount(h, "prod", "vDesc"),
     vOutro      |-> Amount(h, "prod", "vOutro"),
     vTotTrib    |-> Amount(h, "imposto", "vTotTrib"),
     vIPIDevol   |-> Amount(h, "impostoDevol", "vIPIDevol"),
     vPISST      |-> v_pis_st(h),
     vCOFINSST   |-> v_cofins_st(h),
     counts      |-> ind_tot(h) = 1,
     deduzDeson  |-> ind_deduz_deson(h)]

\* "values": some item of the invoice has IBS/CBS, so every item states its value.
build_det(s, values, h, n) ==
    LET vItem == IF values THEN Pl010(s, Put(n, "det", "vItem", v_item(s, h, n))) ELSE {} IN
    Write(h, "det", {"nItem"})
    \cup build_prod(s, h, n) \cup build_imposto(s, h, n) \cup build_imposto_devol(h)
    \cup build_det_extras(h, vItem)

DetError(s, h) ==
    \/ Cardinality(Of(h, "NVE")) > MaxNve
    \/ ~has_issqn(h) /\ IcmsError(is_simples(s), h)
=============================================================================
