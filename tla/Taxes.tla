------------------------------- MODULE Taxes ---------------------------------
(***************************************************************************)
(* The taxes of an item other than ICMS: PIS and COFINS (one engine, two   *)
(* names), IPI, II, ISSQN, the Imposto Seletivo, and IBS/CBS.  Each        *)
(* operator gives the leaves the function of that name writes for item h,  *)
(* whose number is n.                                                      *)
(***************************************************************************)
EXTENDS Leaves

AliqCsts == {1, 2}
QtdeCsts == {3}
OutrCsts == 49..56 \cup 60..67 \cup 70..75 \cup {98, 99}

Rate(tax)  == IF tax \in {"PIS", "PISST"} THEN "pPIS" ELSE "pCOFINS"
Worth(tax) == IF tax \in {"PIS", "PISST"} THEN "vPIS" ELSE "vCOFINS"

OrZero(h, n, in, tags) == UNION {WriteOr(h, n, in, tag, 0) : tag \in tags}

\* By quantity when a quantity is given, by rate otherwise.
Base(h, n, tax) ==
    IF Has(h, tax, "qBCProd") THEN OrZero(h, n, tax, {"qBCProd", "vAliqProd"})
    ELSE OrZero(h, n, tax, {"vBC", Rate(tax)})

build_contribution_outr_fields(h, n, tax) == Base(h, n, tax) \cup OrZero(h, n, tax, {Worth(tax)})

\* A CST of no list is written as one of the untaxed (NT).
calculate_contribution_tax(h, n, tax) ==
    LET cst == Value(h, tax, "CST", 0) IN
    Write(h, tax, {"CST"})
    \cup CASE cst \in AliqCsts -> OrZero(h, n, tax, {"vBC", Rate(tax), Worth(tax)})
           [] cst \in QtdeCsts -> OrZero(h, n, tax, {"qBCProd", "vAliqProd", Worth(tax)})
           [] cst \in OutrCsts -> build_contribution_outr_fields(h, n, tax)
           [] OTHER -> {}

\* "sums" is indSomaPISST or indSomaCOFINSST.
calculate_contribution_tax_st(h, n, tax, sums) ==
    Base(h, n, tax) \cup Write(h, tax, {Worth(tax), sums})

build_pis_xml(h, n)       == calculate_contribution_tax(h, n, "PIS")
build_pis_st_xml(h, n)    == calculate_contribution_tax_st(h, n, "PISST", "indSomaPISST")
build_cofins_xml(h, n)    == calculate_contribution_tax(h, n, "COFINS")
build_cofins_st_xml(h, n) == calculate_contribution_tax_st(h, n, "COFINSST", "indSomaCOFINSST")

\* The CSTs of a taxed IPI; the rate counts only with its base.
TaxedIpi == {0, 49, 50, 99}
build_ipi_xml(h, n) ==
    WriteOr(h, n, "IPI", "cEnq", 999) \cup Write(h, "IPI", {"CST"})
    \cup (IF Value(h, "IPI", "CST", -1) \notin TaxedIpi THEN {}
          ELSE OrZero(h, n, "IPI", {"vIPI"})
               \cup IF Has(h, "IPI", "vBC") /\ Has(h, "IPI", "pIPI")
                    THEN Write(h, "IPI", {"vBC", "pIPI"})
                    ELSE OrZero(h, n, "IPI", {"qUnid", "vUnid"}))

build_ii_xml(h, n) == OrZero(h, n, "II", {"vBC", "vDespAdu", "vII", "vIOF"})

build_issqn_xml(h) ==
    Write(h, "ISSQN", {"vBC", "vAliq", "vISSQN", "cMunFG", "cListServ", "vDeducao", "vOutro", "vDescIncond",
                       "vDescCond", "vISSRet", "indISS", "cServico", "cMun", "cPais", "nProcesso",
                       "indIncentivo"})

\* Rates count only with the base, unit and quantity only together.
build_is_xml(h) ==
    Write(h, "IS", {"CSTIS", "cClassTribIS", "vIS"})
    \cup (IF Has(h, "IS", "vBCIS") THEN Write(h, "IS", {"vBCIS", "pIS", "pISEspec"}) ELSE {})
    \cup (IF Has(h, "IS", "uTrib") /\ Has(h, "IS", "qTrib") THEN Write(h, "IS", {"uTrib", "qTrib"}) ELSE {})
-----------------------------------------------------------------------------
(* IBS/CBS of an item.                                                     *)

build_g_dif(h, of)      == Write(h, gDif[of], {"pDif", "vDif"})
build_g_dev_trib(h, of) == Write(h, gDevTrib[of], {"vDevTrib"})
build_g_red(h, of)      == Write(h, gRed[of], {"pRedAliq", "pAliqEfet"})

Adjustments(h, of) == build_g_dif(h, of) \cup build_g_dev_trib(h, of) \cup build_g_red(h, of)

build_g_ibs_uf(h)  == Write(h, "gIBSUF", {"pIBSUF", "vIBSUF"}) \cup Adjustments(h, "gIBSUF")
build_g_ibs_mun(h) == Write(h, "gIBSMun", {"pIBSMun", "vIBSMun"}) \cup Adjustments(h, "gIBSMun")
build_g_cbs(h)     == Write(h, "gCBS", {"pCBS", "vCBS"}) \cup Adjustments(h, "gCBS")

build_g_ibs_cbs(h, n) ==
    Write(h, "gIBSCBS", {"vBC"}) \cup build_g_ibs_uf(h) \cup build_g_ibs_mun(h)
    \cup OrZero(h, n, "gIBSCBS", {"vIBS"}) \cup build_g_cbs(h)

build_g_trib_regular(h) ==
    Write(h, "gTribRegular", {"CSTReg", "cClassTribReg", "pAliqEfetRegIBSUF", "vTribRegIBSUF",
                              "pAliqEfetRegIBSMun", "vTribRegIBSMun", "pAliqEfetRegCBS", "vTribRegCBS"})
build_g_trib_compra_gov(h) ==
    Write(h, "gTribCompraGov", {"pAliqIBSUF", "vTribIBSUF", "pAliqIBSMun", "vTribIBSMun", "pAliqCBS", "vTribCBS"})

build_g_ibs_cbs_mono(h) ==
    Write(h, "gMonoPadrao", {"qBCMono", "adRemIBS", "adRemCBS", "vIBSMono", "vCBSMono"})
    \cup Write(h, "gMonoReten", {"qBCMonoReten", "adRemIBSReten", "vIBSMonoReten", "adRemCBSReten", "vCBSMonoReten"})
    \cup Write(h, "gMonoRet", {"qBCMonoRet", "adRemIBSRet", "vIBSMonoRet", "adRemCBSRet", "vCBSMonoRet"})
    \cup Write(h, "gMonoDif", {"pDifIBS", "vIBSMonoDif", "pDifCBS", "vCBSMonoDif"})
    \cup Write(h, "gIBSCBSMono", {"vTotIBSMonoItem", "vTotCBSMonoItem"})

build_g_transf_cred(h)       == Write(h, "gTransfCred", {"vIBS", "vCBS"})
build_g_cred_pres_ibs_zfm(h) == Write(h, "gCredPresIBSZFM", {"competApur", "tpCredPresIBSZFM", "vCredPresIBSZFM"})
build_g_ajuste_compet(h)     == Write(h, "gAjusteCompet", {"competApur", "vIBS", "vCBS"})
build_g_estorno_cred(h)      == Write(h, "gEstornoCred", {"vIBSEstCred", "vCBSEstCred"})

\* The credit, or else the credit under a suspensive condition.
build_cred_pres_sub(h, in) ==
    Write(h, in, {"pCredPres", IF Has(h, in, "vCredPres") THEN "vCredPres" ELSE "vCredPresCondSus"})
build_g_cred_pres_oper(h) ==
    Write(h, "gCredPresOper", {"vBCCredPres", "cCredPres"})
    \cup build_cred_pres_sub(h, "gIBSCredPres") \cup build_cred_pres_sub(h, "gCBSCredPres")

build_ibs_cbs_xml(h, n) ==
    Write(h, "IBSCBS", {"CST", "cClassTrib", "indDoacao"})
    \cup (IF Given(h, "gIBSCBS") THEN build_g_ibs_cbs(h, n) ELSE {})
    \cup build_g_trib_regular(h) \cup build_g_trib_compra_gov(h) \cup build_g_ibs_cbs_mono(h)
    \cup build_g_transf_cred(h) \cup build_g_cred_pres_ibs_zfm(h) \cup build_g_ajuste_compet(h)
    \cup build_g_estorno_cred(h) \cup build_g_cred_pres_oper(h)

\* The totals of IBS/CBS are the caller's.  A group is written only with the
\* value it is named for, and then in full.
IbsTotals(h) ==
    IF ~Has(h, "gIBS", "vIBS") THEN {}
    ELSE OrZero(h, 0, "gIBS/gIBSUF", {"vDif", "vDevTrib", "vIBSUF"})
         \cup OrZero(h, 0, "gIBS/gIBSMun", {"vDif", "vDevTrib", "vIBSMun"})
         \cup OrZero(h, 0, "gIBS", {"vIBS", "vCredPres", "vCredPresCondSus"})
CbsTotals(h) ==
    IF ~Has(h, "gCBSTot", "vCBS") THEN {}
    ELSE OrZero(h, 0, "gCBSTot", {"vDif", "vDevTrib", "vCBS", "vCredPres", "vCredPresCondSus"})
MonoTotals(h) ==
    IF ~Has(h, "gMono", "vIBSMono") THEN {}
    ELSE OrZero(h, 0, "gMono", {"vIBSMono", "vCBSMono", "vIBSMonoReten", "vCBSMonoReten", "vIBSMonoRet",
                                "vCBSMonoRet"})
ReversedTotals(h) ==
    IF ~Given(h, "gEstornoCredTot") THEN {}
    ELSE OrZero(h, 0, "gEstornoCredTot", {"vIBSEstCred", "vCBSEstCred"})

build_ibs_cbs_tot_xml(h) ==
    Write(h, "IBSCBSTot", {"vBCIBSCBS"}) \cup IbsTotals(h) \cup CbsTotals(h) \cup MonoTotals(h)
    \cup ReversedTotals(h)

build_is_tot_xml(h) == Write(h, "ISTot", {"vIS"})
=============================================================================
