----------------------------- MODULE InvoiceData -----------------------------
(***************************************************************************)
(* fiscal_core::types and the data structs of the tax modules: what a      *)
(* caller can set.  One definition per struct: the group of the XML it is  *)
(* for, the fields its constructor requires, and those its setters add.    *)
(* A field has the name of the tag it is meant for.                        *)
(***************************************************************************)
EXTENDS Leaves

(* The item (types/item.rs): one definition per group of its fields.       *)
ItemProduct == Struct("prod", {"cProd", "xProd", "NCM", "CFOP", "uCom", "qCom", "vUnCom", "vProd"},
    {"cEAN", "cBarra", "cEANTrib", "cBarraTrib", "uTrib", "qTrib", "vUnTrib", "CEST", "indEscala", "CNPJFab",
     "cBenef", "tpCredPresIBSZFM", "EXTIPI", "xPed", "nItemPed", "nFCI", "vFrete", "vSeg", "vDesc", "vOutro",
     "nRECOPI", "indTot", "indBemMovelUsado"})
ItemIcms == Struct("ICMS", {"CST", "pICMS", "vICMS"},
    {"orig", "modBC", "pRedBC", "modBCST", "pMVAST", "pRedBCST", "vBCST", "pICMSST", "vICMSST", "vICMSDeson",
     "motDesICMS", "pFCP", "vFCP", "vBCFCP", "pFCPST", "vFCPST", "vBCFCPST", "pCredSN", "vCredICMSSN",
     "vICMSSubstituto", "indDeduzDeson"})
ItemPis     == Struct("PIS", {"CST"}, {"vBC", "pPIS", "vPIS", "qBCProd", "vAliqProd"})
ItemCofins  == Struct("COFINS", {"CST"}, {"vBC", "pCOFINS", "vCOFINS", "qBCProd", "vAliqProd"})
ItemIpi     == Struct("IPI", {}, {"CST", "cEnq", "vBC", "pIPI", "vIPI", "qUnid", "vUnid"})
ItemIi      == Struct("II", {}, {"vBC", "vDespAdu", "vII", "vIOF"})
ItemRest    == Struct("det", {"nItem"}, {"infAdProd", "vItem"})
ItemTotTrib == Struct("imposto", {}, {"vTotTrib"})
ItemNve     == Struct("NVE", {"NVE"}, {})

(* What an item may contain (types/product.rs, types/retained.rs).         *)
GCredData     == Struct("gCred", {"cCredPresumido", "pCredPresumido"}, {"vCredPresumido"})
RastroData    == Struct("rastro", {"nLote", "qLote", "dFab", "dVal"}, {"cAgreg"})
VeicProdData  == Struct("veicProd",
    {"tpOp", "chassi", "cCor", "xCor", "pot", "cilin", "pesoL", "pesoB", "nSerie", "tpComb", "nMotor", "CMT",
     "dist", "anoMod", "anoFab", "tpPint", "tpVeic", "espVeic", "VIN", "condVeic", "cMod", "cCorDENATRAN",
     "lota", "tpRest"}, {})
MedData       == Struct("med", {"vPMC"}, {"cProdANVISA", "xMotivoIsencao"})
ArmaData      == Struct("arma", {"tpArma", "nSerie", "nCano", "descr"}, {})
ObsField(in)  == Struct(in, {"xCampo", "xTexto"}, {})
DiData        == Struct("DI", {"nDI", "dDI", "xLocDesemb", "UFDesemb", "dDesemb", "tpViaTransp", "tpIntermedio",
    "cExportador"}, {"vAFRMM", "CNPJ", "CPF", "UFTerceiro"})
AdiData       == Struct("adi", {"nSeqAdic", "cFabricante"}, {"nAdicao", "vDescDI", "nDraw"})
DetExportData == Struct("detExport", {}, {"nDraw", "nRE", "chNFe", "qExport"})
ImpostoDevolData    == Struct("impostoDevol", {"pDevol", "vIPIDevol"}, {})
DFeReferenciadoData == Struct("DFeReferenciado", {"chaveAcesso"}, {"nItem"})
CideData       == Struct("CIDE", {"qBCProd", "vAliqProd", "vCIDE"}, {})
EncerranteData == Struct("encerrante", {"nBico", "nTanque", "vEncIni", "vEncFin"}, {"nBomba"})
OrigCombData   == Struct("origComb", {"indImport", "cUFOrig", "pOrig"}, {})
CombData       == Struct("comb", {"cProdANP", "descANP", "UFCons"},
    {"pGLP", "pGNn", "pGNi", "vPart", "CODIF", "qTemp", "pBio"})

(* Taxes that are structs of their own.                                    *)
PisStData    == Struct("PISST", {"vPIS"}, {"vBC", "pPIS", "qBCProd", "vAliqProd", "indSomaPISST"})
CofinsStData == Struct("COFINSST", {"vCOFINS"}, {"vBC", "pCOFINS", "qBCProd", "vAliqProd", "indSomaCOFINSST"})
IssqnData    == Struct("ISSQN", {"vBC", "vAliq", "vISSQN", "cMunFG", "cListServ"},
    {"vDeducao", "vOutro", "vDescIncond", "vDescCond", "vISSRet", "indISS", "cServico", "cMun", "cPais",
     "nProcesso", "indIncentivo"})
IsData       == Struct("IS", {"CSTIS", "cClassTribIS", "vIS"}, {"vBCIS", "pIS", "pISEspec", "uTrib", "qTrib"})
IbsCbsData   == Struct("IBSCBS", {"CST", "cClassTrib"}, {"indDoacao"})
GIbsCbsData  == Struct("gIBSCBS", {"vBC"}, {"vIBS"})
GIbsUfData   == Struct("gIBSUF", {"pIBSUF", "vIBSUF"}, {})
GIbsMunData  == Struct("gIBSMun", {"pIBSMun", "vIBSMun"}, {})
GCbsData     == Struct("gCBS", {"pCBS", "vCBS"}, {})
GDifData(of)     == Struct(gDif[of], {"pDif", "vDif"}, {})
GDevTribData(of) == Struct(gDevTrib[of], {"vDevTrib"}, {})
GRedData(of)     == Struct(gRed[of], {"pRedAliq", "pAliqEfet"}, {})
GTribRegularData == Struct("gTribRegular", {"CSTReg", "cClassTribReg", "pAliqEfetRegIBSUF", "vTribRegIBSUF",
    "pAliqEfetRegIBSMun", "vTribRegIBSMun", "pAliqEfetRegCBS", "vTribRegCBS"}, {})
GTribCompraGovData == Struct("gTribCompraGov",
    {"pAliqIBSUF", "vTribIBSUF", "pAliqIBSMun", "vTribIBSMun", "pAliqCBS", "vTribCBS"}, {})
GMonoPadraoData == Struct("gMonoPadrao", {"qBCMono", "adRemIBS", "adRemCBS", "vIBSMono", "vCBSMono"}, {})
GMonoRetenData  == Struct("gMonoReten",
    {"qBCMonoReten", "adRemIBSReten", "vIBSMonoReten", "adRemCBSReten", "vCBSMonoReten"}, {})
GMonoRetData    == Struct("gMonoRet", {"qBCMonoRet", "adRemIBSRet", "vIBSMonoRet", "adRemCBSRet", "vCBSMonoRet"}, {})
GMonoDifData    == Struct("gMonoDif", {"pDifIBS", "vIBSMonoDif", "pDifCBS", "vCBSMonoDif"}, {})
GIbsCbsMonoData == Struct("gIBSCBSMono", {"vTotIBSMonoItem", "vTotCBSMonoItem"}, {})
GTransfCredData     == Struct("gTransfCred", {"vIBS", "vCBS"}, {})
GCredPresIbsZfmData == Struct("gCredPresIBSZFM", {"tpCredPresIBSZFM", "vCredPresIBSZFM"}, {"competApur"})
GAjusteCompetData   == Struct("gAjusteCompet", {"competApur", "vIBS", "vCBS"}, {})
GEstornoCredData    == Struct("gEstornoCred", {"vIBSEstCred", "vCBSEstCred"}, {})
GCredPresData(in)   == Struct(in, {"pCredPres"}, {"vCredPres", "vCredPresCondSus"})
GCredPresOperData   == Struct("gCredPresOper", {"vBCCredPres", "cCredPres"}, {})

(* The issuer and the other parties.                                       *)
IssuerData  == Struct("emit", {"taxId", "IE", "xNome"}, {"xFant", "IEST", "IM", "CNAE"})
IssuerAddress == Struct("enderEmit", {"xLgr", "nro", "xBairro", "cMun", "xMun", "UF", "CEP"}, {"xCpl", "fone"})
RecipientData == Struct("dest", {"taxId", "xNome"}, {"IE", "email", "ISUF", "IM", "indIEDest"})
RecipientAddressData == Struct("enderDest", {},
    {"xLgr", "nro", "xBairro", "cMun", "xMun", "UF", "CEP", "xCpl", "fone", "cPais", "xPais"})
LocationData(in) == Struct(in, {"taxId", "xLgr", "nro", "xBairro", "cMun", "xMun", "UF"},
    {"xNome", "xCpl", "CEP", "cPais", "xPais", "fone", "email", "IE"})
AuthorizedXml    == Struct("autXML", {"taxId"}, {})
IntermediaryData == Struct("infIntermed", {"CNPJ"}, {"idCadIntTran"})
TechResponsibleData == Struct("infRespTec", {"CNPJ", "xContato", "email"}, {"fone", "CSRT", "idCSRT"})

(* The rest of the document.                                               *)
IdeOverrides    == Struct("ide", {"natOp", "serie", "nNF", "dhEmi"},
    {"dhSaiEnt", "tpNF", "finNFe", "idDest", "indIntermed", "procEmi", "indFinal", "indPres", "tpImp", "verProc"})
ContingencyData == Struct("ide", {"dhCont", "xJust"}, {})
ReferenceDoc == {Struct("refNFe", {"refNFe"}, {}), Struct("refNFeSig", {"refNFeSig"}, {}),
    Struct("refNF", {"cUF", "AAMM", "CNPJ", "mod", "serie", "nNF"}, {}),
    Struct("refNFP", {"cUF", "AAMM", "taxId", "IE", "mod", "serie", "nNF"}, {}),
    Struct("refCTe", {"refCTe"}, {}), Struct("refECF", {"mod", "nECF", "nCOO"}, {})}
TransportData      == Struct("transp", {"modFrete"}, {"vagao", "balsa"})
CarrierData        == Struct("transporta", {}, {"taxId", "xNome", "IE", "xEnder", "xMun", "UF"})
VehicleData(in)    == Struct(in, {"placa", "UF"}, {"RNTC"})
VolumeData         == Struct("vol", {}, {"qVol", "esp", "marca", "nVol", "pesoL", "pesoB"})
Seals              == Struct("lacres", {"nLacre"}, {})
RetainedIcmsTransp == Struct("retTransp", {"vServ", "vBCRet", "pICMSRet", "vICMSRet", "CFOP", "cMunFG"}, {})
BillingInvoice     == Struct("fat", {"nFat", "vOrig", "vLiq"}, {"vDesc"})
Installment        == Struct("dup", {"nDup", "dVenc", "vDup"}, {})
PaymentData        == Struct("detPag", {"tPag", "vPag"}, {"indPag", "xPag", "dPag", "CNPJPag", "UFPag"})
PaymentCardDetail  == Struct("card", {}, {"tpIntegra", "CNPJ", "tBand", "cAut", "CNPJReceb", "idTermPag"})
Change             == Struct("pag", {"vTroco"}, {})
AdditionalInfo     == Struct("infAdic", {}, {"infAdFisco", "infCpl"})
FieldText(in)      == Struct(in, {"xCampo", "xTexto"}, {})
ProcessRef         == Struct("procRef", {"nProc", "indProc"}, {"tpAto"})
RetTribData        == Struct("retTrib", {},
    {"vRetPIS", "vRetCOFINS", "vRetCSLL", "vBCIRRF", "vIRRF", "vBCRetPrev", "vRetPrev"})
IssqnTotData       == Struct("ISSQNtot", {"dCompet"},
    {"vServ", "vBC", "vISS", "vPIS", "vCOFINS", "vDeducao", "vOutro", "vDescIncond", "vDescCond", "vISSRet",
     "cRegTrib"})
PurchaseData  == Struct("compra", {}, {"xNEmp", "xPed", "xCont"})
ExportData    == Struct("exporta", {"UFSaidaPais", "xLocExporta"}, {"xLocDespacho"})
CanaData      == Struct("cana", {"safra", "ref", "qTotMes", "qTotAnt", "qTotGer", "vFor", "vTotDed", "vLiqFor"}, {})
ForDiaData    == Struct("forDia", {"dia", "qtde"}, {})
DeducData     == Struct("deduc", {"xDed", "vDed"}, {})
AgropecuarioGuiaData      == Struct("guiaTransito", {"tpGuia", "nGuia"}, {"UFGuia", "serieGuia"})
AgropecuarioDefensivoData == Struct("defensivo", {"nReceituario", "CPFRespTec"}, {})
CompraGovData     == Struct("gCompraGov", {"tpEnteGov", "pRedutor", "tpOperGov"}, {})
PagAntecipadoData == Struct("gPagAntecipado", {"refNFe"}, {})
TotalOverride     == Struct("total", {}, {"vNFTot"})
IsTotData         == Struct("ISTot", {"vIS"}, {})
IbsCbsTotData     == {Struct("IBSCBSTot", {"vBCIBSCBS"}, {}),
    Struct("gIBS/gIBSUF", {}, {"vDif", "vDevTrib", "vIBSUF"}), Struct("gIBS/gIBSMun", {}, {"vDif", "vDevTrib", "vIBSMun"}),
    Struct("gIBS", {}, {"vIBS", "vCredPres", "vCredPresCondSus"}),
    Struct("gCBSTot", {}, {"vDif", "vDevTrib", "vCBS", "vCredPres", "vCredPresCondSus"}),
    Struct("gMono", {}, {"vIBSMono", "vCBSMono", "vIBSMonoReten", "vCBSMonoReten", "vIBSMonoRet", "vCBSMonoRet"}),
    Struct("gEstornoCredTot", {}, {"vIBSEstCred", "vCBSEstCred"})}
-----------------------------------------------------------------------------
(* The structs an item and a document are made of.                         *)

ThreeTaxes == {"gIBSUF", "gIBSMun", "gCBS"}
ProductStructs == {ItemProduct, ItemRest, ItemNve, GCredData, RastroData, VeicProdData, MedData, ArmaData,
    ObsField("obsCont"), ObsField("obsFisco"), DiData, AdiData, DetExportData, ImpostoDevolData,
    DFeReferenciadoData, CideData, EncerranteData, OrigCombData, CombData}
TaxStructs == {ItemTotTrib, ItemIcms, ItemPis, ItemCofins, ItemIpi, ItemIi, PisStData, CofinsStData, IssqnData, IsData}
IbsCbsStructs == {IbsCbsData, GIbsCbsData, GIbsUfData, GIbsMunData, GCbsData, GTribRegularData, GTribCompraGovData,
    GMonoPadraoData, GMonoRetenData, GMonoRetData, GMonoDifData, GIbsCbsMonoData, GTransfCredData,
    GCredPresIbsZfmData, GAjusteCompetData, GEstornoCredData, GCredPresOperData,
    GCredPresData("gIBSCredPres"), GCredPresData("gCBSCredPres")}
    \cup {GDifData(of) : of \in ThreeTaxes} \cup {GDevTribData(of) : of \in ThreeTaxes}
    \cup {GRedData(of) : of \in ThreeTaxes}
ItemStructs == ProductStructs \cup TaxStructs \cup IbsCbsStructs

PartyStructs == {IssuerData, IssuerAddress, RecipientData, RecipientAddressData, LocationData("retirada"),
    LocationData("entrega"), AuthorizedXml, IntermediaryData, TechResponsibleData}
CargoStructs == {TransportData, CarrierData, VehicleData("veicTransp"), VehicleData("reboque"), VolumeData, Seals,
    RetainedIcmsTransp, BillingInvoice, Installment, PaymentData, PaymentCardDetail, Change}
RestStructs == {AdditionalInfo, FieldText("obsCont"), FieldText("obsFisco"), ProcessRef, RetTribData, IssqnTotData,
    PurchaseData, ExportData, CanaData, ForDiaData, DeducData, AgropecuarioGuiaData, AgropecuarioDefensivoData,
    CompraGovData, PagAntecipadoData, TotalOverride, IsTotData} \cup IbsCbsTotData
DocumentStructs == {IdeOverrides, ContingencyData} \cup ReferenceDoc \cup PartyStructs \cup CargoStructs \cup RestStructs

\* The fields that are lists of structs.
ItemLists == {"NVE", "gCred", "rastro", "arma", "DI", "adi", "detExport", "origComb"}
DocumentLists == {"refNFe", "refNFeSig", "refNF", "refNFP", "refCTe", "refECF", "autXML", "reboque", "vol", "lacres",
    "dup", "detPag", "card", "obsCont", "obsFisco", "procRef", "forDia", "deduc", "defensivo", "gPagAntecipado"}

\* A struct that is a field of another one, which has fields it requires.
Inside == ({"enderDest"} \X {"dest"})
    \cup ({"transporta", "retTransp", "veicTransp", "reboque", "vol", "lacres"} \X {"transp"})
    \cup ({"gIBS", "gIBS/gIBSUF", "gIBS/gIBSMun", "gCBSTot", "gMono", "gEstornoCredTot"} \X {"IBSCBSTot"})
    \cup (({st.in : st \in IbsCbsStructs} \ {"IBSCBS"}) \X {"IBSCBS"})
    \cup ((ThreeTaxes \cup {inside[of] : inside \in {gDif, gDevTrib, gRed}, of \in ThreeTaxes}) \X {"gIBSCBS"})
=============================================================================
