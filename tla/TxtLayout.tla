------------------------------ MODULE TxtLayout ------------------------------
(***************************************************************************)
(* fiscal_core::convert::structures.  A layout says which entities a TXT   *)
(* line may start with and which fields the line then carries.  The order  *)
(* of the fields in the line, one position each, is abstracted: a line     *)
(* gives a value to some of them.                                          *)
(***************************************************************************)
EXTENDS Sequences, TLC

Address == {"xLgr", "nro", "xCpl", "xBairro", "cMun", "xMun", "UF", "CEP", "cPais", "xPais",
            "fone"}
Local == Address \cup {"email", "IE"}
Vehicle == {"placa", "UF", "RNTC"}
Rule == {"orig", "CST"}
Simples == {"orig", "CSOSN"}
Own == {"modBC", "vBC", "pICMS", "vICMS"}
Reduced == Own \cup {"pRedBC"}
Fcp == {"vBCFCP", "pFCP", "vFCP"}
St == {"modBCST", "pMVAST", "pRedBCST", "vBCST", "pICMSST", "vICMSST"}
FcpSt == {"vBCFCPST", "pFCPST", "vFCPST"}
Relief == {"vICMSDeson", "motDesICMS"}
Withheld == {"vBCSTRet", "pST", "vICMSSTRet", "vBCFCPSTRet", "pFCPSTRet", "vFCPSTRet",
             "vICMSSubstituto"}
Effective == {"pRedBCEfet", "vBCEfet", "pICMSEfet", "vICMSEfet"}
Credit == {"pCredSN", "vCredICMSSN"}
UfDest == {"vFCPUFDest", "vICMSUFDest", "vICMSUFRemet"}
Product == {"cProd", "cEAN", "xProd", "NCM", "EXTIPI", "CFOP", "uCom", "qCom", "vUnCom", "vProd",
            "cEANTrib", "uTrib", "qTrib", "vUnTrib", "vFrete", "vSeg", "vDesc", "vOutro",
            "indTot", "xPed", "nItemPed", "nFCI"}
Ide == {"cUF", "cNF", "natOp", "mod", "serie", "nNF", "dhEmi", "dhSaiEnt", "tpNF", "idDest",
        "cMunFG", "tpImp", "tpEmis", "cDV", "tpAmb", "finNFe", "indFinal", "indPres", "procEmi",
        "verProc", "dhCont", "xJust"}
Tot310 == {"vBC", "vICMS", "vICMSDeson", "vBCST", "vST", "vProd", "vFrete", "vSeg", "vDesc",
           "vII", "vIPI", "vPIS", "vCOFINS", "vOutro", "vNF", "vTotTrib"}
Tot400 == Tot310 \cup {"vFCP", "vFCPST", "vFCPSTRet", "vIPIDevol"}

Icms ==
    [ N02 |-> Rule \cup Own \cup {"pFCP", "vFCP"},      N03 |-> Rule \cup Own \cup Fcp \cup St \cup FcpSt,
      N04 |-> Rule \cup Reduced \cup Fcp \cup Relief,   N05 |-> Rule \cup St \cup FcpSt \cup Relief,
      N06 |-> Rule \cup Relief \cup {"indDeduzDeson"},
      N07 |-> Rule \cup Reduced \cup Fcp \cup {"vICMSOp", "pDif", "vICMSDif"},
      N08 |-> Rule \cup Withheld \cup Effective,
      N09 |-> Rule \cup Reduced \cup Fcp \cup St \cup FcpSt \cup Relief,
      N10 |-> Rule \cup Reduced \cup Fcp \cup St \cup FcpSt \cup Relief ]

IcmsSpecial ==
    [ N10A |-> Rule \cup Reduced \cup St \cup {"pBCOp", "UFST"},
      N10B |-> Rule \cup Withheld \cup Effective \cup {"vBCSTDest", "vICMSSTDest"},
      N10C |-> Simples \cup Credit,                     N10D |-> Simples,
      N10E |-> Simples \cup St \cup FcpSt \cup Credit,  N10F |-> Simples \cup St \cup FcpSt,
      N10G |-> Simples \cup Withheld \cup Effective,
      N10H |-> Simples \cup Reduced \cup St \cup FcpSt \cup Credit ]

\* Entities every layout knows, with the same fields in all of them.
Common ==
    [ BA |-> {}, BA02 |-> {"refNFe"}, C |-> {"xNome", "xFant", "IE", "IEST", "IM", "CNAE", "CRT"},
      C02 |-> {"CNPJ"}, C05 |-> Address, E02 |-> {"CNPJ"}, E03 |-> {"CPF"},
      E |-> {"xNome", "indIEDest", "IE", "ISUF", "IM", "email"}, E03A |-> {"idEstrangeiro"},
      E05 |-> Address, H |-> {"item", "infAdProd"}, M |-> {"vTotTrib"}, N |-> {},
      O07 |-> {"CST", "vIPI"}, O08 |-> {"CST"}, O10 |-> {"vBC", "pIPI"},
      Q |-> {}, Q02 |-> {"CST", "vBC", "pPIS", "vPIS"}, Q04 |-> {"CST"},
      S |-> {}, S02 |-> {"CST", "vBC", "pCOFINS", "vCOFINS"}, S04 |-> {"CST"},
      W |-> {}, X |-> {"modFrete"}, X03 |-> {"xNome", "IE", "xEnder", "xMun", "UF"},
      X04 |-> {"CNPJ"}, X05 |-> {"CPF"}, Y02 |-> {"nFat", "vOrig", "vDesc", "vLiq"},
      X26 |-> {"qVol", "esp", "marca", "nVol", "pesoL", "pesoB"}, Y07 |-> {"nDup", "dVenc", "vDup"},
      Z |-> {"infAdFisco", "infCpl"} ]

structure_310 ==
    [ A |-> {"versao", "Id", "pk_nItem"}, B |-> Ide \cup {"indPag"}, C02A |-> {"cpf"},
      I |-> Product, I05C |-> {"CEST"}, O |-> {"clEnq", "CNPJProd", "cSelo", "qSelo", "cEnq"},
      W02 |-> Tot310, Y |-> {},
      YA |-> {"tPag", "vPag", "CNPJ", "tBand", "cAut", "tpIntegra"} ]
    @@ [ N08 |-> Rule \cup {"vBCSTRet", "vICMSSTRet"} ]
    @@ [ref \in DOMAIN Icms |-> Icms[ref] \ (Fcp \cup FcpSt \cup {"indDeduzDeson"})]
    @@ Common

\* Layout 4.00, in the lines every one of its versions has ...
Local400 ==
    [ A |-> {"versao", "Id", "pk_nItem"}, C02A |-> {"CPF"},
      D |-> {"CNPJ", "xOrgao", "matr", "xAgente", "fone", "UF", "nDAR", "dEmi", "vDAR", "repEmi",
             "dPag"},
      F |-> Local, F02 |-> {"CNPJ"}, F02A |-> {"CPF"}, F02B |-> {"xNome"},
      G |-> Local, G02 |-> {"CNPJ"}, G02A |-> {"CPF"}, G02B |-> {"xNome"},
      GA |-> {}, GA02 |-> {"CNPJ"}, GA03 |-> {"CPF"},
      I05A |-> {"NVE"}, I05C |-> {"CEST", "indEscala", "CNPJFab"},
      I05G |-> {"cCredPresumido", "pCredPresumido", "vCredPresumido"},
      I18 |-> {"nDI", "dDI", "xLocDesemb", "UFDesemb", "dDesemb", "tpViaTransp", "vAFRMM",
               "tpIntermedio", "CNPJ", "UFTerceiro", "cExportador"},
      I25 |-> {"nAdicao", "nSeqAdic", "cFabricante", "vDescDI", "nDraw"},
      I50 |-> {"nDraw"}, I52 |-> {"nRE", "chNFe", "qExport"},
      I80 |-> {"nLote", "qLote", "dFab", "dVal", "cAgreg"},
      JA |-> {"tpOp", "chassi", "cCor", "xCor", "pot", "cilin", "pesoL", "pesoB", "nSerie",
              "tpComb", "nMotor", "CMT", "dist", "anoMod", "anoFab", "tpPint", "tpVeic",
              "espVeic", "VIN", "condVeic", "cMod", "cCorDENATRAN", "lota", "tpRest"},
      K |-> {"cProdANVISA", "vPMC", "xMotivoIsencao"}, L |-> {"tpArma", "nSerie", "nCano", "descr"},
      LA |-> {"cProdANP", "descANP", "pGLP", "pGNn", "pGNi", "vPart", "CODIF", "qTemp", "UFCons"},
      LB |-> {"nRECOPI"},
      NA |-> {"vBCUFDest", "vBCFCPUFDest", "pFCPUFDest", "pICMSUFDest", "pICMSInter",
              "pICMSInterPart"} \cup UfDest,
      O |-> {"CNPJProd", "cSelo", "qSelo", "cEnq"}, O11 |-> {"qUnid", "vUnid"},
      P |-> {"vBC", "vDespAdu", "vII", "vIOF"},
      Q03 |-> {"CST", "qBCProd", "vAliqProd", "vPIS"}, Q05 |-> {"CST", "vPIS"}, R |-> {"vPIS"},
      S03 |-> {"CST", "qBCProd", "vAliqProd", "vCOFINS"}, S05 |-> {"CST", "vCOFINS"},
      T |-> {"vCOFINS"},
      U |-> {"vBC", "vAliq", "vISSQN", "cMunFG", "cListServ", "vDeducao", "vOutro", "vDescIncond",
             "vDescCond", "vISSRet", "indISS", "cServico", "cMun", "cPais", "nProcesso",
             "indIncentivo"},
      UA |-> {"pDevol", "vIPIDevol"}, W02 |-> Tot400 \cup UfDest,
      W17 |-> {"vServ", "vBC", "vISS", "vPIS", "vCOFINS", "dCompet", "vDeducao", "vOutro",
               "vDescIncond", "vDescCond", "vISSRet", "cRegTrib"},
      W23 |-> {"vRetPIS", "vRetCOFINS", "vRetCSLL", "vBCIRRF", "vIRRF", "vBCRetPrev", "vRetPrev"},
      X11 |-> {"vServ", "vBCRet", "pICMSRet", "vICMSRet", "CFOP", "cMunFG"},
      X18 |-> Vehicle, X22 |-> Vehicle, X33 |-> {"nLacre"}, Y |-> {"vTroco"},
      YA |-> {"indPag", "tPag", "vPag", "CNPJ", "tBand", "cAut", "tpIntegra", "xPag"},
      YB |-> {"CNPJ", "idCadIntTran"}, Z04 |-> {"xCampo", "xTexto"}, Z07 |-> {"xCampo", "xTexto"},
      Z10 |-> {"nProc", "indProc"}, ZA |-> {"UFSaidaPais", "xLocExporta", "xLocDespacho"},
      ZD |-> {"CNPJ", "xContato", "email", "fone", "CSRT", "idCSRT"},
      ZX01 |-> {"qrcode", "urlChave"} ]
    @@ Icms @@ IcmsSpecial @@ Common

\* ... and the ones only the newest has.
structure_400 ==
    [ B |-> Ide \cup {"indIntermed", "cMunFGIBS"}, B31 |-> {"tpEnteGov", "pRedutor", "tpOperGov"},
      BA03 |-> {"cUF", "AAMM", "CNPJ", "mod", "serie", "nNF"},
      BA10 |-> {"cUF", "AAMM", "IE", "mod", "serie", "nNF"}, BA13 |-> {"CNPJ"}, BA14 |-> {"CPF"},
      BA19 |-> {"refCTe"}, BA20 |-> {"mod", "nECF", "nCOO"}, BB |-> {}, BB02 |-> {"refNFe"},
      I |-> Product \cup {"cBenef", "indBemMovelUsado"},
      LA07 |-> {"qBCProd", "vAliqProd", "vCIDE"},
      LA11 |-> {"nBico", "nBomba", "nTanque", "vEncIni", "vEncFin"},
      Q07 |-> {"vBC", "pPIS"}, Q10 |-> {"qBCProd", "vAliqProd"},
      R02 |-> {"vBC", "pPIS"}, R04 |-> {"qBCProd", "vAliqProd", "vPIS"},
      S07 |-> {"vBC", "pCOFINS"}, S09 |-> {"qBCProd", "vAliqProd"},
      T02 |-> {"vBC", "pCOFINS"}, T04 |-> {"qBCProd", "vAliqProd"},
      UB |-> {}, UB01 |-> {"CSTIS", "cClassTribIS", "vBCIS", "pIS", "pISEspec", "uTrib", "qTrib", "vIS"},
      UB12 |-> {"CST", "cClassTrib", "vBC", "pIBSUF", "vIBSUF", "pIBSMun", "vIBSMun", "pCBS", "vCBS",
                "vIBS"},
      UB73 |-> {"cCredPres", "pCredPres", "vCredPres", "vCredPresCondSus"},
      UB78 |-> {"cCredPres", "pCredPres", "vCredPres", "vCredPresCondSus"},
      W03 |-> {"vIBS", "vCBS", "vIS", "vBCIBSCBS"}, \* and 20 more, read the same way
      X25A |-> {"vagao"}, X25B |-> {"balsa"}, ZB |-> {"xNEmp", "xPed", "xCont"},
      ZC |-> {"safra", "ref", "qTotMes", "qTotAnt", "qTotGer", "vFor", "vTotDed", "vLiqFor"},
      ZC04 |-> {"dia", "qtde"}, ZC10 |-> {"xDed", "vDed"} ]
    @@ Local400

structure_400_v12 ==
    [ B |-> Ide \cup {"indIntermed"}, I |-> Product \cup {"cBenef"} ] @@ Local400

structure_400_v13 ==
    [ B |-> Ide \cup {"indIntermed", "indPag", "dPrevEntrega", "tpNFDebito", "tpNFCredito", "cMunFGIBS"},
      B31 |-> {"tpEnteGov", "pRedutor", "tpOperGov"}, BB01 |-> {"refNFe"},
      I |-> Product \cup {"cBenef", "vItem", "tpCredPresIBSZFM", "indBemMovelUsado"} ]
    @@ structure_400_v12

structure_400_sebrae ==
    [ A |-> {"versao", "Id"}, B |-> Ide \cup {"indIntermed"}, C02A |-> {"CPF"}, D |-> Local400["D"],
      I |-> Product, I05C |-> {"CEST", "indEscala", "CNPJFab", "cBenef"}, I80 |-> Local400["I80"],
      O |-> Local400["O"], W02 |-> Tot400, W04C |-> {"vFCPUFDest"}, W04E |-> {"vICMSUFDest"},
      W04G |-> {"vICMSUFRemet"}, Y |-> {}, YA |-> {"vTroco"}, YA01 |-> {"indPag", "tPag", "vPag"},
      YA04 |-> {"tpIntegra", "CNPJ", "tBand", "cAut", "CNPJReceb", "idTermPag"},
      ZD |-> Local400["ZD"] ]
    @@ Icms @@ Common

normalize_layout(layout) ==
    IF layout \in {"LOCAL", "LOCAL_V12", "LOCAL_V13", "SEBRAE"} THEN layout ELSE "LOCAL_V12"

Unsupported == <<>>

\* The layout of a version, or the empty one: an error.
get_structure(version, layout) ==
    CASE version = "3.10" -> structure_310
      [] version = "4.00" /\ layout = "SEBRAE" -> structure_400_sebrae
      [] version = "4.00" /\ layout = "LOCAL_V12" -> structure_400_v12
      [] version = "4.00" /\ layout = "LOCAL_V13" -> structure_400_v13
      [] version = "4.00" /\ layout = "LOCAL" -> structure_400
      [] OTHER -> Unsupported
=============================================================================
