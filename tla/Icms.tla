-------------------------------- MODULE Icms ---------------------------------
(***************************************************************************)
(* fiscal_core::tax_icms and xml_builder::det::icms_variant: from the ICMS *)
(* fields of an item to the group of its CST (regime normal) or CSOSN      *)
(* (Simples Nacional), in two steps.  build_icms_variant moves the fields  *)
(* the CST has into a variant of an enum; the arm of that variant writes   *)
(* its tags and adds to the totals of the document.                        *)
(***************************************************************************)
EXTENDS Leaves

St      == {"modBCST", "pMVAST", "pRedBCST", "vBCST", "pICMSST", "vICMSST"}
StNeeds == {"modBCST", "vBCST", "pICMSST", "vICMSST"}
Fcp     == {"pFCP", "vFCP"}
BaseFcp == {"vBCFCP"} \cup Fcp
FcpSt   == {"vBCFCPST", "pFCPST", "vFCPST"}
Relief  == {"vICMSDeson", "motDesICMS", "indDeduzDeson"}
Own     == {"modBC", "vBC", "pICMS", "vICMS"}
Credit  == {"pCredSN", "vCredICMSSN"}
-----------------------------------------------------------------------------
(* Which fields of an item the variant of a code takes.  vBC is always the *)
(* total of the item; modBC and pRedBC have a default where they are not   *)
(* optional.                                                               *)

Variant(fields, needs, defaults) == [fields |-> fields, needs |-> needs, defaults |-> defaults]

NormalVariant(cst) ==
    CASE cst = 0  -> Variant(Own \cup Fcp, {}, {"modBC"})
      [] cst = 10 -> Variant(Own \cup BaseFcp \cup St \cup FcpSt, StNeeds, {"modBC"})
      [] cst = 20 -> Variant(Own \cup {"pRedBC"} \cup BaseFcp \cup Relief, {}, {"modBC", "pRedBC"})
      [] cst = 30 -> Variant(St \cup FcpSt \cup Relief, StNeeds, {})
      [] cst \in {40, 41, 50} -> Variant(Relief, {}, {})
      [] cst = 51 -> Variant(Own \cup {"pRedBC"} \cup BaseFcp, {}, {})
      [] cst = 60 -> Variant({"vICMSSubstituto"}, {}, {})
      [] cst = 70 -> Variant(Own \cup {"pRedBC"} \cup BaseFcp \cup St \cup FcpSt \cup Relief, StNeeds,
                             {"modBC", "pRedBC"})
      [] cst = 90 -> Variant(Own \cup {"pRedBC"} \cup BaseFcp \cup St \cup FcpSt \cup Relief, {}, {})

SimplesVariant(csosn) ==
    CASE csosn = 101 -> Variant(Credit, Credit, {})
      [] csosn \in {0, 102, 103, 300, 400} -> Variant({}, {}, {})
      [] csosn = 201 -> Variant(St \cup FcpSt \cup Credit, StNeeds, {})
      [] csosn \in {202, 203} -> Variant(St \cup FcpSt, StNeeds, {})
      [] csosn = 500 -> Variant({"vICMSSubstituto"}, {}, {})
      [] csosn = 900 -> Variant(Own \cup {"pRedBC"} \cup St \cup FcpSt \cup Credit, {}, {})

NormalCsts    == {0, 10, 20, 30, 40, 41, 50, 51, 60, 70, 90}
SimplesCsosns == {0, 101, 102, 103, 201, 202, 203, 300, 400, 500, 900}

\* An empty CSOSN (0) is 102.
Code(simples, item) ==
    LET code == Value(item, "ICMS", "CST", 0) IN
    IF simples /\ code = 0 THEN 102 ELSE code

Supported(simples, code) == code \in (IF simples THEN SimplesCsosns ELSE NormalCsts)
VariantOf(simples, code) == IF simples THEN SimplesVariant(code) ELSE NormalVariant(code)

build_icms_variant(simples, item, n) ==
    LET code == Code(simples, item)
        variant == VariantOf(simples, code) IN
    Put(n, "ICMS", "CST", code)
    \cup WriteOr(item, n, "ICMS", "orig", 0)
    \cup Write(item, "ICMS", variant.fields \ {"vBC"})
    \cup (IF "vBC" \in variant.fields THEN Put(n, "ICMS", "vBC", Amount(item, "prod", "vProd")) ELSE {})
    \cup (IF "modBC" \in variant.defaults THEN WriteOr(item, n, "ICMS", "modBC", 3) ELSE {})
    \cup (IF "pRedBC" \in variant.defaults THEN WriteOr(item, n, "ICMS", "pRedBC", 0) ELSE {})

IcmsError(simples, item) ==
    LET code == Code(simples, item) IN
    \/ ~Supported(simples, code)
    \/ /\ Supported(simples, code)
       /\ \E tag \in VariantOf(simples, code).needs : ~Has(item, "ICMS", tag)
-----------------------------------------------------------------------------
(* The arm of a CST: the tags it writes, and the fields it adds to the     *)
(* totals.  The builder never fills some of them (Deferral, StRelief,      *)
(* Withheld, Effective, cBenefRBC): the item has no such field.            *)

Deferral    == {"vICMSOp", "pDif", "vICMSDif", "pFCPDif", "vFCPDif", "vFCPEfet", "cBenefRBC"}
StRelief    == {"vICMSSTDeson", "motDesICMSST"}
Withheld    == {"vBCSTRet", "pST", "vICMSSubstituto", "vICMSSTRet", "vBCFCPSTRet", "pFCPSTRet", "vFCPSTRet"}
Effective   == {"pRedBCEfet", "vBCEfet", "pICMSEfet", "vICMSEfet"}

Arm(tags, sums) == [tags |-> {"orig", "CST"} \cup tags, sums |-> sums]

Cst00 == Arm(Own \cup Fcp, {"vBC", "vICMS", "vFCP"})
Cst10 == Arm(Own \cup BaseFcp \cup St \cup FcpSt \cup StRelief,
             {"vBC", "vICMS", "vBCST", "vICMSST", "vFCPST", "vFCP"})
Cst20 == Arm(Own \cup {"pRedBC"} \cup BaseFcp \cup Relief, {"vICMSDeson", "vBC", "vICMS", "vFCP"})
Cst30 == Arm(St \cup FcpSt \cup Relief, {"vICMSDeson", "vBCST", "vICMSST", "vFCPST"})
Cst40 == Arm(Relief, {"vICMSDeson"})
Cst51 == Arm(Own \cup {"pRedBC"} \cup BaseFcp \cup Deferral, {"vBC", "vICMS", "vFCP"})
Cst60 == Arm(Withheld \cup Effective, {"vFCPSTRet"})
Cst70 == Arm(Own \cup {"pRedBC"} \cup BaseFcp \cup St \cup FcpSt \cup Relief \cup StRelief,
             {"vICMSDeson", "vBC", "vICMS", "vBCST", "vICMSST", "vFCPST", "vFCP"})
Cst90 == Arm(Own \cup {"pRedBC"} \cup BaseFcp \cup Deferral \cup St \cup FcpSt \cup Relief \cup StRelief,
             {"vICMSDeson", "vBC", "vICMS", "vBCST", "vICMSST", "vFCPST", "vFCP"})

Csosn101 == Arm(Credit, {})
Csosn102 == Arm({}, {})
Csosn201 == Arm(St \cup FcpSt \cup Credit, {"vBCST", "vICMSST"})
Csosn202 == Arm(St \cup FcpSt, {"vBCST", "vICMSST"})
Csosn500 == Arm(Withheld \cup Effective, {})
Csosn900 == Arm(Own \cup {"pRedBC"} \cup St \cup FcpSt \cup Credit, {"vBC", "vICMS", "vBCST", "vICMSST"})

build_icms_cst_xml(cst) ==
    CASE cst = 0  -> Cst00 [] cst = 10 -> Cst10 [] cst = 20 -> Cst20 [] cst = 30 -> Cst30
      [] cst \in {40, 41, 50} -> Cst40
      [] cst = 51 -> Cst51 [] cst = 60 -> Cst60 [] cst = 70 -> Cst70 [] cst = 90 -> Cst90

build_icms_csosn_xml(csosn) ==
    CASE csosn = 101 -> Csosn101 [] csosn \in {102, 103, 300, 400} -> Csosn102
      [] csosn = 201 -> Csosn201 [] csosn \in {202, 203} -> Csosn202
      [] csosn = 500 -> Csosn500 [] csosn = 900 -> Csosn900

ArmOf(simples, code) == IF simples THEN build_icms_csosn_xml(code) ELSE build_icms_cst_xml(code)

\* The CSOSNs whose group has no origin rather than an empty one.
MayLackOrigin == {102, 103, 300, 400, 900}
NoOrigin(simples, code, l) == simples /\ code \in MayLackOrigin /\ l.tag = "orig" /\ l.v = Empty

build_icms_xml(simples, item, n) ==
    LET code == Code(simples, item) IN
    {l \in Write(build_icms_variant(simples, item, n), "ICMS", ArmOf(simples, code).tags) :
        ~NoOrigin(simples, code, l)}

\* IcmsTotals: what the arm added, as leaves; merge_icms_totals adds them up.
icms_totals(simples, item, n) ==
    LET arm == ArmOf(simples, Code(simples, item)) IN
    Write(build_icms_variant(simples, item, n), "ICMS", arm.sums)
=============================================================================
