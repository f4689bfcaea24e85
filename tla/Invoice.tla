------------------------------- MODULE Invoice -------------------------------
(***************************************************************************)
(* fiscal_core::xml_builder: InvoiceBuilder, from the calls of the caller  *)
(* to the XML.  The builder is a draft that setters change, then it is     *)
(* built, then it is signed; a build or a signature that fails takes the   *)
(* builder with it.  See Leaves for how data and XML are represented,      *)
(* InvoiceData for what may be set, Det and Sections for what is written.  *)
(***************************************************************************)
EXTENDS Sections, InvoiceData

CONSTANTS
    Settings,   \* model, environment, schema, regime, emission, and whether the state is known
    Issuer,     \* the leaves of the issuer, and of what the builder sets by default
    Items,      \* the items a caller may add
    Lists,      \* the lists of items a caller may set at once
    Parts,      \* the parts of a document a caller may set, each by one setter
    Draws,      \* the numbers the access key may be drawn with
    MaxCalls    \* bound: calls to the builder

\* What a struct of the program holds, with the structs inside it: finitely many of
\* their fields, each with one value in its place; only what is in a list has a place.
WellFormed(h, structs, lists) ==
    /\ IsFiniteSet(h)
    /\ h \subseteq [n : {0}, in : STRING, m : Seq(Nat), tag : STRING, v : Int]
    /\ \A l \in h : /\ \E st \in structs : l.in = st.in /\ l.tag \in st.required \cup st.optional
                    /\ l.in \in lists <=> l.m # <<>>
    /\ \A pair \in Inside : Given(h, pair[1]) => Given(h, pair[2])
    /\ \A l, o \in h : l.in = o.in /\ l.tag = o.tag /\ l.m = o.m => l = o

OfADocument(h) == WellFormed(h, DocumentStructs, DocumentLists)
\* The number of an item (nItem) is the caller's, and need not be its place.
AnItem(h) == WellFormed(h, ItemStructs, ItemLists)
\* A setter replaces a struct with all that is inside it.
APart(part) == /\ OfADocument(part.leaves)
               /\ \A pair \in Inside : pair[2] \in part.groups => pair[1] \in part.groups

ASSUME SettingsAssumption ==
    Settings \subseteq [model : {55, 65}, homologation : BOOLEAN, pl010 : BOOLEAN, tax_regime : 1..3,
                        tpEmis : 1..9, known : BOOLEAN]
ASSUME DataAssumption ==
    /\ OfADocument(Issuer) /\ \A part \in Parts : APart(part)
    /\ \A item \in Items : AnItem(item)
    /\ \A list \in Lists : list \in Seq({list[i] : i \in DOMAIN list}) /\ \A i \in DOMAIN list : AnItem(list[i])
ASSUME BoundsAssumption == Draws \subseteq Nat /\ MaxCalls \in Nat

VARIABLES
    phase,      \* of the builder: "draft", "built", "signed" or "failed"
    s,          \* its settings
    d,          \* what is set on the document
    items,      \* the items, each a set of leaves
    xml,        \* the XML, once built
    cNF,        \* the number in its access key
    calls

vars == <<phase, s, d, items, xml, cNF, calls>>
-----------------------------------------------------------------------------
\* Mutant: an item is written in the place after its own.
PlacedLate(item, n) == {[l EXCEPT !.n = n + 1] : l \in item}
\* The n-th item of the list.
Placed(item, n) == {[l EXCEPT !.n = n] : l \in item}

AccessKeyError == ~s.known
BuildError == AccessKeyError \/ \E i \in DOMAIN items : DetError(s, items[i])

\* Mutant: an item that does not count is counted.
EveryItem(results) == DOMAIN results
Counting(results) == {i \in DOMAIN results : results[i].counts}

AddedByItems == {"vProd", "vIPI", "vPIS", "vCOFINS", "vII", "vFrete", "vSeg", "vDesc", "vOutro", "vTotTrib",
                 "vIPIDevol", "vPISST", "vCOFINSST"}
AddedByIcms == [vBC |-> "vBC", vICMS |-> "vICMS", vICMSDeson |-> "vICMSDeson", vFCP |-> "vFCP",
                vBCST |-> "vBCST", vST |-> "vICMSST", vFCPST |-> "vFCPST", vFCPSTRet |-> "vFCPSTRet"]

Totals(results) ==
    LET counted == Counting(results)
        icms == UNION {results[i].totals : i \in counted} IN
    [tag \in AddedByItems \cup DOMAIN AddedByIcms |->
        IF tag \in AddedByItems THEN MapThenSumSet(LAMBDA i : results[i][tag], counted)
        ELSE Amount(icms, "ICMS", AddedByIcms[tag])]

\* One item that deducts the relief makes the document deduct all of it.
DeductsRelief(results) == \E i \in DOMAIN results : results[i].deduzDeson

\* What the builder was given is all the XML is made from: c the settings, h the
\* document, list the items, drawn the number of the access key.
generate_xml(c, h, list, drawn) ==
    LET results == [i \in DOMAIN list |-> DetResult(c, list[i], i)]
        values  == \E i \in DOMAIN list : Given(list[i], "IBSCBS") IN
    build_ide(c, h, drawn) \cup build_emit(c, h) \cup build_dest(c, h)
    \cup build_withdrawal(h) \cup build_delivery(h) \cup build_aut_xml(h)
    \cup (UNION {build_det(c, values, list[i], i) : i \in DOMAIN list})
    \cup build_total(c, h, Totals(results), DeductsRelief(results))
    \cup build_transp(h) \cup build_cobr(h) \cup build_pag(h) \cup build_intermediary(h)
    \cup build_inf_adic(h) \cup build_export(h) \cup build_purchase(h) \cup build_cana(h)
    \cup build_tech_responsible_with_key(h, drawn)
    \cup Pl010(c, build_agropecuario(h))
-----------------------------------------------------------------------------
Init == /\ phase = "draft" /\ s \in Settings /\ d = Issuer /\ items = <<>>
        /\ xml = {} /\ cNF = 0 /\ calls = 0

Draft == phase = "draft" /\ calls < MaxCalls /\ calls' = calls + 1 /\ UNCHANGED <<phase, xml, cNF>>

\* A setter replaces what was set by it before.
Set(part) ==
    /\ Draft
    /\ d' = {l \in d : /\ l.in \notin part.groups
                       /\ ~\E o \in part.leaves : o.in = l.in /\ o.tag = l.tag} \cup part.leaves
    /\ UNCHANGED <<s, items>>

add_item(item) ==
    /\ Draft
    /\ items' = Append(items, Placed(item, Len(items) + 1))
    /\ UNCHANGED <<s, d>>

\* The setter of the whole list.
set_items(list) ==
    /\ Draft
    /\ items' = [i \in DOMAIN list |-> Placed(list[i], i)]
    /\ UNCHANGED <<s, d>>

schema_version(pl010) == Draft /\ s' = [s EXCEPT !.pl010 = pl010] /\ UNCHANGED <<d, items>>
emission_type(tpEmis) == Draft /\ s' = [s EXCEPT !.tpEmis = tpEmis] /\ UNCHANGED <<d, items>>

build ==
    /\ phase = "draft"
    /\ \E drawn \in Draws :
        \/ BuildError /\ phase' = "failed" /\ UNCHANGED <<xml, cNF>>
        \/ ~BuildError /\ phase' = "built" /\ xml' = generate_xml(s, d, items, drawn) /\ cNF' = drawn
    /\ UNCHANGED <<s, d, items, calls>>

\* The signer is the caller's, and may fail.
sign_with ==
    /\ phase = "built"
    /\ phase' \in {"signed", "failed"}
    /\ UNCHANGED <<s, d, items, xml, cNF, calls>>

Next ==
    \/ \E part \in Parts : Set(part)
    \/ \E item \in Items : add_item(item)
    \/ \E list \in Lists : set_items(list)
    \/ \E pl010 \in BOOLEAN : schema_version(pl010)
    \/ \E tpEmis \in {1, 6, 9} : emission_type(tpEmis)
    \/ build
    \/ sign_with

Spec == Init /\ [][Next]_vars
-----------------------------------------------------------------------------
IsBuilt == phase \in {"built", "signed"}
Given_ == d \cup UNION {items[i] : i \in DOMAIN items}
Counted == {i \in DOMAIN items : ind_tot(items[i]) = 1}
Total(tag) == Amount({l \in xml : l.n = 0}, "ICMSTot", tag)

TypeOK ==
    /\ phase \in {"draft", "built", "signed", "failed"}
    /\ calls \in 0..MaxCalls
    /\ \A i \in DOMAIN items : \A l \in items[i] : l.n = i
    /\ xml = {} <=> ~\E l \in xml : l.in = "ide"
    /\ IsBuilt => xml # {} /\ cNF \in Draws
    /\ \A l \in xml : l.n \in 0..Len(items) /\ l.v \in Int

\* Where a total comes from: a group of the items and a tag in it.
Source == [vBC |-> <<"ICMS", "vBC">>, vICMS |-> <<"ICMS", "vICMS">>, vICMSDeson |-> <<"ICMS", "vICMSDeson">>,
           vFCP |-> <<"ICMS", "vFCP">>, vBCST |-> <<"ICMS", "vBCST">>, vST |-> <<"ICMS", "vICMSST">>,
           vFCPST |-> <<"ICMS", "vFCPST">>, vFCPSTRet |-> <<"ICMS", "vFCPSTRet">>, vProd |-> <<"prod", "vProd">>,
           vFrete |-> <<"prod", "vFrete">>, vSeg |-> <<"prod", "vSeg">>, vDesc |-> <<"prod", "vDesc">>,
           vOutro |-> <<"prod", "vOutro">>, vII |-> <<"II", "vII">>, vIPI |-> <<"IPI", "vIPI">>,
           vIPIDevol |-> <<"impostoDevol", "vIPIDevol">>, vPIS |-> <<"PIS", "vPIS">>,
           vCOFINS |-> <<"COFINS", "vCOFINS">>]

Leaves_(set, tag) == {l \in set : l.tag = Source[tag][2] /\ l.in = Source[tag][1] /\ l.n \in Counted}

\* PIS, COFINS and IPI are totalled from what the caller gave the item, also
\* where its CST, or the tax by substitution, keeps it out of the XML.
TotalledAsGiven(tag) ==
    {l \in Leaves_(Given_, tag) : tag \in {"vPIS", "vCOFINS"} \/ (tag = "vIPI" /\ Has(items[l.n], "IPI", "CST"))}
NeverTotalled(tag) == is_simples(s) /\ tag = "vFCPST"

\* The totals of the document are the sums of what its items say: of the items
\* that count (indTot), each tax from the group its CST writes, whatever mix of
\* CSTs.  PIS, COFINS and IPI are summed as given, and FCP by substitution of
\* the Simples Nacional is written but not summed.
TotalsMatchItems ==
    IsBuilt => \A tag \in DOMAIN Source :
        Total(tag) = IF NeverTotalled(tag) THEN 0
                     ELSE Sum(Leaves_(xml, tag) \cup TotalledAsGiven(tag))

\* Items that state their own value, that do not count, or whose relief is
\* deducted for one and not for another.
Regular(h) ==
    /\ ind_tot(h) = 1 /\ ~Has(h, "det", "vItem")
    /\ Has(h, "ICMS", "vICMSDeson") => ~has_issqn(h)
                                       /\ "vICMSDeson" \in ArmOf(is_simples(s), Code(is_simples(s), h)).tags
AlikeInRelief ==
    \/ \A i \in DOMAIN items : ~ind_deduz_deson(items[i])
    \/ \A i \in DOMAIN items : Has(items[i], "ICMS", "vICMSDeson") => ind_deduz_deson(items[i])

\* The value of the note is what its items are worth: vNF, computed from the
\* totals, is the sum of the vItem, each computed from one item by a second
\* formula.  Not for irregular items, nor when the caller states a vServ.
NoteIsItemsWorth ==
    (/\ IsBuilt /\ s.pl010 /\ \E i \in DOMAIN items : Given(items[i], "IBSCBS")
     /\ \A i \in DOMAIN items : Regular(items[i])
     /\ AlikeInRelief /\ ~Has(d, "ISSQNtot", "vServ"))
        => Total("vNF") = Sum({l \in xml : l.in = "det" /\ l.tag = "vItem"})

Pl010Groups == {"IS", "IBSCBS", "gIBSCBS", "gIBSUF", "gIBSMun", "gCBS", "gTribRegular", "gTribCompraGov",
    "gIBSCBSMono", "gMonoPadrao", "gMonoReten", "gMonoRet", "gMonoDif", "gTransfCred", "gCredPresIBSZFM",
    "gAjusteCompet", "gEstornoCred", "gCredPresOper", "gIBSCredPres", "gCBSCredPres", "gCompraGov",
    "gPagAntecipado", "guiaTransito", "defensivo", "ISTot", "IBSCBSTot", "gIBS", "gIBS/gIBSUF", "gIBS/gIBSMun",
    "gCBSTot", "gMono", "gEstornoCredTot"}
    \cup {inside[of] : inside \in {gDif, gDevTrib, gRed}, of \in DOMAIN gDif}
OfPl010(l) == \/ l.in \in Pl010Groups
              \/ <<l.in, l.tag>> \in {<<"prod", "tpCredPresIBSZFM">>, <<"det", "vItem">>, <<"total", "vNFTot">>}

\* Nothing of the schema PL_010 is in an XML of PL_009, whatever is set and in
\* whatever order the schema was chosen.
OnlyPl010 == IsBuilt /\ ~s.pl010 => ~\E l \in xml : OfPl010(l)
-----------------------------------------------------------------------------
(* What a caller sets and the XML does not have.                           *)

\* The tax by substitution that takes the place of a contribution.
Substitution == [PIS |-> "PISST", COFINS |-> "COFINSST"]
Contributions == {"PIS", "COFINS", "PISST", "COFINSST"}
Untaxed(h, tax) == Value(h, tax, "CST", 0) \notin AliqCsts \cup QtdeCsts \cup OutrCsts
\* A tax by substitution has no CST.
ByQuantity(h, tax) ==
    LET cst == Value(h, tax, "CST", 99) IN cst \in QtdeCsts \/ (cst \notin AliqCsts /\ Has(h, tax, "qBCProd"))
IpiByRate(h) == Has(h, "IPI", "vBC") /\ Has(h, "IPI", "pIPI")

NotForCst(h, l) ==
    \/ l.in = "ICMS" /\ (has_issqn(h) \/ l.tag \notin ArmOf(is_simples(s), Code(is_simples(s), h)).tags)
    \/ l.in = "ICMS" /\ l.tag = "CST" /\ l.v = 0 /\ is_simples(s)
    \/ l.in = "ICMS" /\ NoOrigin(is_simples(s), Code(is_simples(s), h), l)
    \/ l.in \in {"PIS", "COFINS"} /\ (Given(h, Substitution[l.in]) \/ (l.tag # "CST" /\ Untaxed(h, l.in)))
    \/ l.in = "IPI" /\ l.tag \notin {"CST", "cEnq"} /\ Value(h, "IPI", "CST", -1) \notin TaxedIpi

NeedsAnother(h, l) ==
    \/ l.in = "IPI" /\ ~Has(h, "IPI", "CST")
    \/ l.in = "II" /\ ~Has(h, "II", "vBC")
    \/ l.in = "IS" /\ l.tag \in {"pIS", "pISEspec"} /\ ~Has(h, "IS", "vBCIS")
    \/ l.in = "IS" /\ l.tag \in {"uTrib", "qTrib"} /\ ~(Has(h, "IS", "uTrib") /\ Has(h, "IS", "qTrib"))
    \/ l.in = "prod" /\ l.tag \in {"indEscala", "CNPJFab"} /\ ~Has(h, "prod", "CEST")
    \/ <<l.in, l.tag>> = <<"det", "vItem">> /\ ~\E i \in DOMAIN items : Given(items[i], "IBSCBS")

OneOrTheOther(h, l) ==
    \/ l.in \in Contributions
       /\ l.tag \in IF ByQuantity(h, l.in) THEN {"vBC", Rate(l.in)} ELSE {"qBCProd", "vAliqProd"}
    \/ l.in = "IPI" /\ l.tag \in IF IpiByRate(h) THEN {"qUnid", "vUnid"} ELSE {"vBC", "pIPI"}
    \/ l.in = "med" /\ Given(h, "veicProd")
    \/ l.in = "arma" /\ (Given(h, "veicProd") \/ Given(h, "med"))
    \/ l.tag = "nRECOPI" /\ (Given(h, "veicProd") \/ Given(h, "med") \/ Given(h, "arma"))
    \/ l.in = "DI" /\ l.tag = "CPF" /\ \E o \in Of(h, "DI") : o.m = l.m /\ o.tag = "CNPJ"
    \/ l.tag = "vCredPresCondSus" /\ Has(h, l.in, "vCredPres")

\* The names the library replaces in homologation: those of the items the caller
\* numbered 1 of an NFC-e, wherever they stand, and the recipient's.
RenamedItem(h, l) ==
    /\ <<l.in, l.tag>> = <<"prod", "xProd">> /\ s.homologation /\ s.model = 65
    /\ Value(h, "det", "nItem", 0) = 1
RenamedRecipient(l) == <<l.in, l.tag>> = <<"dest", "xNome">> /\ s.homologation

\* The date o is written as l: the same digits, with the offset of the issuer's state.
Restamped(o, l) ==
    /\ l.in = "ide" /\ l.tag \in {"dhEmi", "dhSaiEnt", "dhCont"} /\ <<o.in, o.tag, o.n>> = <<l.in, l.tag, l.n>>
    /\ l.v \div 100 = o.v \div 100 /\ l.v % 100 = UtcOffset(StateOf(d))

\* What is in a list after as many as the schema has.
PastLimit(limits, l) == l.in \in DOMAIN limits /\ l.m[Len(l.m)] > limits[l.in]

OfItem(h, l) ==
    \/ NotForCst(h, l) \/ NeedsAnother(h, l) \/ OneOrTheOther(h, l)
    \/ PastLimit(Limit, l) \/ (l.in \in {"DI", "adi"} /\ l.m[1] > Limit["DI"])
    \/ <<l.in, l.tag>> = <<"imposto", "vTotTrib">> /\ l.v <= 0
    \/ <<l.in, l.tag>> = <<"prod", "indBemMovelUsado">> /\ l.v # 1
    \/ l.tag = "nRECOPI" /\ l.v = Empty
    \/ RenamedItem(h, l)

OfDocument(l) ==
    \/ s.model = 65 /\ (l.in = "enderDest" \/ <<l.in, l.tag>> \in {<<"ide", "dhSaiEnt">>, <<"dest", "IE">>,
                                                                  <<"dest", "indIEDest">>})
    \/ RenamedRecipient(l)
    \/ l.v = Empty /\ (<<l.in, l.tag>> = <<"dest", "xNome">> \/ (l.in = "enderDest" /\ l.tag \in OfIssuer))
    \/ <<l.in, l.tag>> = <<"emit", "xFant">> /\ l.v \in {Empty, White}
    \/ <<l.in, l.tag>> = <<"emit", "CNAE">> /\ ~Has(d, "emit", "IM")
    \/ <<l.in, l.tag>> \in {<<"transp", "vagao">>, <<"transp", "balsa">>} /\ OnRoad(d)
    \/ <<l.in, l.tag>> = <<"transp", "balsa">> /\ Has(d, "transp", "vagao")
    \/ l.in = "card" /\ (\/ ~\E p \in Of(d, "detPag") : p.m = l.m
                         \/ ~\E o \in Of(d, "card") : o.m = l.m /\ o.tag = "tpIntegra" /\ o.v \in {1, 2})
    \/ l.in = "pag" /\ (~Given(d, "detPag") \/ l.v <= 0)
    \/ l.in = "ISSQNtot" /\ l.tag \notin {"dCompet", "cRegTrib"} /\ l.v <= 0
    \/ <<l.in, l.tag>> = <<"infRespTec", "CSRT">>
    \/ <<l.in, l.tag>> = <<"infRespTec", "idCSRT">> /\ ~Has(d, "infRespTec", "CSRT")
    \/ <<l.in, l.tag>> = <<"total", "vNFTot">> /\ (~Given(d, "IBSCBSTot") \/ l.v <= 0)
    \/ l.in \in {"gIBS", "gIBS/gIBSUF", "gIBS/gIBSMun"} /\ ~Has(d, "gIBS", "vIBS")
    \/ l.in = "gCBSTot" /\ ~Has(d, "gCBSTot", "vCBS")
    \/ l.in = "gMono" /\ ~Has(d, "gMono", "vIBSMono")
    \/ PastLimit(SectionLimit, l)

\* What the caller set is in the XML, in the same place and with the same value,
\* a date with the same local digits and the state's offset, except in the cases
\* named above; the program reports none of them.
NothingLost ==
    IsBuilt => \A l \in Given_ \ xml :
        \/ ~s.pl010 /\ OfPl010(l)
        \/ l.n # 0 /\ OfItem(items[l.n], l)
        \/ l.n = 0 /\ (OfDocument(l) \/ \E written \in xml : Restamped(l, written))

\* The values the program supplies: codes, and values it takes from elsewhere.
Codes == {<<"ide", "tpNF", 1>>, <<"ide", "idDest", 1>>, <<"ide", "tpImp", 1>>, <<"ide", "finNFe", 1>>,
    <<"enderEmit", "cPais", 1058>>, <<"enderDest", "cPais", 1058>>, <<"dest", "indIEDest", 1>>,
    <<"dest", "indIEDest", 9>>, <<"transp", "modFrete", 9>>, <<"detPag", "tPag", 90>>, <<"prod", "indTot", 1>>,
    <<"IPI", "cEnq", 999>>, <<"ICMS", "modBC", 3>>, <<"ICMS", "CST", 102>>}
    \cup {<<"ide", "verProc", Supplied>>, <<"enderEmit", "xPais", Supplied>>, <<"enderDest", "xPais", Supplied>>,
          <<"prod", "cEAN", Supplied>>, <<"prod", "cEANTrib", Supplied>>}

TakenFrom(l) ==
    CASE <<l.in, l.tag>> = <<"ICMS", "vBC">>      -> <<"prod", "vProd">>
      [] <<l.in, l.tag>> = <<"prod", "uTrib">>    -> <<"prod", "uCom">>
      [] <<l.in, l.tag>> = <<"prod", "qTrib">>    -> <<"prod", "qCom">>
      [] <<l.in, l.tag>> = <<"prod", "vUnTrib">>  -> <<"prod", "vUnCom">>
      [] <<l.in, l.tag>> = <<"ide", "cMunFG">>    -> <<"enderEmit", "cMun">>
      [] <<l.in, l.tag>> = <<"ide", "cUF">>       -> <<"enderEmit", "UF">>
      [] <<l.in, l.tag>> = <<"infAdic", "contingencia">> -> <<"ide", "xJust">>
      [] l.in = "enderDest"                       -> <<"enderEmit", l.tag>>
      [] OTHER                                    -> <<"", "">>

Computed(l) == \/ l.in = "ICMSTot" \/ <<l.in, l.tag>> \in {<<"total", "vNFTot">>, <<"det", "vItem">>}
               \/ <<l.in, l.tag, l.v>> \in {<<"ide", "cNF", cNF>>, <<"ide", "cDV", check_digit(cNF)>>,
                      <<"ide", "mod", s.model>>, <<"ide", "tpEmis", s.tpEmis>>,
                      <<"ide", "tpAmb", IF s.homologation THEN 2 ELSE 1>>, <<"emit", "CRT", s.tax_regime>>}
               \/ <<l.in, l.tag>> = <<"infRespTec", "hashCSRT">>
                  /\ l.v = compute_hash_csrt(Amount(d, "infRespTec", "CSRT"), cNF)

\* What the caller did not set is a zero, a code or a text of the program in its
\* place, a total or a setting, the notice of homologation in the name of the
\* recipient or of an item numbered 1, a date of the caller with another offset,
\* or repeats what the caller set in the one place it may come from.
NothingInvented ==
    IsBuilt => LET given == Given_ IN \A l \in xml \ given :
        \/ l.v = 0 \/ <<l.in, l.tag, l.v>> \in Codes \/ Computed(l)
        \/ l.v = Notice /\ (RenamedRecipient(l) \/ (l.n # 0 /\ RenamedItem(items[l.n], l)))
        \/ \E o \in given : Restamped(o, l) \/ (o.n = l.n /\ o.v = l.v /\ <<o.in, o.tag>> = TakenFrom(l))
=============================================================================
