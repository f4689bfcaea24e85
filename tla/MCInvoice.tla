------------------------------ MODULE MCInvoice -------------------------------
(* Instances of Invoice: items and parts made of the structs of InvoiceData, whole or bare. *)
EXTENDS Invoice, TLC

\* The fields of a struct have values of their own; codes are set by With.
Numbers(st) == FoldSet(LAMBDA tag, acc : (tag :> 10 + Cardinality(DOMAIN acc)) @@ acc, <<>>,
                       st.required \cup st.optional)
Fields(st, tags) == LET v == Numbers(st) IN {Leaf(0, st.in, <<>>, tag, v[tag]) : tag \in tags}
Bare(st)         == Fields(st, st.required)
Full(st)         == Fields(st, st.required \cup st.optional)
Only(st, tags)   == Fields(st, st.required \cup tags)
But(st, tags)    == Fields(st, (st.required \cup st.optional) \ tags)
At(leaves, m)    == {[l EXCEPT !.m = m] : l \in leaves}
Times(leaves, k) == UNION {At(leaves, <<i>>) : i \in 1..k}
With(leaves, tag, v) == {IF l.tag = tag THEN [l EXCEPT !.v = v] ELSE l : l \in leaves}

Icms(cst)     == With(But(ItemIcms, {"vICMSDeson", "motDesICMS", "indDeduzDeson"}), "CST", cst)
Relieved(cst, deduz) == With(With(Full(ItemIcms), "CST", cst), "indDeduzDeson", deduz)
BareIcms(cst) == With(Bare(ItemIcms), "CST", cst)
PerRate(cst)   == With(Only(ItemPis, {"vBC", "pPIS", "vPIS"}), "CST", cst)
                 \cup With(Only(ItemCofins, {"vBC", "pCOFINS", "vCOFINS"}), "CST", cst)
PerQuantity(cst) == With(Only(ItemPis, {"qBCProd", "vAliqProd", "vPIS"}), "CST", cst)
                   \cup With(Only(ItemCofins, {"qBCProd", "vAliqProd", "vCOFINS"}), "CST", cst)
Withheld_(sum) == With(Only(PisStData, {"vBC", "pPIS", "indSomaPISST"}), "indSomaPISST", sum)
                  \cup With(Only(CofinsStData, {"qBCProd", "vAliqProd", "indSomaCOFINSST"}), "indSomaCOFINSST", sum)
IpiPerRate(cst) == With(Only(ItemIpi, {"CST", "cEnq", "vBC", "pIPI", "vIPI"}), "CST", cst)
IpiPerUnit(cst) == With(Only(ItemIpi, {"CST", "qUnid", "vUnid", "vIPI"}), "CST", cst)
Product        == Only(ItemProduct, {"vFrete", "vSeg", "vDesc", "vOutro"})
WholeProduct   == With(With(But(ItemProduct, {"nRECOPI"}), "indTot", 1), "indBemMovelUsado", 1)

Adjusted(of) == Full(GDifData(of)) \cup Full(GDevTribData(of)) \cup Full(GRedData(of))
IbsCbs == Full(IbsCbsData) \cup Full(GIbsCbsData) \cup Full(GIbsUfData) \cup Full(GIbsMunData) \cup Full(GCbsData)
WholeIbsCbs ==
    IbsCbs \cup UNION {Adjusted(of) : of \in {"gIBSUF", "gIBSMun", "gCBS"}} \cup Full(GTribRegularData)
    \cup Full(GTribCompraGovData) \cup Full(GMonoPadraoData) \cup Full(GMonoRetenData) \cup Full(GMonoRetData)
    \cup Full(GMonoDifData) \cup Full(GIbsCbsMonoData) \cup Full(GTransfCredData) \cup Full(GCredPresIbsZfmData)
    \cup Full(GAjusteCompetData) \cup Full(GEstornoCredData) \cup Full(GCredPresOperData)
    \cup Full(GCredPresData("gIBSCredPres"))
    \cup Fields(GCredPresData("gCBSCredPres"), {"pCredPres", "vCredPresCondSus"})
Unstated == Bare(IbsCbsData) \cup Bare(GIbsCbsData) \cup Full(GIbsUfData) \cup Full(GIbsMunData) \cup Full(GCbsData)

Imported == At(Full(DiData), <<1>>) \cup At(But(DiData, {"CNPJ"}), <<2>>)
            \cup At(Full(AdiData), <<1, 1>>) \cup At(Bare(AdiData), <<1, 2>>) \cup At(Full(AdiData), <<2, 1>>)
Fuel == Full(CombData) \cup Full(CideData) \cup Full(EncerranteData) \cup Times(Full(OrigCombData), 2)
Notes == But(ItemRest, {"nItem"}) \cup Full(ObsField("obsCont")) \cup Full(ObsField("obsFisco"))
         \cup Full(DFeReferenciadoData)
WithoutValue(leaves) == {l \in leaves : l.tag # "vItem"}

NormalItems == {
    Product \cup BareIcms(0) \cup PerRate(1),
    WholeProduct \cup Icms(0) \cup PerRate(2) \cup IpiPerRate(50) \cup Full(ItemIi) \cup Times(Full(GCredData), 5)
        \cup Times(Full(ItemNve), 8) \cup Imported \cup Full(ItemTotTrib),
    Product \cup Icms(10) \cup Withheld_(1) \cup PerRate(1) \cup IpiPerUnit(0) \cup Times(Full(RastroData), 2)
        \cup Full(MedData) \cup Times(Full(ArmaData), 1) \cup IbsCbs,
    With(With(But(ItemProduct, {"CEST", "uTrib"}), "indTot", 0), "indBemMovelUsado", 0) \cup Relieved(20, 1) \cup PerQuantity(3) \cup IbsCbs,
    Product \cup Relieved(30, 0) \cup PerRate(1) \cup WholeIbsCbs \cup Full(IsData) \cup Full(ImpostoDevolData),
    Product \cup Icms(40) \cup PerRate(4) \cup IpiPerRate(51) \cup Unstated \cup WithoutValue(Notes),
    Product \cup Icms(51) \cup PerQuantity(99) \cup Full(VeicProdData) \cup Full(MedData)
        \cup Times(Full(ArmaData), 2) \cup Only(ItemProduct, {"nRECOPI"}),
    Product \cup Icms(60) \cup PerRate(49) \cup Fuel \cup IbsCbs,
    Product \cup Relieved(70, 1) \cup PerRate(1) \cup Full(ImpostoDevolData) \cup Withheld_(0) \cup IbsCbs,
    Product \cup Relieved(90, 1) \cup PerRate(1) \cup Fields(ItemRest, {"vItem"}) \cup IbsCbs
        \cup Times(Full(DetExportData), 2) \cup Times(Full(ArmaData), 2),
    Only(ItemProduct, {"nRECOPI"}) \cup Icms(41) \cup Full(IssqnData) \cup PerRate(1),
    Product \cup Relieved(50, 1) \cup PerRate(6) \cup But(ItemIi, {"vBC"}) \cup But(ItemIpi, {"CST"})
        \cup But(IsData, {"vBCIS", "qTrib"}),
    Product \cup BareIcms(10) \cup PerRate(1),
    Product \cup Icms(2) \cup PerRate(1),
    Product \cup Icms(0) \cup PerRate(1) \cup Times(Full(ItemNve), 9)}
SimplesItems == {
    Product \cup Icms(csosn) \cup PerRate(99) \cup (IF csosn % 2 = 0 THEN {} ELSE IbsCbs) :
        csosn \in {101, 102, 201, 202, 500, 900}}
    \cup {Product \cup BareIcms(101) \cup PerRate(99)}
    \cup {With(Only(ItemProduct, {"nRECOPI"}), "nRECOPI", Empty) \cup With(Icms(csosn), "orig", Empty) \cup PerRate(99) :
              csosn \in {202, 900}}

\* Items that a caller numbers: all of them 1, and some with another number.
No(k, item) == item \cup {Leaf(0, "det", <<>>, "nItem", k)}
Second     == Product \cup Relieved(70, 0) \cup PerRate(1) \cup Unstated
EveryItem_ == {No(1, item) : item \in NormalItems \cup SimplesItems}
              \cup {No(2, item) : item \in {Second, Product \cup Icms(102) \cup PerRate(99)}}
EveryList  == {<<No(1, Product \cup BareIcms(0) \cup PerRate(1)), No(2, Second)>>, <<No(7, Second), No(1, Second)>>}

\* Dates with offsets of their own: -03:00, UTC, -02:00.
Dated(leaves) == With(With(With(leaves, "dhEmi", 2503), "dhSaiEnt", 2600), "dhCont", 2702)
InState(uf, leaves) == With(leaves, "UF", uf)
TheIssuer == Bare(IssuerData) \cup InState(35, Bare(IssuerAddress)) \cup Dated(Bare(IdeOverrides))
-----------------------------------------------------------------------------
Part(leaves) ==
    LET own == {l.in : l \in leaves} IN
    [groups |-> own \cup {pair[1] : pair \in {p \in Inside : p[2] \in own}}, leaves |-> leaves]
\* Of a group that other setters also fill.
Added(leaves) == [groups |-> {}, leaves |-> leaves]

Truck == Full(VehicleData("veicTransp")) \cup Times(Full(VehicleData("reboque")), 2)
Cargo == Full(CarrierData) \cup Full(RetainedIcmsTransp) \cup Times(Full(VolumeData), 2)
         \cup At(Full(Seals), <<1, 1>>) \cup At(Full(Seals), <<1, 2>>) \cup At(Full(Seals), <<2, 1>>)
Cards == At(With(Full(PaymentCardDetail), "tpIntegra", 1), <<1>>)
         \cup At(With(Full(PaymentCardDetail), "tpIntegra", 2), <<2>>)
         \cup At(With(Full(PaymentCardDetail), "tpIntegra", 2), <<3>>)
NoCards == At(With(Full(PaymentCardDetail), "tpIntegra", 0), <<1>>) \cup At(But(PaymentCardDetail, {"tpIntegra"}), <<2>>)
Ibs == UNION {Full(st) : st \in IbsCbsTotData}

EveryPart == {
    Part(Full(RecipientData) \cup Full(RecipientAddressData)),
    Part(Bare(RecipientData) \cup With(Only(RecipientAddressData, {"xLgr", "UF", "nro"}), "nro", Empty)),
    Part(With(Bare(RecipientData), "xNome", Empty)),
    Added(Dated(Full(ContingencyData))),
    Added(Dated(Only(IdeOverrides, IdeOverrides.optional))),
    Added(With(But(IssuerData, {"IM"}), "xFant", White) \cup InState(12, Full(IssuerAddress))),
    Added(Full(IssuerData) \cup InState(13, Bare(IssuerAddress))),
    Part(Bare(TransportData) \cup Truck \cup Cargo),
    Part(Full(TransportData)),
    Part(Only(TransportData, {"balsa"})),
    Part(Times(Full(PaymentData), 2)), Part(Cards), Part(NoCards), Part(Full(Change)),
    Part(Full(LocationData("retirada")) \cup Full(LocationData("entrega")) \cup Times(Full(AuthorizedXml), 2)
         \cup Full(BillingInvoice) \cup Times(Full(Installment), 3)
         \cup UNION {Times(Full(st), 2) : st \in ReferenceDoc}),
    Part(Full(AdditionalInfo) \cup Times(Full(FieldText("obsCont")), 11) \cup Times(Full(FieldText("obsFisco")), 10)
         \cup Times(Full(ProcessRef), 2)),
    Part(Full(IntermediaryData) \cup Full(PurchaseData) \cup Full(ExportData) \cup Full(TechResponsibleData)),
    Part(But(TechResponsibleData, {"CSRT"})),
    Part(Full(CanaData) \cup Times(Full(ForDiaData), 32) \cup Times(Full(DeducData), 11)
         \cup Full(AgropecuarioGuiaData)),
    [Part(Times(Full(AgropecuarioDefensivoData), 21)) EXCEPT !.groups = @ \cup {"guiaTransito"}],
    Part(Full(CompraGovData) \cup Times(Full(PagAntecipadoData), 2)
         \cup Full(RetTribData) \cup Full(IssqnTotData)),
    Part(Full(IsTotData) \cup Full(TotalOverride)),
    Part(Ibs), Part({l \in Ibs : l.tag \notin {"vIBSMono", "vCBS"}}), Part({l \in Ibs : l.tag # "vIBS"})}

EverySetting == {
    [model |-> 55, homologation |-> FALSE, pl010 |-> TRUE, tax_regime |-> 3, tpEmis |-> 1, known |-> TRUE],
    [model |-> 65, homologation |-> TRUE, pl010 |-> TRUE, tax_regime |-> 3, tpEmis |-> 1, known |-> TRUE],
    [model |-> 55, homologation |-> TRUE, pl010 |-> FALSE, tax_regime |-> 2, tpEmis |-> 1, known |-> TRUE],
    [model |-> 65, homologation |-> FALSE, pl010 |-> TRUE, tax_regime |-> 1, tpEmis |-> 9, known |-> TRUE],
    [model |-> 55, homologation |-> FALSE, pl010 |-> TRUE, tax_regime |-> 3, tpEmis |-> 1, known |-> FALSE]}
=============================================================================
