------------------------------ MODULE TxtParser ------------------------------
(***************************************************************************)
(* fiscal_core::convert::parser.  The parser keeps, for one invoice, slots *)
(* that hold the fields of one line, lists of them, and the item being     *)
(* read.  A value is abstracted to the line it was read from: what the     *)
(* parser can get wrong is which lines a part of the XML is made of.  Of   *)
(* the text of a value only what a builder branches on is kept ("is").     *)
(***************************************************************************)
EXTENDS TxtLayout, Optional, Naturals

\* A line gives a value to the fields in "given"; "is" is what it says where
\* the code looks: its version (A), or whether its CST or tpIntegra lets the
\* builder write the "full" group or the code "alone"; "flaws" is what is wrong
\* with it: fields that are not as many as the layout says, or have a character
\* it refuses; a tab or a carriage return in a field; the entity written in lower
\* case (kept for the A line, the only one it matters for); an access key, in an A
\* line, that has not its 44 digits.
Line(ref, given, is, flaws) == [ref |-> ref, given |-> given, is |-> is, flaws |-> flaws]
Flaws == {"malformed", "tab", "lower case", "bad key"}

Value(from, is) == [from |-> from, is |-> is]

\* The fields of line i: the ones it leaves empty are not there.
fields_to_std(line, i) == [f \in line.given |-> Value(i, line.is)]

Empty == <<>>
Get(std, f) == IF f \in DOMAIN std THEN std[f] ELSE None

\* Extending a structure: what is inserted replaces what was there.
Extend(old, added) ==
    [f \in DOMAIN old \cup DOMAIN added |-> IF f \in DOMAIN added THEN added[f] ELSE old[f]]

Slots == {"ide", "emit", "ender_emit", "dest", "ender_dest", "totals", "transp", "inf_adic"}
OptionalSlots == {"hdr", "retirada", "entrega", "ibs_cbs_tot", "issqn_tot", "ret_trib", "ret_transp",
                  "transporta", "veic_transp", "fat", "pag", "inf_intermed", "exporta", "compra",
                  "cana", "inf_resp_tec", "inf_nfe_supl", "vagao", "balsa", "nfp_pending",
                  "aut_xml_pending"}
Lists == {"nf_ref", "nf_ref_nf", "nf_ref_cte", "nf_ref_ecf", "bb02_ref_nfe", "aut_xml", "reboque",
          "volumes", "dup", "det_pag", "obs_cont", "obs_fisco", "proc_ref", "for_dia", "deduc"}
ItemSlots == {"cest", "g_cred", "veic_prod", "med", "comb", "comb_cide", "encerrante", "recopi",
              "icms", "icms_ufdest", "ipi_header", "ii", "pis_st", "cofins_st", "issqn",
              "imposto_devol"}
ItemLists == {"nve", "di", "det_export", "rastro", "arma"}

\* Values of an item kept one by one, by the tax they are of.
Scalars == ({"item"} \X {"infAdProd", "vTotTrib"})
      \cup ({"ipi"} \X {"CST", "vIPI", "vBC", "pIPI", "qUnid", "vUnid"})
      \cup ({"pis", "pis_st"} \X {"CST", "vBC", "pPIS", "vPIS", "qBCProd", "vAliqProd"})
      \cup ({"cofins", "cofins_st"} \X {"CST", "vBC", "pCOFINS", "vCOFINS", "qBCProd", "vAliqProd"})

ItemBuild == [prod |-> Empty, one |-> [s \in ItemSlots |-> None],
              many |-> [l \in ItemLists |-> <<>>], scalar |-> [x \in Scalars |-> None]]

new(layout) ==
    [base_layout |-> layout, slot |-> [s \in Slots \cup OptionalSlots |-> IF s \in Slots THEN Empty ELSE None],
     list |-> [l \in Lists |-> <<>>], cur |-> ItemBuild, items |-> <<>>, seals |-> <<>>]
-----------------------------------------------------------------------------
(* What a line may do to the parser. *)

Put(p, s, std) == [p EXCEPT !.slot[s] = std]
Insert(p, s, f, std) ==
    IF p.slot[s] = None \/ f \notin DOMAIN std THEN p
    ELSE [p EXCEPT !.slot[s] = Extend(@, [x \in {f} |-> std[x]])]
Push(p, l, std) == [p EXCEPT !.list[l] = Append(@, std)]
PushValue(p, l, f, std) == IF f \in DOMAIN std THEN Push(p, l, std) ELSE p
MergeIntoLast(p, l, std) ==
    IF p.list[l] = <<>> THEN p ELSE [p EXCEPT !.list[l][Len(p.list[l])] = Extend(@, std)]

\* A record that waits for the CNPJ or CPF of the next line.
Complete(p, pending, l, f, std) ==
    IF p.slot[pending] = None THEN p
    ELSE Put(Push(p, l, Insert(p, pending, f, std).slot[pending]), pending, None)

PutItem(p, s, std) == [p EXCEPT !.cur.one[s] = std]
PushItem(p, l, std) == [p EXCEPT !.cur.many[l] = Append(@, std)]
Assign(p, tax, fields, std) ==
    [p EXCEPT !.cur.scalar =
        [x \in Scalars |-> IF x[1] = tax /\ x[2] \in fields THEN Get(std, x[2]) ELSE @[x]]]
-----------------------------------------------------------------------------
\* Mutant: the seals are not handed to the last volume.
KeepSeals(p) == p

\* The seals read so far go to the last volume, and wait when there is none.
flush_seals(p) ==
    IF p.seals = <<>> \/ p.list["volumes"] = <<>> THEN p
    ELSE [p EXCEPT !.list["volumes"][Len(p.list["volumes"])].lacres = p.seals, !.seals = <<>>]

\* Mutant: the item is copied instead of taken.
CopyItem(p) ==
    IF {"cProd", "xProd"} \cap DOMAIN p.cur.prod = {} THEN p
    ELSE LET q == flush_seals(p) IN [q EXCEPT !.items = Append(@, p.cur)]

\* An item without a code and a name is not kept, and what was read of it stays.
finalize_current_item(p) ==
    IF {"cProd", "xProd"} \cap DOMAIN p.cur.prod = {} THEN p
    ELSE LET q == flush_seals(p) IN [q EXCEPT !.items = Append(@, p.cur), !.cur = ItemBuild]

start_item(p, std) ==
    LET q == finalize_current_item(p)
        kept == {"qUnid", "vUnid", "qBCProd", "vAliqProd"}
        reset == {x \in Scalars : x[1] \in {"item", "ipi", "pis", "cofins"} /\ x[2] \notin kept}
    IN  [q EXCEPT !.cur.prod = Empty,
                  !.cur.one = Extend(@, [s \in {"cest", "g_cred", "icms", "ipi_header"} |-> None]),
                  !.cur.scalar = Extend(@, [x \in reset |-> IF x = <<"item", "infAdProd">>
                                                             THEN Get(std, "infAdProd") ELSE None])]

read_header(p, ref, std) ==
    CASE ref = "A" -> Put(p, "hdr", std)
      [] ref = "B" -> Put(p, "ide", std)
      [] ref = "BA02" -> PushValue(p, "nf_ref", "refNFe", std)
      [] ref = "BA03" -> Push(p, "nf_ref_nf", std)
      [] ref = "BA10" -> Put(p, "nfp_pending", std)
      [] ref = "BA13" -> Complete(p, "nfp_pending", "nf_ref_nf", "CNPJ", std)
      [] ref = "BA14" -> Complete(p, "nfp_pending", "nf_ref_nf", "CPF", std)
      [] ref = "BA19" -> PushValue(p, "nf_ref_cte", "refCTe", std)
      [] ref = "BA20" -> Push(p, "nf_ref_ecf", std)
      [] ref \in {"BB01", "BB02"} -> PushValue(p, "bb02_ref_nfe", "refNFe", std)

read_party(p, ref, std) ==
    CASE ref = "C" -> Put(p, "emit", std)
      [] ref = "C02" -> Insert(p, "emit", "CNPJ", std)
      [] ref = "C02A" -> Insert(p, "emit", "CPF", std)
      [] ref = "C05" -> Put(p, "ender_emit", std)
      [] ref = "E" -> Put(p, "dest", std)
      [] ref = "E02" -> Insert(p, "dest", "CNPJ", std)
      [] ref = "E03" -> Insert(p, "dest", "CPF", std)
      [] ref = "E03A" -> Insert(p, "dest", "idEstrangeiro", std)
      [] ref = "E05" -> Put(p, "ender_dest", std)

read_local(p, ref, std) ==
    CASE ref = "F" -> Put(p, "retirada", std)
      [] ref = "F02" -> Insert(p, "retirada", "CNPJ", std)
      [] ref = "F02A" -> Insert(p, "retirada", "CPF", std)
      [] ref = "F02B" -> Insert(p, "retirada", "xNome", std)
      [] ref = "G" -> Put(p, "entrega", std)
      [] ref = "G02" -> Insert(p, "entrega", "CNPJ", std)
      [] ref = "G02A" -> Insert(p, "entrega", "CPF", std)
      [] ref = "G02B" -> Insert(p, "entrega", "xNome", std)
      [] ref = "GA" -> Put(p, "aut_xml_pending", Empty)
      [] ref = "GA02" -> Complete(p, "aut_xml_pending", "aut_xml", "CNPJ", std)
      [] ref = "GA03" -> Complete(p, "aut_xml_pending", "aut_xml", "CPF", std)

\* A line of the last import declaration or of the last export.
AddToLast(p, l, std) ==
    LET seq == p.cur.many[l] IN
    IF seq = <<>> THEN p
    ELSE CASE l = "di" -> [p EXCEPT !.cur.many.di[Len(seq)].adi = Append(@, std)]
           [] l = "det_export" -> [p EXCEPT !.cur.many.det_export[Len(seq)] = Extend(@, std)]

read_product(p, ref, std) ==
    CASE ref = "H" -> start_item(p, std)
      [] ref = "I" -> [p EXCEPT !.cur.prod = std]
      [] ref = "I05A" -> IF "NVE" \in DOMAIN std THEN PushItem(p, "nve", std) ELSE p
      [] ref = "I05C" -> PutItem(p, "cest", std)
      [] ref = "I05G" -> PutItem(p, "g_cred", std)
      [] ref = "I18" -> PushItem(p, "di", [own |-> std, adi |-> <<>>])
      [] ref = "I25" -> AddToLast(p, "di", std)
      [] ref = "I50" -> PushItem(p, "det_export", std)
      [] ref = "I52" -> AddToLast(p, "det_export", std)
      [] ref = "I80" -> PushItem(p, "rastro", std)
      [] ref = "JA" -> PutItem(p, "veic_prod", std)
      [] ref = "K" -> PutItem(p, "med", std)
      [] ref = "L" -> PushItem(p, "arma", std)
      [] ref = "LA" -> PutItem(p, "comb", std)
      [] ref = "LA07" -> PutItem(p, "comb_cide", std)
      [] ref = "LA11" -> PutItem(p, "encerrante", std)
      [] ref = "LB" -> PutItem(p, "recopi", IF "nRECOPI" \in DOMAIN std THEN std ELSE None)

read_icms_ipi(p, ref, std) ==
    CASE ref = "M" -> Assign(p, "item", {"vTotTrib"}, std)
      [] ref \in DOMAIN Icms \cup DOMAIN IcmsSpecial -> PutItem(p, "icms", std)
      [] ref = "NA" -> PutItem(p, "icms_ufdest", std)
      [] ref = "O" -> PutItem(p, "ipi_header", std)
      [] ref = "O07" -> Assign(p, "ipi", {"CST", "vIPI"}, std)
      [] ref = "O08" -> Assign(p, "ipi", {"CST"}, std)
      [] ref = "O10" -> Assign(p, "ipi", {"vBC", "pIPI"}, std)
      [] ref = "O11" -> Assign(p, "ipi", {"qUnid", "vUnid"}, std)
      [] ref = "P" -> PutItem(p, "ii", std)
      [] ref = "U" -> PutItem(p, "issqn", std)
      [] ref = "UA" -> PutItem(p, "imposto_devol", std)

read_pis(p, ref, std) ==
    CASE ref = "Q02" -> Assign(p, "pis", {"CST", "vBC", "pPIS", "vPIS"}, std)
      [] ref = "Q03" -> Assign(p, "pis", {"CST", "vPIS", "qBCProd", "vAliqProd"}, std)
      [] ref = "Q04" -> Assign(p, "pis", {"CST"}, std)
      [] ref = "Q05" -> Assign(p, "pis", {"CST", "vPIS"}, std)
      [] ref = "Q07" -> Assign(p, "pis", {"vBC", "pPIS"}, std)
      [] ref = "Q10" -> Assign(p, "pis", {"qBCProd", "vAliqProd"}, std)
      [] ref = "R" -> Assign(PutItem(p, "pis_st", std), "pis_st",
                             {"vPIS", "vBC", "pPIS", "qBCProd", "vAliqProd"}, std)
      [] ref = "R02" -> Assign(p, "pis_st", {"vBC", "pPIS"}, std)
      [] ref = "R04" -> Assign(p, "pis_st", {"qBCProd", "vAliqProd"} \cup ({"vPIS"} \cap DOMAIN std), std)

read_cofins(p, ref, std) ==
    CASE ref = "S02" -> Assign(p, "cofins", {"CST", "vBC", "pCOFINS", "vCOFINS"}, std)
      [] ref = "S03" -> Assign(p, "cofins", {"CST", "vCOFINS", "qBCProd", "vAliqProd"}, std)
      [] ref = "S04" -> Assign(p, "cofins", {"CST"}, std)
      [] ref = "S05" -> Assign(p, "cofins", {"CST", "vCOFINS"}, std)
      [] ref = "S07" -> Assign(p, "cofins", {"vBC", "pCOFINS"}, std)
      [] ref = "S09" -> Assign(p, "cofins", {"qBCProd", "vAliqProd"}, std)
      [] ref = "T" -> Assign(PutItem(p, "cofins_st", std), "cofins_st",
                             {"vCOFINS", "vBC", "pCOFINS", "qBCProd", "vAliqProd"}, std)
      [] ref = "T02" -> Assign(p, "cofins_st", {"vBC", "pCOFINS"}, std)
      [] ref = "T04" -> Assign(p, "cofins_st", {"qBCProd", "vAliqProd"}, std)

read_transport(p, ref, std) ==
    CASE ref = "X" -> Put(p, "transp", std)
      [] ref = "X03" -> Put(p, "transporta", std)
      [] ref = "X04" -> Insert(p, "transporta", "CNPJ", std)
      [] ref = "X05" -> Insert(p, "transporta", "CPF", std)
      [] ref = "X11" -> Put(p, "ret_transp", std)
      [] ref = "X18" -> Put(p, "veic_transp", std)
      [] ref = "X22" -> Push(p, "reboque", std)
      [] ref = "X25A" -> Put(p, "vagao", IF "vagao" \in DOMAIN std THEN std ELSE None)
      [] ref = "X25B" -> Put(p, "balsa", IF "balsa" \in DOMAIN std THEN std ELSE None)
      [] ref = "X26" -> Push(flush_seals(p), "volumes", [own |-> std, lacres |-> <<>>])
      [] ref = "X33" -> [p EXCEPT !.seals = Append(@, std)]

read_payment(p, ref, std) ==
    CASE ref = "Y" -> Put(p, "pag", std)
      [] ref = "Y02" -> Put(p, "fat", std)
      [] ref = "Y07" -> Push(p, "dup", std)
      [] ref = "YA" -> IF p.base_layout = "SEBRAE" THEN Put(p, "pag", std) ELSE Push(p, "det_pag", std)
      [] ref = "YA01" -> Push(p, "det_pag", std)
      [] ref = "YA04" -> MergeIntoLast(p, "det_pag", std)
      [] ref = "YB" -> Put(p, "inf_intermed", std)

read_totals_and_rest(p, ref, std) ==
    CASE ref = "W" -> finalize_current_item(p)
      [] ref = "W02" -> Put(p, "totals", std)
      [] ref = "W03" -> Put(p, "ibs_cbs_tot", std)
      [] ref = "W17" -> Put(p, "issqn_tot", std)
      [] ref = "W23" -> Put(p, "ret_trib", std)
      [] ref = "Z" -> Put(p, "inf_adic", std)
      [] ref = "Z04" -> Push(p, "obs_cont", std)
      [] ref = "Z07" -> Push(p, "obs_fisco", std)
      [] ref = "Z10" -> Push(p, "proc_ref", std)
      [] ref = "ZA" -> Put(p, "exporta", std)
      [] ref = "ZB" -> Put(p, "compra", std)
      [] ref = "ZC" -> Put(p, "cana", std)
      [] ref = "ZC04" -> Push(p, "for_dia", std)
      [] ref = "ZC10" -> Push(p, "deduc", std)
      [] ref = "ZD" -> Put(p, "inf_resp_tec", std)
      [] ref = "ZX01" -> Put(p, "inf_nfe_supl", std)
-----------------------------------------------------------------------------
Section(ref) ==
    CASE ref \in {"A", "B", "BA02", "BA03", "BA10", "BA13", "BA14", "BA19", "BA20", "BB01", "BB02"} -> "header"
      [] ref \in {"C", "C02", "C02A", "C05", "E", "E02", "E03", "E03A", "E05"} -> "party"
      [] ref \in {"F", "F02", "F02A", "F02B", "G", "G02", "G02A", "G02B", "GA", "GA02", "GA03"} -> "local"
      [] ref \in {"H", "I", "I05A", "I05C", "I05G", "I18", "I25", "I50", "I52", "I80", "JA", "K", "L",
                  "LA", "LA07", "LA11", "LB"} -> "product"
      [] ref \in {"M", "NA", "O", "O07", "O08", "O10", "O11", "P", "U", "UA"}
                 \cup DOMAIN Icms \cup DOMAIN IcmsSpecial -> "icms_ipi"
      [] ref \in {"Q02", "Q03", "Q04", "Q05", "Q07", "Q10", "R", "R02", "R04"} -> "pis"
      [] ref \in {"S02", "S03", "S04", "S05", "S07", "S09", "T", "T02", "T04"} -> "cofins"
      [] ref \in {"X", "X03", "X04", "X05", "X11", "X18", "X22", "X25A", "X25B", "X26", "X33"} -> "transport"
      [] ref \in {"Y", "Y02", "Y07", "YA", "YA01", "YA04", "YB"} -> "payment"
      [] ref \in {"W", "W02", "W03", "W17", "W23", "Z", "Z04", "Z07", "Z10", "ZA", "ZB", "ZC", "ZC04",
                  "ZC10", "ZD", "ZX01"} -> "rest"
      [] OTHER -> "ignored"

handle(p, ref, std) ==
    CASE Section(ref) = "header" -> read_header(p, ref, std)
      [] Section(ref) = "party" -> read_party(p, ref, std)
      [] Section(ref) = "local" -> read_local(p, ref, std)
      [] Section(ref) = "product" -> read_product(p, ref, std)
      [] Section(ref) = "icms_ipi" -> read_icms_ipi(p, ref, std)
      [] Section(ref) = "pis" -> read_pis(p, ref, std)
      [] Section(ref) = "cofins" -> read_cofins(p, ref, std)
      [] Section(ref) = "transport" -> read_transport(p, ref, std)
      [] Section(ref) = "payment" -> read_payment(p, ref, std)
      [] Section(ref) = "rest" -> read_totals_and_rest(p, ref, std)
      [] OTHER -> p

\* Mutant: an invoice is read on to the end of the file.
ParseToTheEnd(layout, structure, file, first, last) ==
    LET step[i \in (first - 1)..Len(file)] ==
            IF i < first THEN new(layout)
            ELSE IF file[i].ref \notin DOMAIN structure THEN step[i - 1]
            ELSE handle(step[i - 1], file[i].ref, fields_to_std(file[i], i))
    IN  finalize_current_item(step[Len(file)])

\* The lines from first to last of a file, read into one invoice.
parse(layout, structure, file, first, last) ==
    LET step[i \in (first - 1)..last] ==
            IF i < first THEN new(layout)
            ELSE IF file[i].ref \notin DOMAIN structure THEN step[i - 1]
            ELSE handle(step[i - 1], file[i].ref, fields_to_std(file[i], i))
    IN  finalize_current_item(step[last])
=============================================================================
