------------------------------ MODULE TxtConvert -----------------------------
(***************************************************************************)
(* fiscal_core::convert.  A TXT file declares how many invoices it has and *)
(* then gives them, one after another.  txt_to_xml_all cuts the file into  *)
(* invoices, checks their lines against the layout and reads each into an  *)
(* XML; one bad invoice fails the whole call.                              *)
(*                                                                         *)
(* The file is written line by line by the system that issues the          *)
(* invoices, in the order of the layout, and may be converted at any       *)
(* length: the conversion is a function of it.                             *)
(***************************************************************************)
EXTENDS TxtXml, FiniteSets

CONSTANTS
    Forms,      \* the forms a file may take, by name: its layout, the entities
                \* it is made of in their order, and how many lines it has at most
    Leads,      \* the lines a file of a form begins with
    Lines,      \* the lines it goes on with
    MaxDeclared \* invoices a file declares at most

ASSUME BoundsAssumption == MaxDeclared \in Nat /\ \A name \in DOMAIN Forms : Forms[name].max \in Nat

\* A file has something in it, and what a line says is never the absent value.
ASSUME LinesAssumption ==
    \A name \in DOMAIN Forms :
        LET lead == {Leads[name][i] : i \in DOMAIN Leads[name]} IN
        /\ Leads[name] \in Seq(lead) /\ Len(Leads[name]) > 0
        /\ \A line \in lead \cup Lines[name] : line.is # None

\* Nor is what is read of it: a record is never the absent one.
ASSUME RecordsAssumption ==
    /\ Empty # None
    /\ \A name \in DOMAIN Forms :
         \A line \in {Leads[name][i] : i \in DOMAIN Leads[name]} \cup Lines[name] :
             None \notin [line.given -> [from : Nat, is : {line.is}]]

\* What the next line must be after some.
Needs == [BA10 |-> {"BA13", "BA14"}, GA |-> {"GA02", "GA03"}, H |-> {"I"}]

\* The entities of an item.
OfItem(ref) == Section(ref) \in {"product", "icms_ipi", "pis", "cofins"}

\* A line of an entity comes before line i, in the same invoice.
Before(lines, i, ref) ==
    \E j \in DOMAIN lines : /\ j < i /\ lines[j].ref = ref
                           /\ \A k \in DOMAIN lines : j < k /\ k <= i => lines[k].ref # "A"

\* The order of the layout, as far as the parser relies on it: what needs a
\* line after it has it, a product follows its H line, the lines of an item come
\* after an H line and before the totals, and a seal comes after a volume.
InOrder(lines) ==
    \A i \in DOMAIN lines :
        LET ref == lines[i].ref IN
        /\ (ref \in DOMAIN Needs /\ i + 1 \in DOMAIN lines) => lines[i + 1].ref \in Needs[ref]
        /\ ref = "I" => i - 1 \in DOMAIN lines /\ lines[i - 1].ref = "H"
        /\ (OfItem(ref) /\ ref # "H") => Before(lines, i, "H")
        /\ OfItem(ref) => ~Before(lines, i, "W")
        /\ ref = "X33" => Before(lines, i, "X26")

\* A form places all its entities but the first, the items before the totals
\* (W), and the lines that its files begin with are in the order of the layout.
ASSUME LayoutAssumption ==
    \A name \in DOMAIN Forms :
        LET order == Forms[name].order
            refs == {line.ref : line \in {Leads[name][i] : i \in DOMAIN Leads[name]} \cup Lines[name]}
        IN  /\ DOMAIN order \subseteq Nat
            /\ \A ref \in refs : ref # "" /\ (ref # "A" => \E r \in DOMAIN order : ref \in order[r])
            /\ \A r, s \in DOMAIN order : "H" \in order[r] /\ "W" \in order[s] => r < s
            /\ InOrder(Leads[name])

VARIABLES
    form,       \* the form of the file
    declared,   \* the count of the NOTAFISCAL line
    file        \* the lines after it

vars == <<form, declared, file>>
-----------------------------------------------------------------------------
(* The converter. *)

Invoice(first, last) == [first |-> first, last |-> last]

\* The A lines, as the validator and the parser see them, who raise the case of
\* every entity ...
ALines == {i \in DOMAIN file : file[i].ref = "A"}

\* ... and those that start an invoice when the file declares several: the slicer
\* looks for a capital A.
Markers == {i \in ALines : "lower case" \notin file[i].flaws}
NextMarker(i) == {j \in Markers : j > i /\ \A k \in Markers : k > i => j <= k}

slice_invoices ==
    IF declared <= 1 THEN {Invoice(1, Len(file))}
    ELSE {Invoice(i, IF NextMarker(i) = {} THEN Len(file) ELSE (CHOOSE j \in NextMarker(i) : TRUE) - 1) :
            i \in Markers}

LinesOf(invoice) == invoice.first..invoice.last

\* The version the first A line of the invoice says, a capital one too; None without one.
extract_layout_version(invoice) ==
    LET as == LinesOf(invoice) \cap Markers IN
    IF as = {} THEN None ELSE file[CHOOSE i \in as : \A j \in as : i <= j].is

\* Mutant: the first A line of the lines decides for all of them.
FirstEntities(i, lines, layout) ==
    LET as == {j \in lines \cap ALines : j <= i} IN
    IF as = {} THEN Unsupported
    ELSE get_structure(file[CHOOSE j \in as : \A k \in as : j <= k].is, layout)

\* The layout the validator is in at a line: that of the last A line.
EntitiesAt(i, lines, layout) ==
    LET as == {j \in lines \cap ALines : j <= i} IN
    IF as = {} THEN Unsupported
    ELSE get_structure(file[CHOOSE j \in as : \A k \in as : k <= j].is, layout)

\* A line is refused when it has a flaw the validator looks for, or an unknown entity.
validate_txt_lines(lines, refused, layout) ==
    \A i \in lines : file[i].flaws \cap refused = {} /\ file[i].ref \in DOMAIN EntitiesAt(i, lines, layout)

\* The converter gives it the lines as they are ...
Refused == {"malformed", "tab"}

Parsed(invoice) ==
    LET layout == normalize_layout(Forms[form].layout) IN
    parse(layout, get_structure(extract_layout_version(invoice), layout), file, invoice.first, invoice.last)

\* The key that is checked is the one the parser is left with: that of the last A line.
KeyAccepted(invoice) ==
    \A i \in LinesOf(invoice) \cap ALines :
        (\A j \in LinesOf(invoice) \cap ALines : j <= i) => "bad key" \notin file[i].flaws

Convertible(invoice) ==
    /\ extract_layout_version(invoice) # None
    /\ validate_txt_lines(LinesOf(invoice), Refused, normalize_layout(Forms[form].layout))
    /\ KeyAccepted(invoice)

\* An error, or the XML of each invoice by the lines it has in the file.
ConversionError == [ok |-> FALSE, xml |-> {}]
txt_to_xml_all ==
    LET invoices == slice_invoices IN
    IF Cardinality(invoices) # declared \/ \E v \in invoices : ~Convertible(v) THEN ConversionError
    ELSE [ok |-> TRUE, xml |-> {[of |-> v, leaves |-> build_xml(Parsed(v))] : v \in invoices}]

\* ... and the validator takes the tabs and the carriage returns out of them first.
validate_txt == validate_txt_lines(DOMAIN file, Refused \ {"tab"}, normalize_layout(Forms[form].layout))
-----------------------------------------------------------------------------
(* The file.  The layout is a tree, written from the top: a line stands    *)
(* under the last one of the entity it belongs to.                         *)

Under == Extend(
         [ BA13 |-> "BA10", BA14 |-> "BA10", C02 |-> "C", C02A |-> "C", C05 |-> "C", E02 |-> "E", E03 |-> "E",
           E03A |-> "E", E05 |-> "E", F02 |-> "F", F02A |-> "F", F02B |-> "F", G02 |-> "G", G02A |-> "G",
           G02B |-> "G", GA02 |-> "GA", GA03 |-> "GA", I |-> "H", I05A |-> "I", I05C |-> "I", I05G |-> "I",
           I18 |-> "I", I25 |-> "I18", I50 |-> "I", I52 |-> "I50", I80 |-> "I", JA |-> "I", K |-> "I",
           L |-> "I", LA |-> "I", LA07 |-> "LA", LA11 |-> "LA", LB |-> "I", M |-> "I", NA |-> "I", O |-> "I",
           O07 |-> "O", O08 |-> "O", O10 |-> "O07", O11 |-> "O07", P |-> "I", Q02 |-> "I", Q03 |-> "I",
           Q04 |-> "I", Q05 |-> "I", Q07 |-> "Q05", Q10 |-> "Q05", R |-> "I", R02 |-> "R", R04 |-> "R",
           S02 |-> "I", S03 |-> "I", S04 |-> "I", S05 |-> "I", S07 |-> "S05", S09 |-> "S05", T |-> "I",
           T02 |-> "T", T04 |-> "T", U |-> "I", UA |-> "I", X03 |-> "X", X04 |-> "X03", X05 |-> "X03",
           X11 |-> "X", X18 |-> "X", X22 |-> "X", X25A |-> "X", X25B |-> "X", X26 |-> "X", X33 |-> "X26",
           YA04 |-> "YA01", Z04 |-> "Z", Z07 |-> "Z", Z10 |-> "Z", ZC04 |-> "ZC",
           ZC10 |-> "ZC" ],
         [ref \in DOMAIN Icms \cup DOMAIN IcmsSpecial |-> "I"])

Repeatable == {"A", "BA02", "BA03", "BA10", "BA19", "BA20", "BB02", "GA", "H", "I05A", "I18", "I25", "I50", "I80",
               "L", "X22", "X26", "X33", "Y07", "YA", "YA01", "Z04", "Z07", "Z10", "ZC04", "ZC10"}

\* With the SEBRAE layout YA is the change, and YA01 a payment.
Repeated == Repeatable \ (IF Forms[form].layout = "SEBRAE" THEN {"YA"} ELSE {})

ParentOf(ref) == CASE ref = "A" -> "" [] ref \in DOMAIN Under -> Under[ref] [] OTHER -> "A"

LastBefore(i, ref) ==
    LET js == {j \in DOMAIN file : j < i /\ file[j].ref = ref} IN
    IF js = {} THEN 0 ELSE CHOOSE j \in js : \A k \in js : k <= j
Parent(i) == LastBefore(i, ParentOf(file[i].ref))

Rank(ref) == CHOOSE r \in DOMAIN Forms[form].order : ref \in Forms[form].order[r]

Fits(ref) ==
    LET end == Len(file) + 1
        parent == LastBefore(end, ParentOf(ref))
    IN  /\ ref # "A" => parent > 0
        /\ (file # <<>> /\ file[Len(file)].ref \in DOMAIN Needs) => ref \in Needs[file[Len(file)].ref]
        /\ \A i \in (parent + 1)..Len(file) :
             /\ Parent(i) >= parent
             /\ Parent(i) = parent =>
                  \/ Rank(file[i].ref) < Rank(ref)
                  \/ Rank(file[i].ref) = Rank(ref) /\ {ref, file[i].ref} \subseteq Repeated

Init ==
    /\ form \in DOMAIN Forms
    /\ declared \in 0..MaxDeclared
    /\ file = Leads[form]

Write ==
    /\ Len(file) < Forms[form].max
    /\ \E line \in Lines[form] :
         /\ Fits(line.ref)
         /\ file' = Append(file, line)
    /\ UNCHANGED <<form, declared>>

Next == Write

Spec == Init /\ [][Next]_vars
-----------------------------------------------------------------------------
(* Properties of the converter. *)

OneInvoice(v) == Cardinality(LinesOf(v) \cap ALines) = 1

\* The type of the file, and of what it converts to.
TypeOK ==
    /\ form \in DOMAIN Forms /\ declared \in 0..MaxDeclared
    /\ \A i \in DOMAIN file : file[i] \in Lines[form] \/ i <= Len(Leads[form])
    /\ \A xml \in txt_to_xml_all.xml : \A leaf \in xml.leaves :
         leaf.from \in LinesOf(xml.of) /\ leaf.at.n \in Nat /\ leaf.at.m \in Nat

\* The line that starts the parts of each repeated kind.
HeadsOf(part) ==
    CASE part = "refNFe" -> {"BA02"} [] part = "refNF" -> {"BA03", "BA10"} [] part = "refCTe" -> {"BA19"}
      [] part = "refECF" -> {"BA20"} [] part = "autXML" -> {"GA"} [] part \in {"DI", "adi"} -> {"I18"}
      [] part = "detExport" -> {"I50"} [] part = "rastro" -> {"I80"} [] part = "arma" -> {"L"}
      [] part = "NVE" -> {"I05A"} [] part = "reboque" -> {"X22"} [] part = "vol" -> {"X26"}
      [] part = "dup" -> {"Y07"} [] part = "detPag" -> {"YA", "YA01"} \cap Repeated
      [] part = "obsCont" -> {"Z04"} [] part = "obsFisco" -> {"Z07"} [] part = "procRef" -> {"Z10"}
      [] part = "forDia" -> {"ZC04"} [] part = "deduc" -> {"ZC10"} [] OTHER -> {}

\* What a line must say to start a part of its own: without it the line is
\* passed over.
Said(part) ==
    CASE part = "refNFe" -> {"refNFe"} [] part = "refCTe" -> {"refCTe"} [] part = "NVE" -> {"NVE"}
      [] part \in {"obsCont", "obsFisco"} -> {"xCampo"} [] OTHER -> {}
Starts(i, part) == file[i].ref \in HeadsOf(part) /\ Said(part) \subseteq file[i].given

\* The lines of the k-th part: from its first line to the next one like it.
Group(lines, part, k) == {i \in lines : Cardinality({j \in lines : j <= i /\ Starts(j, part)}) = k}

Ended(lines) == {i \in lines : \E j \in lines : j <= i /\ file[j].ref = "W"}
Named(h) == h < Len(file) /\ file[h + 1].ref = "I" /\ {"cProd", "xProd"} \cap file[h + 1].given # {}

\* The lines of the n-th item with a product, and of the items without one before it.
ItemLines(lines, n) ==
    LET heads(i) == {h \in lines : h <= i /\ file[h].ref = "H"}
        number(i) == Cardinality({h \in heads(i) : Named(h)})
        named(i) == \E h \in heads(i) : Named(h) /\ \A k \in heads(i) : k <= h
    IN  {i \in lines \ Ended(lines) : heads(i) # {} /\ number(i) = IF named(i) THEN n ELSE n - 1}

\* Every part of the XML is made of the lines of one part of the file: what
\* stands in the n-th item, volume, payment, import declaration, referenced
\* document or authorized person comes from the lines of that one, in the
\* same invoice.  Only an item without a product leaves what it had to the
\* next one (parser.rs, finalize_current_item and its "H" arm).
InItsGroup ==
    \A xml \in txt_to_xml_all.xml : OneInvoice(xml.of) => \A leaf \in xml.leaves :
        LET lines == LinesOf(xml.of)
            item == IF leaf.at.n = 0 THEN lines ELSE ItemLines(lines, leaf.at.n)
        IN  /\ leaf.from \in item
            /\ (HeadsOf(leaf.at.part) # {} /\ leaf.at.m > 0) => leaf.from \in Group(item, leaf.at.part, leaf.at.m)

\* Fields that the layouts have and nothing reads.
Unread(ref) ==
    CASE ref = "A" -> {"pk_nItem"}
      [] ref = "B" -> {"indPag", "cMunFGIBS", "dPrevEntrega", "tpNFDebito", "tpNFCredito"}
      [] ref = "C02A" -> {"cpf"} [] ref = "H" -> {"item"} [] ref = "N10B" -> {"vBCSTDest", "vICMSSTDest"}
      [] ref = "I" -> {"indBemMovelUsado", "vItem", "tpCredPresIBSZFM"}
      [] ref = "I05C" -> {"indEscala", "CNPJFab", "cBenef"} [] ref = "O" -> {"CNPJProd", "cSelo", "clEnq"}
      [] ref = "W02" -> UfDest
      [] ref \in {"B31", "BB01", "BB02", "D", "UB01", "UB12", "UB73", "UB78", "W03", "W04C", "W04E", "W04G"} ->
            structure_400_v13["B31"] \cup DOMAIN [f \in {"refNFe"} \cup structure_400["D"] |-> f]
            \cup structure_400["UB01"] \cup structure_400["UB12"] \cup structure_400["UB73"]
            \cup structure_400["W03"] \cup UfDest
      [] OTHER -> {}

\* The seals after the last volume of an invoice.
SealOfLastVolume(i, lines) ==
    file[i].ref = "X33" /\ ~\E j \in lines : j > i /\ file[j].ref = "X26"

\* A card of a payment whose tpIntegra is none of the two the XSD has.
CardLeftOut(i, f) ==
    file[i].ref \in {"YA", "YA04"} /\ f \in CardTags /\ ("tpIntegra" \in file[i].given => file[i].is = "alone")

\* The line that says the code of a tax whose values line i gives.
CodeLine(i) == IF file[i].ref \in {"O10", "O11", "Q07", "Q10", "S07", "S09"} THEN Parent(i) ELSE i
TaxLines == {"O07", "O10", "O11", "Q02", "Q03", "Q05", "Q07", "Q10", "S02", "S03", "S05", "S07", "S09"}

\* The values of a tax without a code, or with one that is written alone (build_tax.rs).
TaxLeftOut(i, f) ==
    /\ file[i].ref \in TaxLines /\ f # "CST"
    /\ "CST" \in file[CodeLine(i)].given => file[CodeLine(i)].is = "alone"

\* What a builder writes only beside something the line, or the invoice, did not give:
\* a contingency without its reason (build_header.rs), the CPF of a reference to
\* a producer without its IE, an address without its street (build_parties.rs), the
\* quantity of an indirect export without its register and key (build_det.rs),
\* an observation without its name (build_optional.rs), and duplicates without a
\* bill (build_xml.rs).
Incomplete(i, lines, f) ==
    LET given == file[i].given IN
    CASE file[i].ref = "B" -> f \in {"dhCont", "xJust"} /\ ~{"dhCont", "xJust"} \subseteq given
      [] file[i].ref = "BA14" -> "IE" \notin file[Parent(i)].given
      [] file[i].ref = "E05" -> "xLgr" \notin given
      [] file[i].ref = "I52" -> {"nRE", "chNFe"} \cap given = {}
      [] file[i].ref \in {"Z04", "Z07"} -> "xCampo" \notin given
      [] file[i].ref = "Y07" -> \A j \in lines : file[j].ref # "Y02"
      [] OTHER -> FALSE

\* The amount of a PIS by substitution, when its R04 line says it again.
SaidAgain(i, f) ==
    file[i].ref = "R" /\ f = "vPIS"
    /\ \E j \in DOMAIN file : file[j].ref = "R04" /\ Parent(j) = i /\ "vPIS" \in file[j].given

\* The last line of a file that another must follow.
Unfinished(i) == i = Len(file) /\ file[i].ref \in DOMAIN Needs

\* Whatever a line of the file says of an invoice is in its XML, in all layouts and
\* whatever else the line or the invoice leaves unsaid, when it is one invoice and
\* every item has a product: no line replaces what another one said, none is
\* skipped.  The exceptions are the ones named above: fields nothing reads, the seals
\* of the last volume (parser.rs, X33), the card, the tax or the part a builder
\* leaves out, an amount said twice.
FieldsArrive ==
    \A xml \in txt_to_xml_all.xml :
        (/\ OneInvoice(xml.of)
         /\ \A h \in LinesOf(xml.of) : file[h].ref = "H" => Unfinished(h) \/ Named(h)) =>
        \A i \in LinesOf(xml.of) : \A f \in file[i].given \ Unread(file[i].ref) :
            \/ \E leaf \in xml.leaves : leaf.from = i /\ leaf.tag = f
            \/ SealOfLastVolume(i, LinesOf(xml.of)) \/ CardLeftOut(i, f) \/ TaxLeftOut(i, f)
            \/ Incomplete(i, LinesOf(xml.of), f) \/ SaidAgain(i, f) \/ Unfinished(i)

\* The file has the invoices it declares: a count of one takes all its lines for
\* the invoice, which must say its version.
AsDeclared == IF declared <= 1 THEN declared = 1 /\ Markers # {} ELSE Cardinality(Markers) = declared

\* The lines no invoice of the file has: those before the first A line, when it
\* declares several.
Dropped == IF declared <= 1 THEN {} ELSE {i \in DOMAIN file : \A j \in Markers : i < j}

\* The validator and the converter agree.  A file that validate_txt accepts is
\* converted, if it has the invoices it declares, none of them is left with a wrong key
\* and no field has a tab or a carriage return, which the validator alone takes out;
\* and a file that is converted is one of those, unless lines before its first
\* invoice were dropped.  One reads the file as a whole, the other invoice by
\* invoice, and they do not take the same lines for the start of one
\* (helpers.rs, validate_txt_lines; mod.rs, slice_invoices).
ValidatedConverts ==
    LET accepted == /\ validate_txt /\ AsDeclared
                    /\ \A v \in slice_invoices : KeyAccepted(v)
                    /\ \A i \in DOMAIN file : "tab" \notin file[i].flaws
    IN  /\ accepted => txt_to_xml_all.ok
        /\ (txt_to_xml_all.ok /\ Dropped = {}) => accepted
=============================================================================
