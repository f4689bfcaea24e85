-------------------------------- MODULE MCTxt --------------------------------
(* Instances of TxtConvert: forms of files, a few sections of the layout each. *)
EXTENDS TxtConvert

\* The form of a file of a version and a layout: the entities it begins with,
\* those that follow in their order, the ones that also come with another code
\* ("alone"), some more lines, and how many lines follow at most.
Form(follow, version, layout, lead, order, alone, more) ==
    [max |-> Len(lead) + follow, version |-> version, layout |-> layout, lead |-> lead,
     order |-> order, alone |-> alone, more |-> more, flaws |-> {}]

\* A line that gives only some of its fields.
Gives(ref, fields) == Line(ref, fields, "full", {})
Blank(ref) == Gives(ref, {})

\* A lines and others with the flaws that the validator and the converter look for.
Several == Form(5, "4.00", "LOCAL", <<"A">>, <<{"A"}, {"H"}, {"I"}, {"LA"}, {"X"}, {"X26"}, {"X33"}>>,
                {}, {Line("A", {"versao", "Id"}, "4.00", {"bad key"}), Line("X", {"modFrete"}, "full", {"malformed"}),
                 Line("A", {"Id"}, "", {}), Line("A", {"versao", "Id"}, "4.00", {"lower case"})})
Flawed == Form(4, "4.00", "LOCAL", <<"A">>, <<{"A"}, {"C"}, {"X"}>>,
               {}, {Line("A", {"versao", "Id"}, "4.00", {"bad key", "lower case"}),
                    Line("A", {"versao", "Id"}, "3.10", {"lower case"}), Line("A", {"versao"}, "4.00", {}),
                    Line("A", {"versao", "Id"}, "4.00", {"tab"}), Line("X", {"modFrete"}, "full", {"tab"}),
                    Line("A", {"versao", "Id"}, "4.00", {"bad key"}), Line("X", {"modFrete"}, "full", {"malformed"})})
\* Files that do not begin with the A line of their first invoice, or begin with one
\* in lower case.
Headless == [Form(4, "4.00", "LOCAL", <<"B">>, <<{"B"}, {"A"}, {"C"}, {"X"}>>, {}, {}) EXCEPT !.max = 4]
Lowered == [Form(4, "4.00", "LOCAL", <<"A">>, <<{"A"}, {"C"}, {"X"}>>, {},
                 {Line("X", {"modFrete"}, "full", {"tab"})}) EXCEPT !.flaws = {"lower case"}]
\* Lines that leave out what a builder wants beside what they give.
Partial == Form(4, "4.00", "LOCAL", <<"A">>,
                <<{"B"}, {"BA10"}, {"BA13", "BA14"}, {"E"}, {"E05"}, {"Y02"}, {"Y07"}, {"YA"}, {"Z"}, {"Z04", "Z07"}>>,
                {}, {Gives("B", Ide \ {"xJust"}), Gives("B", Ide \ {"dhCont"}),
                     Gives("BA10", structure_400["BA10"] \ {"IE"}), Gives("E05", Address \ {"xLgr"}),
                     Gives("YA", Local400["YA"] \ {"tpIntegra"}),
                     Gives("Z04", {"xTexto"}), Gives("Z04", {"xCampo"}), Gives("Z07", {"xTexto"})})
Items == Form(6, "4.00", "LOCAL", <<"A", "H">>,
              <<{"H"}, {"I"}, {"I18"}, {"I25"}, {"I50"}, {"I52"}, {"K"}, {"N02"}, {"W"}>>, {},
              {Blank("I"), Gives("I52", {"qExport"})})
References == Form(5, "4.00", "LOCAL", <<"A", "B">>,
                   <<{"B"}, {"BA02", "BA03", "BA10"}, {"BA13", "BA14"}, {"BA19", "BA20", "BB02"}, {"GA"},
                     {"GA02", "GA03"}>>, {}, {Blank("BA02")})
Taxes == Form(5, "4.00", "LOCAL", <<"A", "H", "I">>,
              <<{"H"}, {"I"}, {"O"}, {"O07", "O08"}, {"O10", "O11"}, {"Q02", "Q03", "Q04", "Q05"},
                {"Q07", "Q10"}, {"R"}, {"R02", "R04"}>>, {"O07", "Q05"},
              {Gives("O07", {"vIPI"}), Gives("Q05", {"vPIS"}), Gives("Q02", {"vBC", "pPIS", "vPIS"}),
               Gives("R04", {"qBCProd", "vAliqProd"})})
Cofins == Form(4, "4.00", "LOCAL", <<"A", "H", "I", "M">>,
               <<{"H"}, {"I"}, {"M"}, {"N02", "N10C", "N10B"}, {"NA"}, {"P"}, {"S02", "S03", "S04", "S05"},
                 {"S07", "S09"}, {"T"}, {"T02", "T04"}, {"U"}, {"UA"}>>, {"S02"},
               {Gives("S05", {"vCOFINS"}), Gives("S03", {"qBCProd", "vAliqProd", "vCOFINS"})})
Goods == Form(4, "4.00", "LOCAL_V12", <<"A", "H", "I">>,
              <<{"H"}, {"I"}, {"I05A"}, {"I05C"}, {"I05G"}, {"I80"}, {"JA"}, {"L"}, {"LA"}, {"LB"}, {"W"},
                {"W02"}>>, {}, {Blank("I05A")})
Transport == Form(5, "4.00", "LOCAL", <<"A", "X">>,
                  <<{"X"}, {"X03"}, {"X04", "X05"}, {"X11"}, {"X18"}, {"X22"}, {"X25A"}, {"X25B"}, {"X26"},
                    {"X33"}>>, {}, {})
Payment == Form(5, "4.00", "LOCAL_V13", <<"A", "B">>,
                <<{"B"}, {"Y"}, {"Y02"}, {"Y07"}, {"YA"}, {"YB"}, {"Z"}, {"Z04"}, {"ZA"}, {"ZD"}, {"ZX01"}>>,
                {"YA"}, {Blank("Z04")})
Sebrae == Form(5, "4.00", "SEBRAE", <<"A", "B", "H", "I", "I05C">>,
               <<{"B"}, {"H"}, {"I"}, {"I05C"}, {"I80"}, {"W"}, {"W02"}, {"W04C"}, {"YA"}, {"YA01"},
                 {"YA04"}>>, {"YA04"}, {})
Parties == Form(4, "4.00", "LOCAL", <<"A", "C", "E">>,
                <<{"C"}, {"C02", "C02A"}, {"C05"}, {"D"}, {"E"}, {"E02", "E03", "E03A"}, {"E05"}, {"F"},
                  {"F02", "F02A"}, {"F02B"}, {"G"}, {"G02", "G02A"}, {"G02B"}, {"W17"}, {"W23"}>>, {}, {})
Old == Form(4, "3.10", "LOCAL", <<"A", "B">>,
            <<{"B"}, {"C"}, {"C02A"}, {"H"}, {"I"}, {"N03", "N08"}, {"O"}, {"O07"}, {"W02"}, {"YA"}>>,
            {"YA"}, {})
Sugar == Form(5, "4.00", "LOCAL", <<"A">>,
              <<{"H"}, {"I"}, {"LA"}, {"LA07"}, {"LA11"}, {"UB12"}, {"W03"}, {"Z"}, {"Z07"}, {"Z10"}, {"ZB"},
                {"ZC"}, {"ZC04"}, {"ZC10"}>>, {}, {})

EveryForm ==
    [several |-> Several, flawed |-> Flawed, headless |-> Headless, lowered |-> Lowered, partial |-> Partial,
     items |-> Items, references |-> References, taxes |-> Taxes, cofins |-> Cofins, goods |-> Goods,
     transport |-> Transport, payment |-> Payment, sebrae |-> Sebrae, parties |-> Parties, old |-> Old,
     sugar |-> Sugar]

\* A line that gives every field its layout has.
Full(structure, version, ref) ==
    Line(ref, structure[ref],
         IF ref = "A" THEN version ELSE IF ref \in {"O08", "Q04", "S04"} THEN "alone" ELSE "full", {})

LeadOf(f, structure) ==
    [i \in DOMAIN f.lead |-> [Full(structure, f.version, f.lead[i]) EXCEPT !.flaws = f.flaws]]
LinesIn(f, structure) ==
    {Full(structure, f.version, ref) : ref \in UNION {f.order[r] : r \in DOMAIN f.order} \cap DOMAIN structure}
    \cup {[Full(structure, f.version, ref) EXCEPT !.is = "alone"] : ref \in f.alone}
    \cup f.more

EveryLead == [name \in DOMAIN EveryForm |->
    LeadOf(EveryForm[name], get_structure(EveryForm[name].version, EveryForm[name].layout))]
EveryLine == [name \in DOMAIN EveryForm |->
    LinesIn(EveryForm[name], get_structure(EveryForm[name].version, EveryForm[name].layout))]
=============================================================================
