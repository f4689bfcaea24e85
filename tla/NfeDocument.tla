----------------------------- MODULE NfeDocument -----------------------------
(***************************************************************************)
(* The NF-e document as the rest of the library sees it: what the builder  *)
(* puts in it, the signature, and the rewrite for contingency emission.    *)
(*                                                                         *)
(* A document is abstracted to the parts other components compare: its     *)
(* number, its emission type, the random code of its access key, the rest  *)
(* of its content (`body'), whether dhCont and xJust are present, the Id   *)
(* attribute of infNFe, and whether a Signature follows infNFe.            *)
(***************************************************************************)
EXTENDS EmissionTypes, Naturals

CONSTANTS
    Number,     \* invoice numbers (nNF)
    Code,       \* values generate_numeric_code may return (cNF)
    Body        \* everything else infNFe holds

ASSUME NoneIsAbsent == None \notin Number \cup Code \cup Body

(***************************************************************************)
(* The 44-digit access key.  The other positions (cUF, AAMM, CNPJ, model,  *)
(* series) are the issuer's and the same for every document here; the      *)
(* check digit is a function of the other 43 digits.                       *)
(***************************************************************************)
AccessKey == [nNF: Number, tpEmis: EmissionType, cNF: Code]

build_access_key(number, tpEmis, code) ==
    [nNF |-> number, tpEmis |-> tpEmis, cNF |-> code]

(***************************************************************************)
(* The Id attribute: how many times the literal "NFe" stands before the    *)
(* key (once, in a well-formed document).                                  *)
(***************************************************************************)
IdAttribute == [prefixes: 1..2, key: AccessKey]

Document ==
    [nNF: Number, tpEmis: EmissionType, cNF: Code, body: Body,
     cont: BOOLEAN, id: IdAttribute, signed: BOOLEAN]

\* What the digest covers: infNFe, without the Signature next to it.
\* SHA-1 is taken to have no collisions, so the content stands for its digest.
Content(doc) == [doc EXCEPT !.signed = FALSE]

\* The DigestValue and the key found in a document's XML.
digest_value(doc) == IF doc.signed THEN Content(doc) ELSE None

\* extract_inf_nfe_id strips one "NFe" only: what is left is an access key
\* exactly when the Id holds the prefix once.
extract_inf_nfe_id(doc) == [prefixes |-> doc.id.prefixes - 1, key |-> doc.id.key]
IsKey(id, key) == id = [prefixes |-> 0, key |-> key]

(***************************************************************************)
(* InvoiceBuilder::build.  The numeric code is drawn anew by every call,   *)
(* and emission type and contingency data come from setters of their own.  *)
(***************************************************************************)
generate_xml(number, tpEmis, code, body, cont) ==
    [nNF |-> number, tpEmis |-> tpEmis, cNF |-> code, body |-> body,
     cont |-> cont,
     id |-> [prefixes |-> 1, key |-> build_access_key(number, tpEmis, code)],
     signed |-> FALSE]

\* sign_xml: the Signature is placed after infNFe, whose content is kept.
sign_xml(doc) == [doc EXCEPT !.signed = TRUE]

remove_signature(doc) == [doc EXCEPT !.signed = FALSE]

(***************************************************************************)
(* adjust_nfe_contingency for a model 55 document; `type' is the active    *)
(* contingency type or None.  The new Id is written after the prefix that  *)
(* is already there, prefix included.                                      *)
(***************************************************************************)
adjust_nfe_contingency(doc, type) ==
    LET bare   == remove_signature(doc)
        newKey == build_access_key(bare.nNF, tp_emis[type], bare.cNF)
    IN  IF type = None THEN doc
        ELSE IF bare.tpEmis # Normal THEN bare
        ELSE [bare EXCEPT !.tpEmis = tp_emis[type],
                          !.cont = TRUE,
                          !.id = [prefixes |-> @.prefixes + 1, key |-> newKey]]
=============================================================================
