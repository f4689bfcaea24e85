--------------------------- MODULE Issuance_proofs ---------------------------
(***************************************************************************)
(* Proofs about Issuance, for any number of tasks, documents and requests. *)
(*                                                                         *)
(* ProcGenuine and MarkGenuine are not inductive.  What makes them hold is *)
(* that the answers held by the tasks speak of what is registered          *)
(* (AnswersGenuine), that a registration is for good (LedgerGrows), and,   *)
(* for a cancellation, which names a key and no digest, that one key never *)
(* stands for two contents, even over two authorizers (KeyUnique).  That   *)
(* in turn rests on keys being computed from the document's own fields     *)
(* (DocsWellFormed), the emission type among them (LedgerWellFormed).      *)
(***************************************************************************)
EXTENDS Issuance, Complement_proofs

OwnKey(doc) == doc.id.key = build_access_key(doc.nNF, doc.tpEmis, doc.cNF)

\* A prefix is doubled only where the emission type was changed as well.
WellFormed(doc) == OwnKey(doc) /\ (doc.id.prefixes = 2 => doc.tpEmis # Normal)

DocsWellFormed ==
    /\ builder # None => WellFormed(builder)
    /\ \A doc \in disk : WellFormed(doc)
    /\ \A m \in net : m.req.op = "authorize" => WellFormed(m.req.doc)

LedgerWellFormed ==
    /\ \A r \in Registrations : OwnKey(r.content)
    /\ \A r \in ledger["svc"] : r.content.tpEmis = SvcEmission
    /\ \A r \in ledger["own"] : r.content.tpEmis = SvcEmission =>
          \E s \in ledger["svc"] : s.content = r.content

KeyUnique ==
    \A r, s \in Registrations :
        r.content.id.key = s.content.id.key => r.content = s.content /\ r.cStat = s.cStat

\* A protNFe that says "processed" names the content, key and status of a
\* registration; a retEvento that says "registered", a key that is cancelled.
ProtGenuine(p, regs) ==
    p.cStat \in VALID_PROTOCOL_STATUSES =>
        \E r \in regs :
            r.content = p.digVal /\ r.content.id.key = p.chNFe /\ r.cStat = p.cStat

RetGenuine(e, regs) ==
    e.cStat \in VALID_CANCEL_STATUSES =>
        \E r \in regs : r.content.id.key = e.chNFe /\ r.cancelled

AnswersGenuine ==
    \A t \in Task :
        /\ \A i \in DOMAIN answer[t].prots : ProtGenuine(answer[t].prots[i], Registrations)
        /\ \A i \in DOMAIN answer[t].rets : RetGenuine(answer[t].rets[i], Registrations)

IInv ==
    /\ TypeOK
    /\ DocsWellFormed
    /\ LedgerWellFormed
    /\ KeyUnique
    /\ AnswersGenuine
    /\ ProcGenuine
    /\ MarkGenuine

LedgerGrows ==
    \A r \in Registrations : \E s \in Registrations' :
        s.content = r.content /\ s.cStat = r.cStat /\ (r.cancelled => s.cancelled)
-----------------------------------------------------------------------------
\* What the library makes of a document keeps its type and its own key.
LEMMA SvcEmissionType ==
    SvcEmission \in EmissionType /\ SvcEmission # Normal
BY SvcTypeAssumption DEF SvcContingency, SvcEmission, tp_emis, EmissionType, Normal

LEMMA BuiltDocument ==
    ASSUME NEW n \in Number, NEW c \in Code, NEW b \in Body, NEW e \in EmissionType,
           NEW k \in BOOLEAN
    PROVE  generate_xml(n, e, c, b, k) \in Document /\ WellFormed(generate_xml(n, e, c, b, k))
BY DEF generate_xml, Document, IdAttribute, AccessKey, build_access_key, WellFormed, OwnKey

LEMMA SignedDocument ==
    ASSUME NEW doc \in Document
    PROVE  /\ sign_xml(doc) \in SignedNFe
           /\ WellFormed(doc) => WellFormed(sign_xml(doc))
BY DEF sign_xml, SignedNFe, Document, WellFormed, OwnKey

LEMMA AdjustedDocument ==
    ASSUME NEW doc \in Document, WellFormed(doc)
    PROVE  /\ adjust_nfe_contingency(doc, SvcType) \in Document
           /\ WellFormed(adjust_nfe_contingency(doc, SvcType))
<1> DEFINE bare == remove_signature(doc)
           key  == build_access_key(bare.nNF, SvcEmission, bare.cNF)
           new  == [bare EXCEPT !.tpEmis = SvcEmission, !.cont = TRUE,
                                !.id = [prefixes |-> @.prefixes + 1, key |-> key]]
<1>1. bare \in Document /\ WellFormed(bare)
    BY DEF remove_signature, Document, WellFormed, OwnKey
<1>2. CASE SvcType # None /\ bare.tpEmis = Normal
    <2>1. bare.id \in IdAttribute /\ bare.id.prefixes = 1
        BY <1>1, <1>2 DEF Document, IdAttribute, WellFormed
    <2>2. key \in AccessKey
        BY <1>1, SvcEmissionType DEF build_access_key, AccessKey, Document
    <2>3. [prefixes |-> bare.id.prefixes + 1, key |-> key] \in IdAttribute
        BY <2>1, <2>2 DEF IdAttribute
    <2>4. new \in Document
        BY <1>1, <2>3, SvcEmissionType DEF Document
    <2>5. WellFormed(new)
        BY <1>1, SvcEmissionType DEF WellFormed, OwnKey, Document, build_access_key
    <2>6. adjust_nfe_contingency(doc, SvcType) = new
        BY <1>2 DEF adjust_nfe_contingency, SvcEmission
    <2>7. QED  BY <2>4, <2>5, <2>6
<1>3. CASE ~ (SvcType # None /\ bare.tpEmis = Normal)
    BY <1>1, <1>3 DEF adjust_nfe_contingency
<1>4. QED  BY <1>2, <1>3

LEMMA ContentOfDocument ==
    ASSUME NEW doc \in Document
    PROVE  /\ Content(doc) \in InfNFe
           /\ Content(doc).id = doc.id
           /\ Content(doc).nNF = doc.nNF
           /\ Content(doc).tpEmis = doc.tpEmis
           /\ Content(doc).cNF = doc.cNF
BY DEF Content, InfNFe, Document
-----------------------------------------------------------------------------
\* The three kinds of answer to an authorization: the lot is refused, the
\* document is refused, the document is registered.
LEMMA AuthorizationCases ==
    ASSUME TypeOK, NEW a \in Authorizer, NEW doc \in SignedNFe,
           NEW o \in AuthorizationOutcomes(a, doc)
    PROVE  \/ o = [add |-> {}, cStat |-> "225", prots |-> <<>>]
           \/ \E v \in InfNFe \cup {None}, s \in {"204", "539", "999"} :
                o = [add |-> {}, cStat |-> "104",
                     prots |-> <<[chNFe |-> doc.id.key, digVal |-> v, cStat |-> s]>>]
           \/ /\ Serves(a, doc.tpEmis)
              /\ Registered(a, doc.id.key) = {}
              /\ \E s \in {"100", "110"} :
                   o = [add |-> {[content |-> Content(doc), cStat |-> s,
                                  cancelled |-> FALSE]},
                        cStat |-> "104",
                        prots |-> <<[chNFe |-> doc.id.key, digVal |-> Content(doc),
                                     cStat |-> s]>>]
<1>1. Content(doc) \in InfNFe
    BY ContentOfDocument DEF SignedNFe
<1>2. \A r \in Registered(a, doc.id.key) : r.content \in InfNFe
    BY DEF TypeOK, Registered, Registration
<1>3. QED  BY <1>1, <1>2 DEF AuthorizationOutcomes

LEMMA ResponseType ==
    ASSUME NEW s \in Status, NEW prots \in Seq(Prot), NEW rets \in Seq(Ret)
    PROVE  [status_code |-> s, nRec |-> None, prots |-> prots, rets |-> rets] \in Response
BY DEF Response

\* What a task is given of the answer to an authorization.
LEMMA AuthorizationAnswer ==
    ASSUME TypeOK, NEW a \in Authorizer, NEW doc \in SignedNFe,
           NEW o \in AuthorizationOutcomes(a, doc), NEW response,
           response = parse_autorizacao_response(RawResponse(o.cStat, None, o.prots, <<>>))
    PROVE  /\ o.add \in SUBSET Registration
           /\ response \in Response
           /\ response.rets = <<>>
           /\ response.prots = o.prots
<1>1. doc.id.key \in AccessKey /\ Content(doc) \in InfNFe
    BY ContentOfDocument DEF SignedNFe, Document, IdAttribute
<1>2. CASE o = [add |-> {}, cStat |-> "225", prots |-> <<>>]
    BY <1>2 DEF parse_autorizacao_response, RawResponse, FirstOnly, Response, Status
<1>3. ASSUME NEW v \in InfNFe \cup {None}, NEW s \in ProtStatus,
             o.add \in SUBSET Registration, o.cStat = "104",
             o.prots = <<[chNFe |-> doc.id.key, digVal |-> v, cStat |-> s]>>
      PROVE  /\ response \in Response
             /\ response.rets = <<>>
             /\ response.prots = o.prots
    <2> DEFINE prot == [chNFe |-> doc.id.key, digVal |-> v, cStat |-> s]
    <2>1. prot \in Prot
        BY <1>1, <1>3 DEF Prot
    <2>2. response = [status_code |-> s, nRec |-> None, prots |-> <<prot>>, rets |-> <<>>]
        BY <1>3 DEF parse_autorizacao_response, RawResponse, FirstOnly
    <2>3. <<prot>> \in Seq(Prot) /\ <<>> \in Seq(Ret)
        BY <2>1
    <2>4. response \in Response
        BY <2>2, <2>3, ResponseType DEF Status
    <2>5. QED  BY <1>3, <2>2, <2>4
<1>4. CASE \E v \in InfNFe \cup {None}, s \in {"204", "539", "999"} :
              o = [add |-> {}, cStat |-> "104",
                   prots |-> <<[chNFe |-> doc.id.key, digVal |-> v, cStat |-> s]>>]
    <2>1. PICK v \in InfNFe \cup {None}, s \in {"204", "539", "999"} :
              o = [add |-> {}, cStat |-> "104",
                   prots |-> <<[chNFe |-> doc.id.key, digVal |-> v, cStat |-> s]>>]
        BY <1>4
    <2>2. o.add = {} /\ s \in ProtStatus
        BY <2>1 DEF ProtStatus
    <2>3. QED  BY <1>3, <2>1, <2>2
<1>5. CASE \E s \in {"100", "110"} :
              o = [add |-> {[content |-> Content(doc), cStat |-> s, cancelled |-> FALSE]},
                   cStat |-> "104",
                   prots |-> <<[chNFe |-> doc.id.key, digVal |-> Content(doc),
                                cStat |-> s]>>]
    <2>1. PICK s \in {"100", "110"} :
              o = [add |-> {[content |-> Content(doc), cStat |-> s, cancelled |-> FALSE]},
                   cStat |-> "104",
                   prots |-> <<[chNFe |-> doc.id.key, digVal |-> Content(doc),
                                cStat |-> s]>>]
        BY <1>5
    <2>2. o.add \in SUBSET Registration
        BY <1>1, <2>1 DEF Registration
    <2>3. QED  BY <1>1, <1>3, <2>1, <2>2 DEF ProtStatus
<1>6. QED  BY <1>2, <1>4, <1>5, AuthorizationCases

\* What a task is given of a consultation: at most one protNFe, that of a
\* registration; an event only if it is cancelled.
LEMMA ConsultationAnswer ==
    ASSUME TypeOK, NEW a \in Authorizer, NEW key \in AccessKey,
           NEW raw \in Situations(a, key), NEW response,
           \/ response = parse_autorizacao_response(raw)
           \/ response = parse_consulta_situacao_response(raw)
    PROVE  /\ response \in Response
           /\ \/ response.prots = <<>> /\ response.rets = <<>>
              \/ \E r \in Registered(a, key) :
                    /\ response.prots = <<ProtocolOf(key, r)>>
                    /\ \/ response.rets = <<>>
                       \/ r.cancelled /\ response.rets = <<CancellationOf(key, "135")>>
<1>1. CASE Registered(a, key) = {}
    <2>1. response = [status_code |-> "217", nRec |-> None, prots |-> <<>>, rets |-> <<>>]
        BY <1>1 DEF Situations, RawResponse, parse_autorizacao_response,
            parse_consulta_situacao_response, FirstOnly
    <2>2. <<>> \in Seq(Prot) /\ <<>> \in Seq(Ret)
        OBVIOUS
    <2>3. response \in Response
        BY <2>1, <2>2, ResponseType DEF Status
    <2>4. QED  BY <2>1, <2>3
<1>2. CASE Registered(a, key) # {}
    <2>1. PICK r \in Registered(a, key) :
             raw = IF r.cancelled
                   THEN RawResponse("101", None, <<ProtocolOf(key, r)>>,
                                    <<CancellationOf(key, "135")>>)
                   ELSE RawResponse(r.cStat, None, <<ProtocolOf(key, r)>>, <<>>)
        BY <1>2 DEF Situations
    <2>2. r \in Registration
        BY DEF TypeOK, Registered
    <2>3. r.cStat \in ProtStatus /\ r.content \in InfNFe
        BY <2>2 DEF Registration, ProtStatus
    <2>4. ProtocolOf(key, r) \in Prot /\ CancellationOf(key, "135") \in Ret
        BY <2>3 DEF ProtocolOf, Prot, Ret, CancellationOf, EventStatus
    <2>5. /\ <<ProtocolOf(key, r)>> \in Seq(Prot)
          /\ <<CancellationOf(key, "135")>> \in Seq(Ret)
          /\ <<>> \in Seq(Ret)
        BY <2>4
    <2>6. \/ response = [status_code |-> r.cStat, nRec |-> None,
                         prots |-> <<ProtocolOf(key, r)>>, rets |-> <<>>]
          \/ response = [status_code |-> r.cStat, nRec |-> None,
                         prots |-> <<ProtocolOf(key, r)>>, rets |-> <<>>]
          \/ /\ r.cancelled
             /\ response = [status_code |-> "101", nRec |-> None,
                            prots |-> <<ProtocolOf(key, r)>>,
                            rets |-> <<CancellationOf(key, "135")>>]
        BY <2>1 DEF RawResponse, parse_autorizacao_response,
            parse_consulta_situacao_response, FirstOnly, ProtocolOf
    <2>7. response \in Response
        BY <2>3, <2>5, <2>6, ResponseType DEF Status
    <2>8. QED  BY <2>6, <2>7
<1>3. QED  BY <1>1, <1>2

\* What a task is given of a cancellation.
LEMMA CancellationAnswer ==
    ASSUME NEW key \in AccessKey, NEW s \in EventStatus, NEW response,
           response = parse_cancellation_response(
                  RawResponse("128", None, <<>>, <<CancellationOf(key, s)>>))
    PROVE  /\ response \in Response
           /\ response.prots = <<>>
           /\ response.rets = <<CancellationOf(key, s)>>
<1>1. CancellationOf(key, s) \in Ret
    BY DEF Ret, CancellationOf
<1>2. response = [status_code |-> s, nRec |-> None, prots |-> <<>>,
                  rets |-> <<CancellationOf(key, s)>>]
    BY DEF parse_cancellation_response, RawResponse, CancellationOf
<1>3. <<CancellationOf(key, s)>> \in Seq(Ret) /\ <<>> \in Seq(Prot)
    BY <1>1
<1>4. response \in Response
    BY <1>2, <1>3, ResponseType DEF Status
<1>5. QED  BY <1>2, <1>4
-----------------------------------------------------------------------------
\* A step that delivers a response, or loses it, keeps the types of what the
\* tasks hold.
LEMMA AnswerType ==
    ASSUME TypeOK, NEW m \in net, NEW response \in Response, Answer(m, response)
    PROVE  /\ builder' \in Document \cup {None}
           /\ disk' \subseteq SignedNFe
           /\ procs' \subseteq Proc
           /\ call' \in [Task -> Request \cup {None}]
           /\ answer' \in [Task -> Response]
           /\ net' \subseteq Message
BY DEF TypeOK, Answer, Message

LEMMA RequestType ==
    ASSUME TypeOK, NEW m \in net
    PROVE  /\ m.from \in Task \cup {None}
           /\ m.req.at \in Authorizer
           /\ m.req.op = "authorize" => m.req.doc \in SignedNFe
           /\ m.req.op # "authorize" => m.req.key \in AccessKey /\ m.req.at = "own"
BY DEF TypeOK, Message, Request, Authorizer

LEMMA SendType ==
    ASSUME TypeOK, NEW t \in Task, NEW request \in Request, Send(t, request)
    PROVE  TypeOK'
<1>1. [from |-> t, req |-> request] \in Message
    BY DEF Message
<1>2. NoResponse \in Response
    <2>1. <<>> \in Seq(Prot) /\ <<>> \in Seq(Ret)
        OBVIOUS
    <2>2. QED  BY <2>1, ResponseType DEF NoResponse, Status
<1>3. QED  BY <1>1, <1>2 DEF Send, TypeOK

LEMMA DisownedType ==
    ASSUME TypeOK, NEW tasks, NEW m \in net
    PROVE  /\ Disowned(m, tasks) \in Message
           /\ Disowned(m, tasks).req = m.req
BY DEF Disowned, TypeOK, Message
-----------------------------------------------------------------------------
\* attach_protocol and attach_cancellation, on what the application holds.
LEMMA JoinedProc ==
    ASSUME TypeOK, NEW t \in Task, NEW doc \in SignedNFe,
           attach_protocol(doc, answer[t].prots).kind = "nfeProc"
    PROVE  \E i \in DOMAIN answer[t].prots :
             LET prot == answer[t].prots[i] IN
              /\ prot \in Prot
              /\ attach_protocol(doc, answer[t].prots)
                   = [kind |-> "nfeProc", nfe |-> doc, prot |-> prot, rets |-> <<>>]
              /\ prot.digVal = Content(doc)
              /\ prot.chNFe = doc.id.key
              /\ prot.cStat \in VALID_PROTOCOL_STATUSES
<1>1. answer[t].prots \in Seq(Prot) /\ doc.signed
    BY DEF TypeOK, Response, SignedNFe
<1>2. \A i \in DOMAIN answer[t].prots : answer[t].prots[i] \in Prot
    BY <1>1
<1>3. QED  BY <1>1, <1>2, AttachedIsOwn DEF nfeProc

LEMMA MarkedProc ==
    ASSUME TypeOK, NEW t \in Task, NEW proc \in procs
    PROVE  LET marked == attach_cancellation(proc, answer[t].rets) IN
           /\ marked \in Proc
           /\ marked.nfe = proc.nfe
           /\ marked.prot = proc.prot
           /\ proc.rets # <<>> => marked.rets # <<>>
           /\ \/ marked = proc
              \/ \E i \in DOMAIN answer[t].rets :
                    IsCancellationOf(answer[t].rets[i], proc.prot.chNFe)
<1> DEFINE marked == attach_cancellation(proc, answer[t].rets)
<1>1. answer[t].rets \in Seq(Ret) /\ proc \in Proc /\ proc.rets \in Seq(Ret)
    BY DEF TypeOK, Response, Proc
<1>2. \/ marked = proc
      \/ \E i \in DOMAIN answer[t].rets :
            /\ IsCancellationOf(answer[t].rets[i], proc.prot.chNFe)
            /\ marked = [kind |-> proc.kind, nfe |-> proc.nfe, prot |-> proc.prot,
                         rets |-> Append(proc.rets, answer[t].rets[i])]
    <2>1. proc = [kind |-> proc.kind, nfe |-> proc.nfe, prot |-> proc.prot,
                  rets |-> proc.rets]
        BY <1>1 DEF Proc
    <2> HIDE DEF marked
    <2>2. marked = attach_cancellation(proc, answer[t].rets)
        BY DEF marked
    <2>3. DOMAIN answer[t].rets \subseteq Nat
        BY <1>1, LenProperties
    <2>4. QED  BY <2>1, <2>2, <2>3, MarkedIsOwn
<1>3. CASE marked = proc
    BY <1>1, <1>3
<1>4. ASSUME NEW i \in DOMAIN answer[t].rets,
             IsCancellationOf(answer[t].rets[i], proc.prot.chNFe),
             marked = [kind |-> proc.kind, nfe |-> proc.nfe, prot |-> proc.prot,
                       rets |-> Append(proc.rets, answer[t].rets[i])]
      PROVE  /\ marked \in Proc
             /\ marked.nfe = proc.nfe
             /\ marked.prot = proc.prot
             /\ marked.rets # <<>>
    <2>1. Append(proc.rets, answer[t].rets[i]) \in Seq(Ret)
          /\ Append(proc.rets, answer[t].rets[i]) # <<>>
        BY <1>1
    <2>2. QED  BY <1>1, <1>4, <2>1 DEF Proc
<1>5. QED  BY <1>2, <1>3, <1>4
-----------------------------------------------------------------------------
\* The variables keep their types.
LEMMA TypeNext ==
    ASSUME TypeOK, DocsWellFormed, [Next]_vars
    PROVE  TypeOK'
<1>1. ASSUME NEW n \in Number, NEW c \in Code, NEW b \in Body, NEW e \in Emission,
             Build(n, c, b, e)
      PROVE  TypeOK'
    <2>1. e \in EmissionType /\ (e # Normal) \in BOOLEAN
        BY EmissionAssumption, SvcEmissionType DEF SvcEmission, EmissionType, Normal
    <2>2. generate_xml(n, e, c, b, e # Normal) \in Document
        BY <2>1, BuiltDocument
    <2>3. QED  BY <1>1, <2>2 DEF Build, TypeOK
<1>2. CASE Sign
    <2>1. builder \in Document
        BY <1>2 DEF Sign, TypeOK
    <2>2. sign_xml(builder) \in Document
        BY <2>1, SignedDocument DEF SignedNFe
    <2>3. QED  BY <1>2, <2>2 DEF Sign, TypeOK
<1>3. CASE Discard
    BY <1>3 DEF Discard, TypeOK
<1>4. CASE Keep
    BY <1>4 DEF Keep, TypeOK, SignedNFe
<1>5. ASSUME NEW doc \in disk, Adjust(doc)
      PROVE  TypeOK'
    <2>1. doc \in Document /\ WellFormed(doc)
        BY DEF TypeOK, SignedNFe, DocsWellFormed
    <2>2. sign_xml(adjust_nfe_contingency(doc, SvcType)) \in Document
        BY <2>1, AdjustedDocument, SignedDocument DEF SignedNFe
    <2>3. QED  BY <1>5, <2>2 DEF Adjust, TypeOK
<1>6. CASE Crash
    <2>1. NoResponse \in Response
        <3>1. <<>> \in Seq(Prot) /\ <<>> \in Seq(Ret)
            OBVIOUS
        <3>2. QED  BY <3>1, ResponseType DEF NoResponse, Status
    <2>2. net' \subseteq Message
        BY <1>6, DisownedType DEF Crash
    <2>3. QED  BY <1>6, <2>1, <2>2 DEF Crash, TypeOK
<1>7. ASSUME NEW m \in net, SefazAuthorize(m)
      PROVE  TypeOK'
    <2>1. m.req.at \in Authorizer /\ m.req.doc \in SignedNFe
        BY <1>7, RequestType DEF SefazAuthorize
    <2>2. PICK o \in AuthorizationOutcomes(m.req.at, m.req.doc) :
             /\ ledger' = [ledger EXCEPT ![m.req.at] = @ \cup o.add]
             /\ Answer(m, parse_autorizacao_response(
                              RawResponse(o.cStat, None, o.prots, <<>>)))
        BY <1>7 DEF SefazAuthorize
    <2>3. o.add \in SUBSET Registration
          /\ parse_autorizacao_response(RawResponse(o.cStat, None, o.prots, <<>>)) \in Response
        BY <2>1, AuthorizationAnswer
    <2>4. ledger' \in [Authorizer -> SUBSET Registration]
        BY <2>1, <2>2, <2>3 DEF TypeOK
    <2>5. QED  BY <2>2, <2>3, <2>4, AnswerType DEF TypeOK
<1>8. ASSUME NEW m \in net, SefazConsult(m)
      PROVE  TypeOK'
    <2>1. m.req.at \in Authorizer /\ m.req.key \in AccessKey
        BY <1>8, RequestType DEF SefazConsult
    <2>2. PICK raw \in Situations(m.req.at, m.req.key) :
             Answer(m, IF m.req.op = "consult" THEN parse_autorizacao_response(raw)
                       ELSE parse_consulta_situacao_response(raw))
        BY <1>8 DEF SefazConsult
    <2>3. parse_autorizacao_response(raw) \in Response
          /\ parse_consulta_situacao_response(raw) \in Response
        BY <2>1, ConsultationAnswer
    <2>4. (IF m.req.op = "consult" THEN parse_autorizacao_response(raw)
                       ELSE parse_consulta_situacao_response(raw)) \in Response
        BY <2>3
    <2>5. ledger' = ledger
        BY <1>8 DEF SefazConsult
    <2>6. QED  BY <2>2, <2>4, <2>5, AnswerType DEF TypeOK
<1>9. ASSUME NEW m \in net, SefazCancel(m)
      PROVE  TypeOK'
    <2>1. m.req.at \in Authorizer /\ m.req.key \in AccessKey
        BY <1>9, RequestType DEF SefazCancel
    <2>2. PICK o \in CancellationOutcomes(m.req.at, m.req.key) :
             /\ ledger' = [ledger EXCEPT ![m.req.at] = Cancelled(@, o.cancel)]
             /\ Answer(m, parse_cancellation_response(
                   RawResponse("128", None, <<>>, <<CancellationOf(m.req.key, o.cStat)>>)))
        BY <1>9 DEF SefazCancel
    <2>3. o.cStat \in EventStatus /\ o.cancel \subseteq ledger[m.req.at]
        BY DEF CancellationOutcomes, EventStatus, Registered
    <2>4. parse_cancellation_response(
              RawResponse("128", None, <<>>, <<CancellationOf(m.req.key, o.cStat)>>))
            \in Response
        BY <2>1, <2>3, CancellationAnswer
    <2>5. Cancelled(ledger[m.req.at], o.cancel) \subseteq Registration
        <3>1. \A r \in Registration : [r EXCEPT !.cancelled = TRUE] \in Registration
            BY DEF Registration
        <3>2. ledger[m.req.at] \subseteq Registration
            BY <2>1 DEF TypeOK
        <3>3. QED  BY <2>3, <3>1, <3>2 DEF Cancelled
    <2>6. ledger' \in [Authorizer -> SUBSET Registration]
        BY <2>1, <2>2, <2>5 DEF TypeOK
    <2>7. QED  BY <2>2, <2>4, <2>6, AnswerType DEF TypeOK
<1>10. ASSUME NEW r \in ledger["svc"], SvcTransfer(r)
       PROVE  TypeOK'
    BY <1>10 DEF SvcTransfer, TypeOK, Authorizer
<1>11. ASSUME NEW t \in Task, NEW doc \in SignedDocs,
              authorize(t, doc) \/ authorize_contingency(t, doc)
       PROVE  TypeOK'
    <2>1. doc \in SignedNFe
        BY DEF SignedDocs, TypeOK, SignedNFe
    <2>2. [op |-> "authorize", doc |-> doc, at |-> "own"] \in Request
          /\ [op |-> "authorize", doc |-> doc, at |-> "svc"] \in Request
        BY <2>1 DEF Request, Authorizer
    <2>3. QED  BY <1>11, <2>2, SendType DEF authorize, authorize_contingency
<1>12. ASSUME NEW t \in Task, NEW key \in AccessKey,
              consult(t, key) \/ consult_situacao(t, key) \/ cancel(t, key)
       PROVE  TypeOK'
    <2>1. /\ [op |-> "consult", key |-> key, at |-> "own"] \in Request
          /\ [op |-> "situation", key |-> key, at |-> "own"] \in Request
          /\ [op |-> "cancel", key |-> key, at |-> "own"] \in Request
        BY DEF Request
    <2>2. QED  BY <1>12, <2>1, SendType DEF consult, consult_situacao, cancel
<1>13. ASSUME NEW t \in Task, NetworkError(t)
       PROVE  TypeOK'
    <2>1. net' \subseteq Message
        BY <1>13, DisownedType DEF NetworkError, TypeOK
    <2>2. QED  BY <1>13, <2>1 DEF NetworkError, TypeOK
<1>14. ASSUME NEW t \in Task, NEW doc \in SignedDocs, Attach(doc, t)
       PROVE  TypeOK'
    <2>1. doc \in SignedNFe
        BY DEF SignedDocs, TypeOK, SignedNFe
    <2>2. attach_protocol(doc, answer[t].prots) \in Proc
        <3>1. <<>> \in Seq(Ret)
            OBVIOUS
        <3>2. attach_protocol(doc, answer[t].prots).kind = "nfeProc"
            BY <1>14 DEF Attach
        <3>3. PICK i \in DOMAIN answer[t].prots :
                 /\ answer[t].prots[i] \in Prot
                 /\ attach_protocol(doc, answer[t].prots)
                      = [kind |-> "nfeProc", nfe |-> doc, prot |-> answer[t].prots[i],
                         rets |-> <<>>]
            BY <2>1, <3>2, JoinedProc
        <3>4. QED  BY <2>1, <3>1, <3>3 DEF Proc
    <2>3. QED  BY <1>14, <2>2 DEF Attach, TypeOK
<1>15. ASSUME NEW t \in Task, NEW proc \in procs, AttachCancellation(proc, t)
       PROVE  TypeOK'
    <2>1. attach_cancellation(proc, answer[t].rets) \in Proc
        BY MarkedProc
    <2>2. QED  BY <1>15, <2>1 DEF AttachCancellation, TypeOK
<1>16. CASE UNCHANGED vars
    BY <1>16 DEF vars, TypeOK
<1>17. \A doc \in disk : doc.id.key \in AccessKey
    BY DEF TypeOK, SignedNFe, Document, IdAttribute
<1>18. \A proc \in procs : proc.prot.chNFe \in AccessKey
    BY DEF TypeOK, Proc, Prot
<1>19. QED
    BY <1>1, <1>2, <1>3, <1>4, <1>5, <1>6, <1>7, <1>8, <1>9, <1>10, <1>11, <1>12,
       <1>13, <1>14, <1>15, <1>16, <1>17, <1>18
    DEF Next, Application, Sefaz, Client
-----------------------------------------------------------------------------
\* Documents carry the key of their own fields, wherever they are.
LEMMA DocsNext ==
    ASSUME TypeOK, DocsWellFormed, [Next]_vars
    PROVE  DocsWellFormed'
<1>1. ASSUME NEW n \in Number, NEW c \in Code, NEW b \in Body, NEW e \in Emission,
             Build(n, c, b, e)
      PROVE  DocsWellFormed'
    <2>1. e \in EmissionType /\ (e # Normal) \in BOOLEAN
        BY EmissionAssumption, SvcEmissionType DEF SvcEmission, EmissionType, Normal
    <2>2. WellFormed(generate_xml(n, e, c, b, e # Normal))
        BY <2>1, BuiltDocument
    <2>3. QED  BY <1>1, <2>2 DEF Build, DocsWellFormed
<1>2. CASE Sign
    <2>1. builder \in Document /\ WellFormed(builder)
        BY <1>2 DEF Sign, TypeOK, DocsWellFormed
    <2>2. WellFormed(sign_xml(builder))
        BY <2>1, SignedDocument
    <2>3. QED  BY <1>2, <2>2 DEF Sign, DocsWellFormed
<1>3. CASE Discard \/ Keep
    BY <1>3 DEF Discard, Keep, DocsWellFormed
<1>4. ASSUME NEW doc \in disk, Adjust(doc)
      PROVE  DocsWellFormed'
    <2>1. doc \in Document /\ WellFormed(doc)
        BY DEF TypeOK, SignedNFe, DocsWellFormed
    <2>2. WellFormed(sign_xml(adjust_nfe_contingency(doc, SvcType)))
        BY <2>1, AdjustedDocument, SignedDocument
    <2>3. QED  BY <1>4, <2>2 DEF Adjust, DocsWellFormed
<1>5. ASSUME UNCHANGED disk, builder' \in {builder, None},
             \A m \in net' : m \in net \/ \E n \in net : m.req = n.req
      PROVE  DocsWellFormed'
    BY <1>5 DEF DocsWellFormed
<1>6. CASE Crash
    BY <1>5, <1>6, DisownedType DEF Crash
<1>7. ASSUME NEW m \in net, SefazAuthorize(m) \/ SefazConsult(m) \/ SefazCancel(m)
      PROVE  DocsWellFormed'
    BY <1>5, <1>7 DEF SefazAuthorize, SefazConsult, SefazCancel, Answer
<1>8. ASSUME NEW r \in ledger["svc"], SvcTransfer(r)
      PROVE  DocsWellFormed'
    BY <1>5, <1>8 DEF SvcTransfer
<1>9. ASSUME NEW t \in Task, NEW doc \in SignedDocs,
             authorize(t, doc) \/ authorize_contingency(t, doc)
      PROVE  DocsWellFormed'
    <2>1. WellFormed(doc)
        BY DEF SignedDocs, DocsWellFormed
    <2>2. QED  BY <1>9, <2>1 DEF authorize, authorize_contingency, Send, DocsWellFormed
<1>10. ASSUME NEW t \in Task, NEW key,
              consult(t, key) \/ consult_situacao(t, key) \/ cancel(t, key)
       PROVE  DocsWellFormed'
    BY <1>10 DEF consult, consult_situacao, cancel, Send, DocsWellFormed
<1>11. ASSUME NEW t \in Task, NetworkError(t)
       PROVE  DocsWellFormed'
    BY <1>5, <1>11, DisownedType DEF NetworkError
<1>12. ASSUME NEW t \in Task,
              \/ \E doc \in SignedDocs : Attach(doc, t)
              \/ \E proc \in procs : AttachCancellation(proc, t)
       PROVE  DocsWellFormed'
    BY <1>5, <1>12 DEF Attach, AttachCancellation
<1>13. CASE UNCHANGED vars
    BY <1>5, <1>13 DEF vars
<1>14. QED
    BY <1>1, <1>2, <1>3, <1>4, <1>6, <1>7, <1>8, <1>9, <1>10, <1>11, <1>12, <1>13
    DEF Next, Application, Sefaz, Client
-----------------------------------------------------------------------------
\* The four ways the ledgers move.
LEMMA LedgerSteps ==
    ASSUME TypeOK, [Next]_vars
    PROVE  \/ UNCHANGED ledger
           \/ \E m \in net : \E r \in Registration :
                /\ m.req.op = "authorize"
                /\ r.content = Content(m.req.doc) /\ ~r.cancelled
                /\ Serves(m.req.at, m.req.doc.tpEmis)
                /\ Registered(m.req.at, m.req.doc.id.key) = {}
                /\ ledger' = [ledger EXCEPT ![m.req.at] = @ \cup {r}]
           \/ \E r \in ledger["own"] :
                /\ r.cStat = "100"
                /\ ledger' = [ledger EXCEPT !["own"] =
                                (@ \ {r}) \cup {[r EXCEPT !.cancelled = TRUE]}]
           \/ \E r \in ledger["svc"] :
                /\ Registered("own", r.content.id.key) = {}
                /\ ledger' = [ledger EXCEPT !["own"] = @ \cup {r}]
<1>1. CASE Application \/ UNCHANGED vars \/ \E t \in Task : Client(t)
    BY <1>1 DEF Application, Build, Sign, Discard, Keep, Adjust, Crash, vars, Client,
        authorize, authorize_contingency, consult, consult_situacao, cancel, Send,
        NetworkError, Attach, AttachCancellation
<1>2. ASSUME NEW m \in net, SefazAuthorize(m)
      PROVE  \/ UNCHANGED ledger
             \/ \E r \in Registration :
                  /\ m.req.op = "authorize"
                  /\ r.content = Content(m.req.doc) /\ ~r.cancelled
                  /\ Serves(m.req.at, m.req.doc.tpEmis)
                  /\ Registered(m.req.at, m.req.doc.id.key) = {}
                  /\ ledger' = [ledger EXCEPT ![m.req.at] = @ \cup {r}]
    <2>1. m.req.at \in Authorizer /\ m.req.doc \in SignedNFe /\ m.req.op = "authorize"
        BY <1>2, RequestType DEF SefazAuthorize
    <2>2. PICK o \in AuthorizationOutcomes(m.req.at, m.req.doc) :
             ledger' = [ledger EXCEPT ![m.req.at] = @ \cup o.add]
        BY <1>2 DEF SefazAuthorize
    <2>3. Content(m.req.doc) \in InfNFe
        BY <2>1, ContentOfDocument DEF SignedNFe
    <2>4. \/ o.add = {}
          \/ /\ Serves(m.req.at, m.req.doc.tpEmis)
             /\ Registered(m.req.at, m.req.doc.id.key) = {}
             /\ \E s \in {"100", "110"} :
                  o.add = {[content |-> Content(m.req.doc), cStat |-> s,
                            cancelled |-> FALSE]}
        <3>1. CASE /\ Serves(m.req.at, m.req.doc.tpEmis)
                   /\ Registered(m.req.at, m.req.doc.id.key) = {}
                   /\ \E s \in {"100", "110"} :
                        o = [add |-> {[content |-> Content(m.req.doc), cStat |-> s,
                                       cancelled |-> FALSE]},
                             cStat |-> "104",
                             prots |-> <<[chNFe |-> m.req.doc.id.key,
                                          digVal |-> Content(m.req.doc), cStat |-> s]>>]
            BY <3>1
        <3>2. CASE \E v \in InfNFe \cup {None}, s \in {"204", "539", "999"} :
                      o = [add |-> {}, cStat |-> "104",
                           prots |-> <<[chNFe |-> m.req.doc.id.key, digVal |-> v,
                                        cStat |-> s]>>]
            BY <3>2
        <3>3. CASE o = [add |-> {}, cStat |-> "225", prots |-> <<>>]
            BY <3>3
        <3>4. QED  BY <2>1, <3>1, <3>2, <3>3, AuthorizationCases, Zenon
    <2>5. CASE o.add = {}
        BY <2>1, <2>2, <2>5 DEF TypeOK
    <2>6. ASSUME NEW s \in {"100", "110"}
          PROVE  [content |-> Content(m.req.doc), cStat |-> s, cancelled |-> FALSE]
                   \in Registration
        BY <2>3 DEF Registration
    <2>7. QED  BY <2>1, <2>2, <2>4, <2>5, <2>6
<1>3. ASSUME NEW m \in net, SefazCancel(m)
      PROVE  \/ UNCHANGED ledger
             \/ \E r \in ledger["own"] :
                  /\ r.cStat = "100"
                  /\ ledger' = [ledger EXCEPT !["own"] =
                                  (@ \ {r}) \cup {[r EXCEPT !.cancelled = TRUE]}]
    <2>1. m.req.at = "own"
        BY <1>3, RequestType DEF SefazCancel
    <2>2. PICK o \in CancellationOutcomes("own", m.req.key) :
             ledger' = [ledger EXCEPT !["own"] = Cancelled(@, o.cancel)]
        BY <1>3, <2>1 DEF SefazCancel
    <2>3. \/ o.cancel = {}
          \/ \E r \in ledger["own"] : r.cStat = "100" /\ o.cancel = {r}
        BY DEF CancellationOutcomes, Registered
    <2>4. CASE o.cancel = {}
        BY <2>2, <2>4 DEF Cancelled, TypeOK, Authorizer
    <2>5. ASSUME NEW r \in ledger["own"], o.cancel = {r}
          PROVE  Cancelled(ledger["own"], o.cancel)
                   = (ledger["own"] \ {r}) \cup {[r EXCEPT !.cancelled = TRUE]}
        BY <2>5 DEF Cancelled
    <2>6. QED  BY <2>2, <2>3, <2>4, <2>5
<1>4. ASSUME NEW m \in net, SefazConsult(m)
      PROVE  UNCHANGED ledger
    BY <1>4 DEF SefazConsult
<1>5. ASSUME NEW r \in ledger["svc"], SvcTransfer(r)
      PROVE  /\ Registered("own", r.content.id.key) = {}
             /\ ledger' = [ledger EXCEPT !["own"] = @ \cup {r}]
    BY <1>5 DEF SvcTransfer
<1>6. QED  BY <1>1, <1>2, <1>3, <1>4, <1>5 DEF Next, Sefaz
-----------------------------------------------------------------------------
\* Registrations are for good, and one key stands for one content.
LEMMA LedgerNext ==
    ASSUME TypeOK, DocsWellFormed, LedgerWellFormed, KeyUnique, [Next]_vars
    PROVE  LedgerGrows /\ LedgerWellFormed' /\ KeyUnique'
<1> USE DEF Registrations
<1>1. CASE UNCHANGED ledger
    BY <1>1 DEF LedgerGrows, LedgerWellFormed, KeyUnique
<1>2. ASSUME NEW m \in net, NEW r \in Registration,
             m.req.op = "authorize",
             r.content = Content(m.req.doc),
             Serves(m.req.at, m.req.doc.tpEmis),
             Registered(m.req.at, m.req.doc.id.key) = {},
             ledger' = [ledger EXCEPT ![m.req.at] = @ \cup {r}]
      PROVE  LedgerGrows /\ LedgerWellFormed' /\ KeyUnique'
    <2>1. /\ m.req.at \in {"own", "svc"}
          /\ m.req.doc \in Document
          /\ OwnKey(m.req.doc)
        BY <1>2, RequestType DEF Authorizer, SignedNFe, DocsWellFormed, WellFormed
    <2>2. /\ r.content.id = m.req.doc.id
          /\ r.content.tpEmis = m.req.doc.tpEmis
          /\ OwnKey(r.content)
        BY <1>2, <2>1, ContentOfDocument DEF OwnKey
    <2>3. ledger \in [{"own", "svc"} -> SUBSET Registration]
        BY DEF TypeOK, Authorizer
    <2>4. \A s \in Registrations : s.content.id.key # r.content.id.key
        <3>1. SUFFICES ASSUME NEW s \in Registrations, s.content.id.key = r.content.id.key
                       PROVE  FALSE
            OBVIOUS
        <3>2. s.content.tpEmis = r.content.tpEmis
            <4>1. OwnKey(s.content) /\ OwnKey(r.content)
                BY <2>2 DEF LedgerWellFormed
            <4>2. s.content.id.key.tpEmis = s.content.tpEmis
                  /\ r.content.id.key.tpEmis = r.content.tpEmis
                BY <4>1 DEF OwnKey, build_access_key
            <4>3. QED  BY <3>1, <4>2
        <3>3. s \notin ledger[m.req.at]
            BY <1>2, <2>2, <3>1 DEF Registered
        <3>4. CASE m.req.at = "own"
            BY <1>2, <2>2, <3>2, <3>3, <3>4 DEF Serves, LedgerWellFormed
        <3>5. CASE m.req.at = "svc"
            <4>1. s \in ledger["own"] /\ s.content.tpEmis = SvcEmission
                BY <1>2, <2>2, <3>2, <3>3, <3>5 DEF Serves
            <4>2. PICK x \in ledger["svc"] : x.content = s.content
                BY <4>1 DEF LedgerWellFormed
            <4>3. QED  BY <1>2, <2>2, <3>1, <3>5, <4>2 DEF Registered
        <3>6. QED  BY <2>1, <3>4, <3>5
    <2>5. /\ Registrations' = Registrations \cup {r}
          /\ m.req.at = "own" => /\ ledger'["own"] = ledger["own"] \cup {r}
                                 /\ ledger'["svc"] = ledger["svc"]
          /\ m.req.at = "svc" => /\ ledger'["svc"] = ledger["svc"] \cup {r}
                                 /\ ledger'["own"] = ledger["own"]
        BY <1>2, <2>1, <2>3
    <2>6. LedgerGrows
        BY <2>5 DEF LedgerGrows
    <2>7. LedgerWellFormed'
        BY <1>2, <2>1, <2>2, <2>5 DEF LedgerWellFormed, Serves
    <2>8. KeyUnique'
        BY <2>4, <2>5 DEF KeyUnique
    <2>9. QED  BY <2>6, <2>7, <2>8
<1>3. ASSUME NEW r \in ledger["own"],
             ledger' = [ledger EXCEPT !["own"] =
                          (@ \ {r}) \cup {[r EXCEPT !.cancelled = TRUE]}]
      PROVE  LedgerGrows /\ LedgerWellFormed' /\ KeyUnique'
    <2> DEFINE done == [r EXCEPT !.cancelled = TRUE]
    <2>1. done.content = r.content /\ done.cStat = r.cStat /\ done.cancelled
        BY DEF TypeOK, Authorizer, Registration
    <2>2. /\ ledger'["own"] = (ledger["own"] \ {r}) \cup {done}
          /\ ledger'["svc"] = ledger["svc"]
        BY <1>3 DEF TypeOK, Authorizer
    <2> HIDE DEF done
    <2>3. \A s \in Registrations' : \E x \in Registrations :
              s.content = x.content /\ s.cStat = x.cStat
        BY <2>1, <2>2
    <2>4. LedgerGrows
        BY <2>1, <2>2 DEF LedgerGrows
    <2>5. LedgerWellFormed'
        BY <2>1, <2>2 DEF LedgerWellFormed
    <2>6. KeyUnique'
        <3>1. SUFFICES ASSUME NEW s \in Registrations', NEW x \in Registrations',
                              s.content.id.key = x.content.id.key
                       PROVE  s.content = x.content /\ s.cStat = x.cStat
            BY DEF KeyUnique
        <3>2. QED  BY <2>3, <3>1 DEF KeyUnique
    <2>7. QED  BY <2>4, <2>5, <2>6
<1>4. ASSUME NEW r \in ledger["svc"],
             ledger' = [ledger EXCEPT !["own"] = @ \cup {r}]
      PROVE  LedgerGrows /\ LedgerWellFormed' /\ KeyUnique'
    <2>1. /\ ledger'["own"] = ledger["own"] \cup {r}
          /\ ledger'["svc"] = ledger["svc"]
        BY <1>4 DEF TypeOK, Authorizer
    <2>2. Registrations' = Registrations
        BY <2>1
    <2>3. LedgerWellFormed'
        BY <2>1, <2>2 DEF LedgerWellFormed
    <2>4. QED  BY <2>2, <2>3 DEF LedgerGrows, KeyUnique
<1>5. QED  BY <1>1, <1>2, <1>3, <1>4, LedgerSteps
-----------------------------------------------------------------------------
\* What is said of a registration stays true.
LEMMA GenuineStays ==
    ASSUME LedgerGrows
    PROVE  /\ \A p : ProtGenuine(p, Registrations) => ProtGenuine(p, Registrations')
           /\ \A e : RetGenuine(e, Registrations) => RetGenuine(e, Registrations')
BY DEF LedgerGrows, ProtGenuine, RetGenuine

\* A response whose elements speak of what is registered may be delivered.
LEMMA AnswerGenuine ==
    ASSUME TypeOK, AnswersGenuine, LedgerGrows, NEW m \in net, NEW response,
           Answer(m, response),
           \A i \in DOMAIN response.prots : ProtGenuine(response.prots[i], Registrations'),
           \A i \in DOMAIN response.rets : RetGenuine(response.rets[i], Registrations')
    PROVE  AnswersGenuine'
<1>1. SUFFICES ASSUME NEW t \in Task
               PROVE  /\ \A i \in DOMAIN answer'[t].prots :
                            ProtGenuine(answer'[t].prots[i], Registrations')
                      /\ \A i \in DOMAIN answer'[t].rets :
                            RetGenuine(answer'[t].rets[i], Registrations')
    BY DEF AnswersGenuine
<1>2. CASE answer'[t] = answer[t]
    BY <1>2, GenuineStays DEF AnswersGenuine
<1>3. CASE answer'[t] = response
    BY <1>3
<1>4. answer'[t] = answer[t] \/ answer'[t] = response
    BY DEF Answer, TypeOK
<1>5. QED  BY <1>2, <1>3, <1>4

\* Whatever task an answer reaches, and however late, it speaks of what is
\* registered.
LEMMA AnswersNext ==
    ASSUME TypeOK, AnswersGenuine, LedgerGrows, [Next]_vars
    PROVE  AnswersGenuine'
<1>1. ASSUME \A t \in Task : answer'[t] \in {answer[t], NoResponse}
      PROVE  AnswersGenuine'
    <2>1. SUFFICES ASSUME NEW t \in Task
                   PROVE  /\ \A i \in DOMAIN answer'[t].prots :
                                ProtGenuine(answer'[t].prots[i], Registrations')
                          /\ \A i \in DOMAIN answer'[t].rets :
                                RetGenuine(answer'[t].rets[i], Registrations')
        BY DEF AnswersGenuine
    <2>2. CASE answer'[t] = answer[t]
        BY <2>2, GenuineStays DEF AnswersGenuine
    <2>3. CASE answer'[t] = NoResponse
        BY <2>3 DEF NoResponse
    <2>4. QED  BY <1>1, <2>2, <2>3
<1>2. CASE UNCHANGED answer
    BY <1>1, <1>2
<1>3. CASE Crash
    BY <1>1, <1>3 DEF Crash
<1>4. ASSUME NEW t \in Task, NEW request, Send(t, request)
      PROVE  AnswersGenuine'
    BY <1>1, <1>4 DEF Send, TypeOK
<1>5. ASSUME NEW m \in net, SefazAuthorize(m)
      PROVE  AnswersGenuine'
    <2>1. m.req.at \in {"own", "svc"} /\ m.req.doc \in SignedNFe
        BY <1>5, RequestType DEF SefazAuthorize, Authorizer
    <2>2. PICK o \in AuthorizationOutcomes(m.req.at, m.req.doc) :
             /\ ledger' = [ledger EXCEPT ![m.req.at] = @ \cup o.add]
             /\ Answer(m, parse_autorizacao_response(
                              RawResponse(o.cStat, None, o.prots, <<>>)))
        BY <1>5 DEF SefazAuthorize
    <2>3. PICK response :
             response = parse_autorizacao_response(RawResponse(o.cStat, None, o.prots, <<>>))
        OBVIOUS
    <2>4. response.rets = <<>> /\ response.prots = o.prots
        BY <2>1, <2>3, AuthorizationAnswer DEF Authorizer
    <2>5. \A r \in o.add : r \in Registrations'
        BY <2>1, <2>2 DEF Registrations, TypeOK, Authorizer
    <2>6. \A i \in DOMAIN response.prots : ProtGenuine(response.prots[i], Registrations')
        <3>1. CASE o = [add |-> {}, cStat |-> "225", prots |-> <<>>]
            BY <2>4, <3>1
        <3>2. ASSUME NEW v \in InfNFe \cup {None}, NEW s \in {"204", "539", "999"},
                     o = [add |-> {}, cStat |-> "104",
                          prots |-> <<[chNFe |-> m.req.doc.id.key, digVal |-> v,
                                       cStat |-> s]>>]
              PROVE  \A i \in DOMAIN response.prots :
                         ProtGenuine(response.prots[i], Registrations')
            <4>1. \A i \in DOMAIN response.prots : response.prots[i].cStat = s
                BY <2>4, <3>2
            <4>2. QED  BY <4>1 DEF ProtGenuine, VALID_PROTOCOL_STATUSES
        <3>3. ASSUME NEW s \in {"100", "110"},
                     o = [add |-> {[content |-> Content(m.req.doc), cStat |-> s,
                                    cancelled |-> FALSE]},
                          cStat |-> "104",
                          prots |-> <<[chNFe |-> m.req.doc.id.key,
                                       digVal |-> Content(m.req.doc), cStat |-> s]>>]
              PROVE  \A i \in DOMAIN response.prots :
                         ProtGenuine(response.prots[i], Registrations')
            <4>1. PICK r : r = [content |-> Content(m.req.doc), cStat |-> s,
                                cancelled |-> FALSE]
                OBVIOUS
            <4>2. r \in Registrations'
                BY <2>5, <3>3, <4>1
            <4>3. \A i \in DOMAIN response.prots :
                     response.prots[i] = [chNFe |-> m.req.doc.id.key,
                                          digVal |-> Content(m.req.doc), cStat |-> s]
                BY <2>4, <3>3
            <4>4. Content(m.req.doc).id = m.req.doc.id
                BY <2>1, ContentOfDocument DEF SignedNFe
            <4>5. QED  BY <4>1, <4>2, <4>3, <4>4 DEF ProtGenuine
        <3>4. QED
            BY <2>1, <3>1, <3>2, <3>3, AuthorizationCases DEF Authorizer
    <2>7. \A i \in DOMAIN response.rets : RetGenuine(response.rets[i], Registrations')
        BY <2>4
    <2>8. QED  BY <2>2, <2>3, <2>6, <2>7, AnswerGenuine
<1>6. ASSUME NEW m \in net, SefazConsult(m)
      PROVE  AnswersGenuine'
    <2>1. m.req.at \in {"own", "svc"} /\ m.req.key \in AccessKey
        BY <1>6, RequestType DEF SefazConsult, Authorizer
    <2>2. PICK raw \in Situations(m.req.at, m.req.key) :
             Answer(m, IF m.req.op = "consult" THEN parse_autorizacao_response(raw)
                       ELSE parse_consulta_situacao_response(raw))
        BY <1>6 DEF SefazConsult
    <2>3. PICK response :
             response = IF m.req.op = "consult" THEN parse_autorizacao_response(raw)
                        ELSE parse_consulta_situacao_response(raw)
        OBVIOUS
    <2>4. \/ response.prots = <<>> /\ response.rets = <<>>
          \/ \E r \in Registered(m.req.at, m.req.key) :
                /\ response.prots = <<ProtocolOf(m.req.key, r)>>
                /\ \/ response.rets = <<>>
                   \/ /\ r.cancelled
                      /\ response.rets = <<CancellationOf(m.req.key, "135")>>
        <3>1. \/ response = parse_autorizacao_response(raw)
              \/ response = parse_consulta_situacao_response(raw)
            BY <2>3
        <3>2. m.req.at \in Authorizer
            BY <2>1 DEF Authorizer
        <3>3. QED  BY <2>1, <2>2, <3>1, <3>2, ConsultationAnswer
    <2>5. \A r \in Registered(m.req.at, m.req.key) :
             r \in Registrations' /\ r.content.id.key = m.req.key
        BY <1>6, <2>1 DEF Registered, Registrations, SefazConsult
    <2>6. /\ \A i \in DOMAIN response.prots : ProtGenuine(response.prots[i], Registrations')
          /\ \A i \in DOMAIN response.rets : RetGenuine(response.rets[i], Registrations')
        <3>1. CASE response.prots = <<>> /\ response.rets = <<>>
            BY <3>1
        <3>2. ASSUME NEW r \in Registered(m.req.at, m.req.key),
                     response.prots = <<ProtocolOf(m.req.key, r)>>,
                     \/ response.rets = <<>>
                     \/ /\ r.cancelled
                        /\ response.rets = <<CancellationOf(m.req.key, "135")>>
              PROVE  /\ \A i \in DOMAIN response.prots :
                            ProtGenuine(response.prots[i], Registrations')
                     /\ \A i \in DOMAIN response.rets :
                            RetGenuine(response.rets[i], Registrations')
            <4>1. \A i \in DOMAIN response.prots :
                     response.prots[i] = [chNFe |-> m.req.key, digVal |-> r.content,
                                          cStat |-> r.cStat]
                BY <3>2 DEF ProtocolOf
            <4>2. \A i \in DOMAIN response.rets :
                     r.cancelled /\ response.rets[i].chNFe = m.req.key
                BY <3>2 DEF CancellationOf
            <4>3. QED  BY <2>5, <4>1, <4>2 DEF ProtGenuine, RetGenuine
        <3>3. QED  BY <2>4, <3>1, <3>2
    <2>7. QED  BY <2>2, <2>3, <2>6, AnswerGenuine
<1>7. ASSUME NEW m \in net, SefazCancel(m)
      PROVE  AnswersGenuine'
    <2>1. m.req.at \in {"own", "svc"} /\ m.req.key \in AccessKey
        BY <1>7, RequestType DEF SefazCancel, Authorizer
    <2>2. PICK o \in CancellationOutcomes(m.req.at, m.req.key) :
             /\ ledger' = [ledger EXCEPT ![m.req.at] = Cancelled(@, o.cancel)]
             /\ Answer(m, parse_cancellation_response(
                   RawResponse("128", None, <<>>, <<CancellationOf(m.req.key, o.cStat)>>)))
        BY <1>7 DEF SefazCancel
    <2>3. o.cStat \in EventStatus
        BY DEF CancellationOutcomes, EventStatus
    <2>4. PICK response :
             response = parse_cancellation_response(
                   RawResponse("128", None, <<>>, <<CancellationOf(m.req.key, o.cStat)>>))
        OBVIOUS
    <2>5. response.prots = <<>> /\ response.rets = <<CancellationOf(m.req.key, o.cStat)>>
        BY <2>1, <2>3, <2>4, CancellationAnswer
    <2>6. o.cStat \in VALID_CANCEL_STATUSES =>
             \E r \in Registrations' : r.content.id.key = m.req.key /\ r.cancelled
        <3>1. SUFFICES ASSUME o.cStat \in VALID_CANCEL_STATUSES
                       PROVE  \E r \in Registrations' :
                                  r.content.id.key = m.req.key /\ r.cancelled
            OBVIOUS
        <3>2. PICK r \in Registered(m.req.at, m.req.key) : o.cancel = {r}
            BY <3>1 DEF CancellationOutcomes, VALID_CANCEL_STATUSES
        <3>3. r \in Registration /\ r.content.id.key = m.req.key
            BY <2>1 DEF Registered, TypeOK, Authorizer
        <3>4. [r EXCEPT !.cancelled = TRUE] \in Registrations'
            BY <2>1, <2>2, <3>2 DEF Registrations, Cancelled, TypeOK, Authorizer
        <3>5. QED  BY <3>3, <3>4 DEF Registration
    <2>7. \A i \in DOMAIN response.prots : ProtGenuine(response.prots[i], Registrations')
        BY <2>5
    <2>8. \A i \in DOMAIN response.rets : RetGenuine(response.rets[i], Registrations')
        BY <2>5, <2>6 DEF RetGenuine, CancellationOf
    <2>9. QED  BY <2>2, <2>4, <2>7, <2>8, AnswerGenuine
<1>8. CASE Application \/ UNCHANGED vars
    BY <1>2, <1>3, <1>8 DEF Application, Build, Sign, Discard, Keep, Adjust, vars
<1>9. ASSUME NEW t \in Task, Client(t)
      PROVE  AnswersGenuine'
    BY <1>2, <1>4, <1>9 DEF Client, authorize, authorize_contingency, consult,
        consult_situacao, cancel, NetworkError, Attach, AttachCancellation
<1>10. CASE Sefaz
    BY <1>2, <1>5, <1>6, <1>7, <1>10 DEF Sefaz, SvcTransfer
<1>11. QED  BY <1>8, <1>9, <1>10 DEF Next
-----------------------------------------------------------------------------
\* What is filed and marked has been registered.
LEMMA FilesNext ==
    ASSUME IInv, LedgerGrows, KeyUnique', [Next]_vars
    PROVE  ProcGenuine' /\ MarkGenuine'
<1> USE DEF IInv
<1>1. \A proc \in procs : \E r \in Registrations' :
         /\ r.content = Content(proc.nfe)
         /\ r.content.id.key = proc.prot.chNFe
         /\ r.cStat = proc.prot.cStat
    BY DEF ProcGenuine, LedgerGrows
<1>2. \A proc \in procs : proc.rets # <<>> =>
         \E r \in Registrations' : r.content = Content(proc.nfe) /\ r.cancelled
    BY DEF MarkGenuine, LedgerGrows
<1>3. CASE UNCHANGED procs
    BY <1>1, <1>2, <1>3 DEF ProcGenuine, MarkGenuine
<1>4. ASSUME NEW t \in Task, NEW doc \in SignedDocs, Attach(doc, t)
      PROVE  ProcGenuine' /\ MarkGenuine'
    <2>1. doc \in SignedNFe
        BY DEF SignedDocs, TypeOK, SignedNFe
    <2>2. PICK joined : joined = attach_protocol(doc, answer[t].prots)
        OBVIOUS
    <2>3. joined.kind = "nfeProc" /\ procs' = procs \cup {joined}
        BY <1>4, <2>2 DEF Attach
    <2>4. PICK i \in DOMAIN answer[t].prots :
             LET prot == answer[t].prots[i] IN
              /\ prot \in Prot
              /\ joined = [kind |-> "nfeProc", nfe |-> doc, prot |-> prot, rets |-> <<>>]
              /\ prot.digVal = Content(doc)
              /\ prot.chNFe = doc.id.key
              /\ prot.cStat \in VALID_PROTOCOL_STATUSES
        BY <2>1, <2>2, <2>3, JoinedProc
    <2>5. \E r \in Registrations :
              r.content = Content(doc) /\ r.content.id.key = joined.prot.chNFe
              /\ r.cStat = joined.prot.cStat
        BY <2>4 DEF AnswersGenuine, ProtGenuine
    <2>6. \E r \in Registrations' :
              r.content = Content(joined.nfe) /\ r.content.id.key = joined.prot.chNFe
              /\ r.cStat = joined.prot.cStat
        BY <2>4, <2>5 DEF LedgerGrows
    <2>7. joined.rets = <<>>
        BY <2>4
    <2>8. QED  BY <1>1, <1>2, <2>3, <2>6, <2>7 DEF ProcGenuine, MarkGenuine
<1>5. ASSUME NEW t \in Task, NEW proc \in procs, AttachCancellation(proc, t)
      PROVE  ProcGenuine' /\ MarkGenuine'
    <2>1. PICK marked : marked = attach_cancellation(proc, answer[t].rets)
        OBVIOUS
    <2>2. /\ marked.nfe = proc.nfe
          /\ marked.prot = proc.prot
          /\ \/ marked = proc
             \/ \E i \in DOMAIN answer[t].rets :
                   IsCancellationOf(answer[t].rets[i], proc.prot.chNFe)
        BY <2>1, MarkedProc
    <2>3. procs' = (procs \ {proc}) \cup {marked}
        BY <1>5, <2>1 DEF AttachCancellation
    <2>4. ProcGenuine'
        BY <1>1, <2>2, <2>3 DEF ProcGenuine
    <2>5. CASE marked = proc
        <3>1. procs' = procs
            BY <2>3, <2>5
        <3>2. QED  BY <1>3, <3>1
    <2>6. ASSUME NEW i \in DOMAIN answer[t].rets,
                 IsCancellationOf(answer[t].rets[i], proc.prot.chNFe)
          PROVE  MarkGenuine'
        <3>1. PICK c \in Registrations :
                 c.content.id.key = proc.prot.chNFe /\ c.cancelled
            BY <2>6 DEF IsCancellationOf, AnswersGenuine, RetGenuine
        <3>2. PICK r \in Registrations :
                 r.content = Content(proc.nfe) /\ r.content.id.key = proc.prot.chNFe
            BY DEF ProcGenuine
        <3>3. c.content = Content(proc.nfe)
            BY <3>1, <3>2 DEF KeyUnique
        <3>4. \E s \in Registrations' : s.content = Content(marked.nfe) /\ s.cancelled
            BY <2>2, <3>1, <3>3 DEF LedgerGrows
        <3>5. QED  BY <1>2, <2>3, <3>4 DEF MarkGenuine
    <2>7. QED  BY <2>2, <2>4, <2>5, <2>6
<1>6. QED
    BY <1>3, <1>4, <1>5 DEF Next, Application, Sefaz, Client, Build, Sign, Discard, Keep,
        Adjust, Crash, SefazAuthorize, SefazConsult, SefazCancel, Answer, SvcTransfer,
        authorize, authorize_contingency, consult, consult_situacao, cancel, Send,
        NetworkError, vars
-----------------------------------------------------------------------------
LEMMA InitIInv == Init => IInv
<1>1. SUFFICES ASSUME Init PROVE IInv
    OBVIOUS
<1> USE DEF Init
<1>2. NoResponse \in Response
    <2>1. <<>> \in Seq(Prot) /\ <<>> \in Seq(Ret)
        OBVIOUS
    <2>2. QED  BY <2>1, ResponseType DEF NoResponse, Status
<1>3. TypeOK
    BY <1>1, <1>2 DEF TypeOK
<1>4. Registrations = {}
    BY <1>1 DEF Registrations, Authorizer
<1>5. DocsWellFormed /\ LedgerWellFormed /\ KeyUnique /\ ProcGenuine /\ MarkGenuine
    BY <1>1, <1>4 DEF DocsWellFormed, LedgerWellFormed, KeyUnique, ProcGenuine,
        MarkGenuine, Authorizer
<1>6. AnswersGenuine
    BY <1>1 DEF AnswersGenuine, NoResponse
<1>7. QED  BY <1>3, <1>5, <1>6 DEF IInv

LEMMA NextIInv == IInv /\ [Next]_vars => IInv' /\ LedgerGrows
<1>1. SUFFICES ASSUME IInv, [Next]_vars
               PROVE  IInv' /\ LedgerGrows
    OBVIOUS
<1>2. TypeOK' /\ DocsWellFormed'
    BY <1>1, TypeNext, DocsNext DEF IInv
<1>3. LedgerGrows /\ LedgerWellFormed' /\ KeyUnique'
    BY <1>1, LedgerNext DEF IInv
<1>4. AnswersGenuine'
    BY <1>1, <1>3, AnswersNext DEF IInv
<1>5. ProcGenuine' /\ MarkGenuine'
    BY <1>1, <1>3, FilesNext
<1>6. QED  BY <1>2, <1>3, <1>4, <1>5 DEF IInv

\* The inductive invariant of the issuance protocol.
THEOREM Inductive == Spec => []IInv
<1>1. QED  BY InitIInv, NextIInv, PTL DEF Spec

\* Every variable keeps the type the client, the application and SEFAZ give it.
THEOREM TypeCorrect == Spec => []TypeOK
<1>1. IInv => TypeOK
    BY DEF IInv
<1>2. QED  BY <1>1, Inductive, PTL

\* Whatever the network and the callers do, an nfeProc made by attach_protocol
\* pairs the document SEFAZ registered with the protocol of its registration.
THEOREM ProcsAreGenuine == Spec => []ProcGenuine
<1>1. IInv => ProcGenuine
    BY DEF IInv
<1>2. QED  BY <1>1, Inductive, PTL

\* A document attach_cancellation marks has been cancelled at SEFAZ, although
\* the event it is marked with names a key and not the document.
THEOREM MarksAreGenuine == Spec => []MarkGenuine
<1>1. IInv => MarkGenuine
    BY DEF IInv
<1>2. QED  BY <1>1, Inductive, PTL
-----------------------------------------------------------------------------
(***************************************************************************)
(* Issuance implements Archive.                                            *)
(***************************************************************************)
Entries == {[doc |-> r.content, cStat |-> r.cStat] : r \in Registrations}
CancelledDocs == {r.content : r \in {x \in Registrations : x.cancelled}}
Filed == {[doc |-> Content(p.nfe), cStat |-> p.prot.cStat] : p \in procs}
MarkedDocs == {Content(p.nfe) : p \in {x \in procs : x.rets # <<>>}}

LEMMA ArchiveInit == Init => DocumentArchive!Init
<1>1. SUFFICES ASSUME Init PROVE DocumentArchive!Init
    OBVIOUS
<1>2. Registrations = {} /\ procs = {}
    BY <1>1 DEF Init, Registrations, Authorizer
<1>3. QED  BY <1>2 DEF DocumentArchive!Init

\* A step of SEFAZ registers a document, cancels one, or changes nothing the
\* issuer could tell.
LEMMA SefazArchiveStep ==
    ASSUME IInv, IInv', [Next]_vars, UNCHANGED procs
    PROVE  [DocumentArchive!Next]_(DocumentArchive!archive)
<1>1. Filed' = Filed /\ MarkedDocs' = MarkedDocs
    BY DEF Filed, MarkedDocs
<1>2. ASSUME Entries' = Entries, CancelledDocs' = CancelledDocs
      PROVE  UNCHANGED DocumentArchive!archive
    BY <1>1, <1>2 DEF Entries, CancelledDocs, Filed, MarkedDocs, DocumentArchive!archive
<1>3. CASE Registrations' = Registrations
    BY <1>2, <1>3 DEF Entries, CancelledDocs
<1>4. ASSUME NEW m \in net, NEW r \in Registration, m.req.op = "authorize", ~r.cancelled,
             ledger' = [ledger EXCEPT ![m.req.at] = @ \cup {r}]
      PROVE  DocumentArchive!Register
    <2>1. Registrations' = Registrations \cup {r}
        BY <1>4, RequestType DEF Registrations, IInv, TypeOK, Authorizer
    <2>2. CancelledDocs' = CancelledDocs
        BY <1>4, <2>1 DEF CancelledDocs
    <2>3. Entries \subseteq Entries'
        BY <2>1 DEF Entries
    <2>4. Entries' \in SUBSET [doc : InfNFe, cStat : {"100", "110"}]
        BY DEF Entries, Registrations, Registration, IInv, TypeOK, Authorizer
    <2>5. \A e, f \in Entries' : e.doc = f.doc => e = f
        BY DEF Entries, IInv, KeyUnique
    <2>6. QED
        BY <1>1, <2>2, <2>3, <2>4, <2>5
        DEF DocumentArchive!Register, DocumentArchive!Entry, Entries, CancelledDocs,
            Filed, MarkedDocs
<1>5. ASSUME NEW r \in ledger["own"], r.cStat = "100",
             ledger' = [ledger EXCEPT !["own"] =
                          (@ \ {r}) \cup {[r EXCEPT !.cancelled = TRUE]}]
      PROVE  r.content \in DocumentArchive!DocsOf(Entries)
             /\ DocumentArchive!Cancel(r.content)
    <2> DEFINE done == [r EXCEPT !.cancelled = TRUE]
    <2>1. done.content = r.content /\ done.cStat = r.cStat /\ done.cancelled
        BY DEF IInv, TypeOK, Authorizer, Registration
    <2>2. /\ r \in Registrations
          /\ done \in Registrations'
          /\ \A x \in Registrations' : x = done \/ x \in Registrations
          /\ \A x \in Registrations : x = r \/ x \in Registrations'
        BY <1>5 DEF IInv, TypeOK, Authorizer, Registrations
    <2> HIDE DEF done
    <2>3. Entries' = Entries
        BY <2>1, <2>2 DEF Entries
    <2>4. CancelledDocs' = CancelledDocs \cup {r.content}
        BY <2>1, <2>2 DEF CancelledDocs
    <2>5. [doc |-> r.content, cStat |-> "100"] \in Entries
        BY <1>5, <2>2 DEF Entries
    <2>6. r.content \in DocumentArchive!DocsOf(Entries)
        BY <2>5 DEF DocumentArchive!DocsOf
    <2>7. QED
        BY <1>1, <2>3, <2>4, <2>5, <2>6
        DEF DocumentArchive!Cancel, Entries, CancelledDocs, Filed, MarkedDocs
<1>6. ASSUME NEW r \in ledger["svc"],
             ledger' = [ledger EXCEPT !["own"] = @ \cup {r}]
      PROVE  Registrations' = Registrations
    BY <1>6 DEF IInv, TypeOK, Authorizer, Registrations
<1>7. CASE UNCHANGED ledger
    BY <1>3, <1>7 DEF Registrations
<1>8. QED
    BY <1>2, <1>3, <1>4, <1>5, <1>6, <1>7, LedgerSteps
    DEF IInv, DocumentArchive!Next, Entries

\* A step of the application files a document under the registration it
\* has, marks one that is cancelled, or changes nothing in the archive.
LEMMA FilingArchiveStep ==
    ASSUME IInv, IInv', UNCHANGED ledger, NEW t \in Task,
           \/ \E doc \in SignedDocs : Attach(doc, t)
           \/ \E proc \in procs : AttachCancellation(proc, t)
    PROVE  [DocumentArchive!Next]_(DocumentArchive!archive)
<1>1. Entries' = Entries /\ CancelledDocs' = CancelledDocs
    BY DEF Entries, CancelledDocs, Registrations
<1>2. \A p \in procs' : [doc |-> Content(p.nfe), cStat |-> p.prot.cStat] \in Entries
    BY <1>1 DEF IInv, ProcGenuine, Entries
<1>3. \A d \in MarkedDocs' : d \in CancelledDocs
    BY <1>1 DEF IInv, MarkGenuine, MarkedDocs, CancelledDocs
<1>4. ASSUME NEW doc \in SignedDocs, Attach(doc, t)
      PROVE  \E e \in Entries : DocumentArchive!File(e)
    <2>1. PICK joined : joined = attach_protocol(doc, answer[t].prots)
        OBVIOUS
    <2>2. procs' = procs \cup {joined} /\ joined.kind = "nfeProc"
        BY <1>4, <2>1 DEF Attach
    <2>3. joined.rets = <<>>
        <3>1. doc \in SignedNFe
            BY DEF SignedDocs, IInv, TypeOK, SignedNFe
        <3>2. TypeOK
            BY DEF IInv
        <3>3. PICK i \in DOMAIN answer[t].prots :
                 joined = [kind |-> "nfeProc", nfe |-> doc, prot |-> answer[t].prots[i],
                           rets |-> <<>>]
            BY <2>1, <2>2, <3>1, <3>2, JoinedProc
        <3>4. QED  BY <3>3
    <2>4. PICK e : e = [doc |-> Content(joined.nfe), cStat |-> joined.prot.cStat]
        OBVIOUS
    <2>5. e \in Entries
        BY <1>2, <2>2, <2>4
    <2>6. Filed' = Filed \cup {e}
        BY <2>2, <2>4 DEF Filed
    <2>7. MarkedDocs' = MarkedDocs
        BY <2>2, <2>3 DEF MarkedDocs
    <2>8. QED
        BY <1>1, <2>5, <2>6, <2>7
        DEF DocumentArchive!File, Entries, CancelledDocs, Filed, MarkedDocs
<1>5. ASSUME NEW proc \in procs, AttachCancellation(proc, t)
      PROVE  \/ UNCHANGED DocumentArchive!archive
             \/ \E d \in CancelledDocs : DocumentArchive!Mark(d)
    <2>1. PICK marked : marked = attach_cancellation(proc, answer[t].rets)
        OBVIOUS
    <2>2. procs' = (procs \ {proc}) \cup {marked}
        BY <1>5, <2>1 DEF AttachCancellation
    <2>3. /\ marked.nfe = proc.nfe
          /\ marked.prot = proc.prot
          /\ proc.rets # <<>> => marked.rets # <<>>
        BY <2>1, MarkedProc DEF IInv
    <2>4. Filed' = Filed
        BY <2>2, <2>3 DEF Filed
    <2>5. CASE marked.rets = <<>>
        <3>1. MarkedDocs' = MarkedDocs
            BY <2>2, <2>3, <2>5 DEF MarkedDocs
        <3>2. QED
            BY <1>1, <2>4, <3>1
            DEF Entries, CancelledDocs, Filed, MarkedDocs, DocumentArchive!archive
    <2>6. CASE marked.rets # <<>>
        <3>1. PICK d : d = Content(proc.nfe)
            OBVIOUS
        <3>2. MarkedDocs' = MarkedDocs \cup {d}
            BY <2>2, <2>3, <2>6, <3>1 DEF MarkedDocs
        <3>3. d \in CancelledDocs
            BY <1>3, <3>2
        <3>4. d \in DocumentArchive!DocsOf(Filed)
            <4>1. [doc |-> d, cStat |-> proc.prot.cStat] \in Filed
                BY <3>1 DEF Filed
            <4>2. QED  BY <4>1 DEF DocumentArchive!DocsOf
        <3>5. QED
            BY <1>1, <2>4, <3>2, <3>3, <3>4
            DEF DocumentArchive!Mark, Entries, CancelledDocs, Filed, MarkedDocs
    <2>7. QED  BY <2>5, <2>6
<1>6. QED
    BY <1>4, <1>5 DEF DocumentArchive!Next, Entries, CancelledDocs

LEMMA ArchiveStep ==
    IInv /\ IInv' /\ [Next]_vars => [DocumentArchive!Next]_(DocumentArchive!archive)
<1>1. SUFFICES ASSUME IInv, IInv', [Next]_vars
               PROVE  [DocumentArchive!Next]_(DocumentArchive!archive)
    OBVIOUS
<1>2. \/ UNCHANGED procs
      \/ /\ UNCHANGED ledger
         /\ \E t \in Task : \/ \E doc \in SignedDocs : Attach(doc, t)
                           \/ \E proc \in procs : AttachCancellation(proc, t)
    BY <1>1 DEF Next, Application, Sefaz, Client, Build, Sign, Discard, Keep,
        Adjust, Crash, SefazAuthorize, SefazConsult, SefazCancel, Answer, SvcTransfer,
        authorize, authorize_contingency, consult, consult_situacao, cancel, Send,
        NetworkError, Attach, AttachCancellation, vars
<1>3. QED  BY <1>1, <1>2, SefazArchiveStep, FilingArchiveStep

\* The issuer's archive moves as Archive says, whatever is lost, delayed,
\* repeated or joined with what: what is filed is what SEFAZ registered, what
\* is marked SEFAZ has cancelled, and nothing filed is ever lost.
THEOREM ImplementsArchive == Spec => ArchiveSpec
<1>1. Init => DocumentArchive!Init
    BY ArchiveInit
<1>2. IInv /\ IInv' /\ [Next]_vars => [DocumentArchive!Next]_(DocumentArchive!archive)
    BY ArchiveStep
<1>3. QED
    BY <1>1, <1>2, Inductive, PTL DEF Spec, ArchiveSpec, DocumentArchive!Spec
=============================================================================
