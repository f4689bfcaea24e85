------------------------------- MODULE Issuance -------------------------------
(***************************************************************************)
(* The life of an invoice: an issuing application calls the library        *)
(* (builder, signature, SefazClient, complement) from several concurrent   *)
(* tasks, over a network that delays and loses, against SEFAZ's            *)
(* authorizers: the issuer's own one and the virtual contingency one       *)
(* (SVC).  The library keeps nothing between calls; what survives a crash  *)
(* of the application is what it wrote to disk.                            *)
(***************************************************************************)
EXTENDS Complement, ResponseParsers, FiniteSets

CONSTANTS
    Task,        \* concurrent callers of one SefazClient
    SvcType,     \* the contingency type of the issuer's state
    Emission,    \* the emission types it builds invoices with
    MaxDocs,     \* bound: signed documents the application keeps
    MaxNet,      \* bound: requests on the network at a time
    MaxMarks     \* bound: cancellations appended to one nfeProc

ASSUME SvcTypeAssumption == SvcType \in SvcContingency
ASSUME EmissionAssumption == Emission \subseteq {Normal, tp_emis[SvcType]}
ASSUME NoneIsNoTask == None \notin Task
ASSUME BoundsAssumption == MaxDocs \in Nat /\ MaxNet \in Nat /\ MaxMarks \in Nat

VARIABLES
    builder,   \* the document in the InvoiceBuilder, in memory, or None
    disk,      \* signed documents the application has kept
    procs,     \* nfeProc documents the application has kept
    call,      \* what each task awaits, or None
    answer,    \* the response each task was last given, in memory
    net,       \* requests not yet handled by an authorizer
    ledger     \* what each authorizer has registered

vars == <<builder, disk, procs, call, answer, net, ledger>>

Authorizer == {"own", "svc"}
SvcEmission == tp_emis[SvcType]

ProtStatus == {"100", "110", "204", "539", "999"}
EventStatus == {"135", "573", "999"}

InfNFe == {doc \in Document : ~doc.signed}
SignedNFe == {doc \in Document : doc.signed}
Prot == [chNFe: AccessKey, digVal: InfNFe \cup {None}, cStat: ProtStatus]
Ret == [chNFe: AccessKey, tpEvento: {EVT_CANCELA}, cStat: EventStatus]
Proc == [kind: {"nfeProc"}, nfe: SignedNFe, prot: Prot, rets: Seq(Ret)]
Request ==
    [op: {"authorize"}, doc: SignedNFe, at: Authorizer]
      \cup [op: {"consult", "situation", "cancel"}, key: AccessKey, at: {"own"}]
Message == [from: Task \cup {None}, req: Request]
Registration == [content: InfNFe, cStat: {"100", "110"}, cancelled: BOOLEAN]

\* What a call returned.
Status == ProtStatus \cup EventStatus \cup {None, "101", "217", "225"}
Response == [status_code: Status, nRec: {None}, prots: Seq(Prot), rets: Seq(Ret)]
NoResponse == [status_code |-> None, nRec |-> None, prots |-> <<>>, rets |-> <<>>]

Init ==
    /\ builder = None
    /\ disk = {}
    /\ procs = {}
    /\ call = [t \in Task |-> None]
    /\ answer = [t \in Task |-> NoResponse]
    /\ net = {}
    /\ ledger = [a \in Authorizer |-> {}]
-----------------------------------------------------------------------------
(***************************************************************************)
(* Building and signing.                                                   *)
(***************************************************************************)

\* InvoiceBuilder::new .. build.  The draft is consumed, so building the
\* same invoice again gives it another numeric code, hence another key.
Build(number, code, body, tpEmis) ==
    /\ builder = None
    /\ builder' = generate_xml(number, tpEmis, code, body, tpEmis # Normal)
    /\ UNCHANGED <<disk, procs, call, answer, net, ledger>>

\* sign_with(sign_xml): Built becomes Signed.
Sign ==
    /\ builder # None
    /\ ~builder.signed
    /\ builder' = sign_xml(builder)
    /\ UNCHANGED <<disk, procs, call, answer, net, ledger>>

\* A failing signer, or a builder that goes out of scope: it was moved.
Discard ==
    /\ builder # None
    /\ builder' = None
    /\ UNCHANGED <<disk, procs, call, answer, net, ledger>>

KeepUnsigned ==
    /\ builder # None
    /\ Cardinality(disk \cup {builder}) <= MaxDocs
    /\ disk' = disk \cup {builder}
    /\ builder' = None
    /\ UNCHANGED <<procs, call, answer, net, ledger>>

\* The application keeps signed_xml().
Keep ==
    /\ builder # None
    /\ builder.signed
    /\ Cardinality(disk \cup {builder}) <= MaxDocs
    /\ disk' = disk \cup {builder}
    /\ builder' = None
    /\ UNCHANGED <<procs, call, answer, net, ledger>>

\* SVC contingency is active: a kept document is rewritten for it and
\* signed again.
Adjust(doc) ==
    /\ builder = None
    /\ doc \in disk
    /\ builder' = sign_xml(adjust_nfe_contingency(doc, SvcType))
    /\ UNCHANGED <<disk, procs, call, answer, net, ledger>>
-----------------------------------------------------------------------------
(***************************************************************************)
(* SefazClient.  A call puts one request on the network and awaits the     *)
(* answer; there is no retry.                                              *)
(***************************************************************************)
SignedDocs == disk \cup {b \in {builder} : b # None /\ b.signed}

Send(t, request) ==
    /\ call[t] = None
    /\ Cardinality(net) < MaxNet
    /\ call' = [call EXCEPT ![t] = request]
    /\ answer' = [answer EXCEPT ![t] = NoResponse]
    /\ net' = net \cup {[from |-> t, req |-> request]}
    /\ UNCHANGED <<builder, disk, procs, ledger>>

\* authorize: the issuer's own authorizer, whatever the emission type.
authorize(t, doc) ==
    Send(t, [op |-> "authorize", doc |-> doc, at |-> "own"])

\* authorize_contingency: the SVC of the issuer's state, likewise.
authorize_contingency(t, doc) ==
    Send(t, [op |-> "authorize", doc |-> doc, at |-> "svc"])

\* consult and cancel always go to the issuer's own authorizer.
consult(t, key) == Send(t, [op |-> "consult", key |-> key, at |-> "own"])

\* The same request by the raw `send', whose answer is parsed with
\* parse_consulta_situacao_response.
consult_situacao(t, key) ==
    Send(t, [op |-> "situation", key |-> key, at |-> "own"])

\* The caller passes the protocol number it was given for the key.
cancel(t, key) ==
    /\ \E proc \in procs : proc.prot.chNFe = key
    /\ Send(t, [op |-> "cancel", key |-> key, at |-> "own"])

\* Nobody awaits the answer of a disowned request any more.
Disowned(m, tasks) == IF m.from \in tasks THEN [m EXCEPT !.from = None] ELSE m

NoTimeout(t) == FALSE /\ t \in Task

\* FiscalError::Network: connection failure, time-out, or a status other
\* than 2xx.  The request may be lost, or still be on its way.
NetworkError(t) ==
    /\ call[t] # None
    /\ call' = [call EXCEPT ![t] = None]
    /\ \/ net' = {Disowned(m, {t}) : m \in net}
       \/ net' = {m \in net : m.from # t}
    /\ UNCHANGED <<builder, disk, procs, answer, ledger>>
-----------------------------------------------------------------------------
(***************************************************************************)
(* SEFAZ's authorizers (external): what the code relies on.  A key is      *)
(* registered once, and a number under one key only; an authorized         *)
(* document can be cancelled once.                                         *)
(***************************************************************************)
Registered(a, key) == {r \in ledger[a] : r.content.id.key = key}

Serves(a, tpEmis) == (a = "svc") <=> (tpEmis = SvcEmission)

\* The answers to an authorization, each with what it registers.  An Id that
\* does not fit the schema is refused for the whole lot, without protNFe.
AuthorizationOutcomes(a, doc) ==
    LET content == Content(doc)
        key     == doc.id.key
        same    == Registered(a, key)
        prot(digVal, cStat) == [chNFe |-> key, digVal |-> digVal, cStat |-> cStat]
        refuse(digVals, cStat) ==
            {[add |-> {}, cStat |-> "104", prots |-> <<prot(v, cStat)>>] : v \in digVals}
    IN  IF doc.id.prefixes # 1 THEN {[add |-> {}, cStat |-> "225", prots |-> <<>>]}
        ELSE IF ~Serves(a, doc.tpEmis) THEN refuse({None, content}, "999")
        ELSE IF same # {}
        THEN refuse({None, content} \cup {r.content : r \in same}, "204")
        ELSE IF \E r \in ledger[a] : r.content.nNF = doc.nNF
        THEN refuse({None, content}, "539")
        ELSE refuse({None, content}, "999") \cup
             {[add |-> {[content |-> content, cStat |-> s, cancelled |-> FALSE]},
               cStat |-> "104", prots |-> <<prot(content, s)>>] : s \in {"100", "110"}}

\* The answer reaches the task if it still waits for it; it may be lost.
Answer(m, response) ==
    /\ net' = net \ {m}
    /\ \/ /\ m.from # None
          /\ call' = [call EXCEPT ![m.from] = None]
          /\ answer' = [answer EXCEPT ![m.from] = response]
       \/ UNCHANGED <<call, answer>>
    /\ UNCHANGED <<builder, disk, procs>>

SefazAuthorize(m) ==
    /\ m.req.op = "authorize"
    /\ \E o \in AuthorizationOutcomes(m.req.at, m.req.doc) :
        /\ ledger' = [ledger EXCEPT ![m.req.at] = @ \cup o.add]
        /\ Answer(m, parse_autorizacao_response(
                          RawResponse(o.cStat, None, o.prots, <<>>)))

\* retConsSitNFe: the current status, the protocol of the registration, and
\* the events of the document.
ProtocolOf(key, r) == [chNFe |-> key, digVal |-> r.content, cStat |-> r.cStat]

CancellationOf(key, cStat) ==
    [chNFe |-> key, tpEvento |-> EVT_CANCELA, cStat |-> cStat]

Situations(a, key) ==
    IF Registered(a, key) = {} THEN {RawResponse("217", None, <<>>, <<>>)}
    ELSE {IF r.cancelled
          THEN RawResponse("101", None, <<ProtocolOf(key, r)>>,
                           <<CancellationOf(key, "135")>>)
          ELSE RawResponse(r.cStat, None, <<ProtocolOf(key, r)>>, <<>>) :
            r \in Registered(a, key)}

SefazConsult(m) ==
    /\ m.req.op \in {"consult", "situation"}
    /\ \E raw \in Situations(m.req.at, m.req.key) :
        Answer(m, IF m.req.op = "consult" THEN parse_autorizacao_response(raw)
                  ELSE parse_consulta_situacao_response(raw))
    /\ UNCHANGED ledger

\* A retry of a cancellation that was registered is answered 573.
CancellationOutcomes(a, key) ==
    LET live == {r \in Registered(a, key) : r.cStat = "100" /\ ~r.cancelled}
        done == {r \in Registered(a, key) : r.cancelled}
    IN  {[cancel |-> {r}, cStat |-> "135"] : r \in live}
          \cup {[cancel |-> {}, cStat |-> "573"] : r \in done}
          \cup {[cancel |-> {}, cStat |-> "999"]}

Cancelled(regs, which) ==
    (regs \ which) \cup {[r EXCEPT !.cancelled = TRUE] : r \in which}

SefazCancel(m) ==
    /\ m.req.op = "cancel"
    /\ \E o \in CancellationOutcomes(m.req.at, m.req.key) :
        /\ ledger' = [ledger EXCEPT ![m.req.at] = Cancelled(@, o.cancel)]
        /\ Answer(m, parse_cancellation_response(
                  RawResponse("128", None, <<>>, <<CancellationOf(m.req.key, o.cStat)>>)))

\* What the SVC registered reaches the issuer's own authorizer in the end.
SvcTransfer(r) ==
    /\ r \in ledger["svc"]
    /\ Registered("own", r.content.id.key) = {}
    /\ ledger' = [ledger EXCEPT !["own"] = @ \cup {r}]
    /\ UNCHANGED <<builder, disk, procs, call, answer, net>>
-----------------------------------------------------------------------------
(***************************************************************************)
(* Completing documents.  Nothing ties an answer to the request it was     *)
(* given for: the application may join any document with any answer, and   *)
(* it is attach_protocol and attach_cancellation that must tell.           *)
(***************************************************************************)
Attach(doc, t) ==
    LET joined == attach_protocol(doc, answer[t].prots)
    IN  /\ doc \in SignedDocs
        /\ joined.kind = "nfeProc"
        /\ procs' = procs \cup {joined}
        /\ UNCHANGED <<builder, disk, call, answer, net, ledger>>

AttachCancellation(proc, t) ==
    /\ proc \in procs
    /\ Len(proc.rets) < MaxMarks
    /\ procs' = (procs \ {proc}) \cup {attach_cancellation(proc, answer[t].rets)}
    /\ UNCHANGED <<builder, disk, call, answer, net, ledger>>

\* The application stops and starts again.
Crash ==
    /\ builder' = None
    /\ call' = [t \in Task |-> None]
    /\ answer' = [t \in Task |-> NoResponse]
    /\ net' = {Disowned(m, Task) : m \in net}
    /\ UNCHANGED <<disk, procs, ledger>>
-----------------------------------------------------------------------------
Client(t) ==
    \/ \E doc \in SignedDocs : authorize(t, doc) \/ authorize_contingency(t, doc)
    \/ \E doc \in disk : consult(t, doc.id.key)
    \/ \E proc \in procs : consult_situacao(t, proc.prot.chNFe)
    \/ \E proc \in procs : cancel(t, proc.prot.chNFe)
    \/ NetworkError(t)
    \/ \E doc \in SignedDocs : Attach(doc, t)
    \/ \E proc \in procs : AttachCancellation(proc, t)

Sefaz ==
    \/ \E m \in net : SefazAuthorize(m) \/ SefazConsult(m) \/ SefazCancel(m)
    \/ \E r \in ledger["svc"] : SvcTransfer(r)

Application ==
    \/ \E n \in Number, c \in Code, b \in Body, e \in Emission :
          Build(n, c, b, e)
    \/ Sign \/ Discard \/ Keep
    \/ \E doc \in disk : Adjust(doc)
    \/ Crash

Next == Application \/ Sefaz \/ \E t \in Task : Client(t)

Spec == Init /\ [][Next]_vars
-----------------------------------------------------------------------------
\* The variables hold what their types say.
TypeOK ==
    /\ builder \in Document \cup {None}
    /\ disk \subseteq SignedNFe
    /\ procs \subseteq Proc
    /\ call \in [Task -> Request \cup {None}]
    /\ answer \in [Task -> Response]
    /\ net \subseteq Message
    /\ ledger \in [Authorizer -> SUBSET Registration]

Registrations == ledger["own"] \cup ledger["svc"]

\* Every nfeProc the application holds pairs the document SEFAZ registered
\* with the protocol of that registration: answers may come late, twice, or
\* to a task that gave up, and may be joined with any document, but
\* attach_protocol only accepts the one that belongs to it.
ProcGenuine ==
    \A proc \in procs : \E r \in Registrations :
        /\ r.content = Content(proc.nfe)
        /\ r.content.id.key = proc.prot.chNFe
        /\ r.cStat = proc.prot.cStat

\* A document is marked cancelled on the issuer's side only if SEFAZ has
\* registered the cancellation of that very document.
MarkGenuine ==
    \A proc \in procs : proc.rets # <<>> =>
        \E r \in Registrations : r.content = Content(proc.nfe) /\ r.cancelled

\* The issuer's archive, seen from outside: what each side knows of a
\* document (see Archive).
DocumentArchive == INSTANCE Archive WITH
    Doc <- InfNFe,
    registered <- {[doc |-> r.content, cStat |-> r.cStat] : r \in Registrations},
    cancelled <- {r.content : r \in {x \in Registrations : x.cancelled}},
    filed <- {[doc |-> Content(p.nfe), cStat |-> p.prot.cStat] : p \in procs},
    marked <- {Content(p.nfe) : p \in {x \in procs : x.rets # <<>>}}

\* Whatever is delayed, lost, answered to a task that gave up, or repeated
\* after a crash, the issuer's archive moves as Archive says: nothing filed
\* or marked ahead of SEFAZ, nothing filed ever lost.
ArchiveSpec == DocumentArchive!Spec

\* "Recalculate the access key": the Id of a document the library produced
\* is "NFe" and the access key of its own fields, adjusted or not.
IdCarriesKey ==
    \A doc \in disk :
        IsKey(extract_inf_nfe_id(doc), build_access_key(doc.nNF, doc.tpEmis, doc.cNF))
-----------------------------------------------------------------------------
(***************************************************************************)
(* Recovery.  Every call ends (the client has a request time-out), every   *)
(* request that arrived is handled, SVC registrations are transferred;     *)
(* the application keeps asking about the documents it holds, an answer    *)
(* gets through now and then, and it is joined with its document before    *)
(* a crash or another call of the same task now and then.                  *)
(***************************************************************************)
Asked(t, key) == \E doc \in disk : doc.id.key = key /\ consult(t, key)

Delivered(t, key) ==
    \E m \in net : /\ m.from = t
                   /\ m.req = [op |-> "consult", key |-> key, at |-> "own"]
                   /\ SefazConsult(m)
                   /\ call'[t] = None

Joined(t, key) == \E doc \in disk : doc.id.key = key /\ Attach(doc, t)

\* The same for a cancellation whose answer was lost.
AskedSituation(t, key) ==
    \E proc \in procs : proc.prot.chNFe = key /\ consult_situacao(t, key)

SituationDelivered(t, key) ==
    \E m \in net : /\ m.from = t
                   /\ m.req = [op |-> "situation", key |-> key, at |-> "own"]
                   /\ SefazConsult(m)
                   /\ call'[t] = None

Marked(t, key) ==
    \E proc \in procs : /\ proc.prot.chNFe = key
                        /\ AttachCancellation(proc, t)
                        /\ procs' # procs

IssuedKeys == {key \in AccessKey : key.tpEmis \in Emission}

CallsEnd ==
    /\ WF_vars(\E m \in net : SefazAuthorize(m) \/ SefazConsult(m) \/ SefazCancel(m))
    /\ WF_vars(\E r \in ledger["svc"] : SvcTransfer(r))
    /\ \A t \in Task : WF_vars(NetworkError(t))

FairSpec ==
    /\ Spec
    /\ CallsEnd
    /\ \A t \in Task, key \in IssuedKeys :
          /\ SF_vars(Asked(t, key))
          /\ SF_vars(Delivered(t, key))
          /\ SF_vars(Joined(t, key))
          /\ SF_vars(AskedSituation(t, key))
          /\ SF_vars(SituationDelivered(t, key))
          /\ SF_vars(Marked(t, key))

\* A document that SEFAZ registered, and that the application had kept
\* before its answer was lost, is filed with its protocol in the end.
Recovery ==
    \A key \in IssuedKeys :
        (\E doc \in disk : /\ doc.id.key = key
                          /\ \E r \in Registrations : r.content = Content(doc))
        ~> (\E proc \in procs : proc.prot.chNFe = key)

\* Once SEFAZ has registered the cancellation of a document, an nfeProc of it
\* that the application holds unmarked (filed before the cancellation or
\* after it, from a late answer, next to a copy already marked) does not stay
\* so: there comes a time when every nfeProc of that key is marked, even if
\* the answer to the cancellation was lost and every retry is refused as a
\* duplicate.
CancellationRecovery ==
    \A key \in IssuedKeys :
        (/\ \E proc \in procs : proc.prot.chNFe = key /\ proc.rets = <<>>
         /\ \E r \in Registrations : r.content.id.key = key /\ r.cancelled)
        ~> (/\ \E proc \in procs : proc.prot.chNFe = key
            /\ \A proc \in procs : proc.prot.chNFe = key => proc.rets # <<>>)
=============================================================================
