--------------------------------- MODULE Lot ---------------------------------
(***************************************************************************)
(* Asynchronous authorization: documents are sent by the lot, SEFAZ gives  *)
(* a receipt at once and processes the documents later, in any order; the  *)
(* receipt is polled for the protocols.  The receipt, and any answer, may  *)
(* be lost, and a lot may be sent again.                                   *)
(***************************************************************************)
EXTENDS Complement, ResponseParsers, FiniteSets

CONSTANTS
    Doc,         \* the signed documents the application has kept
    Registers,   \* the statuses SEFAZ registers a document with
    MaxBatch,    \* documents a lot may hold (50)
    MaxLots      \* bound: lots SEFAZ receives

ASSUME DocAssumption ==
    /\ Doc \subseteq {doc \in Document : doc.signed}
    /\ \A d, e \in Doc : d.id.key = e.id.key => d = e
    /\ \A doc \in Doc : doc.id.prefixes = 1
ASSUME NoneIsNoDocument == None \notin Document
ASSUME LotBounds ==
    Registers \subseteq {"100", "110"} /\ MaxBatch \in Nat /\ MaxLots \in Nat

VARIABLES
    lots,        \* SEFAZ: the lots received; a lot's index is its receipt
    registered,  \* SEFAZ: the documents registered, each with its status
    receipts,    \* the receipts the application was given, in memory
    answer,      \* the answer it was last given, in memory
    filed        \* the nfeProc documents it has kept

vars == <<lots, registered, receipts, answer, filed>>

ProtStatus == {"100", "110", "204", "999"}
Prot == [chNFe: AccessKey, digVal: Document \cup {None}, cStat: ProtStatus]
Processing == [docs: Seq(Doc), waiting: SUBSET (1..MaxBatch), prots: Seq(Prot)]
Answer == [call: {"none", "recibo", "consult_receipt", "consult"},
           nRec: 0..MaxLots, prots: Seq(Prot)]
NoAnswer == [call |-> "none", nRec |-> 0, prots |-> <<>>]

Init ==
    /\ lots = <<>>
    /\ registered = {}
    /\ receipts = {}
    /\ answer = NoAnswer
    /\ filed = {}

Done(n) == lots[n].waiting = {}
-----------------------------------------------------------------------------
\* build_autorizacao_batch_request: from one to MaxBatch documents, indSinc 0.
Batches == UNION {[1..n -> Doc] : n \in 1..MaxBatch}

\* SEFAZ receives the lot; its answer 103 with the receipt may be lost.
authorize_batch(docs) ==
    /\ Len(lots) < MaxLots
    /\ lots' = Append(lots, [docs |-> docs, waiting |-> DOMAIN docs, prots |-> <<>>])
    /\ LET response == parse_autorizacao_response(
                           RawResponse("103", Len(lots) + 1, <<>>, <<>>))
       IN  receipts' \in {receipts, receipts \cup {response.nRec}}
    /\ UNCHANGED <<registered, answer, filed>>

\* retConsReciNFe: 105 while the lot is being processed, then 104 with the
\* protocols in the order SEFAZ has processed the documents.
RetConsReciNFe(n) ==
    IF Done(n) THEN RawResponse("104", n, lots[n].prots, <<>>)
    ELSE RawResponse("105", n, <<>>, <<>>)

consult_receipt(n) ==
    /\ n \in receipts
    /\ answer' = [call |-> "consult_receipt", nRec |-> n,
                  prots |-> parse_autorizacao_response(RetConsReciNFe(n)).prots]
    /\ UNCHANGED <<lots, registered, receipts, filed>>

\* The same request by the raw `send' and parse_consulta_recibo_response.
consulta_recibo(n) ==
    /\ n \in receipts
    /\ answer' = [call |-> "recibo", nRec |-> n,
                  prots |-> parse_consulta_recibo_response(RetConsReciNFe(n)).prots]
    /\ UNCHANGED <<lots, registered, receipts, filed>>

prot(doc, digVal, cStat) == [chNFe |-> doc.id.key, digVal |-> digVal, cStat |-> cStat]

\* consult, by the document's key, when there is no receipt to go by.
consult(doc) ==
    /\ \E e \in registered :
         /\ e.doc = Content(doc)
         /\ answer' = [call |-> "consult", nRec |-> 0,
                       prots |-> parse_autorizacao_response(
                           RawResponse(e.cStat, None, <<prot(doc, e.doc, e.cStat)>>, <<>>)).prots]
    /\ UNCHANGED <<lots, registered, receipts, filed>>
-----------------------------------------------------------------------------
\* SEFAZ (external) processes one document of a lot.  A refusal may or may
\* not repeat the digest; one that is registered already is refused as such.
Process(n, i) ==
    LET doc == lots[n].docs[i]
        new == ~\E e \in registered : e.doc = Content(doc)
        finish(p, entries) ==
            /\ lots' = [lots EXCEPT ![n] = [docs |-> @.docs, waiting |-> @.waiting \ {i},
                                            prots |-> Append(@.prots, p)]]
            /\ registered' = registered \cup entries
    IN  /\ i \in lots[n].waiting
        /\ \/ \E v \in {None, Content(doc)} :
                 finish(prot(doc, v, IF new THEN "999" ELSE "204"), {})
           \/ \E s \in Registers :
                 new /\ finish(prot(doc, Content(doc), s),
                               {[doc |-> Content(doc), cStat |-> s]})
        /\ UNCHANGED <<receipts, answer, filed>>

Attach(doc) ==
    /\ attach_protocol(doc, answer.prots).kind = "nfeProc"
    /\ filed' = filed \cup {attach_protocol(doc, answer.prots)}
    /\ UNCHANGED <<lots, registered, receipts, answer>>

Crash ==
    /\ receipts' = {}
    /\ answer' = NoAnswer
    /\ UNCHANGED <<lots, registered, filed>>

Next ==
    \/ \E docs \in Batches : authorize_batch(docs)
    \/ \E n \in receipts : consult_receipt(n) \/ consulta_recibo(n)
    \/ \E doc \in Doc : consult(doc) \/ Attach(doc)
    \/ \E n \in DOMAIN lots : \E i \in lots[n].waiting : Process(n, i)
    \/ Crash

Spec == Init /\ [][Next]_vars
-----------------------------------------------------------------------------
\* Lots, receipts, answers and filed documents hold values of their types:
\* what is filed is one of the application's documents with a protocol.
TypeOK ==
    /\ lots \in Seq(Processing)
    /\ receipts \subseteq DOMAIN lots
    /\ answer \in Answer
    /\ \A p \in filed : p.nfe \in Doc /\ p.prot \in Prot
    /\ \A e \in registered : e.cStat \in Registers

Alone(doc, docs) == Cardinality({i \in DOMAIN docs : docs[i] = doc}) = 1

\* The protocol a lot gave a document that occurs in it once.
OwnProt(doc, n) ==
    CHOOSE p \in {lots[n].prots[i] : i \in DOMAIN lots[n].prots} : p.chNFe = doc.id.key

\* Whatever else a lot holds, registered, refused with or without a digest,
\* or refused because an earlier sending of the lot got through: each
\* document the lot registered is joined with its protocol.
NothingLeftOut ==
    \A n \in DOMAIN lots : Done(n) =>
        \A doc \in Doc :
            Alone(doc, lots[n].docs) /\ OwnProt(doc, n).cStat \in Registers
            => attach_protocol(doc, parse_consulta_recibo_response(RetConsReciNFe(n)).prots)
                 = nfeProc(doc, OwnProt(doc, n))

\* The archive of documents authorized by the lot moves as Archive says.
LotArchive == INSTANCE Archive WITH
    Doc <- {Content(doc) : doc \in Doc},
    cancelled <- {},
    filed <- {[doc |-> Content(p.nfe), cStat |-> p.prot.cStat] : p \in filed},
    marked <- {}

\* Whatever was sent again, polled too early, lost or answered out of order:
\* what is filed is what SEFAZ registered, and nothing filed is ever lost.
LotArchiveSpec == LotArchive!Spec
-----------------------------------------------------------------------------
(***************************************************************************)
(* Recovery: lots are processed, the application goes on asking for its    *)
(* documents by their keys, and joins an answer with its document before   *)
(* another answer or a crash now and then.                                 *)
(***************************************************************************)
FairSpec ==
    /\ Spec
    /\ WF_vars(\E n \in DOMAIN lots : \E i \in lots[n].waiting : Process(n, i))
    /\ \A doc \in Doc : SF_vars(consult(doc)) /\ SF_vars(Attach(doc))

\* A document that a lot registered is filed in the end, even if the receipt
\* was lost, the lot was sent again and refused, or the application crashed
\* between any two steps.
LotRecovery ==
    \A doc \in Doc :
        (\E e \in registered : e.doc = Content(doc)) ~> (\E p \in filed : p.nfe = doc)
=============================================================================
