----------------------------- MODULE Lot_proofs -----------------------------
(***************************************************************************)
(* Proofs about Lot: what is filed from the protocols of a lot, however    *)
(* they are asked for, is what SEFAZ registered.  The invariant follows a  *)
(* protocol from the lot that holds it to the answer and the nfeProc.      *)
(***************************************************************************)
EXTENDS Lot, Complement_proofs, FiniteSetTheorems

\* A protocol that says "processed" tells of a registration.
Genuine(p) ==
    p.cStat \in VALID_PROTOCOL_STATUSES =>
        [doc |-> p.digVal, cStat |-> p.cStat] \in registered

RegistryOK ==
    /\ \A e \in registered : /\ e.cStat \in Registers
                             /\ \E doc \in Doc : e = [doc |-> Content(doc), cStat |-> e.cStat]
    /\ \A e, f \in registered : e.doc = f.doc => e = f

LotsGenuine ==
    \A n \in DOMAIN lots : \A i \in DOMAIN lots[n].prots : Genuine(lots[n].prots[i])

AnswerGenuine == \A i \in DOMAIN answer.prots : Genuine(answer.prots[i])

FiledGenuine ==
    \A p \in filed :
        [doc |-> Content(p.nfe), cStat |-> p.prot.cStat] \in registered

WaitingOK == \A n \in DOMAIN lots : lots[n].waiting \subseteq DOMAIN lots[n].docs

IInv ==
    /\ TypeOK
    /\ Len(lots) <= MaxLots
    /\ WaitingOK
    /\ RegistryOK
    /\ LotsGenuine
    /\ AnswerGenuine
    /\ FiledGenuine

-----------------------------------------------------------------------------
\* The documents of the application, and what they are registered as.
LEMMA DocTypes ==
    ASSUME NEW doc \in Doc
    PROVE  /\ doc \in Document /\ doc.signed
           /\ doc.id.key \in AccessKey
           /\ Content(doc) \in Document
  <1>1. doc \in Document /\ doc.signed
    BY DocAssumption
  <1> QED BY <1>1 DEF Document, IdAttribute, Content

\* A protNFe about a document of the application.
LEMMA ProtType ==
    ASSUME NEW doc \in Doc, NEW v \in {None, Content(doc)}, NEW s \in ProtStatus
    PROVE  prot(doc, v, s) \in Prot
  BY DocTypes DEF prot, Prot

\* What the answer of a receipt holds is what the lot holds, or nothing.
LEMMA ReceiptAnswers ==
    ASSUME NEW n \in DOMAIN lots, lots \in Seq(Processing), LotsGenuine
    PROVE  /\ RetConsReciNFe(n).prots \in Seq(Prot)
           /\ FirstOnly(RetConsReciNFe(n).prots) \in Seq(Prot)
           /\ \A i \in DOMAIN RetConsReciNFe(n).prots : Genuine(RetConsReciNFe(n).prots[i])
           /\ \A i \in DOMAIN FirstOnly(RetConsReciNFe(n).prots) :
                 Genuine(FirstOnly(RetConsReciNFe(n).prots)[i])
  <1> DEFINE prots == RetConsReciNFe(n).prots
  <1>1. lots[n] \in Processing
    OBVIOUS
  <1>2. prots = lots[n].prots \/ prots = <<>>
    BY DEF RetConsReciNFe, RawResponse
  <1>3. prots \in Seq(Prot)
    <2>1. lots[n].prots \in Seq(Prot)
      BY <1>1 DEF Processing
    <2>2. <<>> \in Seq(Prot)
      OBVIOUS
    <2> QED BY <1>2, <2>1, <2>2
  <1>4. \A i \in DOMAIN prots : Genuine(prots[i])
    BY <1>2 DEF LotsGenuine
  <1> HIDE DEF prots
  <1>5. FirstOnly(prots) = <<>> \/ (1 \in DOMAIN prots /\ FirstOnly(prots) = <<prots[1]>>)
    BY <1>3 DEF FirstOnly
  <1>6. FirstOnly(prots) \in Seq(Prot)
    <2>1. \A p \in Prot : <<p>> \in Seq(Prot)
      OBVIOUS
    <2>2. 1 \in DOMAIN prots => prots[1] \in Prot
      BY <1>3
    <2>3. CASE 1 \in DOMAIN prots /\ FirstOnly(prots) = <<prots[1]>>
      BY <2>1, <2>2, <2>3
    <2>4. CASE FirstOnly(prots) = <<>>
      BY <2>4
    <2> QED BY <1>5, <2>3, <2>4
  <1>7. \A i \in DOMAIN FirstOnly(prots) : Genuine(FirstOnly(prots)[i])
    BY <1>4, <1>5
  <1> QED BY <1>3, <1>4, <1>6, <1>7 DEF prots

\* An answer that is taken in keeps the invariant if its protocols are genuine.
LEMMA AnswerIInv ==
    ASSUME IInv, UNCHANGED <<lots, registered, filed>>,
           receipts' \subseteq receipts,
           answer' \in Answer,
           \A i \in DOMAIN answer'.prots : Genuine(answer'.prots[i])
    PROVE  IInv'
  <1>1. AnswerGenuine'
    BY DEF AnswerGenuine, Genuine
  <1>2. TypeOK'
    BY DEF IInv, TypeOK
  <1>3. RegistryOK' /\ LotsGenuine' /\ FiledGenuine' /\ WaitingOK'
    BY DEF IInv, WaitingOK, RegistryOK, LotsGenuine, FiledGenuine, Genuine
  <1> QED BY <1>1, <1>2, <1>3 DEF IInv

\* The lots once document i of lot n has been answered with p.
After(n, i, p) ==
    [lots EXCEPT ![n] = [docs |-> @.docs, waiting |-> @.waiting \ {i},
                         prots |-> Append(@.prots, p)]]

\* SEFAZ processes one document: the registry grows by the registration its
\* protocol tells of, or not at all.
LEMMA ProcessIInv ==
    ASSUME IInv, NEW n \in DOMAIN lots, NEW i \in lots[n].waiting, Process(n, i)
    PROVE  IInv' /\ (registered' = registered \/ LotArchive!Register)
  <1> DEFINE doc == lots[n].docs[i]
             new == ~\E e \in registered : e.doc = Content(doc)
  <1>1. /\ lots \in Seq(Processing) /\ lots[n] \in Processing
        /\ n \in 1..Len(lots) /\ Len(lots) \in Nat
    BY DEF IInv, TypeOK
  <1>2. lots[n].prots \in Seq(Prot) /\ lots[n].docs \in Seq(Doc)
        /\ lots[n].waiting \in SUBSET (1..MaxBatch)
    BY <1>1 DEF Processing
  <1>3. doc \in Doc
    BY <1>2 DEF IInv, WaitingOK
  <1>4. PICK p \in Prot, entries \in SUBSET LotArchive!Entry :
           /\ lots' = After(n, i, p)
           /\ registered' = registered \cup entries
           /\ p.cStat \in VALID_PROTOCOL_STATUSES =>
                 [doc |-> p.digVal, cStat |-> p.cStat] \in entries
           /\ \/ entries = {}
              \/ new /\ \E s \in Registers : entries = {[doc |-> Content(doc), cStat |-> s]}
    <2>1. CASE \E v \in {None, Content(doc)} :
                 LET p == prot(doc, v, IF new THEN "999" ELSE "204")
                 IN  /\ lots' = After(n, i, p)
                     /\ registered' = registered \cup {}
      <3>1. PICK v \in {None, Content(doc)} :
                 LET p == prot(doc, v, IF new THEN "999" ELSE "204")
                 IN  /\ lots' = After(n, i, p)
                     /\ registered' = registered \cup {}
        BY <2>1
      <3> DEFINE s == IF new THEN "999" ELSE "204"
                 p == prot(doc, v, s)
      <3>2. s \in ProtStatus /\ s \notin VALID_PROTOCOL_STATUSES
        BY DEF ProtStatus, VALID_PROTOCOL_STATUSES
      <3> HIDE DEF s
      <3>3. p \in Prot
        BY <1>3, <3>2, ProtType
      <3>4. p.cStat \notin VALID_PROTOCOL_STATUSES
        BY <3>2 DEF prot
      <3>5. /\ lots' = After(n, i, p)
            /\ registered' = registered \cup {}
        BY <3>1 DEF s
      <3> QED BY <3>3, <3>4, <3>5
    <2>2. CASE \E s \in Registers :
                 LET p == prot(doc, Content(doc), s)
                 IN  /\ new
                     /\ lots' = After(n, i, p)
                     /\ registered' = registered \cup {[doc |-> Content(doc), cStat |-> s]}
      <3>1. PICK s \in Registers :
                 LET p == prot(doc, Content(doc), s)
                 IN  /\ new
                     /\ lots' = After(n, i, p)
                     /\ registered' = registered \cup {[doc |-> Content(doc), cStat |-> s]}
        BY <2>2
      <3> DEFINE p == prot(doc, Content(doc), s)
                 entries == {[doc |-> Content(doc), cStat |-> s]}
      <3>2. s \in {"100", "110"} /\ s \in ProtStatus
        BY LotBounds DEF ProtStatus
      <3>3. p \in Prot
        BY <1>3, <3>2, ProtType
      <3>4. p.digVal = Content(doc) /\ p.cStat = s
        BY DEF prot
      <3>5. entries \in SUBSET LotArchive!Entry
        BY <1>3, <3>2 DEF LotArchive!Entry
      <3> HIDE DEF doc, new
      <3> QED BY <3>1, <3>3, <3>4, <3>5
    <2> QED BY <2>1, <2>2 DEF Process, After
  <1> DEFINE lot == [docs |-> lots[n].docs, waiting |-> lots[n].waiting \ {i},
                     prots |-> Append(lots[n].prots, p)]
  <1>5. lots' = [lots EXCEPT ![n] = lot]
    BY <1>4 DEF After
  <1>6. lot \in Processing
    BY <1>2 DEF Processing
  <1>7. /\ lots' \in Seq(Processing) /\ DOMAIN lots' = DOMAIN lots /\ Len(lots') = Len(lots)
        /\ \A m \in DOMAIN lots : lots'[m] = IF m = n THEN lot ELSE lots[m]
    <2> HIDE DEF lot
    <2> QED BY <1>1, <1>5, <1>6
  <1>8. UNCHANGED <<receipts, answer, filed>>
    BY DEF Process
  <1>9. RegistryOK' /\ registered \subseteq registered'
    <2> HIDE DEF doc
    <2>1. RegistryOK
      BY DEF IInv
    <2>2. CASE entries = {}
      BY <1>4, <2>1, <2>2 DEF RegistryOK
    <2>3. CASE entries # {}
      <3>1. PICK s \in Registers : new /\ entries = {[doc |-> Content(doc), cStat |-> s]}
        BY <1>4, <2>3
      <3>2. registered' = registered \cup {[doc |-> Content(doc), cStat |-> s]}
        BY <1>4, <3>1
      <3>3. \A e \in registered' : /\ e.cStat \in Registers
                                   /\ \E d \in Doc : e = [doc |-> Content(d), cStat |-> e.cStat]
        BY <1>3, <2>1, <3>2 DEF RegistryOK
      <3>4. \A e, f \in registered' : e.doc = f.doc => e = f
        BY <2>1, <3>1, <3>2 DEF RegistryOK
      <3> QED BY <3>2, <3>3, <3>4 DEF RegistryOK
    <2> QED BY <2>2, <2>3
  <1>10. TypeOK'
    <2>1. receipts' \subseteq DOMAIN lots'
      BY <1>7, <1>8 DEF IInv, TypeOK
    <2> QED BY <1>7, <1>8, <1>9, <2>1 DEF IInv, TypeOK, RegistryOK
  <1>11. WaitingOK'
    BY <1>7 DEF IInv, WaitingOK
  <1>12. LotsGenuine'
    <2> SUFFICES ASSUME NEW m \in DOMAIN lots, NEW j \in DOMAIN lots'[m].prots,
                        NEW q, q = lots'[m].prots[j],
                        q.cStat \in VALID_PROTOCOL_STATUSES
                 PROVE  [doc |-> q.digVal, cStat |-> q.cStat] \in registered'
      BY <1>7 DEF LotsGenuine, Genuine
    <2>1. CASE m = n /\ j = Len(lots[n].prots) + 1
      <3>1. lots'[m].prots[j] = p
        BY <1>2, <1>7, <2>1
      <3> QED BY <1>4, <3>1
    <2>2. CASE ~(m = n /\ j = Len(lots[n].prots) + 1)
      <3>1. j \in DOMAIN lots[m].prots /\ lots'[m].prots[j] = lots[m].prots[j]
        <4>1. CASE m # n
          BY <1>7, <4>1
        <4>2. CASE m = n
          <5>1. lots'[m].prots = Append(lots[n].prots, p)
            BY <1>7, <4>2
          <5> QED BY <1>2, <2>2, <4>2, <5>1
        <4> QED BY <4>1, <4>2
      <3> QED BY <1>9, <3>1 DEF IInv, LotsGenuine, Genuine
    <2> QED BY <2>1, <2>2
  <1>13. AnswerGenuine' /\ FiledGenuine'
    BY <1>8, <1>9 DEF IInv, AnswerGenuine, FiledGenuine, Genuine
  <1>14. LotArchive!Register
    <2>1. registered' \in SUBSET LotArchive!Entry
      BY <1>9, LotBounds DEF RegistryOK, LotArchive!Entry
    <2> QED BY <1>8, <1>9, <2>1 DEF LotArchive!Register, RegistryOK
  <1> QED BY <1>7, <1>9, <1>10, <1>11, <1>12, <1>13, <1>14 DEF IInv
-----------------------------------------------------------------------------
\* A lot is received, and its receipt may be.
LEMMA BatchIInv ==
    ASSUME IInv, NEW docs \in Batches, authorize_batch(docs)
    PROVE  IInv'
  <1> DEFINE lot == [docs |-> docs, waiting |-> DOMAIN docs, prots |-> <<>>]
  <1>1. lots \in Seq(Processing) /\ Len(lots) \in Nat /\ MaxLots \in Nat /\ MaxBatch \in Nat
    BY LotBounds DEF IInv, TypeOK
  <1>2. PICK k \in 1..MaxBatch : docs \in [1..k -> Doc]
    BY DEF Batches
  <1>3. lot \in Processing
    <2>1. docs \in Seq(Doc)
      BY <1>1, <1>2
    <2>2. DOMAIN docs \in SUBSET (1..MaxBatch)
      BY <1>1, <1>2
    <2> QED BY <2>1, <2>2 DEF Processing
  <1>4. Len(lots) < MaxLots /\ lots' = Append(lots, lot)
        /\ receipts' \subseteq receipts \cup {Len(lots) + 1}
        /\ UNCHANGED <<registered, answer, filed>>
    BY DEF authorize_batch, parse_autorizacao_response, RawResponse
  <1>5. /\ lots' \in Seq(Processing) /\ Len(lots') = Len(lots) + 1
        /\ DOMAIN lots' = DOMAIN lots \cup {Len(lots) + 1}
        /\ \A m \in DOMAIN lots : lots'[m] = lots[m]
        /\ lots'[Len(lots) + 1] = lot
    <2> HIDE DEF lot
    <2> QED BY <1>1, <1>3, <1>4
  <1>6. TypeOK' /\ Len(lots') <= MaxLots
    BY <1>1, <1>4, <1>5 DEF IInv, TypeOK
  <1>7. WaitingOK'
    BY <1>5 DEF IInv, WaitingOK
  <1>8. LotsGenuine'
    <2> SUFFICES ASSUME NEW m \in DOMAIN lots', NEW j \in DOMAIN lots'[m].prots,
                        NEW q, q = lots'[m].prots[j],
                        q.cStat \in VALID_PROTOCOL_STATUSES
                 PROVE  [doc |-> q.digVal, cStat |-> q.cStat] \in registered'
      BY DEF LotsGenuine, Genuine
    <2>1. m \in DOMAIN lots
      BY <1>5
    <2> QED BY <1>4, <1>5, <2>1 DEF IInv, LotsGenuine, Genuine
  <1>9. RegistryOK' /\ AnswerGenuine' /\ FiledGenuine'
    BY <1>4 DEF IInv, RegistryOK, AnswerGenuine, FiledGenuine, Genuine
  <1> QED BY <1>6, <1>7, <1>8, <1>9 DEF IInv

\* What attach_protocol makes of an answer is filed under a registration of
\* the document's own content.
LEMMA AttachIInv ==
    ASSUME IInv, NEW doc \in Doc, Attach(doc)
    PROVE  IInv' /\ \E e \in registered : LotArchive!File(e)
  <1>1. answer.prots \in Seq(Prot)
    BY DEF IInv, TypeOK, Answer
  <1>2. PICK i \in DOMAIN answer.prots :
              /\ attach_protocol(doc, answer.prots) = nfeProc(doc, answer.prots[i])
              /\ answer.prots[i].digVal = Content(doc)
              /\ answer.prots[i].cStat \in VALID_PROTOCOL_STATUSES
    BY <1>1, DocTypes, AttachedIsOwn DEF Attach
  <1> DEFINE p == answer.prots[i]
             e == [doc |-> Content(doc), cStat |-> p.cStat]
  <1>3. filed' = filed \cup {nfeProc(doc, p)} /\ UNCHANGED <<lots, registered, receipts, answer>>
    BY <1>2 DEF Attach
  <1>4. p \in Prot
    BY <1>1
  <1>5. e \in registered
    BY <1>2 DEF IInv, AnswerGenuine, Genuine
  <1>6. nfeProc(doc, p).nfe = doc /\ nfeProc(doc, p).prot = p
    BY DEF nfeProc
  <1> HIDE DEF p
  <1>7. TypeOK'
    BY <1>3, <1>4, <1>6 DEF IInv, TypeOK
  <1>8. FiledGenuine'
    BY <1>3, <1>5, <1>6 DEF IInv, FiledGenuine
  <1>9. WaitingOK' /\ RegistryOK' /\ LotsGenuine' /\ AnswerGenuine'
    BY <1>3 DEF IInv, WaitingOK, RegistryOK, LotsGenuine, AnswerGenuine, Genuine
  <1>10. [doc |-> Content(nfeProc(doc, p).nfe), cStat |-> nfeProc(doc, p).prot.cStat] = e
    BY <1>6
  <1> DEFINE archived(ps) == {[doc |-> Content(q.nfe), cStat |-> q.prot.cStat] : q \in ps}
  <1>11. archived(filed') = archived(filed) \cup {e}
    BY <1>3, <1>10
  <1>12. \E f \in registered : LotArchive!File(f)
    <2> HIDE DEF e
    <2> QED BY <1>3, <1>5, <1>11 DEF LotArchive!File
  <1>13. IInv'
    BY <1>3, <1>7, <1>8, <1>9 DEF IInv
  <1> QED BY <1>12, <1>13
-----------------------------------------------------------------------------
\* The initial state and every step: the invariant holds, and the archive of
\* Archive moves or stays as it is.
LEMMA InitIInv == Init => IInv
  <1> SUFFICES ASSUME Init PROVE IInv
    OBVIOUS
  <1>1. answer \in Answer
    BY LotBounds DEF Init, NoAnswer, Answer
  <1> QED BY <1>1, LotBounds DEF Init, IInv, TypeOK, NoAnswer, WaitingOK, RegistryOK,
             LotsGenuine, AnswerGenuine, FiledGenuine

LEMMA StepIInv ==
    IInv /\ [Next]_vars => IInv' /\ [LotArchive!Next]_LotArchive!archive
  <1> SUFFICES ASSUME IInv, [Next]_vars
               PROVE  IInv' /\ [LotArchive!Next]_LotArchive!archive
    OBVIOUS
  <1> DEFINE Stays == UNCHANGED <<registered, filed>>
  <1>1. Stays => UNCHANGED LotArchive!archive
    BY DEF LotArchive!archive
  <1>2. ASSUME NEW docs \in Batches, authorize_batch(docs)
        PROVE  IInv' /\ Stays
    BY <1>2, BatchIInv DEF authorize_batch
  <1>3. ASSUME NEW n \in receipts, consult_receipt(n) \/ consulta_recibo(n)
        PROVE  IInv' /\ Stays
    <2>1. n \in DOMAIN lots /\ lots \in Seq(Processing) /\ LotsGenuine /\ n \in 0..MaxLots
      BY LotBounds DEF IInv, TypeOK
    <2> DEFINE prots == RetConsReciNFe(n).prots
    <2>2. CASE consult_receipt(n)
      <3>1. answer' = [call |-> "consult_receipt", nRec |-> n, prots |-> FirstOnly(prots)]
            /\ UNCHANGED <<lots, registered, receipts, filed>>
        BY <2>2 DEF consult_receipt, parse_autorizacao_response
      <3>2. answer' \in Answer
        BY <2>1, <3>1, ReceiptAnswers DEF Answer
      <3>3. \A i \in DOMAIN answer'.prots : Genuine(answer'.prots[i])
        BY <2>1, <3>1, ReceiptAnswers
      <3> QED BY <3>1, <3>2, <3>3, AnswerIInv
    <2>3. CASE consulta_recibo(n)
      <3>1. answer' = [call |-> "recibo", nRec |-> n, prots |-> prots]
            /\ UNCHANGED <<lots, registered, receipts, filed>>
        BY <2>3 DEF consulta_recibo, parse_consulta_recibo_response
      <3>2. answer' \in Answer
        BY <2>1, <3>1, ReceiptAnswers DEF Answer
      <3>3. \A i \in DOMAIN answer'.prots : Genuine(answer'.prots[i])
        BY <2>1, <3>1, ReceiptAnswers
      <3> QED BY <3>1, <3>2, <3>3, AnswerIInv
    <2> QED BY <1>3, <2>2, <2>3
  <1>4. ASSUME NEW doc \in Doc, consult(doc)
        PROVE  IInv' /\ Stays
    <2>1. PICK e \in registered :
             /\ e.doc = Content(doc)
             /\ answer' = [call |-> "consult", nRec |-> 0,
                           prots |-> <<prot(doc, e.doc, e.cStat)>>]
      BY <1>4 DEF consult, parse_autorizacao_response, RawResponse, FirstOnly
    <2> DEFINE p == prot(doc, Content(doc), e.cStat)
    <2>2. e.cStat \in ProtStatus /\ e = [doc |-> Content(doc), cStat |-> e.cStat]
      BY <2>1, LotBounds DEF IInv, RegistryOK, ProtStatus
    <2>3. p \in Prot
      BY <2>2, ProtType
    <2>4. Genuine(p)
      BY <2>2 DEF Genuine, prot
    <2> HIDE DEF p
    <2>5. answer' = [call |-> "consult", nRec |-> 0, prots |-> <<p>>]
      BY <2>1 DEF p
    <2>6. answer' \in Answer
      BY <2>3, <2>5, LotBounds DEF Answer
    <2>7. \A i \in DOMAIN answer'.prots : Genuine(answer'.prots[i])
      BY <2>4, <2>5
    <2> QED BY <1>4, <2>6, <2>7, AnswerIInv DEF consult
  <1>5. ASSUME NEW doc \in Doc, Attach(doc)
        PROVE  IInv' /\ LotArchive!Next
    BY <1>5, AttachIInv DEF LotArchive!Next
  <1>6. ASSUME NEW n \in DOMAIN lots, NEW i \in lots[n].waiting, Process(n, i)
        PROVE  IInv' /\ (Stays \/ LotArchive!Next)
    BY <1>6, ProcessIInv DEF LotArchive!Next, Process
  <1>7. ASSUME Crash
        PROVE  IInv' /\ Stays
    <2>1. answer' \in Answer /\ answer'.prots = <<>>
      BY <1>7, LotBounds DEF Crash, NoAnswer, Answer
    <2>2. receipts' \subseteq receipts /\ UNCHANGED <<lots, registered, filed>>
      BY <1>7 DEF Crash
    <2>3. \A i \in DOMAIN answer'.prots : Genuine(answer'.prots[i])
      BY <2>1
    <2> QED BY <2>1, <2>2, <2>3, AnswerIInv
  <1>8. ASSUME UNCHANGED vars
        PROVE  IInv' /\ Stays
    BY <1>8 DEF vars, IInv, TypeOK, WaitingOK, RegistryOK, LotsGenuine, AnswerGenuine,
       FiledGenuine, Genuine
  <1> HIDE DEF Stays
  <1> QED BY <1>1, <1>2, <1>3, <1>4, <1>5, <1>6, <1>7, <1>8 DEF Next
-----------------------------------------------------------------------------
\* The invariant holds in every reachable state.
LEMMA LotInductive == Spec => []IInv
  <1> QED BY InitIInv, StepIInv, PTL DEF Spec

\* Lots, receipts, answers and filed documents always hold values of their types.
THEOREM LotTypeCorrect == Spec => []TypeOK
  <1>1. IInv => TypeOK
    BY DEF IInv
  <1> QED BY <1>1, LotInductive, PTL

\* Whatever is sent again, polled too early, lost or answered out of order:
\* the archive of documents sent by the lot is the archive that Archive
\* promises, for every set of documents and every number of lots.
THEOREM LotImplementsArchive == Spec => LotArchiveSpec
  <1>1. Init => LotArchive!Init
    BY DEF Init, LotArchive!Init
  <1> QED BY <1>1, LotInductive, StepIInv, PTL DEF Spec, LotArchiveSpec, LotArchive!Spec
-----------------------------------------------------------------------------
(* Nothing a lot registered is left out.  For a document that occurs once  *)
(* in a lot: it waits and has no protocol, or it has one.                  *)

ProtsTell(lot) ==
    \A j \in DOMAIN lot.prots : lot.prots[j].cStat \in Registers =>
        \E d \in Doc : lot.prots[j].chNFe = d.id.key /\ lot.prots[j].digVal = Content(d)

EachAnswered(lot) ==
    \A i \in DOMAIN lot.docs \ lot.waiting : \E j \in DOMAIN lot.prots :
        lot.prots[j].chNFe = lot.docs[i].id.key

AnsweredOnce(lot) ==
    \A doc \in Doc : Alone(doc, lot.docs) =>
        /\ \A j, k \in DOMAIN lot.prots :
              lot.prots[j].chNFe = doc.id.key /\ lot.prots[k].chNFe = doc.id.key => j = k
        /\ \A i \in lot.waiting : lot.docs[i] = doc =>
              \A j \in DOMAIN lot.prots : lot.prots[j].chNFe # doc.id.key

LotOK(lot) == ProtsTell(lot) /\ EachAnswered(lot) /\ AnsweredOnce(lot)

AInv == IInv /\ \A n \in DOMAIN lots : LotOK(lots[n])

\* A document that occurs once is at one place.
LEMMA AloneIsOne ==
    ASSUME NEW docs \in Seq(Doc), NEW doc, Alone(doc, docs)
    PROVE  \E i \in DOMAIN docs : /\ docs[i] = doc
                                  /\ \A k \in DOMAIN docs : docs[k] = doc => k = i
  <1> DEFINE places == {i \in DOMAIN docs : docs[i] = doc}
  <1>1. IsFiniteSet(places)
    <2>1. DOMAIN docs = 1..Len(docs) /\ Len(docs) \in Nat
      OBVIOUS
    <2>2. IsFiniteSet(1..Len(docs))
      BY <2>1, FS_Interval
    <2> QED BY <2>1, <2>2, FS_Subset
  <1>2. Cardinality(places) = 1
    BY DEF Alone
  <1>3. PICK i : places = {i}
    <2> HIDE DEF places
    <2> QED BY <1>1, <1>2, FS_Singleton
  <1> QED BY <1>3

\* A lot that was just received.
LEMMA LotReceived ==
    ASSUME NEW docs, NEW lot, lot = [docs |-> docs, waiting |-> DOMAIN docs, prots |-> <<>>]
    PROVE  LotOK(lot)
  BY DEF LotOK, ProtsTell, EachAnswered, AnsweredOnce

\* A document that waited is given the protocol p of its key.
LEMMA LotProcessed ==
    ASSUME NEW lot \in Processing, LotOK(lot), lot.waiting \subseteq DOMAIN lot.docs,
           NEW i \in lot.waiting, NEW p \in Prot, p.chNFe = lot.docs[i].id.key,
           p.cStat \in Registers => p.digVal = Content(lot.docs[i]),
           NEW after,
           after = [docs |-> lot.docs, waiting |-> lot.waiting \ {i}, prots |-> Append(lot.prots, p)]
    PROVE  LotOK(after)
  <1> DEFINE last == Len(lot.prots) + 1
  <1>1. lot.docs \in Seq(Doc) /\ lot.prots \in Seq(Prot)
    BY DEF Processing
  <1>2. lot.docs[i] \in Doc
    BY <1>1
  <1>3. after.docs = lot.docs /\ after.waiting = lot.waiting \ {i}
    OBVIOUS
  <1>4. /\ DOMAIN after.prots = DOMAIN lot.prots \cup {last}
        /\ last \notin DOMAIN lot.prots
        /\ after.prots[last] = p
        /\ \A j \in DOMAIN lot.prots : after.prots[j] = lot.prots[j]
    BY <1>1
  <1> HIDE DEF last
  <1>5. ProtsTell(after)
    BY <1>2, <1>4 DEF LotOK, ProtsTell
  <1>6. EachAnswered(after)
    BY <1>3, <1>4 DEF LotOK, EachAnswered
  <1>7. AnsweredOnce(after)
    <2> SUFFICES ASSUME NEW doc \in Doc, Alone(doc, lot.docs)
                 PROVE  /\ \A j, k \in DOMAIN after.prots :
                              after.prots[j].chNFe = doc.id.key /\ after.prots[k].chNFe = doc.id.key => j = k
                        /\ \A m \in after.waiting : lot.docs[m] = doc =>
                              \A j \in DOMAIN after.prots : after.prots[j].chNFe # doc.id.key
      BY <1>3 DEF AnsweredOnce
    <2>1. /\ \A j, k \in DOMAIN lot.prots :
                lot.prots[j].chNFe = doc.id.key /\ lot.prots[k].chNFe = doc.id.key => j = k
          /\ \A m \in lot.waiting : lot.docs[m] = doc =>
                \A j \in DOMAIN lot.prots : lot.prots[j].chNFe # doc.id.key
      BY DEF LotOK, AnsweredOnce
    <2>2. p.chNFe = doc.id.key => lot.docs[i] = doc
      BY <1>2, DocAssumption
    <2>3. \A m \in lot.waiting : lot.docs[m] = doc /\ lot.docs[i] = doc => m = i
      BY <1>1, AloneIsOne
    <2>4. \A j, k \in DOMAIN after.prots :
            after.prots[j].chNFe = doc.id.key /\ after.prots[k].chNFe = doc.id.key => j = k
      BY <1>4, <2>1, <2>2
    <2>5. \A m \in after.waiting : lot.docs[m] = doc =>
            \A j \in DOMAIN after.prots : after.prots[j].chNFe # doc.id.key
      BY <1>3, <1>4, <2>1, <2>2, <2>3
    <2> QED BY <2>4, <2>5
  <1> QED BY <1>5, <1>6, <1>7 DEF LotOK

\* Each step preserves what is said of the lots.
LEMMA LotsStep ==
    ASSUME AInv, [Next]_vars
    PROVE  AInv'
  <1>1. IInv'
    BY StepIInv DEF AInv
  <1>2. CASE lots' = lots
    BY <1>1, <1>2 DEF AInv
  <1>3. ASSUME NEW docs \in Batches, authorize_batch(docs)
        PROVE  AInv'
    <2> DEFINE lot == [docs |-> docs, waiting |-> DOMAIN docs, prots |-> <<>>]
    <2>1. lots \in Seq(Processing) /\ lots' = Append(lots, lot)
      BY <1>3 DEF AInv, IInv, TypeOK, authorize_batch
    <2>2. LotOK(lot)
      BY LotReceived
    <2> HIDE DEF lot
    <2>3. \A n \in DOMAIN lots' : lots'[n] = lot \/ (n \in DOMAIN lots /\ lots'[n] = lots[n])
      BY <2>1
    <2> QED BY <1>1, <2>2, <2>3 DEF AInv
  <1>4. ASSUME NEW n \in DOMAIN lots, NEW i \in lots[n].waiting, Process(n, i)
        PROVE  AInv'
    <2> DEFINE doc == lots[n].docs[i]
               new == ~\E e \in registered : e.doc = Content(doc)
    <2>1. lots \in Seq(Processing) /\ lots[n] \in Processing /\ LotOK(lots[n])
          /\ lots[n].waiting \subseteq DOMAIN lots[n].docs
      BY DEF AInv, IInv, TypeOK, WaitingOK
    <2>2. doc \in Doc
      BY <2>1 DEF Processing
    <2>3. PICK v \in {None, Content(doc)}, s \in ProtStatus :
            /\ lots' = After(n, i, prot(doc, v, s))
            /\ s \in Registers => v = Content(doc)
      <3>1. {"999", "204"} \subseteq ProtStatus \ Registers /\ Registers \subseteq ProtStatus
        BY LotBounds DEF ProtStatus
      <3> QED BY <1>4, <3>1 DEF Process, After
    <2> DEFINE p == prot(doc, v, s)
               lot == [docs |-> lots[n].docs, waiting |-> lots[n].waiting \ {i},
                       prots |-> Append(lots[n].prots, p)]
    <2>4. p \in Prot
      BY <2>2, ProtType
    <2>5. p.chNFe = doc.id.key /\ p.digVal = v /\ p.cStat = s
      BY DEF prot
    <2>6. lots' = [lots EXCEPT ![n] = lot]
      BY <2>3 DEF After
    <2>7. LotOK(lot)
      <3> HIDE DEF p
      <3> QED BY <2>1, <2>3, <2>4, <2>5, LotProcessed
    <2> HIDE DEF lot
    <2>8. \A m \in DOMAIN lots' : m \in DOMAIN lots /\ lots'[m] = IF m = n THEN lot ELSE lots[m]
      BY <2>1, <2>6
    <2> QED BY <1>1, <2>7, <2>8 DEF AInv
  <1>5. \/ lots' = lots
        \/ \E docs \in Batches : authorize_batch(docs)
        \/ \E n \in DOMAIN lots : \E i \in lots[n].waiting : Process(n, i)
    BY DEF Next, vars, consult_receipt, consulta_recibo, consult, Attach, Crash
  <1> QED BY <1>2, <1>3, <1>4, <1>5

\* From the protocols a lot ended with, attach_protocol picks the document's own.
LEMMA OwnIsJoined ==
    ASSUME AInv, NEW n \in DOMAIN lots, Done(n), NEW doc \in Doc,
           Alone(doc, lots[n].docs), OwnProt(doc, n).cStat \in Registers
    PROVE  attach_protocol(doc, lots[n].prots) = nfeProc(doc, OwnProt(doc, n))
  <1> DEFINE prots == lots[n].prots
             own == OwnProt(doc, n)
             exact == ExactMatches(doc, prots)
  <1>1. /\ lots[n].docs \in Seq(Doc) /\ prots \in Seq(Prot) /\ LotOK(lots[n])
        /\ lots[n].waiting = {}
    <2>1. lots \in Seq(Processing) /\ LotOK(lots[n])
      BY DEF AInv, IInv, TypeOK
    <2>2. lots[n] \in Processing
      BY <2>1
    <2> QED BY <2>1, <2>2 DEF Processing, Done
  <1>2. PICK i \in DOMAIN lots[n].docs : lots[n].docs[i] = doc
    BY <1>1, AloneIsOne
  <1>3. \E j \in DOMAIN prots : prots[j].chNFe = doc.id.key
    BY <1>1, <1>2 DEF LotOK, EachAnswered
  <1>4. PICK k \in DOMAIN prots : own = prots[k] /\ prots[k].chNFe = doc.id.key
    BY <1>3 DEF OwnProt
  <1>5. \A j \in DOMAIN prots : prots[j].chNFe = doc.id.key => j = k
    BY <1>1, <1>4 DEF LotOK, AnsweredOnce
  <1>6. prots[k].digVal = Content(doc)
    BY <1>1, <1>4, DocAssumption DEF LotOK, ProtsTell
  <1>7. doc.signed /\ doc.id.prefixes = 1 /\ doc # None
    BY DocTypes, DocAssumption, NoneIsNoDocument
  <1>8. exact = {k}
    <2>1. extract_inf_nfe_id(doc) = [prefixes |-> 0, key |-> doc.id.key]
      BY <1>7 DEF extract_inf_nfe_id
    <2>2. \A key : IsKey(extract_inf_nfe_id(doc), key) <=> key = doc.id.key
      BY <2>1 DEF IsKey
    <2>3. digest_value(doc) = Content(doc)
      BY <1>7 DEF digest_value
    <2> QED BY <1>4, <1>5, <1>6, <1>7, <2>2, <2>3 DEF ExactMatches
  <1>9. First(exact) = k
    <2>1. k \in Nat
      BY <1>1
    <2>2. {k} \in SUBSET Nat /\ {k} # {}
      BY <2>1
    <2>3. First({k}) \in {k}
      BY <2>2, FirstIsFirst
    <2> QED BY <1>8, <2>3
  <1>10. prots[k].cStat \in VALID_PROTOCOL_STATUSES
    BY <1>4, LotBounds DEF VALID_PROTOCOL_STATUSES
  <1> HIDE DEF exact, prots
  <1>11. attach_protocol(doc, prots) = nfeProc(doc, prots[k])
    BY <1>7, <1>8, <1>9, <1>10 DEF attach_protocol, exact
  <1> QED BY <1>4, <1>11 DEF prots

\* For any number of documents and lots: what a lot registered of a document
\* that occurs in it once is joined with that document, whatever stands next
\* to it and however often it was sent.
THEOREM LotLeavesNothingOut == Spec => []NothingLeftOut
  <1>1. Init => AInv
    BY InitIInv DEF Init, AInv
  <1>2. AInv /\ [Next]_vars => AInv'
    BY LotsStep
  <1>3. AInv => NothingLeftOut
    BY OwnIsJoined DEF NothingLeftOut, RetConsReciNFe, RawResponse,
       parse_consulta_recibo_response
  <1> QED BY <1>1, <1>2, <1>3, PTL DEF Spec
=============================================================================
