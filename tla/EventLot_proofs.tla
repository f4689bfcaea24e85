--------------------------- MODULE EventLot_proofs ---------------------------
(* Proofs about EventLot: what a joined lot of events says is so. *)
EXTENDS EventLot, TLAPS

\* An answer to a request: one retEvento for each event, and what it says is
\* registered is registered.
Answers(rets, req) ==
    /\ DOMAIN rets = DOMAIN req.eventos
    /\ \A i \in DOMAIN rets :
          /\ rets[i].event = req.eventos[i]
          /\ Valid(rets, i) => req.eventos[i] \in registered

AnswersGenuine ==
    \A ans \in answers : \E req \in requests :
        req.idLote = ans.idLote /\ Answers(ans.rets, req)

\* A joined document is a request and an answer to a request, perhaps to
\* another one with the same lot id.
ProcsJoined ==
    \A proc \in procs :
        /\ \E req \in requests : /\ req.idLote = proc.idLote
                                 /\ req.eventos = proc.eventos
        /\ \E req \in requests : /\ req.idLote = proc.idLote
                                 /\ Answers(proc.rets, req)
        /\ Valid(proc.rets, 1)

IInv == TypeOK /\ AnswersGenuine /\ ProcsJoined

-----------------------------------------------------------------------------
\* The conjuncts of IInv are kept by a step that adds requests and
\* registrations and leaves answers and joined documents alone.
LEMMA GrowthKeepsAnswers ==
    ASSUME AnswersGenuine, ProcsJoined,
           requests \subseteq requests', registered \subseteq registered'
    PROVE  /\ answers' \subseteq answers => AnswersGenuine'
           /\ procs' = procs => ProcsJoined'
  <1>1. \A rets, req : Answers(rets, req) => Answers(rets, req)'
    BY DEF Answers, Valid
  <1>2. ASSUME answers' \subseteq answers PROVE AnswersGenuine'
    BY <1>1, <1>2 DEF AnswersGenuine
  <1>3. ASSUME procs' = procs PROVE ProcsJoined'
    BY <1>1, <1>3 DEF ProcsJoined, Valid
  <1> QED BY <1>2, <1>3

\* Keeping a request of events under a lot id preserves the invariant.
LEMMA KeepIInv ==
    ASSUME IInv, NEW idLote \in IdLote, NEW eventos \in Seq(Event),
           Keep(idLote, eventos)
    PROVE  IInv'
  <1>1. /\ requests' = requests \cup {[idLote |-> idLote, eventos |-> eventos]}
        /\ UNCHANGED <<clock, registered, answers, procs>>
    BY DEF Keep
  <1>2. TypeOK'
    BY <1>1 DEF IInv, TypeOK, IdLote
  <1>3. AnswersGenuine' /\ ProcsJoined'
    BY <1>1, GrowthKeepsAnswers DEF IInv
  <1> QED BY <1>2, <1>3 DEF IInv

\* SEFAZ receives a request: the answer, if it arrives, tells what it did.
LEMMA ReceiveIInv ==
    ASSUME IInv, NEW req \in requests, Receive(req)
    PROVE  IInv'
  <1>1. PICK rets \in RetEnvEvento(req.eventos) :
          /\ registered' = registered \cup
                {req.eventos[i] : i \in {k \in DOMAIN rets : Valid(rets, k)}}
          /\ \/ UNCHANGED answers
             \/ answers' = answers \cup {[idLote |-> req.idLote, rets |-> rets]}
          /\ UNCHANGED <<clock, requests, procs>>
    BY DEF Receive
  <1>2. req \in [idLote: IdLote, eventos: Seq(Event)]
    BY DEF IInv, TypeOK
  <1>3. /\ rets \in [DOMAIN req.eventos -> RetEvento]
        /\ \A i \in DOMAIN req.eventos : rets[i].event = req.eventos[i]
    BY DEF RetEnvEvento
  <1>4. DOMAIN req.eventos = 1..Len(req.eventos) /\ Len(req.eventos) \in Nat
    BY <1>2
  <1>5. rets \in Seq(RetEvento) /\ DOMAIN rets = DOMAIN req.eventos
    BY <1>3, <1>4
  <1>6. TypeOK'
    <2>1. registered' \subseteq Event
      BY <1>1, <1>2, <1>3 DEF IInv, TypeOK
    <2>2. answers' \subseteq [idLote: IdLote, rets: Seq(RetEvento)]
      BY <1>1, <1>2, <1>5 DEF IInv, TypeOK
    <2> QED BY <2>1, <2>2, <1>1 DEF IInv, TypeOK, IdLote
  <1>7. Answers(rets, req)'
    BY <1>1, <1>3, <1>5 DEF Answers, Valid
  <1>8. AnswersGenuine' /\ ProcsJoined'
    <2>1. \A r, q : Answers(r, q) => Answers(r, q)'
      BY <1>1 DEF Answers, Valid
    <2>2. ASSUME NEW ans \in answers'
          PROVE  \E q \in requests' : q.idLote = ans.idLote /\ Answers(ans.rets, q)'
      <3>1. CASE ans \in answers
        BY <3>1, <2>1, <1>1 DEF IInv, AnswersGenuine
      <3>2. CASE ans = [idLote |-> req.idLote, rets |-> rets]
        BY <3>2, <1>7, <1>1
      <3> QED BY <3>1, <3>2, <2>2, <1>1
    <2>3. AnswersGenuine'
      BY <2>2 DEF AnswersGenuine
    <2>4. ProcsJoined'
      BY <1>1, GrowthKeepsAnswers DEF IInv
    <2> QED BY <2>3, <2>4
  <1> QED BY <1>6, <1>8 DEF IInv

\* What attach_event_protocol joins.
LEMMA JoinedLot ==
    ASSUME NEW req, NEW ans,
           attach_event_protocol(req, ans).kind = "procEventoNFe"
    PROVE  /\ req.eventos # <<>>
           /\ req.idLote = ans.idLote
           /\ ans.rets[1].cStat \in valid_statuses(ans.rets[1])
           /\ attach_event_protocol(req, ans) =
                [kind |-> "procEventoNFe", idLote |-> req.idLote,
                 eventos |-> req.eventos, rets |-> ans.rets]
  BY DEF attach_event_protocol, procEventoNFe, XmlParsing, SefazRejection

\* A joined document is a request and an answer under one lot id.
LEMMA AttachIInv ==
    ASSUME IInv, NEW req \in requests, NEW ans \in answers, Attach(req, ans)
    PROVE  IInv'
  <1> DEFINE proc == attach_event_protocol(req, ans)
  <1>1. /\ proc.kind = "procEventoNFe"
        /\ procs' = procs \cup {proc}
        /\ UNCHANGED <<clock, requests, registered, answers>>
    BY DEF Attach
  <1>2. /\ proc = [kind |-> "procEventoNFe", idLote |-> req.idLote,
                   eventos |-> req.eventos, rets |-> ans.rets]
        /\ req.eventos # <<>> /\ req.idLote = ans.idLote
        /\ ans.rets[1].cStat \in valid_statuses(ans.rets[1])
    BY <1>1, JoinedLot
  <1>3. /\ proc.idLote = req.idLote /\ proc.eventos = req.eventos
        /\ proc.rets = ans.rets
    BY <1>2
  <1> HIDE DEF proc
  <1>4. req.idLote \in IdLote
    BY DEF IInv, TypeOK
  <1>5. TypeOK'
    BY <1>1, <1>2, <1>3, <1>4 DEF IInv, TypeOK, IdLote
  <1>6. AnswersGenuine'
    BY <1>1 DEF IInv, AnswersGenuine, Answers, Valid
  <1>7. PICK q \in requests : q.idLote = ans.idLote /\ Answers(ans.rets, q)
    BY DEF IInv, AnswersGenuine
  <1>8. Valid(proc.rets, 1)
    BY <1>2, <1>3 DEF Valid, valid_statuses, Refused, Duplicate
  <1>9. ProcsJoined'
    <2>1. ASSUME NEW p \in procs'
          PROVE  /\ \E r \in requests : r.idLote = p.idLote /\ r.eventos = p.eventos
                 /\ \E r \in requests : r.idLote = p.idLote /\ Answers(p.rets, r)
                 /\ Valid(p.rets, 1)
      <3>1. CASE p \in procs
        BY <3>1 DEF IInv, ProcsJoined
      <3>2. CASE p = proc
        BY <3>2, <1>2, <1>3, <1>7, <1>8
      <3> QED BY <3>1, <3>2, <2>1, <1>1
    <2> QED BY <2>1, <1>1 DEF ProcsJoined, Answers, Valid
  <1> QED BY <1>5, <1>6, <1>9 DEF IInv

-----------------------------------------------------------------------------
\* The invariant holds at the start.
LEMMA InitIInv == Init => IInv
  BY EventLotBounds DEF Init, IInv, TypeOK, IdLote, AnswersGenuine, ProcsJoined

\* Every step keeps it.
LEMMA NextIInv == IInv /\ [Next]_vars => IInv'
  <1> SUFFICES ASSUME IInv, [Next]_vars PROVE IInv'
    OBVIOUS
  <1> USE EventLotBounds
  <1>1. CASE Tick
    <2>1. TypeOK'
      BY <1>1 DEF Tick, IInv, TypeOK, IdLote
    <2>2. AnswersGenuine' /\ ProcsJoined'
      BY <1>1, GrowthKeepsAnswers DEF Tick, IInv
    <2> QED BY <2>1, <2>2 DEF IInv
  <1>2. ASSUME NEW events \in Batches, NEW lot_id \in CallerIds \cup {clock},
               build_event_batch_request(events, lot_id)
        PROVE  IInv'
    <2>1. PICK n \in 0..Len(events) : \E place \in [1..n -> Kept(events)] :
            InOrder(events, place) /\ Keep(lot_id, [i \in 1..n |-> events[place[i]]])
      BY <1>2 DEF build_event_batch_request
    <2>2. PICK place \in [1..n -> Kept(events)] :
            Keep(lot_id, [i \in 1..n |-> events[place[i]]])
      BY <2>1
    <2>3. PICK m \in 1..MaxBatch : events \in [1..m -> Event]
      BY DEF Batches
    <2>4. Len(events) = m
      BY <2>3
    <2>5. \A i \in 1..n : events[place[i]] \in Event
      BY <2>3 DEF Kept
    <2>6. [i \in 1..n |-> events[place[i]]] \in Seq(Event)
      BY <2>4, <2>5
    <2>7. lot_id \in IdLote
      BY DEF IInv, TypeOK, IdLote
    <2> QED BY <2>2, <2>6, <2>7, KeepIInv
  <1>3. ASSUME NEW event \in Event, build_event_xml(event) PROVE IInv'
    <2>1. <<event>> \in Seq(Event) /\ clock \in IdLote
      BY DEF IInv, TypeOK, IdLote
    <2> QED BY <2>1, <1>3, KeepIInv DEF build_event_xml
  <1>4. ASSUME NEW req \in requests, Receive(req) PROVE IInv'
    BY <1>4, ReceiveIInv
  <1>5. ASSUME NEW ans \in answers, Forget(ans) PROVE IInv'
    <2>1. TypeOK'
      BY <1>5 DEF Forget, IInv, TypeOK, IdLote
    <2>2. AnswersGenuine' /\ ProcsJoined'
      BY <1>5, GrowthKeepsAnswers DEF Forget, IInv
    <2> QED BY <2>1, <2>2 DEF IInv
  <1>6. ASSUME NEW req \in requests, NEW ans \in answers, Attach(req, ans)
        PROVE  IInv'
    BY <1>6, AttachIInv
  <1>7. CASE UNCHANGED vars
    BY <1>7 DEF vars, IInv, TypeOK, IdLote, AnswersGenuine, ProcsJoined, Answers, Valid
  <1> QED BY <1>1, <1>2, <1>3, <1>4, <1>5, <1>6, <1>7 DEF Next

\* The inductive invariant of EventLot: every answer answers a request of
\* its lot id, every joined document is a request and such an answer.
THEOREM EventInductive == Spec => []IInv
  BY InitIInv, NextIInv, PTL DEF Spec

\* Requests, registrations, answers and joined lots are of their types.
THEOREM EventLotTypeCorrect == Spec => []TypeOK
  <1>1. IInv => TypeOK
    BY DEF IInv
  <1> QED BY <1>1, EventInductive, PTL

\* A lot id that belongs to one request identifies its answers: what a
\* procEventoNFe says of its events is so, however often requests were
\* sent again and whatever answers were lost or tried.
THEOREM ProcEventosAreGenuine == Spec => []ProcEventoGenuine
  <1>1. IInv => ProcEventoGenuine
    <2> SUFFICES ASSUME IInv, NEW proc \in procs,
                        \A r, s \in Sharing(proc.idLote) : r = s
                 PROVE  /\ proc.eventos[1] \in registered
                        /\ DOMAIN proc.eventos = DOMAIN proc.rets
                        /\ \A i \in DOMAIN proc.rets :
                              /\ proc.rets[i].event = proc.eventos[i]
                              /\ Valid(proc.rets, i) => proc.eventos[i] \in registered
      BY DEF ProcEventoGenuine
    <2>1. PICK q \in requests : q.idLote = proc.idLote /\ q.eventos = proc.eventos
      BY DEF IInv, ProcsJoined
    <2>2. PICK r \in requests : r.idLote = proc.idLote /\ Answers(proc.rets, r)
      BY DEF IInv, ProcsJoined
    <2>3. q = r
      BY <2>1, <2>2 DEF Sharing
    <2>4. Answers(proc.rets, q)
      BY <2>2, <2>3
    <2>5. proc.eventos \in Seq(Event) /\ proc.eventos # <<>>
      BY <2>1 DEF IInv, TypeOK
    <2>6. 1 \in DOMAIN proc.eventos
      BY <2>5
    <2>7. Valid(proc.rets, 1)
      BY DEF IInv, ProcsJoined
    <2> QED BY <2>1, <2>4, <2>6, <2>7 DEF Answers
  <1> QED BY <1>1, EventInductive, PTL
=============================================================================
