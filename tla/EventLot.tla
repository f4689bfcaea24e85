------------------------------- MODULE EventLot -------------------------------
(***************************************************************************)
(* Events by the lot: build_event_batch_request and the single-event       *)
(* builders number each request (idLote), SEFAZ answers with a retEvento   *)
(* for each event, and attach_event_protocol joins a request with an       *)
(* answer.  Requests may be sent again, answers may be lost or joined with *)
(* a request they do not belong to; the idLote is all that is compared.    *)
(***************************************************************************)
EXTENDS Naturals, Sequences, FiniteSets

CONSTANTS
    Event,       \* [tpEvento, chNFe, nSeqEvento]: an event by its Id
    CallerIds,   \* the lot ids callers choose themselves
    MaxBatch,    \* events a lot may hold (20)
    MaxClock,    \* bound: milliseconds that pass
    MaxRequests, \* bound: requests the application builds
    MaxAnswers   \* bound: answers it holds at a time

ASSUME EventAssumption ==
    \A e \in Event : DOMAIN e = {"tpEvento", "chNFe", "nSeqEvento"}
ASSUME EventLotBounds ==
    {MaxBatch, MaxClock, MaxRequests, MaxAnswers} \subseteq Nat

VARIABLES
    clock,       \* the time in milliseconds
    requests,    \* the signed envEvento requests the application built
    registered,  \* SEFAZ: the events registered
    answers,     \* the retEnvEvento answers the application holds
    procs        \* the procEventoNFe documents joined

vars == <<clock, requests, registered, answers, procs>>

EPEC == "110140"
EVT_CANCELA == "110111"

Refused == "999"
Duplicate == "573"
IdLote == CallerIds \cup (0..MaxClock)
RetEvento == [event: Event, cStat: {"135", "136", "155", Refused, Duplicate}]

Init ==
    /\ clock = 0
    /\ requests = {}
    /\ registered = {}
    /\ answers = {}
    /\ procs = {}
-----------------------------------------------------------------------------
Tick ==
    /\ clock < MaxClock
    /\ clock' = clock + 1
    /\ UNCHANGED <<requests, registered, answers, procs>>

\* A builder panics on an empty or too long batch; the request is signed
\* event by event.
Keep(idLote, eventos) ==
    /\ Cardinality(requests) < MaxRequests
    /\ requests' = requests \cup {[idLote |-> idLote, eventos |-> eventos]}
    /\ UNCHANGED <<clock, registered, answers, procs>>

\* The places of the events of a batch that are not EPEC, in their order.
Kept(events) == {i \in DOMAIN events : events[i].tpEvento # EPEC}

InOrder(events, place) ==
    /\ Kept(events) = {place[i] : i \in DOMAIN place}
    /\ \A i, j \in DOMAIN place : i < j => place[i] < place[j]

\* EPEC events are skipped, also if nothing else is left; without the
\* caller's id the lot is numbered with the time.
build_event_batch_request(events, lot_id) ==
    \E n \in 0..Len(events) : \E place \in [1..n -> Kept(events)] :
        InOrder(events, place) /\ Keep(lot_id, [i \in 1..n |-> events[place[i]]])

\* cancel, cce, manifest, epec, ...: always numbered with the time.
build_event_xml(event) == Keep(clock, <<event>>)

Batches == UNION {[1..n -> Event] : n \in 1..MaxBatch}
-----------------------------------------------------------------------------
\* SEFAZ (external) on the i-th event of a lot, when the events in `done' are
\* registered: one that is registered already is refused as a duplicate.
Accepted(e) == {"135", "136"} \cup (IF e.tpEvento = EVT_CANCELA THEN {"155"} ELSE {})

Outcomes(e, done) ==
    IF e \in done THEN {Refused, Duplicate} ELSE {Refused} \cup Accepted(e)

Valid(rets, i) == rets[i].cStat \notin {Refused, Duplicate}

\* The answers SEFAZ may give to a lot, one retEvento for each event.
RetEnvEvento(eventos) ==
    {rets \in [DOMAIN eventos -> RetEvento] :
        \A i \in DOMAIN eventos :
            /\ rets[i].event = eventos[i]
            /\ rets[i].cStat \in Outcomes(eventos[i],
                   registered \cup {eventos[j] : j \in {k \in 1..i-1 : Valid(rets, k)}})}

\* SEFAZ receives a request, for the first time or again.  A lot without
\* events is refused as a whole.  The answer may be lost.
Receive(req) ==
    /\ \E rets \in RetEnvEvento(req.eventos) :
         /\ registered' = registered \cup
                {req.eventos[i] : i \in {k \in DOMAIN rets : Valid(rets, k)}}
         /\ \/ UNCHANGED answers
            \/ /\ Cardinality(answers) < MaxAnswers
               /\ answers' = answers \cup {[idLote |-> req.idLote, rets |-> rets]}
    /\ UNCHANGED <<clock, requests, procs>>

\* The application drops an answer, or starts again without it.
Forget(ans) ==
    /\ answers' = answers \ {ans}
    /\ UNCHANGED <<clock, requests, registered, procs>>
-----------------------------------------------------------------------------
SefazRejection(code) == [kind |-> "SefazRejection", code |-> code]
XmlParsing(what) == [kind |-> "XmlParsing", code |-> what]

valid_statuses(ret) ==
    {"135", "136"} \cup (IF ret.event.tpEvento = EVT_CANCELA THEN {"155"} ELSE {})

procEventoNFe(req, ans) ==
    IF ans.rets = <<>> THEN XmlParsing("retEvento")
    ELSE IF ans.rets[1].cStat \notin valid_statuses(ans.rets[1])
    THEN SefazRejection(ans.rets[1].cStat)
    ELSE [kind |-> "procEventoNFe", idLote |-> req.idLote,
          eventos |-> req.eventos, rets |-> ans.rets]

attach_any_evento(req, ans) ==
    IF ans.idLote = req.idLote THEN procEventoNFe(req, ans) ELSE XmlParsing("idLote")

attach_any_lot(req, ans) ==
    IF req.eventos = <<>> THEN XmlParsing("evento") ELSE procEventoNFe(req, ans)

\* From the first <evento> to the last </evento>, from the first <retEvento>
\* to the last </retEvento>; the status is the first one found.
attach_event_protocol(req, ans) ==
    LET proc == procEventoNFe(req, ans)
    IN  IF req.eventos = <<>> THEN XmlParsing("evento")
        ELSE IF proc.kind = "procEventoNFe" /\ req.idLote # ans.idLote
        THEN XmlParsing("idLote")
        ELSE proc

Attach(req, ans) ==
    LET proc == attach_event_protocol(req, ans)
    IN  /\ proc.kind = "procEventoNFe"
        /\ procs' = procs \cup {proc}
        /\ UNCHANGED <<clock, requests, registered, answers>>

Next ==
    \/ Tick
    \/ \E events \in Batches, lot_id \in CallerIds \cup {clock} :
          build_event_batch_request(events, lot_id)
    \/ \E event \in Event : build_event_xml(event)
    \/ \E req \in requests : Receive(req)
    \/ \E ans \in answers : Forget(ans)
    \/ \E req \in requests, ans \in answers : Attach(req, ans)

Spec == Init /\ [][Next]_vars
-----------------------------------------------------------------------------
\* Requests, answers and joined documents hold values of their types; a
\* joined lot holds events.
TypeOK ==
    /\ clock \in 0..MaxClock
    /\ requests \subseteq [idLote: IdLote, eventos: Seq(Event)]
    /\ registered \subseteq Event
    /\ answers \subseteq [idLote: IdLote, rets: Seq(RetEvento)]
    /\ \A proc \in procs : proc.idLote \in IdLote /\ proc.eventos # <<>>

\* The requests that go by a lot id; two calls of one millisecond share it.
Sharing(idLote) == {req \in requests : req.idLote = idLote}

\* If no other request has its lot id, a joined lot carries an answer for
\* each of its events and no other, the first of them is registered, and
\* so is every one whose status says so.
ProcEventoGenuine ==
    \A proc \in procs : (\A r, s \in Sharing(proc.idLote) : r = s) =>
        /\ proc.eventos[1] \in registered
        /\ DOMAIN proc.eventos = DOMAIN proc.rets
        /\ \A i \in DOMAIN proc.rets :
              /\ proc.rets[i].event = proc.eventos[i]
              /\ Valid(proc.rets, i) => proc.eventos[i] \in registered
=============================================================================
