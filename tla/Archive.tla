------------------------------- MODULE Archive -------------------------------
(***************************************************************************)
(* What the library promises an issuer about its archive, independent of   *)
(* calls, networks and crashes: the issuer never files a document under a  *)
(* protocol SEFAZ has not given to that very document, never marks one as  *)
(* cancelled before SEFAZ has cancelled it, and never loses what it filed. *)
(***************************************************************************)
CONSTANT
    Doc         \* signed contents

VARIABLES
    registered,   \* SEFAZ: the documents registered, each with its status
    cancelled,    \* SEFAZ: the documents whose cancellation is registered
    filed,        \* the issuer: the nfeProc it holds
    marked        \* the issuer: those of its documents marked cancelled

archive == <<registered, cancelled, filed, marked>>

Entry == [doc: Doc, cStat: {"100", "110"}]
DocsOf(entries) == {e.doc : e \in entries}

Init == registered = {} /\ cancelled = {} /\ filed = {} /\ marked = {}

\* Each document is authorized (100) or denied (110), once and for good.
Register ==
    /\ registered' \in SUBSET Entry
    /\ registered \subseteq registered'
    /\ \A e, f \in registered' : e.doc = f.doc => e = f
    /\ UNCHANGED <<cancelled, filed, marked>>

\* Only what was authorized can be cancelled.
Cancel(d) ==
    /\ [doc |-> d, cStat |-> "100"] \in registered
    /\ cancelled' = cancelled \cup {d}
    /\ UNCHANGED <<registered, filed, marked>>

File(e) ==
    /\ e \in registered
    /\ filed' = filed \cup {e}
    /\ UNCHANGED <<registered, cancelled, marked>>

Mark(d) ==
    /\ d \in cancelled
    /\ d \in DocsOf(filed)
    /\ marked' = marked \cup {d}
    /\ UNCHANGED <<registered, cancelled, filed>>

Next ==
    \/ Register
    \/ \E d \in DocsOf(registered) : Cancel(d)
    \/ \E e \in registered : File(e)
    \/ \E d \in cancelled : Mark(d)

Spec == Init /\ [][Next]_archive
=============================================================================
