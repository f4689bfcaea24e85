-------------------------- MODULE Complement_proofs --------------------------
(***************************************************************************)
(* Lemmas about attach_protocol and attach_cancellation, for responses of  *)
(* any length.                                                             *)
(***************************************************************************)
EXTENDS Complement, WellFoundedInduction, SequenceTheorems, TLAPS

\* A non-empty set of numbers has a first element, and First picks it.
LEMMA FirstIsFirst ==
    ASSUME NEW S \in SUBSET Nat, S # {}
    PROVE  First(S) \in S /\ \A i \in S : First(S) <= i
<1>1. \E i \in S : \A j \in S : ~ (<<j, i>> \in OpToRel(<, Nat))
    BY NatLessThanWellFounded, WFMin, Zenon
<1>2. PICK i \in S : \A j \in S : ~ (<<j, i>> \in OpToRel(<, Nat))
    BY <1>1
<1>3. \A j \in S : i <= j
    <2>1. TAKE j \in S
    <2>2. i \in Nat /\ j \in Nat  OBVIOUS
    <2>3. ~ (j < i)  BY <1>2, <2>2 DEF OpToRel
    <2>4. QED  BY <2>2, <2>3
<1>4. QED  BY <1>3 DEF First

\* attach_protocol only ever joins a document with a protNFe of the response
\* that carries the document's own digest and key, and a status that says it
\* was processed.
LEMMA AttachedIsOwn ==
    ASSUME NEW T, NEW prots \in Seq(T), NEW nfe, nfe.signed,
           attach_protocol(nfe, prots).kind = "nfeProc"
    PROVE  \E i \in DOMAIN prots :
              /\ attach_protocol(nfe, prots) = nfeProc(nfe, prots[i])
              /\ prots[i].digVal = Content(nfe)
              /\ prots[i].chNFe = nfe.id.key
              /\ prots[i].cStat \in VALID_PROTOCOL_STATUSES
<1> DEFINE exact == ExactMatches(nfe, prots)
           i     == First(exact)
<1>1. exact # {} /\ nfe # None /\ prots[i].cStat \in VALID_PROTOCOL_STATUSES
      /\ attach_protocol(nfe, prots) = nfeProc(nfe, prots[i])
    <2>1. XmlParsing("NFe").kind # "nfeProc" /\ XmlParsing("digest").kind # "nfeProc"
          /\ XmlParsing("protNFe").kind # "nfeProc"
        BY DEF XmlParsing
    <2>2. \A c : SefazRejection(c).kind # "nfeProc"  BY DEF SefazRejection
    <2>3. QED  BY <2>1, <2>2, Zenon DEF attach_protocol
<1>2. exact \subseteq DOMAIN prots  BY DEF ExactMatches
<1>3. DOMAIN prots \subseteq Nat  BY LenProperties
<1>4. i \in exact  BY <1>1, <1>2, <1>3, FirstIsFirst
<1>5. prots[i].digVal = digest_value(nfe) /\ IsKey(extract_inf_nfe_id(nfe), prots[i].chNFe)
    BY <1>4 DEF ExactMatches
<1>6. prots[i].digVal = Content(nfe)  BY <1>5 DEF digest_value
<1>7. prots[i].chNFe = nfe.id.key  BY <1>5 DEF IsKey, extract_inf_nfe_id
<1>8. QED  BY <1>1, <1>2, <1>4, <1>6, <1>7

\* attach_cancellation keeps the document and its protocol, and what it
\* appends registers a cancellation of the key in that protocol.
LEMMA MarkedIsOwn ==
    ASSUME NEW proc, NEW rets, DOMAIN rets \subseteq Nat,
           proc = [kind |-> proc.kind, nfe |-> proc.nfe, prot |-> proc.prot,
                   rets |-> proc.rets],
           NEW marked, marked = attach_cancellation(proc, rets)
    PROVE  \/ marked = proc
           \/ \E i \in DOMAIN rets :
                 /\ IsCancellationOf(rets[i], proc.prot.chNFe)
                 /\ marked = [kind |-> proc.kind, nfe |-> proc.nfe, prot |-> proc.prot,
                              rets |-> Append(proc.rets, rets[i])]
<1> DEFINE hits == {i \in DOMAIN rets : IsCancellationOf(rets[i], proc.prot.chNFe)}
<1>1. CASE hits = {}
    BY <1>1 DEF attach_cancellation
<1>2. CASE hits # {}
    <2>1. hits \in SUBSET Nat  OBVIOUS
    <2>2. First(hits) \in hits  BY <1>2, <2>1, FirstIsFirst
    <2>3. marked = [proc EXCEPT !.rets = Append(@, rets[First(hits)])]
        BY <1>2 DEF attach_cancellation
    <2>4. QED  BY <2>2, <2>3
<1>3. QED  BY <1>1, <1>2
=============================================================================
