------------------------------- MODULE Leaves --------------------------------
(***************************************************************************)
(* The data of an invoice, and its XML, as sets of leaves.  A leaf is one  *)
(* value: the item it belongs to (0: the document), the group it stands    *)
(* in, its place when the group repeats, its tag, and the value.  Values   *)
(* are numbers, also where the program has a text: an amount is in cents,  *)
(* a text is a number that stands for it, and a text the program supplies  *)
(* itself is Supplied.  A date is its local digits and, in the last two    *)
(* places, the hours its offset is behind UTC; a state is its IBGE code.   *)
(* How a value is formatted is left out.                                   *)
(***************************************************************************)
EXTENDS Integers, Sequences, FiniteSetsExt

Supplied == -1
\* A text without characters, and one of white space only.
Empty == -3
White == -4

Leaf(n, in, m, tag, v) == [n |-> n, in |-> in, m |-> m, tag |-> tag, v |-> v]

\* A struct of the program: the group it fills, its required and its optional
\* fields.  A field has the name of its tag.
Struct(in, required, optional) == [in |-> in, required |-> required, optional |-> optional]

\* A group that IBS of the state, IBS of the city and CBS each have inside them
\* carries its path in its name.
gDif     == [gIBSUF |-> "gIBSUF/gDif", gIBSMun |-> "gIBSMun/gDif", gCBS |-> "gCBS/gDif"]
gDevTrib == [gIBSUF |-> "gIBSUF/gDevTrib", gIBSMun |-> "gIBSMun/gDevTrib", gCBS |-> "gCBS/gDevTrib"]
gRed     == [gIBSUF |-> "gIBSUF/gRed", gIBSMun |-> "gIBSMun/gRed", gCBS |-> "gCBS/gRed"]
-----------------------------------------------------------------------------
Of(h, in)         == {l \in h : l.in = in}
Given(h, in)      == \E l \in h : l.in = in
Has(h, in, tag)   == \E l \in h : l.in = in /\ l.tag = tag
Filled(h, in, tag) == \E l \in h : l.in = in /\ l.tag = tag /\ l.v # Empty
Write(h, in, tags) == {l \in h : l.in = in /\ l.tag \in tags}

\* Iterator::take.
FirstOf(h, in, tags, limit) == {l \in Write(h, in, tags) : l.m[Len(l.m)] <= limit}

Put(n, in, tag, v) == {Leaf(n, in, <<>>, tag, v)}
WriteOr(h, n, in, tag, default) ==
    IF Has(h, in, tag) THEN Write(h, in, {tag}) ELSE Put(n, in, tag, default)

\* Mutant: the schema does not matter.
Always(s, leaves) == leaves
\* What is written under the schema PL_010 only.
Pl010(s, leaves) == IF s.pl010 THEN leaves ELSE {}

Sum(leaves)            == MapThenSumSet(LAMBDA l : l.v, leaves)
Amount(h, in, tag)     == Sum(Write(h, in, {tag}))
Value(h, in, tag, default) ==
    IF Has(h, in, tag) THEN (CHOOSE l \in h : l.in = in /\ l.tag = tag).v ELSE default
=============================================================================
