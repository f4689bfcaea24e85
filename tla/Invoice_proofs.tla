--------------------------- MODULE Invoice_proofs ----------------------------
(***************************************************************************)
(* Proofs about the builder of an invoice (Invoice).                       *)
(*                                                                         *)
(* Sums.  Sum and Totals fold finite sets with MapThenSumSet, a recursive  *)
(* function.  What the fold gives is proved without induction: were a      *)
(* statement false of some finite set, it would be false of a smallest one *)
(* (the order of the finite sets by inclusion is well founded), and the    *)
(* definition of the function refutes that one.                            *)
(*                                                                         *)
(* The builder.  BuilderInv says that what was set is well formed and that *)
(* the XML is generate_xml of it, for some number drawn and items without  *)
(* an error.  Every other fact about the XML is then a fact about          *)
(* generate_xml of well formed leaves: each builder of a part writes what  *)
(* it was given (Fair for an item, Traced for the document), or a value of *)
(* its own from a short list, and only in the groups of its part.          *)
(*                                                                         *)
(* The totals.  What an item adds to a total (det_result) and what the XML *)
(* has of the item under the tag (build_det) are computed apart in the     *)
(* code.  They are compared per item and per tag (PartAdds, IcmsPart), and *)
(* summed over the items: the leaves of different items are disjoint, so   *)
(* the sum of the leaves in the XML is the sum of the items' sums          *)
(* (LeavesByParts).  The worth of an item is the same formula as the value *)
(* of the note, with one deduction decided per item and the other for the  *)
(* document.                                                               *)
(***************************************************************************)
EXTENDS Invoice, FiniteSetTheorems, TLAPS

-----------------------------------------------------------------------------
(***************************************************************************)
(* Sums over finite sets.                                                  *)
(***************************************************************************)

\* The element a fold takes first.
Pick(z) == CHOOSE x \in z : TRUE
\* g is the recursive function that sums f over the subsets of S.
IsSum(g, f, S) == g = [z \in SUBSET S |-> IF z = {} THEN 0 ELSE f[Pick(z)] + g[z \ {Pick(z)}]]
\* That function.
SumFcn(f, S) == CHOOSE g : IsSum(g, f, S)
\* The sum of f over S.
SumOf(f, S) == SumFcn(f, S)[S]

\* Among subsets of a finite set there is one that has no other inside it.
LEMMA Smallest ==
    ASSUME NEW S, IsFiniteSet(S), NEW T \in SUBSET SUBSET S, T # {}
    PROVE  \E t \in T : \A u \in T : u \subseteq t => u = t
<1>1. FiniteSubsetsOf(S) = SUBSET S BY FS_FiniteSubsetsOfFinite
<1>2. \E t \in T : \A u \in T : <<u, t>> \notin StrictSubsetOrdering(S)
  <2>1. IsWellFoundedOn(StrictSubsetOrdering(S), SUBSET S)
    BY <1>1, FS_StrictSubsetOrderingWellFounded
  <2>. QED BY <2>1, WFMin
<1>. QED BY <1>2 DEF StrictSubsetOrdering

\* A sum, one element unfolded.
LEMMA SumAt ==
    ASSUME NEW S, NEW f, NEW g, IsSum(g, f, S), NEW z \in SUBSET S
    PROVE  g[z] = IF z = {} THEN 0 ELSE f[Pick(z)] + g[z \ {Pick(z)}]
<1>1. g = [r \in SUBSET S |-> IF r = {} THEN 0 ELSE f[Pick(r)] + g[r \ {Pick(r)}]] BY DEF IsSum
<1>. QED BY <1>1

\* Only one function sums f.
LEMMA SumUnique ==
    ASSUME NEW S, IsFiniteSet(S), NEW f, NEW g, NEW h, IsSum(g, f, S), IsSum(h, f, S)
    PROVE  g = h
<1> DEFINE T == {z \in SUBSET S : g[z] # h[z]}
<1>1. T = {}
  <2>1. SUFFICES ASSUME T # {} PROVE FALSE OBVIOUS
  <2>2. PICK t \in T : \A u \in T : u \subseteq t => u = t
    <3>1. T \in SUBSET SUBSET S OBVIOUS
    <3> HIDE DEF T
    <3>. QED BY <2>1, <3>1, Smallest
  <2>3. t # {} BY <2>2, SumAt
  <2>4. Pick(t) \in t BY <2>3 DEF Pick
  <2>5. t \ {Pick(t)} \in SUBSET S /\ t \ {Pick(t)} \notin T BY <2>2, <2>4
  <2>6. g[t \ {Pick(t)}] = h[t \ {Pick(t)}] BY <2>5
  <2>. QED BY <2>2, <2>3, <2>6, SumAt
<1>2. g = [z \in SUBSET S |-> g[z]] /\ h = [z \in SUBSET S |-> h[z]] BY DEF IsSum
<1>3. \A z \in SUBSET S : g[z] = h[z] BY <1>1
<1>. QED BY <1>2, <1>3

\* A sum over the subsets of S is one over the subsets of any t in S.
LEMMA SumRestricted ==
    ASSUME NEW S, NEW f, NEW g, IsSum(g, f, S), NEW t \in SUBSET S
    PROVE  IsSum([z \in SUBSET t |-> g[z]], f, t)
<1> DEFINE r == [z \in SUBSET t |-> g[z]]
<1>1. \A z \in SUBSET t : z # {} => r[z \ {Pick(z)}] = g[z \ {Pick(z)}] OBVIOUS
<1>2. ASSUME NEW z \in SUBSET t PROVE g[z] = IF z = {} THEN 0 ELSE f[Pick(z)] + r[z \ {Pick(z)}]
  <2>1. g[z] = IF z = {} THEN 0 ELSE f[Pick(z)] + g[z \ {Pick(z)}] BY SumAt
  <2> HIDE DEF r
  <2>. QED BY <2>1, <1>1
<1>3. r = [z \in SUBSET t |-> IF z = {} THEN 0 ELSE f[Pick(z)] + r[z \ {Pick(z)}]] BY <1>2
<1>. QED BY <1>3 DEF IsSum

\* The function exists: a smallest set without one would get one from its subsets.
LEMMA SumExists ==
    ASSUME NEW S, IsFiniteSet(S), NEW f
    PROVE  IsSum(SumFcn(f, S), f, S)
<1> DEFINE T == {z \in SUBSET S : ~\E g : IsSum(g, f, z)}
<1>1. SUFFICES ASSUME T # {} PROVE FALSE BY DEF SumFcn
<1>2. PICK t \in T : \A u \in T : u \subseteq t => u = t
  <2>1. T \in SUBSET SUBSET S OBVIOUS
  <2> HIDE DEF T
  <2>. QED BY <1>1, <2>1, Smallest
<1> DEFINE G(z) == SumFcn(f, z)
           g == [z \in SUBSET t |-> IF z = {} THEN 0 ELSE f[Pick(z)] + G(z \ {Pick(z)})[z \ {Pick(z)}]]
<1>3. ASSUME NEW u \in SUBSET t, u # t PROVE IsSum(G(u), f, u)
  <2>1. u \in SUBSET S /\ u \notin T BY <1>2, <1>3
  <2>. QED BY <2>1 DEF SumFcn
<1>4. ASSUME NEW z \in SUBSET t, z # {} PROVE z \ {Pick(z)} \in SUBSET t /\ z \ {Pick(z)} # t
  BY <1>4 DEF Pick
<1>5. ASSUME NEW u \in SUBSET t, u # t PROVE g[u] = G(u)[u]
  <2>1. CASE u = {} BY <2>1, <1>3, <1>5, SumAt
  <2>2. CASE u # {}
    <3> DEFINE w == u \ {Pick(u)}
    <3>1. w \in SUBSET u /\ w \in SUBSET t /\ w # t BY <1>4, <2>2
    <3>2. IsSum(G(u), f, u) /\ IsSum(G(w), f, w) BY <3>1, <1>3, <1>5
    <3>3. IsSum([z \in SUBSET w |-> G(u)[z]], f, w)
      <4> HIDE DEF G
      <4>. QED BY <3>1, <3>2, SumRestricted
    <3>4. IsFiniteSet(w) BY FS_Subset, <1>2, <3>1
    <3>5. G(w) = [z \in SUBSET w |-> G(u)[z]]
      <4> HIDE DEF G, w
      <4>. QED BY <3>2, <3>3, <3>4, SumUnique
    <3>6. G(w)[w] = G(u)[w]
      <4> HIDE DEF G, w
      <4>. QED BY <3>5
    <3>7. G(u)[u] = f[Pick(u)] + G(u)[w]
      <4> HIDE DEF G
      <4>. QED BY <2>2, <3>2, SumAt
    <3>8. g[u] = f[Pick(u)] + G(w)[w] BY <2>2
    <3>. QED
      <4> HIDE DEF G, w, g
      <4>. QED BY <3>6, <3>7, <3>8
  <2>. QED BY <2>1, <2>2
<1>6. \A z \in SUBSET t : z # {} => G(z \ {Pick(z)})[z \ {Pick(z)}] = g[z \ {Pick(z)}]
  <2> HIDE DEF G, g
  <2>. QED BY <1>4, <1>5
<1>7. g = [z \in SUBSET t |-> IF z = {} THEN 0 ELSE f[Pick(z)] + g[z \ {Pick(z)}]]
  <2> HIDE DEF G
  <2>1. g = [z \in SUBSET t |-> IF z = {} THEN 0 ELSE f[Pick(z)] + G(z \ {Pick(z)})[z \ {Pick(z)}]] OBVIOUS
  <2> HIDE DEF g
  <2>. QED BY <2>1, <1>6
<1>8. IsSum(g, f, t)
  <2> HIDE DEF g
  <2>. QED BY <1>7 DEF IsSum
<1>. QED
  <2> HIDE DEF g
  <2>. QED BY <1>2, <1>8

\* The empty sum.
LEMMA SumNone ==
    ASSUME NEW f
    PROVE  SumOf(f, {}) = 0
<1>1. IsSum(SumFcn(f, {}), f, {}) BY SumExists, FS_EmptySet
<1>. QED BY <1>1, SumAt DEF SumOf

\* A sum is its first element and the sum of the rest.
LEMMA SumPicked ==
    ASSUME NEW S, IsFiniteSet(S), S # {}, NEW f
    PROVE  /\ Pick(S) \in S
           /\ SumOf(f, S) = f[Pick(S)] + SumOf(f, S \ {Pick(S)})
<1>1. Pick(S) \in S BY DEF Pick
<1> DEFINE w == S \ {Pick(S)}
<1>2. w \in SUBSET S /\ IsFiniteSet(w) BY FS_RemoveElement
<1>3. IsSum(SumFcn(f, S), f, S) /\ IsSum(SumFcn(f, w), f, w)
  <2> HIDE DEF w
  <2>. QED BY SumExists, <1>2
<1>4. SumFcn(f, w) = [z \in SUBSET w |-> SumFcn(f, S)[z]]
  <2> HIDE DEF w
  <2>1. IsSum([z \in SUBSET w |-> SumFcn(f, S)[z]], f, w) BY <1>2, <1>3, SumRestricted
  <2>. QED BY <2>1, <1>2, <1>3, SumUnique
<1>5. SumFcn(f, w)[w] = SumFcn(f, S)[w]
  <2> HIDE DEF w
  <2>. QED BY <1>4
<1>6. SumFcn(f, S)[S] = f[Pick(S)] + SumFcn(f, S)[w] BY <1>3, SumAt
<1>. QED BY <1>1, <1>5, <1>6 DEF SumOf

\* The sum does not depend on which element is taken first.
SumRemoved(f, S) == \A x \in S : SumOf(f, S) = f[x] + SumOf(f, S \ {x})

\* Equal terms have equal sums.
LEMMA SumSame ==
    ASSUME NEW S, IsFiniteSet(S), NEW f, NEW g, \A x \in S : f[x] = g[x]
    PROVE  SumOf(f, S) = SumOf(g, S)
<1> DEFINE T == {z \in SUBSET S : SumOf(f, z) # SumOf(g, z)}
<1>1. SUFFICES ASSUME T # {} PROVE FALSE OBVIOUS
<1>2. PICK t \in T : \A u \in T : u \subseteq t => u = t
  <2>1. T \in SUBSET SUBSET S OBVIOUS
  <2> HIDE DEF T
  <2>. QED BY <1>1, <2>1, Smallest
<1>3. t \in SUBSET S /\ IsFiniteSet(t) BY <1>2, FS_Subset
<1>4. t # {} BY <1>2, SumNone
<1>5. /\ Pick(t) \in t
      /\ SumOf(f, t) = f[Pick(t)] + SumOf(f, t \ {Pick(t)})
      /\ SumOf(g, t) = g[Pick(t)] + SumOf(g, t \ {Pick(t)})
  BY <1>3, <1>4, SumPicked
<1>6. SumOf(f, t \ {Pick(t)}) = SumOf(g, t \ {Pick(t)}) BY <1>2, <1>3, <1>5
<1>. QED BY <1>2, <1>3, <1>5, <1>6

\* A sum of integers is an integer.
LEMMA SumInt ==
    ASSUME NEW S, IsFiniteSet(S), NEW f, \A x \in S : f[x] \in Int
    PROVE  SumOf(f, S) \in Int
<1> DEFINE T == {z \in SUBSET S : SumOf(f, z) \notin Int}
<1>1. SUFFICES ASSUME T # {} PROVE FALSE OBVIOUS
<1>2. PICK t \in T : \A u \in T : u \subseteq t => u = t
  <2>1. T \in SUBSET SUBSET S OBVIOUS
  <2> HIDE DEF T
  <2>. QED BY <1>1, <2>1, Smallest
<1>3. t \in SUBSET S /\ IsFiniteSet(t) BY <1>2, FS_Subset
<1>4. t # {} BY <1>2, SumNone
<1>5. Pick(t) \in t /\ SumOf(f, t) = f[Pick(t)] + SumOf(f, t \ {Pick(t)}) BY <1>3, <1>4, SumPicked
<1>6. SumOf(f, t \ {Pick(t)}) \in Int BY <1>2, <1>3, <1>5
<1>. QED BY <1>2, <1>3, <1>5, <1>6

\* Any element may be taken out of a sum.
LEMMA SumWithout ==
    ASSUME NEW S, IsFiniteSet(S), NEW f, \A x \in S : f[x] \in Int, NEW y \in S
    PROVE  SumOf(f, S) = f[y] + SumOf(f, S \ {y})
<1> DEFINE T == {z \in SUBSET S : ~SumRemoved(f, z)}
<1>0. SUFFICES ASSUME T # {} PROVE FALSE BY DEF SumRemoved
<1>1. PICK t \in T : \A u \in T : u \subseteq t => u = t
  <2>1. T \in SUBSET SUBSET S OBVIOUS
  <2> HIDE DEF T
  <2>. QED BY <1>0, <2>1, Smallest
<1>2. t \in SUBSET S /\ IsFiniteSet(t) /\ ~SumRemoved(f, t) BY <1>1, FS_Subset
<1>3. PICK x \in t : SumOf(f, t) # f[x] + SumOf(f, t \ {x}) BY <1>2 DEF SumRemoved
<1>4. Pick(t) \in t /\ SumOf(f, t) = f[Pick(t)] + SumOf(f, t \ {Pick(t)}) BY <1>2, <1>3, SumPicked
<1>5. x # Pick(t) BY <1>3, <1>4
<1> DEFINE p == Pick(t)
           w == (t \ {p}) \ {x}
<1> HIDE DEF p
<1>6. p \in t /\ p # x /\ SumOf(f, t) = f[p] + SumOf(f, t \ {p}) BY <1>4, <1>5 DEF p
<1>7. SumRemoved(f, t \ {p}) /\ SumRemoved(f, t \ {x}) BY <1>1, <1>2, <1>6, <1>3
<1>8. SumOf(f, t \ {p}) = f[x] + SumOf(f, w) BY <1>7, <1>6, <1>3 DEF SumRemoved
<1>9. SumOf(f, t \ {x}) = f[p] + SumOf(f, w)
  <2>1. (t \ {x}) \ {p} = w OBVIOUS
  <2>. QED BY <2>1, <1>7, <1>6, <1>3 DEF SumRemoved
<1>10. SumOf(f, w) \in Int /\ f[x] \in Int /\ f[p] \in Int
  <2>1. IsFiniteSet(w) /\ \A y_1 \in w : f[y_1] \in Int BY <1>2, FS_Subset
  <2> HIDE DEF w
  <2>. QED BY <2>1, SumInt, <1>2, <1>3, <1>6
<1>. QED BY <1>3, <1>6, <1>8, <1>9, <1>10

\* A sum of zeros.
LEMMA SumZero ==
    ASSUME NEW S, IsFiniteSet(S), NEW f, \A x \in S : f[x] = 0
    PROVE  SumOf(f, S) = 0
<1> DEFINE T == {z \in SUBSET S : SumOf(f, z) # 0}
<1>1. SUFFICES ASSUME T # {} PROVE FALSE OBVIOUS
<1>2. PICK t \in T : \A u \in T : u \subseteq t => u = t
  <2>1. T \in SUBSET SUBSET S OBVIOUS
  <2> HIDE DEF T
  <2>. QED BY <1>1, <2>1, Smallest
<1>3. t \in SUBSET S /\ IsFiniteSet(t) BY <1>2, FS_Subset
<1>4. t # {} BY <1>2, SumNone
<1>5. Pick(t) \in t /\ SumOf(f, t) = f[Pick(t)] + SumOf(f, t \ {Pick(t)}) BY <1>3, <1>4, SumPicked
<1>. QED BY <1>2, <1>3, <1>5

\* The sum over a disjoint union.
LEMMA SumUnion ==
    ASSUME NEW A, NEW B, IsFiniteSet(A), IsFiniteSet(B), A \cap B = {}, NEW f,
           \A x \in A \cup B : f[x] \in Int
    PROVE  SumOf(f, A \cup B) = SumOf(f, A) + SumOf(f, B)
<1> DEFINE T == {z \in SUBSET A : SumOf(f, z \cup B) # SumOf(f, z) + SumOf(f, B)}
<1>1. SUFFICES ASSUME T # {} PROVE FALSE OBVIOUS
<1>2. PICK t \in T : \A u \in T : u \subseteq t => u = t
  <2>1. T \in SUBSET SUBSET A OBVIOUS
  <2> HIDE DEF T
  <2>. QED BY <1>1, <2>1, Smallest
<1>3. t \in SUBSET A /\ IsFiniteSet(t) BY <1>2, FS_Subset
<1>4. IsFiniteSet(t \cup B) BY <1>3, FS_Union
<1>5. SumOf(f, B) \in Int BY SumInt
<1>6. ASSUME t = {} PROVE FALSE
  <2>1. SumOf(f, t) = 0 BY <1>6, SumNone
  <2>2. SumOf(f, t \cup B) = SumOf(f, B)
    <3>1. t \cup B = B BY <1>6
    <3>. QED BY <3>1, Zenon
  <2>3. SumOf(f, t \cup B) # SumOf(f, t) + SumOf(f, B) BY <1>2
  <2>. QED BY <2>1, <2>2, <2>3, <1>5
<1>7. PICK x : x \in t BY <1>6
<1>8. SumOf(f, t) = f[x] + SumOf(f, t \ {x}) BY <1>3, <1>7, SumWithout
<1>9. SumOf(f, t \cup B) = f[x] + SumOf(f, (t \cup B) \ {x}) BY <1>3, <1>4, <1>7, SumWithout
<1>10. SumOf(f, t \cup B) = f[x] + SumOf(f, (t \ {x}) \cup B)
  <2>1. (t \cup B) \ {x} = (t \ {x}) \cup B BY <1>3, <1>7
  <2>. QED BY <2>1, <1>9
<1>11. SumOf(f, (t \ {x}) \cup B) = SumOf(f, t \ {x}) + SumOf(f, B) BY <1>2, <1>3, <1>7
<1>12. SumOf(f, t \ {x}) \in Int
  <2>1. IsFiniteSet(t \ {x}) BY <1>3, FS_RemoveElement
  <2>. QED BY <2>1, <1>3, SumInt
<1>13. f[x] \in Int BY <1>3, <1>7
<1>14. SumOf(f, t \cup B) = SumOf(f, t) + SumOf(f, B)
  <2> HIDE DEF T
  <2>. QED BY <1>5, <1>8, <1>10, <1>11, <1>12, <1>13
<1>. QED BY <1>2, <1>14

\* The sum of the sums of two terms.
LEMMA SumPlus ==
    ASSUME NEW S, IsFiniteSet(S), NEW f, NEW g, NEW h,
           \A x \in S : f[x] \in Int /\ g[x] \in Int /\ h[x] = f[x] + g[x]
    PROVE  SumOf(h, S) = SumOf(f, S) + SumOf(g, S)
<1> DEFINE T == {z \in SUBSET S : SumOf(h, z) # SumOf(f, z) + SumOf(g, z)}
<1>1. SUFFICES ASSUME T # {} PROVE FALSE OBVIOUS
<1>2. PICK t \in T : \A u \in T : u \subseteq t => u = t
  <2>1. T \in SUBSET SUBSET S OBVIOUS
  <2> HIDE DEF T
  <2>. QED BY <1>1, <2>1, Smallest
<1>3. t \in SUBSET S /\ IsFiniteSet(t) BY <1>2, FS_Subset
<1>4. ASSUME t = {} PROVE FALSE
  <2>1. SumOf(f, t) = 0 /\ SumOf(g, t) = 0 /\ SumOf(h, t) = 0 BY <1>4, SumNone
  <2>2. SumOf(h, t) # SumOf(f, t) + SumOf(g, t) BY <1>2
  <2>. QED BY <2>1, <2>2
<1> DEFINE w == t \ {Pick(t)}
<1>5. /\ Pick(t) \in t
      /\ SumOf(f, t) = f[Pick(t)] + SumOf(f, w)
      /\ SumOf(g, t) = g[Pick(t)] + SumOf(g, w)
      /\ SumOf(h, t) = h[Pick(t)] + SumOf(h, w)
  BY <1>3, <1>4, SumPicked
<1>6. SumOf(h, w) = SumOf(f, w) + SumOf(g, w) BY <1>2, <1>3, <1>5
<1>7. IsFiniteSet(w) /\ w \subseteq S BY <1>3, FS_RemoveElement
<1>8. SumOf(f, w) \in Int /\ SumOf(g, w) \in Int
  <2> HIDE DEF w
  <2>. QED BY <1>7, SumInt
<1>9. h[Pick(t)] = f[Pick(t)] + g[Pick(t)] /\ f[Pick(t)] \in Int /\ g[Pick(t)] \in Int BY <1>3, <1>5
<1> HIDE DEF w
<1>. QED BY <1>2, <1>5, <1>6, <1>8, <1>9

\* The sum of the differences of two terms.
LEMMA SumMinus ==
    ASSUME NEW S, IsFiniteSet(S), NEW f, NEW g, NEW h,
           \A x \in S : f[x] \in Int /\ g[x] \in Int /\ h[x] = f[x] - g[x]
    PROVE  SumOf(h, S) = SumOf(f, S) - SumOf(g, S)
<1>1. \A x \in S : h[x] \in Int /\ g[x] \in Int /\ f[x] = h[x] + g[x] OBVIOUS
<1>2. SumOf(f, S) = SumOf(h, S) + SumOf(g, S) BY <1>1, SumPlus
<1>3. SumOf(h, S) \in Int /\ SumOf(g, S) \in Int BY <1>1, SumInt
<1>. QED BY <1>2, <1>3

\* F is the sum of f over each of the parts P, which are disjoint.
SumsOfParts(F, f, P, I) ==
    /\ IsFiniteSet(I)
    /\ \A i \in I : IsFiniteSet(P[i]) /\ F[i] = SumOf(f, P[i]) /\ \A x \in P[i] : f[x] \in Int
    /\ \A i, j \in I : i # j => P[i] \cap P[j] = {}

\* A sum over disjoint parts is the sum of the sums over each.
LEMMA SumByParts ==
    ASSUME NEW I, NEW P, NEW f, NEW F, SumsOfParts(F, f, P, I)
    PROVE  /\ IsFiniteSet(UNION {P[i] : i \in I})
           /\ SumOf(f, UNION {P[i] : i \in I}) = SumOf(F, I)
<1>0. /\ IsFiniteSet(I)
      /\ \A i \in I : IsFiniteSet(P[i]) /\ F[i] = SumOf(f, P[i]) /\ \A x \in P[i] : f[x] \in Int
      /\ \A i, j \in I : i # j => P[i] \cap P[j] = {}
  BY DEF SumsOfParts
<1> DEFINE U(J) == UNION {P[i] : i \in J}
           T == {J \in SUBSET I : ~(IsFiniteSet(U(J)) /\ SumOf(f, U(J)) = SumOf(F, J))}
<1>1. SUFFICES ASSUME T # {} PROVE FALSE OBVIOUS
<1>2. PICK J \in T : \A u \in T : u \subseteq J => u = J
  <2>1. T \in SUBSET SUBSET I OBVIOUS
  <2> HIDE DEF T
  <2>. QED BY <1>0, <1>1, <2>1, Smallest
<1>3. J \in SUBSET I /\ IsFiniteSet(J) BY <1>0, <1>2, FS_Subset
<1>4. J # {}
  <2>1. U({}) = {} OBVIOUS
  <2>. QED BY <2>1, <1>2, SumNone, FS_EmptySet
<1>5. PICK i : i \in J BY <1>4
<1> DEFINE K == J \ {i}
<1>6. K \in SUBSET I /\ K \notin T BY <1>2, <1>3, <1>5
<1>7. IsFiniteSet(U(K)) /\ SumOf(f, U(K)) = SumOf(F, K) BY <1>6
<1>8. U(J) = P[i] \cup U(K) BY <1>5
<1>9. P[i] \cap U(K) = {} BY <1>0, <1>3, <1>5
<1>10. IsFiniteSet(U(J))
  <2>1. IsFiniteSet(P[i]) BY <1>0, <1>3, <1>5
  <2>2. IsFiniteSet(P[i] \cup U(K))
    <3> HIDE DEF U, K, T
    <3>. QED BY <2>1, <1>7, FS_Union
  <2>. QED BY <1>8, <2>2
<1>11. \A x \in P[i] \cup U(K) : f[x] \in Int BY <1>0, <1>3, <1>5, <1>6
<1>12. SumOf(f, U(J)) = SumOf(f, P[i]) + SumOf(f, U(K))
  <2> HIDE DEF U, K, T
  <2>1. IsFiniteSet(P[i]) BY <1>0, <1>3, <1>5
  <2>. QED BY <2>1, <1>7, <1>8, <1>9, <1>11, SumUnion
<1>13. SumOf(F, J) = F[i] + SumOf(F, K)
  <2>1. \A j \in J : F[j] \in Int
    <3> HIDE DEF T, U, K
    <3>. QED BY <1>0, <1>3, SumInt
  <2> HIDE DEF T, U
  <2>. QED BY <1>3, <1>5, <2>1, SumWithout
<1>14. F[i] = SumOf(f, P[i]) BY <1>0, <1>3, <1>5
<1>. QED
  <2>1. SumOf(f, U(J)) = SumOf(F, J)
    <3> HIDE DEF T, U, K
    <3>. QED BY <1>7, <1>12, <1>13, <1>14
  <2> HIDE DEF U, K
  <2>. QED BY <2>1, <1>10, <1>2

-----------------------------------------------------------------------------
(***************************************************************************)
(* Sums of leaves.                                                         *)
(***************************************************************************)

\* The leaves of the items in ns: fields of well formed structs.
FieldSet(ns) == [n : ns, in : STRING, m : Seq(Nat), tag : STRING, v : Int]
\* P has a part for every i of I, and no leaf is in two of them.
Parted(P, I) ==
    /\ IsFiniteSet(I) /\ \A i \in I : IsFiniteSet(P[i])
    /\ \A i, j \in I : i # j => P[i] \cap P[j] = {}
    /\ \A i \in I : \A l \in P[i] : l.v \in Int
\* The values of leaves, as the function that is summed.
ValueOf(leaves) == [l \in leaves |-> l.v]

\* The sum of leaves is the sum of their values.
LEMMA SumOfLeaves ==
    ASSUME NEW S, IsFiniteSet(S)
    PROVE  Sum(S) = SumOf(ValueOf(S), S)
<1> DEFINE f == ValueOf(S)
           R(g) == g = [x \in SUBSET S |-> IF x = {} THEN 0 ELSE Pick(x).v + g[x \ {Pick(x)}]]
           iter == CHOOSE g : R(g)
<1>1. Sum(S) = iter[S] BY DEF Sum, MapThenSumSet, MapThenFoldSet, Pick
<1>2. IsSum(SumFcn(f, S), f, S)
  <2> HIDE DEF f
  <2>. QED BY SumExists
<1>3. \A x \in SUBSET S : x # {} => f[Pick(x)] = Pick(x).v BY DEF Pick, ValueOf
<1>4. \A g : IsSum(g, f, S) <=> R(g)
  <2> TAKE g
  <2> HIDE DEF f, iter
  <2>1. [x \in SUBSET S |-> IF x = {} THEN 0 ELSE Pick(x).v + g[x \ {Pick(x)}]]
        = [x \in SUBSET S |-> IF x = {} THEN 0 ELSE f[Pick(x)] + g[x \ {Pick(x)}]] BY <1>3
  <2>. QED BY <2>1 DEF IsSum
<1>5. R(iter)
  <2> HIDE DEF R, f
  <2>1. R(SumFcn(f, S)) BY <1>2, <1>4
  <2>. QED BY <2>1
<1>6. IsSum(iter, f, S)
  <2> HIDE DEF R, f, iter
  <2>. QED BY <1>4, <1>5
<1>7. iter = SumFcn(f, S)
  <2> HIDE DEF R, f, iter
  <2>. QED BY <1>2, <1>6, SumUnique
<1>. QED
  <2> HIDE DEF R, f, iter
  <2>1. Sum(S) = SumOf(f, S) BY <1>1, <1>7 DEF SumOf
  <2>. QED BY <2>1 DEF f

\* No leaves add up to nothing.
LEMMA NoLeaves == Sum({}) = 0
BY SumOfLeaves, SumNone, FS_EmptySet

\* A leaf adds up to its value.
LEMMA OneLeaf ==
    ASSUME NEW l, l.v \in Int
    PROVE  Sum({l}) = l.v
<1> DEFINE f == ValueOf({l})
<1>1. IsFiniteSet({l}) BY FS_Singleton
<1>2. f[l] = l.v BY DEF ValueOf
<1> HIDE DEF f
<1>3. SumOf(f, {l}) = f[l] + SumOf(f, {l} \ {l})
  <2>1. \A x \in {l} : f[x] \in Int BY <1>2
  <2>. QED BY <1>1, <2>1, SumWithout
<1>4. SumOf(f, {l} \ {l}) = 0
  <2>1. {l} \ {l} = {} OBVIOUS
  <2>. QED BY <2>1, SumNone
<1>5. Sum({l}) = SumOf(f, {l}) BY <1>1, SumOfLeaves DEF f
<1>. QED BY <1>2, <1>3, <1>4, <1>5

\* Leaves of integers add up to an integer.
LEMMA LeavesInt ==
    ASSUME NEW S, IsFiniteSet(S), \A l \in S : l.v \in Int
    PROVE  Sum(S) \in Int
<1> DEFINE f == ValueOf(S)
<1>1. \A l \in S : f[l] \in Int BY DEF ValueOf
<1>2. Sum(S) = SumOf(f, S) BY SumOfLeaves
<1> HIDE DEF f
<1>. QED BY <1>1, <1>2, SumInt

\* Leaves of zeros add up to zero.
LEMMA LeavesZero ==
    ASSUME NEW S, IsFiniteSet(S), \A l \in S : l.v = 0
    PROVE  Sum(S) = 0
<1> DEFINE f == ValueOf(S)
<1>1. \A l \in S : f[l] = 0 BY DEF ValueOf
<1>2. Sum(S) = SumOf(f, S) BY SumOfLeaves
<1> HIDE DEF f
<1>. QED BY <1>1, <1>2, SumZero

\* A part of the leaves is summed by the values of the whole.
LEMMA LeavesWithin ==
    ASSUME NEW S, NEW T \in SUBSET S, IsFiniteSet(T)
    PROVE  Sum(T) = SumOf(ValueOf(S), T)
<1> DEFINE f == ValueOf(S)
           g == ValueOf(T)
<1>1. \A l \in T : f[l] = g[l] BY DEF ValueOf
<1>2. Sum(T) = SumOf(g, T) BY SumOfLeaves
<1>3. SumOf(f, T) = SumOf(g, T)
  <2> HIDE DEF f, g
  <2>. QED BY <1>1, SumSame
<1>. QED BY <1>2, <1>3

\* The sum of two disjoint sets of leaves.
LEMMA LeavesUnion ==
    ASSUME NEW A, NEW B, IsFiniteSet(A), IsFiniteSet(B), A \cap B = {},
           \A l \in A \cup B : l.v \in Int
    PROVE  Sum(A \cup B) = Sum(A) + Sum(B)
<1> DEFINE U == A \cup B
           f == ValueOf(U)
<1>1. IsFiniteSet(U) BY FS_Union
<1>2. Sum(A) = SumOf(f, A) /\ Sum(B) = SumOf(f, B) /\ Sum(U) = SumOf(f, U)
  <2>1. A \in SUBSET U /\ B \in SUBSET U /\ U \in SUBSET U OBVIOUS
  <2> HIDE DEF U
  <2>. QED BY <1>1, <2>1, LeavesWithin
<1>3. \A l \in A \cup B : f[l] \in Int BY DEF ValueOf
<1>4. SumOf(f, A \cup B) = SumOf(f, A) + SumOf(f, B)
  <2> HIDE DEF f
  <2>. QED BY <1>3, SumUnion
<1>. QED BY <1>2, <1>4

\* The sum of what is in disjoint parts is the sum of the parts' sums.
LEMMA LeavesByParts ==
    ASSUME NEW I, NEW P, Parted(P, I)
    PROVE  /\ IsFiniteSet(UNION {P[i] : i \in I})
           /\ Sum(UNION {P[i] : i \in I}) = SumOf([i \in I |-> Sum(P[i])], I)
<1> DEFINE U == UNION {P[i] : i \in I}
           f == ValueOf(U)
           F == [i \in I |-> Sum(P[i])]
<1>0. /\ IsFiniteSet(I) /\ \A i \in I : IsFiniteSet(P[i])
      /\ \A i, j \in I : i # j => P[i] \cap P[j] = {}
      /\ \A i \in I : \A l \in P[i] : l.v \in Int
  BY DEF Parted
<1>1. \A i \in I : P[i] \in SUBSET U OBVIOUS
<1>2. \A i \in I : F[i] = SumOf(f, P[i])
  <2> HIDE DEF U
  <2>. QED BY <1>0, <1>1, LeavesWithin
<1>3. \A i \in I : \A l \in P[i] : f[l] \in Int BY <1>0 DEF ValueOf
<1>4. IsFiniteSet(U) /\ SumOf(f, U) = SumOf(F, I)
  <2> HIDE DEF f, F
  <2>1. /\ IsFiniteSet(UNION {P[i] : i \in I})
        /\ SumOf(f, UNION {P[i] : i \in I}) = SumOf(F, I)
    <3>1. SumsOfParts(F, f, P, I) BY <1>0, <1>2, <1>3 DEF SumsOfParts
    <3>. QED BY <3>1, SumByParts
  <2>. QED BY <2>1
<1>5. Sum(U) = SumOf(f, U)
  <2> HIDE DEF U
  <2>. QED BY <1>4, SumOfLeaves
<1>. QED BY <1>4, <1>5

-----------------------------------------------------------------------------
(***************************************************************************)
(* What the builders of an item write.                                     *)
(***************************************************************************)

\* Groups whose amounts are taken, none of them a list.
Single == {"ide", "emit", "enderEmit", "prod", "ICMS", "det", "total"}
\* A set of leaves as the builder holds it: of one item, or of the document.
Holds(h, n) ==
    /\ IsFiniteSet(h)
    /\ h \subseteq FieldSet({n})
    /\ \A l \in h : l.in \in Single => l.m = <<>>
    /\ \A l, o \in h : l.in = o.in /\ l.tag = o.tag /\ l.m = o.m => l = o

\* The value of l is that of a field of h.
Copied(l, h, in, tag) == \E o \in h : o.in = in /\ o.tag = tag /\ o.v = l.v

\* A value the program writes for an item that the item does not have.
ByProgram(l, h) ==
    \/ l.v = 0 \/ <<l.in, l.tag, l.v>> \in Codes
    \/ l.in = "ICMS" /\ l.tag = "vBC" /\ Copied(l, h, "prod", "vProd")
    \/ l.in = "prod" /\ l.tag = "uTrib" /\ Copied(l, h, "prod", "uCom")
    \/ l.in = "prod" /\ l.tag = "qTrib" /\ Copied(l, h, "prod", "qCom")
    \/ l.in = "prod" /\ l.tag = "vUnTrib" /\ Copied(l, h, "prod", "vUnCom")
    \/ l.in = "det" /\ l.tag = "vItem"

\* The leaf l of item n is one of the item's, or a value of the program.
Fair(l, h, n) == l \in h \/ (l.n = n /\ l.v \in Int /\ ByProgram(l, h))
\* The name of an item the caller numbered 1, of an NFC-e without fiscal value.
NamedByProgram(l, c, h, n) ==
    /\ l.n = n /\ l.v = Notice /\ <<l.in, l.tag>> = <<"prod", "xProd">>
    /\ c.homologation /\ c.model = 65 /\ Value(h, "det", "nItem", 0) = 1

\* A code of the program in the place of a field that is not given is fair.
LEMMA CodeFair ==
    ASSUME NEW h, NEW n, NEW in, NEW tag, NEW v \in Int, <<in, tag, v>> \in Codes,
           NEW l \in WriteOr(h, n, in, tag, v)
    PROVE  Fair(l, h, n)
BY DEF WriteOr, Write, Put, Leaf, Fair, ByProgram

\* The amount under a tag is an integer.
LEMMA AmountInt ==
    ASSUME NEW h, NEW n, Holds(h, n), NEW in, NEW tag
    PROVE  Amount(h, in, tag) \in Int
<1>1. IsFiniteSet(Write(h, in, {tag}))
  <2>1. Write(h, in, {tag}) \in SUBSET h BY DEF Write
  <2>. QED BY <2>1, FS_Subset DEF Holds
<1>2. \A l \in Write(h, in, {tag}) : l.v \in Int BY DEF Write, Holds, FieldSet
<1>. QED BY <1>1, <1>2, LeavesInt DEF Amount

\* A field of a group that does not repeat has one value, or none: its amount is zero.
LEMMA AmountOfSingle ==
    ASSUME NEW h, NEW n, Holds(h, n), NEW in \in Single, NEW tag
    PROVE  \/ Amount(h, in, tag) = 0
           \/ \E o \in h : o.in = in /\ o.tag = tag /\ o.v = Amount(h, in, tag)
<1>1. CASE Write(h, in, {tag}) = {} BY <1>1, NoLeaves DEF Amount
<1>2. ASSUME NEW o \in Write(h, in, {tag})
      PROVE  o \in h /\ o.in = in /\ o.tag = tag /\ o.v = Amount(h, in, tag)
  <2>1. o \in h /\ o.in = in /\ o.tag = tag BY DEF Write
  <2>2. Write(h, in, {tag}) = {o}
    <3>1. \A l \in Write(h, in, {tag}) : l \in h /\ l.in = in /\ l.tag = tag BY DEF Write
    <3>2. \A l \in Write(h, in, {tag}) : l = o BY <3>1, <2>1 DEF Holds
    <3>. QED BY <3>2
  <2>3. o.v \in Int BY <2>1 DEF Holds, FieldSet
  <2>. QED BY <2>1, <2>2, <2>3, OneLeaf DEF Amount
<1>. QED BY <1>1, <1>2

\* A default of zero is fair.
LEMMA OrZeroFair ==
    ASSUME NEW h, NEW n, NEW in, NEW tags, NEW l \in OrZero(h, n, in, tags)
    PROVE  Fair(l, h, n)
BY DEF OrZero, WriteOr, Write, Put, Leaf, Fair, ByProgram

\* PIS and COFINS, of both kinds, are fair.
LEMMA ContributionFair ==
    ASSUME NEW h, NEW n, NEW tax, NEW l, NEW sums,
           l \in calculate_contribution_tax(h, n, tax) \cup calculate_contribution_tax_st(h, n, tax, sums)
    PROVE  Fair(l, h, n)
<1>1. \A in, tags : l \in OrZero(h, n, in, tags) => Fair(l, h, n) BY OrZeroFair
<1>2. \A in, tags : l \in Write(h, in, tags) => Fair(l, h, n) BY DEF Write, Fair
<1>3. l \in Base(h, n, tax) => Fair(l, h, n) BY <1>1 DEF Base
<1>4. l \in calculate_contribution_tax_st(h, n, tax, sums) => Fair(l, h, n)
  BY <1>2, <1>3 DEF calculate_contribution_tax_st
<1>5. l \in calculate_contribution_tax(h, n, tax) => Fair(l, h, n)
  BY <1>1, <1>2, <1>3 DEF calculate_contribution_tax, build_contribution_outr_fields
<1>. QED BY <1>4, <1>5

\* IPI, II, ISSQN and IS are fair.
LEMMA OtherTaxesFair ==
    ASSUME NEW h, NEW n, NEW l
    PROVE  /\ l \in build_ipi_xml(h, n) => Fair(l, h, n)
           /\ l \in build_ii_xml(h, n) => Fair(l, h, n)
           /\ l \in build_issqn_xml(h) => Fair(l, h, n)
           /\ l \in build_is_xml(h) => Fair(l, h, n)
<1>1. \A in, tags : l \in OrZero(h, n, in, tags) => Fair(l, h, n) BY OrZeroFair
<1>2. \A in, tags : l \in Write(h, in, tags) => Fair(l, h, n) BY DEF Write, Fair
<1>3. l \in WriteOr(h, n, "IPI", "cEnq", 999) => Fair(l, h, n)
  <2>1. <<"IPI", "cEnq", 999>> \in Codes BY DEF Codes
  <2>. QED BY <2>1, CodeFair
<1>. QED BY <1>1, <1>2, <1>3 DEF build_ipi_xml, build_ii_xml, build_issqn_xml, build_is_xml

\* IBS and CBS are fair.
LEMMA IbsCbsFair ==
    ASSUME NEW h, NEW n, NEW l \in build_ibs_cbs_xml(h, n)
    PROVE  Fair(l, h, n)
<1>1. \A in, tags : l \in OrZero(h, n, in, tags) => Fair(l, h, n) BY OrZeroFair
<1>2. \A in, tags : l \in Write(h, in, tags) => Fair(l, h, n) BY DEF Write, Fair
<1>3. l \in build_g_ibs_cbs(h, n) => Fair(l, h, n)
  BY <1>1, <1>2 DEF build_g_ibs_cbs, build_g_ibs_uf, build_g_ibs_mun, build_g_cbs, Adjustments,
                    build_g_dif, build_g_dev_trib, build_g_red
<1>4. l \in build_g_trib_regular(h) \cup build_g_trib_compra_gov(h) \cup build_g_ibs_cbs_mono(h) => Fair(l, h, n)
  BY <1>2 DEF build_g_trib_regular, build_g_trib_compra_gov, build_g_ibs_cbs_mono
<1>5. l \in build_g_transf_cred(h) \cup build_g_cred_pres_ibs_zfm(h) \cup build_g_ajuste_compet(h)
           \cup build_g_estorno_cred(h) \cup build_g_cred_pres_oper(h) => Fair(l, h, n)
  BY <1>2 DEF build_g_transf_cred, build_g_cred_pres_ibs_zfm, build_g_ajuste_compet, build_g_estorno_cred,
              build_g_cred_pres_oper, build_cred_pres_sub
<1>. QED BY <1>2, <1>3, <1>4, <1>5 DEF build_ibs_cbs_xml

\* A variant of ICMS is fair, and all of it is ICMS.
LEMMA VariantFair ==
    ASSUME NEW h, NEW n, Holds(h, n), NEW simples, NEW l \in build_icms_variant(simples, h, n)
    PROVE  Fair(l, h, n) /\ l.in = "ICMS"
<1> DEFINE code == Code(simples, h)
<1>1. l.in = "ICMS" BY DEF build_icms_variant, WriteOr, Write, Put, Leaf
<1>2. \A in, tags : l \in Write(h, in, tags) => Fair(l, h, n) BY DEF Write, Fair
<1>3. l \in Put(n, "ICMS", "CST", code) => Fair(l, h, n)
  <2>1. CASE Has(h, "ICMS", "CST")
    <3> DEFINE o == CHOOSE o \in h : o.in = "ICMS" /\ o.tag = "CST"
    <3>1. o \in h /\ o.in = "ICMS" /\ o.tag = "CST" BY <2>1 DEF Has
    <3>2. o.m = <<>> /\ o.n = n /\ o = [n |-> o.n, in |-> o.in, m |-> o.m, tag |-> o.tag, v |-> o.v] /\ o.v \in Int
      BY <3>1 DEF Holds, FieldSet, Single
    <3>3. o = Leaf(n, "ICMS", <<>>, "CST", o.v) BY <3>1, <3>2 DEF Leaf
    <3>4. Value(h, "ICMS", "CST", 0) = o.v BY <2>1 DEF Value
    <3>5. code = o.v \/ code = 102
      <4> HIDE DEF o
      <4>. QED BY <3>4 DEF Code
    <3>6. ASSUME l \in Put(n, "ICMS", "CST", code) PROVE Fair(l, h, n)
      <4> HIDE DEF o, code
      <4>1. l = Leaf(n, "ICMS", <<>>, "CST", code) BY <3>6 DEF Put
      <4>2. CASE code = o.v BY <4>1, <4>2, <3>3, <3>1 DEF Fair
      <4>3. CASE code = 102
        <5>1. <<"ICMS", "CST", 102>> \in Codes BY DEF Codes
        <5>. QED BY <4>1, <4>3, <5>1 DEF Fair, ByProgram, Leaf
      <4>. QED BY <4>2, <4>3, <3>5
    <3>. QED BY <3>6
  <2>2. CASE ~Has(h, "ICMS", "CST")
    <3>1. code \in {0, 102} BY <2>2 DEF Code, Value
    <3>2. <<"ICMS", "CST", 102>> \in Codes BY DEF Codes
    <3> HIDE DEF code
    <3>. QED BY <3>1, <3>2 DEF Put, Leaf, Fair, ByProgram
  <2>. QED BY <2>1, <2>2
<1>4. /\ l \in WriteOr(h, n, "ICMS", "orig", 0) => Fair(l, h, n)
      /\ l \in WriteOr(h, n, "ICMS", "modBC", 3) => Fair(l, h, n)
      /\ l \in WriteOr(h, n, "ICMS", "pRedBC", 0) => Fair(l, h, n)
  <2>1. <<"ICMS", "modBC", 3>> \in Codes BY DEF Codes
  <2>2. l \in WriteOr(h, n, "ICMS", "modBC", 3) => Fair(l, h, n) BY <2>1, CodeFair
  <2>. QED BY <2>2 DEF WriteOr, Write, Put, Leaf, Fair, ByProgram
<1>5. l \in Put(n, "ICMS", "vBC", Amount(h, "prod", "vProd")) => Fair(l, h, n)
  <2> DEFINE a == Amount(h, "prod", "vProd")
  <2>1. a = 0 \/ \E o \in h : o.in = "prod" /\ o.tag = "vProd" /\ o.v = a
    BY AmountOfSingle DEF Single
  <2>2. a \in Int BY AmountInt
  <2> HIDE DEF a
  <2>. QED BY <2>1, <2>2 DEF Put, Leaf, Fair, ByProgram, Copied, a
<1>. QED BY <1>1, <1>2, <1>3, <1>4, <1>5 DEF build_icms_variant

\* The taxable unit, quantity and price are the item's, or the commercial ones.
LEMMA TaxableFair ==
    ASSUME NEW h, NEW n, Holds(h, n), NEW l \in Taxable(h, n)
    PROVE  Fair(l, h, n)
<1> DEFINE commercial == [uTrib |-> "uCom", qTrib |-> "qCom", vUnTrib |-> "vUnCom"]
<1>1. PICK tag \in DOMAIN commercial : l \in WriteOr(h, n, "prod", tag, Amount(h, "prod", commercial[tag]))
  BY DEF Taxable
<1>2. ASSUME NEW from, l \in WriteOr(h, n, "prod", tag, Amount(h, "prod", from))
      PROVE  l \in h \/ (/\ l.n = n /\ l.v \in Int /\ l.in = "prod" /\ l.tag = tag
                         /\ l.v = 0 \/ Copied(l, h, "prod", from))
  <2> DEFINE a == Amount(h, "prod", from)
  <2>1. a = 0 \/ \E o \in h : o.in = "prod" /\ o.tag = from /\ o.v = a
    BY AmountOfSingle DEF Single
  <2>2. a \in Int BY AmountInt
  <2>3. l \in WriteOr(h, n, "prod", tag, a) BY <1>2
  <2> HIDE DEF a
  <2>. QED BY <2>1, <2>2, <2>3 DEF WriteOr, Write, Put, Leaf, Copied
<1>3. \/ tag = "uTrib" /\ commercial[tag] = "uCom"
      \/ tag = "qTrib" /\ commercial[tag] = "qCom"
      \/ tag = "vUnTrib" /\ commercial[tag] = "vUnCom"
  OBVIOUS
<1> HIDE DEF commercial
<1>. QED BY <1>1, <1>2, <1>3 DEF Fair, ByProgram

\* The product is fair, but for the name the program may give it.
LEMMA ProductFair ==
    ASSUME NEW c, NEW h, NEW n, Holds(h, n), NEW l \in build_prod(c, h, n)
    PROVE  Fair(l, h, n) \/ NamedByProgram(l, c, h, n)
<1>1. \A in, tags : l \in Write(h, in, tags) => Fair(l, h, n) BY DEF Write, Fair
<1>2. \A in, tags, limit : l \in FirstOf(h, in, tags, limit) => Fair(l, h, n) BY <1>1 DEF FirstOf
<1>3. l \in Taxable(h, n) => Fair(l, h, n) BY TaxableFair
<1>4. l \in Description(c, h, n) => Fair(l, h, n) \/ NamedByProgram(l, c, h, n)
  BY DEF Description, Write, Put, Leaf, Fair, NamedByProgram
<1>5. /\ l \in WriteOr(h, n, "prod", "cEAN", Supplied) => Fair(l, h, n)
      /\ l \in WriteOr(h, n, "prod", "cEANTrib", Supplied) => Fair(l, h, n)
      /\ l \in WriteOr(h, n, "prod", "indTot", 1) => Fair(l, h, n)
  <2>1. /\ <<"prod", "cEAN", Supplied>> \in Codes /\ <<"prod", "cEANTrib", Supplied>> \in Codes
        /\ <<"prod", "indTot", 1>> \in Codes
    BY DEF Codes
  <2>2. Supplied \in Int BY DEF Supplied
  <2>. QED BY <2>1, <2>2, CodeFair
<1>6. l \in build_di_xml(h) => Fair(l, h, n) BY <1>2 DEF build_di_xml, Of, Fair
<1>7. l \in build_det_export_xml(h) => Fair(l, h, n) BY <1>2 DEF build_det_export_xml
<1>8. l \in build_prod_options(h) => Fair(l, h, n)
  BY <1>1, <1>2 DEF build_prod_options, OneOfKind, build_comb_xml
<1>. QED BY <1>1, <1>2, <1>3, <1>4, <1>5, <1>6, <1>7, <1>8 DEF build_prod, Pl010

\* Writing keeps sets finite.
LEMMA FiniteWrites ==
    ASSUME NEW h, IsFiniteSet(h), NEW n, NEW in
    PROVE  /\ \A tags : IsFiniteSet(Write(h, in, tags))
           /\ \A tag, v : IsFiniteSet(Put(n, in, tag, v)) /\ IsFiniteSet(WriteOr(h, n, in, tag, v))
<1>1. \A tags : IsFiniteSet(Write(h, in, tags))
  <2> TAKE tags
  <2>1. Write(h, in, tags) \in SUBSET h BY DEF Write
  <2>. QED BY <2>1, FS_Subset
<1>2. \A tag, v : IsFiniteSet(Put(n, in, tag, v)) BY FS_Singleton DEF Put
<1>. QED BY <1>1, <1>2 DEF WriteOr

\* A variant of ICMS is finite.
LEMMA VariantFinite ==
    ASSUME NEW h, NEW n, Holds(h, n), NEW simples
    PROVE  IsFiniteSet(build_icms_variant(simples, h, n))
<1> DEFINE code == Code(simples, h)
           variant == VariantOf(simples, code)
           A == Put(n, "ICMS", "CST", code)
           B == WriteOr(h, n, "ICMS", "orig", 0)
           C == Write(h, "ICMS", variant.fields \ {"vBC"})
           D == IF "vBC" \in variant.fields THEN Put(n, "ICMS", "vBC", Amount(h, "prod", "vProd")) ELSE {}
           E == IF "modBC" \in variant.defaults THEN WriteOr(h, n, "ICMS", "modBC", 3) ELSE {}
           F == IF "pRedBC" \in variant.defaults THEN WriteOr(h, n, "ICMS", "pRedBC", 0) ELSE {}
<1>1. IsFiniteSet(h) BY DEF Holds
<1>2. IsFiniteSet(A) /\ IsFiniteSet(B) /\ IsFiniteSet(C) BY <1>1, FiniteWrites
<1>3. IsFiniteSet(D) /\ IsFiniteSet(E) /\ IsFiniteSet(F) BY <1>1, FiniteWrites, FS_EmptySet
<1>4. build_icms_variant(simples, h, n) = A \cup B \cup C \cup D \cup E \cup F BY DEF build_icms_variant
<1> HIDE DEF A, B, C, D, E, F
<1>5. IsFiniteSet(A \cup B) BY <1>2, FS_Union
<1>6. IsFiniteSet(A \cup B \cup C) BY <1>5, <1>2, FS_Union
<1>7. IsFiniteSet(A \cup B \cup C \cup D) BY <1>6, <1>3, FS_Union
<1>8. IsFiniteSet(A \cup B \cup C \cup D \cup E) BY <1>7, <1>3, FS_Union
<1>9. IsFiniteSet(A \cup B \cup C \cup D \cup E \cup F) BY <1>8, <1>3, FS_Union
<1>. QED BY <1>4, <1>9

\* What an item adds to the totals of ICMS, finitely many values.
LEMMA IcmsTotalsInt ==
    ASSUME NEW c, NEW h, NEW n, Holds(h, n)
    PROVE  /\ IsFiniteSet(IcmsTotals(c, h, n))
           /\ \A l \in IcmsTotals(c, h, n) : l.n = n /\ l.v \in Int /\ l.in = "ICMS"
<1> DEFINE V == build_icms_variant(is_simples(c), h, n)
<1>1. IsFiniteSet(V) BY VariantFinite
<1>2. \A l \in V : Fair(l, h, n) /\ l.in = "ICMS" BY VariantFair
<1>3. \A l : Fair(l, h, n) => l.n = n /\ l.v \in Int BY DEF Fair, Holds, FieldSet
<1>4. IcmsTotals(c, h, n) \in SUBSET V BY DEF IcmsTotals, icms_totals, Write
<1> HIDE DEF V
<1>. QED BY <1>1, <1>2, <1>3, <1>4, FS_Subset

\* What an item adds to a total of ICMS is an integer.
LEMMA AmountOfTotals ==
    ASSUME NEW c, NEW h, NEW n, Holds(h, n), NEW tag
    PROVE  Amount(IcmsTotals(c, h, n), "ICMS", tag) \in Int
<1> DEFINE st == IcmsTotals(c, h, n)
           W == Write(st, "ICMS", {tag})
<1>1. W \in SUBSET st BY DEF Write
<1>2. IsFiniteSet(st) /\ \A l \in st : l.v \in Int BY IcmsTotalsInt
<1>3. Amount(st, "ICMS", tag) = Sum(W) BY DEF Amount
<1> HIDE DEF st, W
<1>4. IsFiniteSet(W) BY <1>1, <1>2, FS_Subset
<1>5. \A l \in W : l.v \in Int BY <1>1, <1>2
<1>6. Sum(W) \in Int BY <1>4, <1>5, LeavesInt
<1>. QED BY <1>3, <1>6 DEF st

\* The worth of an item is an integer.
LEMMA ItemValueInt ==
    ASSUME NEW c, NEW h, NEW n, Holds(h, n)
    PROVE  v_item(c, h, n) \in Int
BY AmountInt, AmountOfTotals DEF v_item, TaxesOnTop, v_ii, v_ipi, v_pis_st, v_cofins_st

\* The taxes of an item are fair.
LEMMA ImpostoFair ==
    ASSUME NEW c, NEW h, NEW n, Holds(h, n), NEW l \in build_imposto(c, h, n)
    PROVE  Fair(l, h, n)
<1>1. l \in build_issqn_xml(h) \cup build_ipi_xml(h, n) \cup build_ii_xml(h, n) \cup build_is_xml(h)
      => Fair(l, h, n)
  BY OtherTaxesFair
<1>2. l \in build_icms_xml(is_simples(c), h, n) => Fair(l, h, n) BY VariantFair DEF build_icms_xml, Write
<1>3. l \in build_pis_xml(h, n) \cup build_pis_st_xml(h, n) => Fair(l, h, n)
  BY ContributionFair DEF build_pis_xml, build_pis_st_xml
<1>4. l \in build_cofins_xml(h, n) \cup build_cofins_st_xml(h, n) => Fair(l, h, n)
  BY ContributionFair DEF build_cofins_xml, build_cofins_st_xml
<1>5. l \in build_ibs_cbs_xml(h, n) => Fair(l, h, n) BY IbsCbsFair
<1>6. l \in Write(h, "imposto", {"vTotTrib"}) => Fair(l, h, n) BY DEF Write, Fair
<1>. QED BY <1>1, <1>2, <1>3, <1>4, <1>5, <1>6 DEF build_imposto, Pl010

\* What is written of an item is of the item, or supplied by the program.
LEMMA DetFair ==
    ASSUME NEW c, NEW values, NEW h, NEW n, Holds(h, n), NEW l \in build_det(c, values, h, n)
    PROVE  Fair(l, h, n) \/ NamedByProgram(l, c, h, n)
<1>1. \A in, tags : l \in Write(h, in, tags) => Fair(l, h, n) BY DEF Write, Fair
<1>2. l \in build_prod(c, h, n) => Fair(l, h, n) \/ NamedByProgram(l, c, h, n) BY ProductFair
<1>3. l \in build_imposto(c, h, n) => Fair(l, h, n) BY ImpostoFair
<1>4. l \in Put(n, "det", "vItem", v_item(c, h, n)) => Fair(l, h, n)
  BY ItemValueInt DEF Put, Leaf, Fair, ByProgram
<1>. QED BY <1>1, <1>2, <1>3, <1>4 DEF build_det, build_imposto_devol, build_det_extras, Pl010

-----------------------------------------------------------------------------
(***************************************************************************)
(* What the builders of the document write.                                *)
(***************************************************************************)

\* The dates whose offset the program replaces.
Dates == {"dhEmi", "dhSaiEnt", "dhCont"}
\* A value of the document that the program writes and the caller did not set.
OfTheProgram(l, c, h, drawn) ==
    \/ l.v = 0 \/ <<l.in, l.tag, l.v>> \in Codes
    \/ l.v = Notice /\ <<l.in, l.tag>> = <<"dest", "xNome">> /\ c.homologation
    \/ l.in = "ICMSTot"
    \/ l.in = "total" /\ l.tag = "vNFTot"
    \/ <<l.in, l.tag, l.v>> \in {<<"ide", "cNF", drawn>>, <<"ide", "cDV", check_digit(drawn)>>,
          <<"ide", "mod", c.model>>, <<"ide", "tpEmis", c.tpEmis>>,
          <<"ide", "tpAmb", IF c.homologation THEN 2 ELSE 1>>, <<"emit", "CRT", c.tax_regime>>}
    \/ l.in = "infRespTec" /\ l.tag = "hashCSRT"
       /\ l.v = compute_hash_csrt(Amount(h, "infRespTec", "CSRT"), drawn)
    \/ l.in = "ide" /\ l.tag = "cMunFG" /\ Copied(l, h, "enderEmit", "cMun")
    \/ l.in = "ide" /\ l.tag = "cUF" /\ Copied(l, h, "enderEmit", "UF")
    \/ l.in = "ide" /\ l.tag \in Dates
       /\ \E o \in h : <<o.in, o.tag>> = <<l.in, l.tag>> /\ l.v = format_datetime_nfe(o.v, StateOf(h))
    \/ l.in = "infAdic" /\ l.tag = "contingencia" /\ Copied(l, h, "ide", "xJust")
    \/ l.in = "enderDest" /\ Copied(l, h, "enderEmit", l.tag)

\* The leaf l of the document is one the caller set, or a value of the program.
Traced(l, c, h, drawn) == l \in h \/ (l.n = 0 /\ l.v \in Int /\ OfTheProgram(l, c, h, drawn))

\* The settings of a builder.
SettingSet == [model : {55, 65}, homologation : BOOLEAN, pl010 : BOOLEAN, tax_regime : 1..3,
               tpEmis : 1..9, known : BOOLEAN]

\* What is written as given, or with a default of zero, is traced.
LEMMA WrittenTraced ==
    ASSUME NEW c, NEW h, NEW drawn, NEW l
    PROVE  /\ \A in, tags : l \in Write(h, in, tags) => Traced(l, c, h, drawn)
           /\ \A in, tags, limit : l \in FirstOf(h, in, tags, limit) => Traced(l, c, h, drawn)
           /\ \A in, tags : l \in OrZero(h, 0, in, tags) => Traced(l, c, h, drawn)
<1>1. \A in, tags : l \in Write(h, in, tags) => Traced(l, c, h, drawn) BY DEF Write, Traced
<1>2. \A in, tags, limit : l \in FirstOf(h, in, tags, limit) => Traced(l, c, h, drawn)
  BY <1>1 DEF FirstOf
<1>3. \A in, tag : l \in Put(0, in, tag, 0) => Traced(l, c, h, drawn)
  BY DEF Put, Leaf, Traced, OfTheProgram
<1>4. \A in, tag : l \in WriteOr(h, 0, in, tag, 0) => Traced(l, c, h, drawn) BY <1>1, <1>3 DEF WriteOr
<1>. QED BY <1>1, <1>2, <1>4 DEF OrZero

\* A code the program supplies is traced.
LEMMA CodeTraced ==
    ASSUME NEW c, NEW h, NEW drawn, NEW in, NEW tag, NEW v \in Int, <<in, tag, v>> \in Codes,
           NEW l \in Put(0, in, tag, v) \cup WriteOr(h, 0, in, tag, v)
    PROVE  Traced(l, c, h, drawn)
BY DEF WriteOr, Write, Put, Leaf, Traced, OfTheProgram

\* A field the program copies from a group that does not repeat.
LEMMA CopyTraced ==
    ASSUME NEW h, Holds(h, 0), NEW from \in {"enderEmit", "ide"}, NEW of, NEW in, NEW tag,
           NEW l \in Put(0, in, tag, Amount(h, from, of))
    PROVE  l.n = 0 /\ l.in = in /\ l.tag = tag /\ l.v \in Int /\ (l.v = 0 \/ Copied(l, h, from, of))
<1> DEFINE a == Amount(h, from, of)
<1>1. a = 0 \/ \E o \in h : o.in = from /\ o.tag = of /\ o.v = a BY AmountOfSingle DEF Single
<1>2. a \in Int BY AmountInt
<1>3. l = Leaf(0, in, <<>>, tag, a) BY DEF Put
<1> HIDE DEF a
<1>. QED BY <1>1, <1>2, <1>3 DEF Leaf, Copied

\* The offset of a state is an hour of three, and the digits of a date stay.
LEMMA OffsetKeepsDigits ==
    ASSUME NEW v \in Int, NEW uf
    PROVE  /\ format_datetime_nfe(v, uf) \in Int
           /\ format_datetime_nfe(v, uf) \div 100 = v \div 100
           /\ format_datetime_nfe(v, uf) % 100 = UtcOffset(uf)
<1>1. UtcOffset(uf) \in {3, 4, 5} BY DEF UtcOffset
<1>2. \A q \in Int : \A k \in {3, 4, 5} : (100 * q + k) \div 100 = q /\ (100 * q + k) % 100 = k OBVIOUS
<1>3. v \div 100 \in Int OBVIOUS
<1>. QED BY <1>1, <1>2, <1>3 DEF format_datetime_nfe

\* A date with the offset of the state is traced.
LEMMA DateTraced ==
    ASSUME NEW c, NEW h, Holds(h, 0), NEW drawn, NEW tags \in SUBSET Dates,
           NEW l \in Restamp(Write(h, "ide", tags), StateOf(h))
    PROVE  Traced(l, c, h, drawn)
<1> DEFINE uf == StateOf(h)
<1>1. PICK o \in Write(h, "ide", tags) : l = Leaf(o.n, o.in, o.m, o.tag, format_datetime_nfe(o.v, uf))
  BY DEF Restamp
<1>2. o \in h /\ o.in = "ide" /\ o.tag \in Dates BY DEF Write
<1>3. o.v \in Int /\ o.n = 0 BY <1>2 DEF Holds, FieldSet
<1>4. format_datetime_nfe(o.v, uf) \in Int BY <1>3, OffsetKeepsDigits
<1>5. l.n = 0 /\ l.in = "ide" /\ l.tag = o.tag /\ l.v = format_datetime_nfe(o.v, uf) BY <1>1, <1>2, <1>3 DEF Leaf
<1>. QED BY <1>2, <1>4, <1>5 DEF Traced, OfTheProgram

\* The identification is traced.
LEMMA IdeTraced ==
    ASSUME NEW c \in SettingSet, NEW h, Holds(h, 0), NEW drawn \in Int, NEW l \in build_ide(c, h, drawn)
    PROVE  Traced(l, c, h, drawn)
<1>1. /\ \A in, tags : l \in Write(h, in, tags) => Traced(l, c, h, drawn)
      /\ \A in, tags : l \in OrZero(h, 0, in, tags) => Traced(l, c, h, drawn)
  BY WrittenTraced
<1>2. l \in Put(0, "ide", "cNF", drawn) \cup Put(0, "ide", "mod", c.model) \cup Put(0, "ide", "tpEmis", c.tpEmis)
           \cup Put(0, "ide", "cDV", check_digit(drawn))
      => Traced(l, c, h, drawn)
  <2>1. c.model \in Int /\ c.tpEmis \in Int BY DEF SettingSet
  <2>2. check_digit(drawn) \in Int BY DEF check_digit
  <2>. QED BY <2>1, <2>2 DEF Put, Leaf, Traced, OfTheProgram
<1>3. l \in Put(0, "ide", "tpAmb", IF c.homologation THEN 2 ELSE 1) => Traced(l, c, h, drawn)
  BY DEF Put, Leaf, Traced, OfTheProgram
<1>4. /\ l \in Put(0, "ide", "cMunFG", Amount(h, "enderEmit", "cMun")) => Traced(l, c, h, drawn)
      /\ l \in Put(0, "ide", "cUF", StateOf(h)) => Traced(l, c, h, drawn)
  BY CopyTraced DEF Traced, OfTheProgram, StateOf
<1>6. \A tags \in SUBSET Dates : l \in Restamp(Write(h, "ide", tags), StateOf(h)) => Traced(l, c, h, drawn)
  BY DateTraced
<1>7. l \in WriteOr(h, 0, "ide", "verProc", Supplied) => Traced(l, c, h, drawn)
  <2>1. <<"ide", "verProc", Supplied>> \in Codes BY DEF Codes
  <2>. QED BY <2>1, CodeTraced DEF Supplied
<1>5. \A tag \in Ones : l \in WriteOr(h, 0, "ide", tag, 1) => Traced(l, c, h, drawn)
  <2>1. \A tag \in Ones : <<"ide", tag, 1>> \in Codes BY DEF Codes, Ones
  <2>2. ASSUME NEW tag \in Ones, l \in Put(0, "ide", tag, 1) PROVE Traced(l, c, h, drawn)
    BY <2>1, <2>2 DEF Put, Leaf, Traced, OfTheProgram
  <2>. QED BY <1>1, <2>2 DEF WriteOr
<1>8. {"dhEmi", "dhCont"} \in SUBSET Dates /\ {"dhSaiEnt"} \in SUBSET Dates BY DEF Dates
<1>9. l \in build_references(h) \cup Pl010(c, build_compra_gov(h) \cup build_pag_antecipado(h)) => Traced(l, c, h, drawn)
  BY <1>1 DEF build_references, build_compra_gov, build_pag_antecipado, Pl010
<1>. QED BY <1>1, <1>2, <1>3, <1>4, <1>5, <1>6, <1>7, <1>8, <1>9 DEF build_ide

\* The issuer and the recipient are traced.
LEMMA PartiesTraced ==
    ASSUME NEW c \in SettingSet, NEW h, Holds(h, 0), NEW drawn, NEW l,
           l \in build_emit(c, h) \cup build_dest(c, h)
    PROVE  Traced(l, c, h, drawn)
<1>1. \A in, tags : l \in Write(h, in, tags) => Traced(l, c, h, drawn) BY WrittenTraced
<1>2. /\ \A in \in {"enderEmit", "enderDest"} : l \in Put(0, in, "cPais", 1058) => Traced(l, c, h, drawn)
      /\ \A in \in {"enderEmit", "enderDest"} : l \in Put(0, in, "xPais", Supplied) => Traced(l, c, h, drawn)
      /\ \A ind \in {1, 9} : l \in Put(0, "dest", "indIEDest", ind) => Traced(l, c, h, drawn)
  <2>1. /\ \A in \in {"enderEmit", "enderDest"} : <<in, "cPais", 1058>> \in Codes /\ <<in, "xPais", Supplied>> \in Codes
        /\ \A ind \in {1, 9} : <<"dest", "indIEDest", ind>> \in Codes
    BY DEF Codes
  <2>. QED BY <2>1, CodeTraced DEF Supplied
<1>3. c.homologation /\ l \in Put(0, "dest", "xNome", Notice) => Traced(l, c, h, drawn)
  BY DEF Put, Leaf, Traced, OfTheProgram, Notice
<1>4. l \in Put(0, "emit", "CRT", c.tax_regime) => Traced(l, c, h, drawn)
  <2>1. c.tax_regime \in Int BY DEF SettingSet
  <2>. QED BY <2>1 DEF Put, Leaf, Traced, OfTheProgram
<1>5. \A tag : l \in Put(0, "enderDest", tag, Amount(h, "enderEmit", tag)) => Traced(l, c, h, drawn)
  BY CopyTraced DEF Traced, OfTheProgram
<1>6. l \in build_emit(c, h) => Traced(l, c, h, drawn)
  BY <1>1, <1>2, <1>4 DEF build_emit, build_address_fields
<1>7. l \in RecipientAddress(h) => Traced(l, c, h, drawn)
  <2>1. \A tag : l \in OrOfIssuer(h, tag) => Traced(l, c, h, drawn) BY <1>1, <1>5 DEF OrOfIssuer
  <2>2. l \in WriteOr(h, 0, "enderDest", "UF", StateOf(h)) => Traced(l, c, h, drawn)
    BY <1>1, <1>5 DEF WriteOr, StateOf
  <2>3. /\ l \in WriteOr(h, 0, "enderDest", "cPais", 1058) => Traced(l, c, h, drawn)
        /\ l \in WriteOr(h, 0, "enderDest", "xPais", Supplied) => Traced(l, c, h, drawn)
    BY <1>1, <1>2 DEF WriteOr
  <2>. QED BY <1>1, <2>1, <2>2, <2>3 DEF RecipientAddress
<1>8. l \in Contributor(c, h) => Traced(l, c, h, drawn) BY <1>1, <1>2 DEF Contributor, WriteOr
<1>9. l \in build_dest(c, h) => Traced(l, c, h, drawn) BY <1>1, <1>3, <1>7, <1>8 DEF build_dest
<1>. QED BY <1>6, <1>9

\* Places, transport, billing and payment are traced.
LEMMA CargoTraced ==
    ASSUME NEW c, NEW h, NEW drawn, NEW l,
           l \in build_withdrawal(h) \cup build_delivery(h) \cup build_aut_xml(h) \cup build_transp(h)
                 \cup build_cobr(h) \cup build_pag(h)
    PROVE  Traced(l, c, h, drawn)
<1>1. \A in, tags : l \in Write(h, in, tags) => Traced(l, c, h, drawn) BY WrittenTraced
<1>2. /\ l \in Put(0, "transp", "modFrete", 9) => Traced(l, c, h, drawn)
      /\ l \in Put(0, "detPag", "tPag", 90) => Traced(l, c, h, drawn)
  <2>1. <<"transp", "modFrete", 9>> \in Codes /\ <<"detPag", "tPag", 90>> \in Codes BY DEF Codes
  <2>. QED BY <2>1, CodeTraced
<1>3. l \in Put(0, "detPag", "vPag", 0) => Traced(l, c, h, drawn) BY DEF Put, Leaf, Traced, OfTheProgram
<1>4. l \in build_withdrawal(h) \cup build_delivery(h) \cup build_aut_xml(h) => Traced(l, c, h, drawn)
  BY <1>1 DEF build_withdrawal, build_delivery, build_location_children, build_aut_xml
<1>5. l \in build_transp(h) \cup build_cobr(h) => Traced(l, c, h, drawn)
  BY <1>1, <1>2 DEF build_transp, build_cobr, Wagon, Barge
<1>6. l \in build_pag(h) => Traced(l, c, h, drawn) BY <1>1, <1>2, <1>3 DEF build_pag, CardsWithPayment
<1>. QED BY <1>4, <1>5, <1>6

\* What follows them is traced.
LEMMA RestTraced ==
    ASSUME NEW c, NEW h, Holds(h, 0), NEW drawn \in Int, NEW l,
           l \in build_intermediary(h) \cup build_inf_adic(h) \cup build_export(h) \cup build_purchase(h)
                 \cup build_cana(h) \cup build_tech_responsible_with_key(h, drawn)
                 \cup Pl010(c, build_agropecuario(h))
    PROVE  Traced(l, c, h, drawn)
<1>1. /\ \A in, tags : l \in Write(h, in, tags) => Traced(l, c, h, drawn)
      /\ \A in, tags, limit : l \in FirstOf(h, in, tags, limit) => Traced(l, c, h, drawn)
  BY WrittenTraced
<1>2. l \in Put(0, "infAdic", "contingencia", Amount(h, "ide", "xJust")) => Traced(l, c, h, drawn)
  BY CopyTraced DEF Traced, OfTheProgram
<1>3. l \in build_inf_adic(h) => Traced(l, c, h, drawn) BY <1>1, <1>2 DEF build_inf_adic
<1>4. l \in Put(0, "infRespTec", "hashCSRT", compute_hash_csrt(Amount(h, "infRespTec", "CSRT"), drawn))
      => Traced(l, c, h, drawn)
  <2> DEFINE hash == compute_hash_csrt(Amount(h, "infRespTec", "CSRT"), drawn)
  <2>1. hash \in Int BY AmountInt DEF compute_hash_csrt
  <2>2. hash = compute_hash_csrt(Amount(h, "infRespTec", "CSRT"), drawn) OBVIOUS
  <2> HIDE DEF hash
  <2>. QED BY <2>1, <2>2 DEF Put, Leaf, Traced, OfTheProgram
<1>5. l \in build_tech_responsible_with_key(h, drawn) => Traced(l, c, h, drawn)
  BY <1>1, <1>4 DEF build_tech_responsible_with_key
<1>6. l \in build_cana(h) \cup Pl010(c, build_agropecuario(h)) => Traced(l, c, h, drawn)
  BY <1>1 DEF build_cana, build_agropecuario, Pl010
<1>. QED BY <1>1, <1>3, <1>5, <1>6 DEF build_intermediary, build_export, build_purchase

\* The totals are traced, when what is added up are integers.
LEMMA TotalsTraced ==
    ASSUME NEW c, NEW h, Holds(h, 0), NEW drawn, NEW deduz, NEW t,
           \A tag \in AddedByItems \cup DOMAIN AddedByIcms : t[tag] \in Int,
           NEW l \in build_total(c, h, t, deduz)
    PROVE  Traced(l, c, h, drawn)
<1> DEFINE vNF == calculate_v_nf(t, deduz, Amount(h, "ISSQNtot", "vServ"))
           tot == v_nf_tot(h, vNF)
<1>1. /\ \A in, tags : l \in Write(h, in, tags) => Traced(l, c, h, drawn)
      /\ \A in, tags : l \in OrZero(h, 0, in, tags) => Traced(l, c, h, drawn)
  BY WrittenTraced
<1>2. \A in, tag : Amount(h, in, tag) \in Int BY AmountInt
<1>3. vNF \in Int
  <2>1. /\ t.vProd \in Int /\ t.vDesc \in Int /\ t.vICMSDeson \in Int /\ t.vST \in Int /\ t.vFCPST \in Int
        /\ t.vFrete \in Int /\ t.vSeg \in Int /\ t.vOutro \in Int /\ t.vII \in Int /\ t.vIPI \in Int
        /\ t.vIPIDevol \in Int /\ t.vPISST \in Int /\ t.vCOFINSST \in Int
    BY DEF AddedByItems, AddedByIcms
  <2>. QED BY <1>2, <2>1 DEF calculate_v_nf
<1>4. tot \in Int
  <2> HIDE DEF vNF
  <2>. QED BY <1>2, <1>3 DEF v_nf_tot
<1>5. \A tag \in AlwaysTotalled : l \in Put(0, "ICMSTot", tag, t[tag]) => Traced(l, c, h, drawn)
  <2>1. \A tag \in AlwaysTotalled : t[tag] \in Int BY DEF AlwaysTotalled, AddedByItems, AddedByIcms
  <2>. QED BY <2>1 DEF Put, Leaf, Traced, OfTheProgram
<1>6. l \in Put(0, "ICMSTot", "vNF", vNF) => Traced(l, c, h, drawn)
  <2> HIDE DEF vNF
  <2>. QED BY <1>3 DEF Put, Leaf, Traced, OfTheProgram
<1>7. l \in Put(0, "ICMSTot", "vTotTrib", t.vTotTrib) => Traced(l, c, h, drawn)
  <2>1. t.vTotTrib \in Int BY DEF AddedByItems
  <2>. QED BY <2>1 DEF Put, Leaf, Traced, OfTheProgram
<1>8. l \in Put(0, "total", "vNFTot", tot) => Traced(l, c, h, drawn)
  <2> HIDE DEF tot
  <2>. QED BY <1>4 DEF Put, Leaf, Traced, OfTheProgram
<1>9. l \in build_issqn_tot(h) \cup build_ret_trib(h) \cup build_is_tot_xml(h) => Traced(l, c, h, drawn)
  BY <1>1 DEF build_issqn_tot, build_ret_trib, build_is_tot_xml
<1>10. l \in build_ibs_cbs_tot_xml(h) => Traced(l, c, h, drawn)
  BY <1>1 DEF build_ibs_cbs_tot_xml, IbsTotals, CbsTotals, MonoTotals, ReversedTotals
<1> HIDE DEF vNF, tot
<1>. QED BY <1>5, <1>6, <1>7, <1>8, <1>9, <1>10 DEF build_total, Pl010, vNF, tot

-----------------------------------------------------------------------------
(***************************************************************************)
(* The items, their totals, and the whole XML.                             *)
(***************************************************************************)

\* The items as the builder holds them, numbered by their places.
ItemsHold(list) ==
    /\ list \in Seq(SUBSET FieldSet(Nat))
    /\ \A i \in DOMAIN list : Holds(list[i], i)

\* The places of the items are finitely many.
LEMMA PlacesFinite ==
    ASSUME NEW list, ItemsHold(list)
    PROVE  /\ DOMAIN list = 1..Len(list) /\ Len(list) \in Nat
           /\ \A I \in SUBSET DOMAIN list : IsFiniteSet(I)
<1>1. DOMAIN list = 1..Len(list) /\ Len(list) \in Nat BY DEF ItemsHold
<1>2. IsFiniteSet(1..Len(list)) BY <1>1, FS_Interval
<1>. QED BY <1>1, <1>2, FS_Subset

\* The fold of the totals is the sum of a function.
LEMMA SumOfField ==
    ASSUME NEW S, IsFiniteSet(S), NEW r, NEW tag
    PROVE  MapThenSumSet(LAMBDA i : r[i][tag], S) = SumOf([i \in S |-> r[i][tag]], S)
<1> DEFINE f == [i \in S |-> r[i][tag]]
           R(g) == g = [x \in SUBSET S |-> IF x = {} THEN 0 ELSE r[Pick(x)][tag] + g[x \ {Pick(x)}]]
           iter == CHOOSE g : R(g)
<1>1. MapThenSumSet(LAMBDA i : r[i][tag], S) = iter[S] BY DEF MapThenSumSet, MapThenFoldSet, Pick
<1>2. IsSum(SumFcn(f, S), f, S)
  <2> HIDE DEF f
  <2>. QED BY SumExists
<1>3. \A x \in SUBSET S : x # {} => f[Pick(x)] = r[Pick(x)][tag] BY DEF Pick
<1>4. \A g : IsSum(g, f, S) <=> R(g)
  <2> TAKE g
  <2> HIDE DEF f, iter
  <2>1. [x \in SUBSET S |-> IF x = {} THEN 0 ELSE r[Pick(x)][tag] + g[x \ {Pick(x)}]]
        = [x \in SUBSET S |-> IF x = {} THEN 0 ELSE f[Pick(x)] + g[x \ {Pick(x)}]] BY <1>3
  <2>. QED BY <2>1 DEF IsSum
<1>5. R(iter)
  <2> HIDE DEF R, f
  <2>1. R(SumFcn(f, S)) BY <1>2, <1>4
  <2>. QED BY <2>1
<1>6. IsSum(iter, f, S)
  <2> HIDE DEF R, f, iter
  <2>. QED BY <1>4, <1>5
<1>7. iter = SumFcn(f, S)
  <2> HIDE DEF R, f, iter
  <2>. QED BY <1>2, <1>6, SumUnique
<1>. QED
  <2> HIDE DEF R, f, iter
  <2>1. MapThenSumSet(LAMBDA i : r[i][tag], S) = SumOf(f, S) BY <1>1, <1>7 DEF SumOf
  <2>. QED BY <2>1 DEF f

\* What an item adds to a total is an integer.
LEMMA ResultInt ==
    ASSUME NEW c, NEW h, NEW n, Holds(h, n)
    PROVE  \A tag \in AddedByItems : DetResult(c, h, n)[tag] \in Int
<1>1. \A in, tag : Amount(h, in, tag) \in Int BY AmountInt
<1>2. v_ipi(h) \in Int /\ v_ii(h) \in Int /\ v_pis_st(h) \in Int /\ v_cofins_st(h) \in Int
  BY <1>1 DEF v_ipi, v_ii, v_pis_st, v_cofins_st
<1>3. \A tag \in AddedByItems : \/ DetResult(c, h, n)[tag] \in {v_ipi(h), v_ii(h), v_pis_st(h), v_cofins_st(h)}
                                \/ \E in : DetResult(c, h, n)[tag] = Amount(h, in, tag)
  <2>1. \A tag \in {"vProd", "vFrete", "vSeg", "vDesc", "vOutro"} : DetResult(c, h, n)[tag] = Amount(h, "prod", tag)
    BY DEF DetResult
  <2>2. /\ DetResult(c, h, n)["vPIS"] = Amount(h, "PIS", "vPIS")
        /\ DetResult(c, h, n)["vCOFINS"] = Amount(h, "COFINS", "vCOFINS")
        /\ DetResult(c, h, n)["vTotTrib"] = Amount(h, "imposto", "vTotTrib")
        /\ DetResult(c, h, n)["vIPIDevol"] = Amount(h, "impostoDevol", "vIPIDevol")
        /\ DetResult(c, h, n)["vIPI"] = v_ipi(h) /\ DetResult(c, h, n)["vII"] = v_ii(h)
        /\ DetResult(c, h, n)["vPISST"] = v_pis_st(h) /\ DetResult(c, h, n)["vCOFINSST"] = v_cofins_st(h)
    BY DEF DetResult
  <2>. QED BY <2>1, <2>2 DEF AddedByItems
<1>. QED BY <1>1, <1>2, <1>3

\* The results of the items, as build_det returns them.
ResultsOf(c, list) == [i \in DOMAIN list |-> DetResult(c, list[i], i)]
\* The items that count in the totals.
CountedOf(list) == {i \in DOMAIN list : ind_tot(list[i]) = 1}
\* What the arms of ICMS added for them.
IcmsOf(c, list) == UNION {IcmsTotals(c, list[i], i) : i \in CountedOf(list)}

\* The items that count by their results are those that count by their fields.
LEMMA CountingItems ==
    ASSUME NEW c, NEW list
    PROVE  Counting(ResultsOf(c, list)) = CountedOf(list)
BY DEF Counting, ResultsOf, CountedOf, DetResult

\* A total is a sum over the items that count, or over what their arms added.
LEMMA TotalsAre ==
    ASSUME NEW c, NEW list, ItemsHold(list)
    PROVE  /\ \A tag \in AddedByItems :
                Totals(ResultsOf(c, list))[tag]
                    = SumOf([i \in CountedOf(list) |-> DetResult(c, list[i], i)[tag]], CountedOf(list))
           /\ \A tag \in DOMAIN AddedByIcms :
                Totals(ResultsOf(c, list))[tag] = Amount(IcmsOf(c, list), "ICMS", AddedByIcms[tag])
<1> DEFINE r == ResultsOf(c, list)
           C == CountedOf(list)
<1>1. Counting(r) = C BY CountingItems
<1>2. IsFiniteSet(C)
  <2>1. C \in SUBSET DOMAIN list BY DEF CountedOf
  <2>. QED BY <2>1, PlacesFinite
<1>3. UNION {r[i].totals : i \in C} = IcmsOf(c, list)
  <2>1. \A i \in C : r[i].totals = IcmsTotals(c, list[i], i) BY DEF ResultsOf, DetResult, CountedOf
  <2>. QED BY <2>1 DEF IcmsOf
<1>4. ASSUME NEW tag \in AddedByItems
      PROVE  Totals(r)[tag] = SumOf([i \in C |-> DetResult(c, list[i], i)[tag]], C)
  <2>1. Totals(r)[tag] = MapThenSumSet(LAMBDA i : r[i][tag], C)
    <3> HIDE DEF r, C
    <3>. QED BY <1>1, <1>4 DEF Totals
  <2>2. MapThenSumSet(LAMBDA i : r[i][tag], C) = SumOf([i \in C |-> r[i][tag]], C)
    <3> HIDE DEF r, C
    <3>. QED BY <1>2, SumOfField
  <2>3. [i \in C |-> r[i][tag]] = [i \in C |-> DetResult(c, list[i], i)[tag]]
    <3>1. \A i \in C : r[i] = DetResult(c, list[i], i) BY DEF ResultsOf, CountedOf
    <3> HIDE DEF r, C
    <3>. QED BY <3>1
  <2> HIDE DEF r, C
  <2>. QED BY <2>1, <2>2, <2>3
<1>5. ASSUME NEW tag \in DOMAIN AddedByIcms
      PROVE  Totals(r)[tag] = Amount(IcmsOf(c, list), "ICMS", AddedByIcms[tag])
  <2>1. tag \notin AddedByItems BY <1>5 DEF AddedByIcms, AddedByItems
  <2> HIDE DEF r, C
  <2>. QED BY <1>1, <1>3, <1>5, <2>1 DEF Totals
<1>. QED BY <1>4, <1>5

\* The arms added finitely many integers.
LEMMA IcmsOfHolds ==
    ASSUME NEW c, NEW list, ItemsHold(list)
    PROVE  IsFiniteSet(IcmsOf(c, list)) /\ \A l \in IcmsOf(c, list) : l.v \in Int
<1> DEFINE C == CountedOf(list)
           P == [i \in C |-> IcmsTotals(c, list[i], i)]
<1>1. \A i \in C : Holds(list[i], i) BY DEF CountedOf, ItemsHold
<1>2. \A i \in C : IsFiniteSet(P[i]) /\ \A l \in P[i] : l.n = i /\ l.v \in Int
  <2> TAKE i \in C
  <2>1. IsFiniteSet(IcmsTotals(c, list[i], i)) /\ \A l \in IcmsTotals(c, list[i], i) : l.n = i /\ l.v \in Int
    BY <1>1, IcmsTotalsInt
  <2>. QED BY <2>1
<1>3. IsFiniteSet(C)
  <2>1. C \in SUBSET DOMAIN list BY DEF CountedOf
  <2>. QED BY <2>1, PlacesFinite
<1>4. UNION {P[i] : i \in C} = IcmsOf(c, list) BY DEF IcmsOf
<1> HIDE DEF C, P
<1>5. \A i, j \in C : i # j => P[i] \cap P[j] = {} BY <1>2
<1>6. IsFiniteSet(UNION {P[i] : i \in C})
  <2>1. \A i \in C : IsFiniteSet(P[i]) BY <1>2
  <2>2. \A i \in C : \A l \in P[i] : l.v \in Int BY <1>2
  <2>3. Parted(P, C) BY <1>3, <1>5, <2>1, <2>2 DEF Parted
  <2>. QED BY <2>3, LeavesByParts
<1>7. \A l \in UNION {P[i] : i \in C} : l.v \in Int BY <1>2
<1>. QED BY <1>4, <1>6, <1>7

\* The totals are integers.
LEMMA TotalsInt ==
    ASSUME NEW c, NEW list, ItemsHold(list)
    PROVE  \A tag \in AddedByItems \cup DOMAIN AddedByIcms : Totals(ResultsOf(c, list))[tag] \in Int
<1> DEFINE C == CountedOf(list)
<1>1. IsFiniteSet(C)
  <2>1. C \in SUBSET DOMAIN list BY DEF CountedOf
  <2>. QED BY <2>1, PlacesFinite
<1>2. ASSUME NEW tag \in AddedByItems
      PROVE  SumOf([i \in C |-> DetResult(c, list[i], i)[tag]], C) \in Int
  <2> DEFINE f == [i \in C |-> DetResult(c, list[i], i)[tag]]
  <2>1. \A i \in C : DetResult(c, list[i], i)[tag] \in Int BY <1>2, ResultInt DEF CountedOf, ItemsHold
  <2>2. \A i \in C : f[i] \in Int BY <2>1
  <2> HIDE DEF f
  <2>3. SumOf(f, C) \in Int
    <3> HIDE DEF C
    <3>. QED BY <1>1, <2>2, SumInt
  <2>. QED BY <2>3 DEF f
<1>3. \A tag : Amount(IcmsOf(c, list), "ICMS", tag) \in Int
  <2> TAKE tag
  <2> DEFINE U == IcmsOf(c, list)
             W == Write(U, "ICMS", {tag})
  <2>1. IsFiniteSet(U) /\ \A l \in U : l.v \in Int BY IcmsOfHolds
  <2>2. W \in SUBSET U BY DEF Write
  <2>3. Amount(U, "ICMS", tag) = Sum(W) BY DEF Amount
  <2> HIDE DEF U, W
  <2>4. IsFiniteSet(W) BY <2>1, <2>2, FS_Subset
  <2>5. \A l \in W : l.v \in Int BY <2>1, <2>2
  <2>6. Sum(W) \in Int BY <2>4, <2>5, LeavesInt
  <2>. QED BY <2>3, <2>6 DEF U
<1>4. \A tag \in AddedByItems : Totals(ResultsOf(c, list))[tag] \in Int BY <1>2, TotalsAre
<1>5. \A tag \in DOMAIN AddedByIcms : Totals(ResultsOf(c, list))[tag] \in Int BY <1>3, TotalsAre
<1>. QED BY <1>4, <1>5

\* Some item has IBS/CBS, so every item states its value.
AnyIbsCbs(list) == \E i \in DOMAIN list : Given(list[i], "IBSCBS")
\* What the XML has of item i of the list.
DetOf(c, list, i) == build_det(c, AnyIbsCbs(list), list[i], i)
\* The totals in an XML.
TotalOf(c, h, list) == build_total(c, h, Totals(ResultsOf(c, list)), DeductsRelief(ResultsOf(c, list)))
\* The parts of an XML that are of the document, but for the totals.
PartiesOf(c, h) == build_emit(c, h) \cup build_dest(c, h) \cup build_withdrawal(h) \cup build_delivery(h) \cup build_aut_xml(h)
CargoOf(h) == build_transp(h) \cup build_cobr(h) \cup build_pag(h)
RestOf(h, drawn) ==
    build_intermediary(h) \cup build_inf_adic(h) \cup build_export(h) \cup build_purchase(h) \cup build_cana(h)
    \cup build_tech_responsible_with_key(h, drawn)

\* An XML is what the builders of its parts write, and nothing else.
LEMMA XmlIs ==
    ASSUME NEW c, NEW h, NEW list, NEW drawn, NEW l
    PROVE  l \in generate_xml(c, h, list, drawn)
           <=> \/ l \in build_ide(c, h, drawn) \/ l \in PartiesOf(c, h) \/ l \in CargoOf(h) \/ l \in RestOf(h, drawn)
               \/ l \in Pl010(c, build_agropecuario(h)) \/ l \in TotalOf(c, h, list)
               \/ \E i \in DOMAIN list : l \in DetOf(c, list, i)
<1> DEFINE dets == UNION {DetOf(c, list, i) : i \in DOMAIN list}
           ide == build_ide(c, h, drawn)
           agro == Pl010(c, build_agropecuario(h))
           total == TotalOf(c, h, list)
<1>1. generate_xml(c, h, list, drawn)
      = ide \cup build_emit(c, h) \cup build_dest(c, h) \cup build_withdrawal(h) \cup build_delivery(h)
        \cup build_aut_xml(h) \cup dets \cup total \cup build_transp(h) \cup build_cobr(h) \cup build_pag(h)
        \cup build_intermediary(h) \cup build_inf_adic(h) \cup build_export(h) \cup build_purchase(h)
        \cup build_cana(h) \cup build_tech_responsible_with_key(h, drawn) \cup agro
  BY Zenon DEF generate_xml, ResultsOf, DetOf, AnyIbsCbs, TotalOf
<1>2. l \in dets <=> \E i \in DOMAIN list : l \in DetOf(c, list, i) OBVIOUS
<1> HIDE DEF dets, ide, agro, total
<1>3. l \in generate_xml(c, h, list, drawn)
      <=> l \in ide \cup PartiesOf(c, h) \cup CargoOf(h) \cup RestOf(h, drawn) \cup agro \cup total \cup dets
  BY <1>1 DEF PartiesOf, CargoOf, RestOf
<1>. QED BY <1>2, <1>3 DEF ide, agro, total

\* Every value of an XML is traced to the document or to one item.
LEMMA XmlTraced ==
    ASSUME NEW c \in SettingSet, NEW h, Holds(h, 0), NEW list, ItemsHold(list), NEW drawn \in Int,
           NEW l \in generate_xml(c, h, list, drawn)
    PROVE  Traced(l, c, h, drawn) \/ \E i \in DOMAIN list : /\ l \in DetOf(c, list, i)
                                                            /\ Fair(l, list[i], i) \/ NamedByProgram(l, c, list[i], i)
<1>1. \A i \in DOMAIN list : l \in DetOf(c, list, i) => Fair(l, list[i], i) \/ NamedByProgram(l, c, list[i], i)
  BY DetFair DEF ItemsHold, DetOf
<1>2. l \in TotalOf(c, h, list) => Traced(l, c, h, drawn)
  <2> DEFINE t == Totals(ResultsOf(c, list))
             deduz == DeductsRelief(ResultsOf(c, list))
  <2>1. \A tag \in AddedByItems \cup DOMAIN AddedByIcms : t[tag] \in Int BY TotalsInt
  <2>2. TotalOf(c, h, list) = build_total(c, h, t, deduz) BY DEF TotalOf
  <2> HIDE DEF t, deduz
  <2>3. l \in build_total(c, h, t, deduz) => Traced(l, c, h, drawn) BY <2>1, TotalsTraced
  <2>. QED BY <2>2, <2>3
<1>3. l \in build_ide(c, h, drawn) => Traced(l, c, h, drawn) BY IdeTraced
<1>4. l \in build_emit(c, h) \cup build_dest(c, h) => Traced(l, c, h, drawn) BY PartiesTraced
<1>5. l \in build_withdrawal(h) \cup build_delivery(h) \cup build_aut_xml(h) \cup build_transp(h)
           \cup build_cobr(h) \cup build_pag(h) => Traced(l, c, h, drawn)
  BY CargoTraced
<1>6. l \in PartiesOf(c, h) \cup CargoOf(h) => Traced(l, c, h, drawn) BY <1>4, <1>5 DEF PartiesOf, CargoOf
<1>7. l \in RestOf(h, drawn) \cup Pl010(c, build_agropecuario(h)) => Traced(l, c, h, drawn)
  BY RestTraced DEF RestOf
<1>. QED BY <1>1, <1>2, <1>3, <1>6, <1>7, XmlIs

-----------------------------------------------------------------------------
(***************************************************************************)
(* The invariant of the builder.                                           *)
(***************************************************************************)

\* The builder's invariant.
BuilderInv ==
    /\ phase \in {"draft", "built", "signed", "failed"} /\ calls \in 0..MaxCalls
    /\ s \in SettingSet /\ Holds(d, 0) /\ ItemsHold(items)
    /\ phase = "draft" => xml = {}
    /\ IsBuilt => xml # {}
    /\ xml # {} => /\ cNF \in Draws /\ xml = generate_xml(s, d, items, cNF)
                   /\ \A i \in DOMAIN items : ~DetError(s, items[i])

\* A well formed struct is held as of the document.
LEMMA WellFormedHolds ==
    ASSUME NEW h, OfADocument(h) \/ AnItem(h) PROVE Holds(h, 0)
<1>1. PICK structs, lists : WellFormed(h, structs, lists) /\ lists \in {DocumentLists, ItemLists}
  BY DEF OfADocument, AnItem
<1>2. \A in \in Single : in \notin lists BY <1>1 DEF Single, DocumentLists, ItemLists
<1>. QED BY <1>1, <1>2 DEF WellFormed, Holds, FieldSet

\* A leaf put together from its parts.
LEMMA InFieldSet ==
    ASSUME NEW n \in Nat, NEW in \in STRING, NEW m \in Seq(Nat),
           NEW tag \in STRING, NEW v \in Int
    PROVE  /\ [n |-> n, in |-> in, m |-> m, tag |-> tag, v |-> v] \in FieldSet({n})
           /\ [n |-> n, in |-> in, m |-> m, tag |-> tag, v |-> v] \in FieldSet(Nat)
BY DEF FieldSet

\* An item in its place.
LEMMA PlacedHolds ==
    ASSUME NEW h, AnItem(h), NEW n \in Nat
    PROVE  Holds(Placed(h, n), n) /\ Placed(h, n) \in SUBSET FieldSet(Nat)
<1> DEFINE move == [l \in h |-> [l EXCEPT !.n = n]]
           M == Placed(h, n)
<1>1. Holds(h, 0) BY WellFormedHolds
<1>2. \A l \in h : l = [n |-> l.n, in |-> l.in, m |-> l.m, tag |-> l.tag, v |-> l.v]
                   /\ l.in \in STRING /\ l.m \in Seq(Nat) /\ l.tag \in STRING /\ l.v \in Int /\ l.n = 0
  BY <1>1 DEF Holds, FieldSet
<1>3. IsFiniteSet(M)
  <2>1. move \in Surjection(h, M) BY DEF Surjection, Placed
  <2> HIDE DEF move, M
  <2>. QED BY <1>1, <2>1, FS_Surjection DEF Holds
<1>4. \A l \in M : \E o \in h : l = [n |-> n, in |-> o.in, m |-> o.m, tag |-> o.tag, v |-> o.v] BY <1>2 DEF Placed
<1>5. M \subseteq FieldSet({n}) /\ M \subseteq FieldSet(Nat)
  <2> HIDE DEF M
  <2>1. ASSUME NEW l \in M PROVE l \in FieldSet({n}) /\ l \in FieldSet(Nat)
    <3>1. PICK o \in h : l = [n |-> n, in |-> o.in, m |-> o.m, tag |-> o.tag, v |-> o.v] BY <1>4
    <3>2. o.in \in STRING /\ o.m \in Seq(Nat) /\ o.tag \in STRING /\ o.v \in Int BY <1>2
    <3>. QED BY <3>1, <3>2, InFieldSet
  <2>. QED BY <2>1
<1>6. \A l \in M : l.in \in Single => l.m = <<>>
  <2>1. \A o \in h : o.in \in Single => o.m = <<>> BY <1>1 DEF Holds
  <2> HIDE DEF M
  <2>. QED BY <1>4, <2>1
<1>7. \A l, o \in M : l.in = o.in /\ l.tag = o.tag /\ l.m = o.m => l = o
  <2>1. \A l, o \in h : l.in = o.in /\ l.tag = o.tag /\ l.m = o.m => l = o BY <1>1 DEF Holds
  <2> HIDE DEF M
  <2>. QED BY <1>4, <2>1
<1> HIDE DEF M
<1>8. Holds(M, n) BY <1>3, <1>5, <1>6, <1>7 DEF Holds
<1>. QED BY <1>5, <1>8 DEF M

\* An XML has an identification.
LEMMA XmlHasIde ==
    ASSUME NEW c, NEW h, NEW list, NEW drawn
    PROVE  \E l \in generate_xml(c, h, list, drawn) : l.in = "ide"
<1> DEFINE l == Leaf(0, "ide", <<>>, "cNF", drawn)
<1>1. l \in build_ide(c, h, drawn) BY DEF build_ide, Put
<1>2. l \in generate_xml(c, h, list, drawn)
  <2> HIDE DEF l
  <2>. QED BY <1>1, XmlIs
<1>. QED BY <1>2 DEF Leaf

\* BuilderInv holds in a new builder.
LEMMA BuilderInit == Init => BuilderInv
<1>1. SUFFICES ASSUME Init PROVE BuilderInv OBVIOUS
<1>2. s \in SettingSet BY <1>1, SettingsAssumption DEF Init, SettingSet
<1>3. Holds(d, 0) BY <1>1, DataAssumption, WellFormedHolds DEF Init
<1>4. ItemsHold(items) BY <1>1 DEF Init, ItemsHold
<1>. QED BY <1>1, <1>2, <1>3, <1>4, BoundsAssumption DEF BuilderInv, Init, IsBuilt

\* A setter keeps it: what it replaces goes, what it brings is well formed.
LEMMA SetKeeps ==
    ASSUME BuilderInv, NEW part \in Parts, Set(part)
    PROVE  BuilderInv'
<1> DEFINE K == {l \in d : /\ l.in \notin part.groups
                           /\ ~\E o \in part.leaves : o.in = l.in /\ o.tag = l.tag}
<1>1. d' = K \cup part.leaves /\ UNCHANGED <<s, items, phase, xml, cNF>> /\ phase = "draft" /\ calls' = calls + 1
      /\ calls < MaxCalls
  BY DEF Set, Draft
<1>2. Holds(part.leaves, 0) /\ Holds(d, 0) BY DataAssumption, WellFormedHolds DEF BuilderInv, APart
<1>3. IsFiniteSet(K \cup part.leaves)
  <2>1. K \in SUBSET d OBVIOUS
  <2> HIDE DEF K
  <2>2. IsFiniteSet(K) BY <1>2, <2>1, FS_Subset DEF Holds
  <2>. QED BY <1>2, <2>2, FS_Union DEF Holds
<1>4. \A l \in K : l \in d /\ ~\E o \in part.leaves : o.in = l.in /\ o.tag = l.tag OBVIOUS
<1>5. Holds(K \cup part.leaves, 0)
  <2> HIDE DEF K
  <2>. QED BY <1>2, <1>3, <1>4 DEF Holds
<1>6. Holds(d', 0) BY <1>1, <1>5
<1> HIDE DEF K
<1>. QED BY <1>1, <1>6, BoundsAssumption DEF BuilderInv, IsBuilt

\* A change of the items that keeps them numbered keeps it.
LEMMA ItemsKeep ==
    ASSUME BuilderInv, Draft, UNCHANGED <<s, d>>, ItemsHold(items')
    PROVE  BuilderInv'
BY BoundsAssumption DEF BuilderInv, IsBuilt, Draft

\* add_item keeps it.
LEMMA AddKeeps ==
    ASSUME BuilderInv, NEW item \in Items, add_item(item)
    PROVE  BuilderInv'
<1> DEFINE added == Placed(item, Len(items) + 1)
<1>1. Draft /\ UNCHANGED <<s, d>> /\ items' = Append(items, added) BY DEF add_item
<1>2. items \in Seq(SUBSET FieldSet(Nat)) /\ \A i \in DOMAIN items : Holds(items[i], i)
  BY DEF BuilderInv, ItemsHold
<1>3. Len(items) + 1 \in Nat BY <1>2
<1>4. Holds(added, Len(items) + 1) /\ added \in SUBSET FieldSet(Nat)
  BY <1>3, DataAssumption, PlacedHolds
<1> HIDE DEF added
<1>5. items' \in Seq(SUBSET FieldSet(Nat)) BY <1>1, <1>2, <1>4
<1>6. \A i \in DOMAIN items' : \/ i \in DOMAIN items /\ items'[i] = items[i]
                               \/ i = Len(items) + 1 /\ items'[i] = added
  BY <1>1, <1>2, <1>4
<1>7. ItemsHold(items') BY <1>2, <1>4, <1>5, <1>6 DEF ItemsHold
<1>. QED BY <1>1, <1>7, ItemsKeep

\* The setter of all items keeps it.
LEMMA ListKeeps ==
    ASSUME BuilderInv, NEW list \in Lists, set_items(list)
    PROVE  BuilderInv'
<1>1. Draft /\ UNCHANGED <<s, d>> /\ items' = [i \in DOMAIN list |-> Placed(list[i], i)] BY DEF set_items
<1>2. DOMAIN list = 1..Len(list) /\ Len(list) \in Nat /\ \A i \in DOMAIN list : AnItem(list[i])
  <2>1. \A T : list \in Seq(T) => DOMAIN list = 1..Len(list) /\ Len(list) \in Nat OBVIOUS
  <2>2. list \in Seq({list[i] : i \in DOMAIN list}) /\ \A i \in DOMAIN list : AnItem(list[i])
    BY DataAssumption
  <2>. QED BY <2>1, <2>2
<1>3. \A i \in DOMAIN list : Holds(Placed(list[i], i), i) /\ Placed(list[i], i) \in SUBSET FieldSet(Nat)
  BY <1>2, PlacedHolds
<1>4. items' \in Seq(SUBSET FieldSet(Nat)) BY <1>1, <1>2, <1>3
<1>5. ItemsHold(items') BY <1>1, <1>3, <1>4 DEF ItemsHold
<1>. QED BY <1>1, <1>5, ItemsKeep

\* A change of the settings keeps it.
LEMMA SettingsKeep ==
    ASSUME BuilderInv, Draft, UNCHANGED <<d, items>>, s' \in SettingSet
    PROVE  BuilderInv'
BY BoundsAssumption DEF BuilderInv, IsBuilt, Draft

\* build keeps it: the XML is generated, or nothing is.
LEMMA BuildKeeps ==
    ASSUME BuilderInv, build
    PROVE  BuilderInv'
<1>1. PICK drawn \in Draws :
        /\ phase = "draft" /\ UNCHANGED <<s, d, items, calls>>
        /\ \/ BuildError /\ phase' = "failed" /\ UNCHANGED <<xml, cNF>>
           \/ ~BuildError /\ phase' = "built" /\ xml' = generate_xml(s, d, items, drawn) /\ cNF' = drawn
  BY DEF build
<1>2. xml = {} BY <1>1 DEF BuilderInv
<1>3. CASE phase' = "failed" /\ UNCHANGED <<xml, cNF>>
  BY <1>1, <1>2, <1>3 DEF BuilderInv, IsBuilt
<1>4. CASE ~BuildError /\ phase' = "built" /\ xml' = generate_xml(s, d, items, drawn) /\ cNF' = drawn
  <2>1. xml' # {} BY <1>4, XmlHasIde
  <2>2. xml' = generate_xml(s', d', items', cNF') BY <1>1, <1>4
  <2>3. \A i \in DOMAIN items : ~DetError(s, items[i]) BY <1>4 DEF BuildError
  <2>. QED BY <1>1, <1>4, <2>1, <2>2, <2>3 DEF BuilderInv, IsBuilt
<1>. QED BY <1>1, <1>3, <1>4

\* Every step keeps it.
LEMMA BuilderStep == BuilderInv /\ [Next]_vars => BuilderInv'
<1>1. SUFFICES ASSUME BuilderInv, [Next]_vars PROVE BuilderInv' OBVIOUS
<1>2. ASSUME NEW part \in Parts, Set(part) PROVE BuilderInv' BY <1>1, <1>2, SetKeeps
<1>3. ASSUME NEW item \in Items, add_item(item) PROVE BuilderInv' BY <1>1, <1>3, AddKeeps
<1>4. ASSUME NEW list \in Lists, set_items(list) PROVE BuilderInv' BY <1>1, <1>4, ListKeeps
<1>5. ASSUME NEW pl010 \in BOOLEAN, schema_version(pl010) PROVE BuilderInv'
  <2>1. s' \in SettingSet BY <1>1, <1>5 DEF schema_version, BuilderInv, SettingSet
  <2>. QED BY <1>1, <1>5, <2>1, SettingsKeep DEF schema_version
<1>6. ASSUME NEW tpEmis \in {1, 6, 9}, emission_type(tpEmis) PROVE BuilderInv'
  <2>1. s' \in SettingSet BY <1>1, <1>6 DEF emission_type, BuilderInv, SettingSet
  <2>. QED BY <1>1, <1>6, <2>1, SettingsKeep DEF emission_type
<1>7. CASE build BY <1>1, <1>7, BuildKeeps
<1>8. CASE sign_with BY <1>1, <1>8 DEF sign_with, BuilderInv, IsBuilt
<1>9. CASE UNCHANGED vars BY <1>1, <1>9 DEF vars, BuilderInv, IsBuilt
<1>. QED BY <1>1, <1>2, <1>3, <1>4, <1>5, <1>6, <1>7, <1>8, <1>9 DEF Next

\* In every reachable state what was set is well formed and the XML, once
\* built, is generate_xml of what was set and of a number drawn.
THEOREM BuilderInvariant == Spec => []BuilderInv
BY BuilderInit, BuilderStep, PTL DEF Spec

\* Every value of the XML, in terms of the state.
LEMMA XmlOfState ==
    ASSUME BuilderInv, NEW l \in xml
    PROVE  Traced(l, s, d, cNF) \/ \E i \in DOMAIN items : /\ l \in DetOf(s, items, i)
                                                           /\ Fair(l, items[i], i) \/ NamedByProgram(l, s, items[i], i)
<1>1. xml # {} OBVIOUS
<1>2. cNF \in Int
  <2>1. cNF \in Draws BY <1>1 DEF BuilderInv
  <2>2. Draws \subseteq Nat BY BoundsAssumption
  <2>. QED BY <2>1, <2>2
<1>3. l \in generate_xml(s, d, items, cNF) BY <1>1 DEF BuilderInv
<1>4. s \in SettingSet /\ Holds(d, 0) /\ ItemsHold(items) BY DEF BuilderInv
<1>. QED BY <1>2, <1>3, <1>4, XmlTraced

\* The invariant gives the types.
LEMMA TypeOfState == BuilderInv => TypeOK
<1>1. SUFFICES ASSUME BuilderInv PROVE TypeOK OBVIOUS
<1>2. \A i \in DOMAIN items : Holds(items[i], i) BY <1>1 DEF BuilderInv, ItemsHold
<1>3. \A i \in DOMAIN items : \A l \in items[i] : l.n = i BY <1>2 DEF Holds, FieldSet
<1>4. DOMAIN items = 1..Len(items) /\ Len(items) \in Nat BY <1>1, PlacesFinite DEF BuilderInv
<1>5. \A l \in xml : l.n \in 0..Len(items) /\ l.v \in Int
  <2>1. \A l : Traced(l, s, d, cNF) => l.n = 0 /\ l.v \in Int
    BY <1>1 DEF BuilderInv, Traced, Holds, FieldSet
  <2>2. \A l : \A i \in DOMAIN items : Fair(l, items[i], i) \/ NamedByProgram(l, s, items[i], i) => l.n = i /\ l.v \in Int
    BY <1>2 DEF Fair, NamedByProgram, Notice, Holds, FieldSet
  <2>. QED BY <1>1, <1>4, <2>1, <2>2, XmlOfState
<1>6. xml = {} <=> ~\E l \in xml : l.in = "ide" BY <1>1, XmlHasIde DEF BuilderInv
<1>. QED BY <1>1, <1>3, <1>5, <1>6 DEF TypeOK, BuilderInv

\* The builder's state has its types, for all settings, parts and items
\* (builder.rs, InvoiceBuilder).
THEOREM TypeCorrect == Spec => []TypeOK
BY BuilderInvariant, TypeOfState, PTL

\* The invariant, and the trace of every value, say that none is invented.
LEMMA NotInvented == BuilderInv => NothingInvented
<1>1. SUFFICES ASSUME BuilderInv, NEW l \in xml, l \notin Given_
      PROVE  \/ l.v = 0 \/ <<l.in, l.tag, l.v>> \in Codes \/ Computed(l)
             \/ l.v = Notice /\ (RenamedRecipient(l) \/ (l.n # 0 /\ RenamedItem(items[l.n], l)))
             \/ \E o \in Given_ : Restamped(o, l) \/ (o.n = l.n /\ o.v = l.v /\ <<o.in, o.tag>> = TakenFrom(l))
  BY DEF NothingInvented
<1>2. Holds(d, 0) /\ \A i \in DOMAIN items : Holds(items[i], i) BY <1>1 DEF BuilderInv, ItemsHold
<1>3. CASE Traced(l, s, d, cNF)
  <2>1. l \notin d BY <1>1 DEF Given_
  <2>2. l.n = 0 /\ OfTheProgram(l, s, d, cNF) BY <1>3, <2>1 DEF Traced
  <2>3. ASSUME NEW in, NEW tag, Copied(l, d, in, tag), <<in, tag>> = TakenFrom(l)
        PROVE  \E o \in Given_ : o.n = l.n /\ o.v = l.v /\ <<o.in, o.tag>> = TakenFrom(l)
    BY <1>2, <2>2, <2>3 DEF Copied, Given_, Holds, FieldSet
  <2>4. /\ l.in = "ide" /\ l.tag = "cMunFG" => <<"enderEmit", "cMun">> = TakenFrom(l)
        /\ l.in = "ide" /\ l.tag = "cUF" => <<"enderEmit", "UF">> = TakenFrom(l)
        /\ l.in = "infAdic" /\ l.tag = "contingencia" => <<"ide", "xJust">> = TakenFrom(l)
        /\ l.in = "enderDest" => <<"enderEmit", l.tag>> = TakenFrom(l)
    BY DEF TakenFrom
  <2>5. ASSUME l.in = "ide", l.tag \in Dates,
               NEW o \in d, <<o.in, o.tag>> = <<l.in, l.tag>>, l.v = format_datetime_nfe(o.v, StateOf(d))
        PROVE  o \in Given_ /\ Restamped(o, l)
    <3>1. o.n = 0 /\ o.v \in Int BY <1>2 DEF Holds, FieldSet
    <3>2. l.v \div 100 = o.v \div 100 /\ l.v % 100 = UtcOffset(StateOf(d)) BY <2>5, <3>1, OffsetKeepsDigits
    <3>. QED BY <2>2, <2>5, <3>1, <3>2 DEF Given_, Restamped, Dates
  <2>6. l.v = Notice /\ <<l.in, l.tag>> = <<"dest", "xNome">> /\ s.homologation => RenamedRecipient(l)
    BY DEF RenamedRecipient
  <2>7. <<l.in, l.tag, l.v>> \in {<<"ide", "cNF", cNF>>, <<"ide", "cDV", check_digit(cNF)>>,
          <<"ide", "mod", s.model>>, <<"ide", "tpEmis", s.tpEmis>>,
          <<"ide", "tpAmb", IF s.homologation THEN 2 ELSE 1>>, <<"emit", "CRT", s.tax_regime>>} => Computed(l)
    BY DEF Computed
  <2>. QED BY <2>2, <2>3, <2>4, <2>5, <2>6, <2>7 DEF OfTheProgram, Computed
<1>5. CASE \E i \in DOMAIN items : NamedByProgram(l, s, items[i], i)
  <2>1. PICK i \in DOMAIN items : NamedByProgram(l, s, items[i], i) BY <1>5
  <2>2. i # 0
    <3>1. DOMAIN items = 1..Len(items) /\ Len(items) \in Nat BY <1>1, PlacesFinite DEF BuilderInv
    <3>. QED BY <3>1
  <2>. QED BY <2>1, <2>2 DEF NamedByProgram, RenamedItem
<1>4. CASE \E i \in DOMAIN items : Fair(l, items[i], i)
  <2>1. PICK i \in DOMAIN items : Fair(l, items[i], i) BY <1>4
  <2>2. l \notin items[i] BY <1>1 DEF Given_
  <2>3. l.n = i /\ ByProgram(l, items[i]) BY <2>1, <2>2 DEF Fair
  <2>4. ASSUME NEW in, NEW tag, Copied(l, items[i], in, tag), <<in, tag>> = TakenFrom(l)
        PROVE  \E o \in Given_ : o.n = l.n /\ o.v = l.v /\ <<o.in, o.tag>> = TakenFrom(l)
    <3>1. PICK o \in items[i] : o.in = in /\ o.tag = tag /\ o.v = l.v BY <2>4 DEF Copied
    <3>2. o.n = i BY <1>2, <3>1 DEF Holds, FieldSet
    <3>3. o \in Given_ BY <3>1 DEF Given_
    <3>. QED BY <2>3, <2>4, <3>1, <3>2, <3>3
  <2>5. /\ l.in = "ICMS" /\ l.tag = "vBC" => <<"prod", "vProd">> = TakenFrom(l)
        /\ l.in = "prod" /\ l.tag = "uTrib" => <<"prod", "uCom">> = TakenFrom(l)
        /\ l.in = "prod" /\ l.tag = "qTrib" => <<"prod", "qCom">> = TakenFrom(l)
        /\ l.in = "prod" /\ l.tag = "vUnTrib" => <<"prod", "vUnCom">> = TakenFrom(l)
    BY DEF TakenFrom
  <2>7. l.in = "det" /\ l.tag = "vItem" => Computed(l) BY DEF Computed
  <2>. QED BY <2>3, <2>4, <2>5, <2>7 DEF ByProgram
<1>. QED BY <1>1, <1>3, <1>4, <1>5, XmlOfState

\* Whatever the caller sets, a value of the XML is one that was set, a code of the
\* program, a zero, a text of its own, or computed (xml_builder).
THEOREM NothingIsInvented == Spec => []NothingInvented
BY BuilderInvariant, NotInvented, PTL

-----------------------------------------------------------------------------
(***************************************************************************)
(* The groups of each part, and the groups of the new schema.              *)
(***************************************************************************)

\* The groups of the parts of the document, but for the totals of ICMS.
PartyGroups == {"emit", "enderEmit", "dest", "enderDest", "retirada", "entrega", "autXML"}
\* The groups of the identification.
IdeGroups == {"ide", "refNFe", "refNFeSig", "refNF", "refNFP", "refCTe", "refECF"}
\* The groups of transport, billing and payment.
CargoGroups == {"transp", "transporta", "retTransp", "veicTransp", "reboque", "vol", "lacres", "fat", "dup",
                "detPag", "card", "pag"}
\* The groups of the parts that follow, and of the totals but ICMS.
OtherGroups == {"infIntermed", "infAdic", "obsCont", "obsFisco", "procRef", "exporta", "compra", "cana", "forDia",
                "deduc", "infRespTec", "ISSQNtot", "retTrib"}
\* The groups of an item.
ProductGroups == {"prod", "NVE", "gCred", "DI", "adi", "detExport", "rastro", "veicProd", "med", "arma", "comb",
                  "CIDE", "encerrante", "origComb"}
\* The groups of its taxes.
TaxGroups == {"imposto", "ISSQN", "ICMS", "IPI", "II", "PIS", "PISST", "COFINS", "COFINSST"}
\* The groups that stand after its taxes.
ExtraGroups == {"det", "impostoDevol", "obsCont", "obsFisco", "DFeReferenciado"}

\* Writing puts a leaf in the group and under the tag that are named.
LEMMA WhereWritten ==
    ASSUME NEW h, NEW n, NEW l
    PROVE  /\ \A in, tags : l \in Write(h, in, tags) => l.in = in /\ l.tag \in tags
           /\ \A in, tags, limit : l \in FirstOf(h, in, tags, limit) => l.in = in /\ l.tag \in tags
           /\ \A in, tag, v : l \in Put(n, in, tag, v) => l.in = in /\ l.tag = tag
           /\ \A in, tag, v : l \in WriteOr(h, n, in, tag, v) => l.in = in /\ l.tag = tag
           /\ \A in, tags : l \in OrZero(h, n, in, tags) => l.in = in /\ l.tag \in tags
           /\ \A in, tags, uf : l \in Restamp(Write(h, in, tags), uf) => l.in = in /\ l.tag \in tags
<1>1. \A in, tags : l \in Write(h, in, tags) => l.in = in /\ l.tag \in tags BY DEF Write
<1>6. \A in, tags, uf : l \in Restamp(Write(h, in, tags), uf) => l.in = in /\ l.tag \in tags
  BY DEF Restamp, Write, Leaf
<1>2. \A in, tags, limit : l \in FirstOf(h, in, tags, limit) => l.in = in /\ l.tag \in tags
  BY <1>1 DEF FirstOf
<1>3. \A in, tag, v : l \in Put(n, in, tag, v) => l.in = in /\ l.tag = tag BY DEF Put, Leaf
<1>4. \A in, tag, v : l \in WriteOr(h, n, in, tag, v) => l.in = in /\ l.tag = tag BY <1>1, <1>3 DEF WriteOr
<1>5. \A in, tags : l \in OrZero(h, n, in, tags) => l.in = in /\ l.tag \in tags BY <1>4 DEF OrZero
<1>. QED BY <1>1, <1>2, <1>3, <1>4, <1>5, <1>6

\* The builders of the document write in the groups of their parts.
LEMMA PartsWhere ==
    ASSUME NEW c, NEW h, NEW drawn, NEW l
    PROVE  /\ l \in build_ide(c, h, drawn) => \/ l.in \in IdeGroups
                                              \/ c.pl010 /\ l.in \in {"gCompraGov", "gPagAntecipado"}
           /\ l \in build_emit(c, h) \cup build_dest(c, h) \cup build_withdrawal(h) \cup build_delivery(h)
                    \cup build_aut_xml(h) => l.in \in PartyGroups
           /\ l \in build_transp(h) \cup build_cobr(h) \cup build_pag(h) => l.in \in CargoGroups
           /\ l \in build_intermediary(h) \cup build_inf_adic(h) \cup build_export(h) \cup build_purchase(h)
                    \cup build_cana(h) \cup build_tech_responsible_with_key(h, drawn) => l.in \in OtherGroups
           /\ l \in Pl010(c, build_agropecuario(h)) => c.pl010 /\ l.in \in {"guiaTransito", "defensivo"}
<1>1. /\ \A in, tags : l \in Write(h, in, tags) => l.in = in
      /\ \A in, tags, limit : l \in FirstOf(h, in, tags, limit) => l.in = in
      /\ \A in, tag, v : l \in Put(0, in, tag, v) => l.in = in
      /\ \A in, tag, v : l \in WriteOr(h, 0, in, tag, v) => l.in = in
      /\ \A in, tags : l \in OrZero(h, 0, in, tags) => l.in = in
      /\ \A in, tags, uf : l \in Restamp(Write(h, in, tags), uf) => l.in = in
  BY WhereWritten
<1>2. l \in build_ide(c, h, drawn) => \/ l.in \in IdeGroups
                                      \/ c.pl010 /\ l.in \in {"gCompraGov", "gPagAntecipado"}
  BY <1>1 DEF build_ide, build_references, build_compra_gov, build_pag_antecipado, Pl010, IdeGroups
<1>3. l \in build_emit(c, h) => l.in \in PartyGroups BY <1>1 DEF build_emit, build_address_fields, PartyGroups
<1>4. l \in build_dest(c, h) => l.in \in PartyGroups
  <2>1. \A tag : l \in OrOfIssuer(h, tag) => l.in = "enderDest" BY <1>1 DEF OrOfIssuer
  <2>2. l \in RecipientAddress(h) => l.in = "enderDest" BY <1>1, <2>1 DEF RecipientAddress
  <2>3. l \in Contributor(c, h) => l.in = "dest" BY <1>1 DEF Contributor
  <2>. QED BY <1>1, <2>2, <2>3 DEF build_dest, PartyGroups
<1>5. l \in build_withdrawal(h) \cup build_delivery(h) \cup build_aut_xml(h) => l.in \in PartyGroups
  BY <1>1 DEF build_withdrawal, build_delivery, build_location_children, build_aut_xml, PartyGroups
<1>6. l \in build_transp(h) \cup build_cobr(h) => l.in \in CargoGroups
  BY <1>1 DEF build_transp, build_cobr, Wagon, Barge, CargoGroups
<1>7. l \in build_pag(h) => l.in \in CargoGroups BY <1>1 DEF build_pag, CardsWithPayment, CargoGroups
<1>8. l \in build_intermediary(h) \cup build_inf_adic(h) \cup build_export(h) \cup build_purchase(h)
           \cup build_cana(h) \cup build_tech_responsible_with_key(h, drawn) => l.in \in OtherGroups
  BY <1>1 DEF build_intermediary, build_inf_adic, build_export, build_purchase, build_cana,
              build_tech_responsible_with_key, OtherGroups
<1>9. l \in Pl010(c, build_agropecuario(h)) => c.pl010 /\ l.in \in {"guiaTransito", "defensivo"}
  BY <1>1 DEF Pl010, build_agropecuario
<1>. QED BY <1>2, <1>3, <1>4, <1>5, <1>6, <1>7, <1>8, <1>9

\* The groups of totals that only the new schema has.
TotalGroups == {"total", "ISTot", "IBSCBSTot", "gIBS/gIBSUF", "gIBS/gIBSMun", "gIBS", "gCBSTot", "gMono",
                "gEstornoCredTot"}

\* The totals are in theirs.
LEMMA TotalWhere ==
    ASSUME NEW c, NEW h, NEW t, NEW deduz, NEW l \in build_total(c, h, t, deduz)
    PROVE  \/ l.in = "ICMSTot" \/ l.in \in OtherGroups
           \/ c.pl010 /\ l.in \in TotalGroups
<1>1. /\ \A in, tags : l \in Write(h, in, tags) => l.in = in
      /\ \A in, tag, v : l \in Put(0, in, tag, v) => l.in = in
      /\ \A in, tags : l \in OrZero(h, 0, in, tags) => l.in = in
  BY WhereWritten
<1>2. l \in build_issqn_tot(h) \cup build_ret_trib(h) => l.in \in OtherGroups
  BY <1>1 DEF build_issqn_tot, build_ret_trib, OtherGroups
<1>3. l \in build_is_tot_xml(h) \cup build_ibs_cbs_tot_xml(h) => l.in \in TotalGroups
  BY <1>1 DEF build_is_tot_xml, build_ibs_cbs_tot_xml, IbsTotals, CbsTotals, MonoTotals, ReversedTotals, TotalGroups
<1>4. \A v : l \in Put(0, "total", "vNFTot", v) => l.in \in TotalGroups BY <1>1 DEF TotalGroups
<1>. QED BY <1>1, <1>2, <1>3, <1>4 DEF build_total, Pl010

\* The product is in its groups.
LEMMA ProductWhere ==
    ASSUME NEW c, NEW h, NEW n, NEW l \in build_prod(c, h, n)
    PROVE  l.in \in ProductGroups /\ (l.in = "prod" /\ l.tag = "tpCredPresIBSZFM" => c.pl010)
<1>1. /\ \A in, tags : l \in Write(h, in, tags) => l.in = in /\ l.tag \in tags
      /\ \A in, tags, limit : l \in FirstOf(h, in, tags, limit) => l.in = in /\ l.tag \in tags
      /\ \A in, tag, v : l \in Put(n, in, tag, v) => l.in = in /\ l.tag = tag
      /\ \A in, tag, v : l \in WriteOr(h, n, in, tag, v) => l.in = in /\ l.tag = tag
  BY WhereWritten
<1>2. l \in Description(c, h, n) => l.in = "prod" /\ l.tag = "xProd" BY <1>1 DEF Description
<1>3. l \in Taxable(h, n) => l.in = "prod" /\ l.tag \in {"uTrib", "qTrib", "vUnTrib"} BY <1>1 DEF Taxable
<1>4. l \in build_di_xml(h) => l.in \in {"DI", "adi"} BY <1>1 DEF build_di_xml, Of
<1>5. l \in build_det_export_xml(h) => l.in = "detExport" BY <1>1 DEF build_det_export_xml
<1>6. l \in build_prod_options(h) => \/ l.in \in ProductGroups /\ l.in # "prod"
                                     \/ l.in = "prod" /\ l.tag = "nRECOPI"
  BY <1>1 DEF build_prod_options, OneOfKind, build_comb_xml, ProductGroups
<1>7. l \in Pl010(c, Write(h, "prod", {"tpCredPresIBSZFM"})) => c.pl010 /\ l.in = "prod" BY <1>1 DEF Pl010
<1>. QED BY <1>1, <1>2, <1>3, <1>4, <1>5, <1>6, <1>7 DEF build_prod, ProductGroups

\* The groups of IBS and CBS in an item.
IbsCbsGroups == {"IBSCBS", "gIBSCBS", "gIBSUF", "gIBSMun", "gCBS", "gTribRegular", "gTribCompraGov",
    "gMonoPadrao", "gMonoReten", "gMonoRet", "gMonoDif", "gIBSCBSMono", "gTransfCred", "gCredPresIBSZFM",
    "gAjusteCompet", "gEstornoCred", "gCredPresOper", "gIBSCredPres", "gCBSCredPres",
    "gIBSUF/gDif", "gIBSMun/gDif", "gCBS/gDif", "gIBSUF/gDevTrib", "gIBSMun/gDevTrib", "gCBS/gDevTrib",
    "gIBSUF/gRed", "gIBSMun/gRed", "gCBS/gRed"}

\* IBS and CBS are in theirs.
LEMMA IbsCbsWhere ==
    ASSUME NEW h, NEW n, NEW l \in build_ibs_cbs_xml(h, n)
    PROVE  l.in \in IbsCbsGroups
<1>1. /\ \A in, tags : l \in Write(h, in, tags) => l.in = in
      /\ \A in, tags : l \in OrZero(h, n, in, tags) => l.in = in
  BY WhereWritten
<1>2. \A of \in {"gIBSUF", "gIBSMun", "gCBS"} : l \in Adjustments(h, of) => l.in \in IbsCbsGroups
  BY <1>1 DEF Adjustments, build_g_dif, build_g_dev_trib, build_g_red, gDif, gDevTrib, gRed, IbsCbsGroups
<1>3. l \in build_g_ibs_cbs(h, n) => l.in \in IbsCbsGroups
  BY <1>1, <1>2 DEF build_g_ibs_cbs, build_g_ibs_uf, build_g_ibs_mun, build_g_cbs, IbsCbsGroups
<1>4. l \in build_g_trib_regular(h) \cup build_g_trib_compra_gov(h) \cup build_g_ibs_cbs_mono(h)
      => l.in \in IbsCbsGroups
  BY <1>1 DEF build_g_trib_regular, build_g_trib_compra_gov, build_g_ibs_cbs_mono, IbsCbsGroups
<1>5. l \in build_g_transf_cred(h) \cup build_g_cred_pres_ibs_zfm(h) \cup build_g_ajuste_compet(h)
           \cup build_g_estorno_cred(h) \cup build_g_cred_pres_oper(h) => l.in \in IbsCbsGroups
  BY <1>1 DEF build_g_transf_cred, build_g_cred_pres_ibs_zfm, build_g_ajuste_compet, build_g_estorno_cred,
              build_g_cred_pres_oper, build_cred_pres_sub, IbsCbsGroups
<1>. QED BY <1>1, <1>3, <1>4, <1>5 DEF build_ibs_cbs_xml, IbsCbsGroups

\* The taxes of an item are in theirs, those of the new schema only under it.
LEMMA ImpostoWhere ==
    ASSUME NEW c, NEW h, NEW n, NEW l \in build_imposto(c, h, n)
    PROVE  l.in \in TaxGroups \/ (c.pl010 /\ l.in \in {"IS"} \cup IbsCbsGroups)
<1>1. /\ \A in, tags : l \in Write(h, in, tags) => l.in = in
      /\ \A in, tag, v : l \in Put(n, in, tag, v) => l.in = in
      /\ \A in, tag, v : l \in WriteOr(h, n, in, tag, v) => l.in = in
      /\ \A in, tags : l \in OrZero(h, n, in, tags) => l.in = in
  BY WhereWritten
<1>2. l \in build_icms_xml(is_simples(c), h, n) => l.in = "ICMS" BY DEF build_icms_xml, Write
<1>3. \A tax, sums : l \in calculate_contribution_tax(h, n, tax) \cup calculate_contribution_tax_st(h, n, tax, sums)
                     => l.in = tax
  BY <1>1 DEF calculate_contribution_tax, calculate_contribution_tax_st, build_contribution_outr_fields, Base
<1>4. /\ l \in build_pis_xml(h, n) => l.in = "PIS"
      /\ l \in build_pis_st_xml(h, n) => l.in = "PISST"
      /\ l \in build_cofins_xml(h, n) => l.in = "COFINS"
      /\ l \in build_cofins_st_xml(h, n) => l.in = "COFINSST"
  BY <1>3 DEF build_pis_xml, build_pis_st_xml, build_cofins_xml, build_cofins_st_xml
<1>5. /\ l \in build_ipi_xml(h, n) => l.in = "IPI"
      /\ l \in build_ii_xml(h, n) => l.in = "II"
      /\ l \in build_issqn_xml(h) => l.in = "ISSQN"
      /\ l \in build_is_xml(h) => l.in = "IS"
  BY <1>1 DEF build_ipi_xml, build_ii_xml, build_issqn_xml, build_is_xml
<1>6. l \in build_ibs_cbs_xml(h, n) => l.in \in IbsCbsGroups BY IbsCbsWhere
<1>7. l \in Write(h, "imposto", {"vTotTrib"}) => l.in = "imposto" BY <1>1
<1>8. \/ l.in \in {"imposto", "ISSQN", "ICMS", "IPI", "PIS", "PISST", "COFINS", "COFINSST", "II"}
      \/ l \in Pl010(c, build_is_xml(h) \cup IF Given(h, "IBSCBS") THEN build_ibs_cbs_xml(h, n) ELSE {})
  BY <1>2, <1>4, <1>5, <1>7 DEF build_imposto
<1>9. ASSUME l \in Pl010(c, build_is_xml(h) \cup IF Given(h, "IBSCBS") THEN build_ibs_cbs_xml(h, n) ELSE {})
      PROVE  c.pl010 /\ l.in \in {"IS"} \cup IbsCbsGroups
  BY <1>5, <1>6, <1>9 DEF Pl010
<1>. QED BY <1>8, <1>9 DEF TaxGroups

\* An item is in the groups of items, those of the new schema only under it.
LEMMA DetWhere ==
    ASSUME NEW c, NEW values, NEW h, NEW n, NEW l \in build_det(c, values, h, n)
    PROVE  \/ /\ l.in \in ProductGroups \cup TaxGroups \cup ExtraGroups
              /\ c.pl010 \/ <<l.in, l.tag>> \notin {<<"prod", "tpCredPresIBSZFM">>, <<"det", "vItem">>}
           \/ c.pl010 /\ l.in \in {"IS"} \cup IbsCbsGroups
<1>1. /\ \A in, tags : l \in Write(h, in, tags) => l.in = in /\ l.tag \in tags
      /\ \A in, tag, v : l \in Put(n, in, tag, v) => l.in = in /\ l.tag = tag
  BY WhereWritten
<1>2. l \in build_prod(c, h, n) => l.in \in ProductGroups /\ (l.in = "prod" /\ l.tag = "tpCredPresIBSZFM" => c.pl010)
  BY ProductWhere
<1>3. l \in build_imposto(c, h, n) => l.in \in TaxGroups \/ (c.pl010 /\ l.in \in {"IS"} \cup IbsCbsGroups)
  BY ImpostoWhere
<1>4. l \in build_imposto_devol(h) => l.in = "impostoDevol" BY <1>1 DEF build_imposto_devol
<1>5. \A v : l \in build_det_extras(h, IF values THEN Pl010(c, Put(n, "det", "vItem", v)) ELSE {})
             => l.in \in ExtraGroups /\ (l.in = "det" /\ l.tag = "vItem" => c.pl010)
  BY <1>1 DEF build_det_extras, Pl010, ExtraGroups
<1>6. l \in Write(h, "det", {"nItem"}) => l.in \in ExtraGroups /\ l.tag = "nItem" BY <1>1 DEF ExtraGroups
<1>7. "det" \notin ProductGroups \cup TaxGroups /\ "prod" \notin TaxGroups \cup ExtraGroups /\ "impostoDevol" \in ExtraGroups
  BY DEF ProductGroups, TaxGroups, ExtraGroups
<1>. QED BY <1>2, <1>3, <1>4, <1>5, <1>6, <1>7 DEF build_det

\* The groups both schemas have are not of the new one.
LEMMA GroupsApart ==
    ASSUME NEW g \in IdeGroups \cup PartyGroups \cup CargoGroups \cup OtherGroups \cup {"ICMSTot"}
                     \cup ProductGroups \cup TaxGroups \cup ExtraGroups
    PROVE  g \notin Pl010Groups
<1>1. g \in IdeGroups \cup PartyGroups => g \notin Pl010Groups
  BY DEF IdeGroups, PartyGroups, Pl010Groups, gDif, gDevTrib, gRed
<1>2. g \in CargoGroups \cup OtherGroups \cup {"ICMSTot"} => g \notin Pl010Groups
  BY DEF CargoGroups, OtherGroups, Pl010Groups, gDif, gDevTrib, gRed
<1>3. g \in ProductGroups \cup TaxGroups \cup ExtraGroups => g \notin Pl010Groups
  BY DEF ProductGroups, TaxGroups, ExtraGroups, Pl010Groups, gDif, gDevTrib, gRed
<1>. QED BY <1>1, <1>2, <1>3

\* A leaf of the XML that is of no item and no total is in the groups of its part.
LEMMA XmlWhere ==
    ASSUME BuilderInv, NEW l \in xml
    PROVE  \/ l.in \in IdeGroups \cup PartyGroups \cup CargoGroups \cup OtherGroups
           \/ l.in \in {"gCompraGov", "gPagAntecipado", "guiaTransito", "defensivo"}
           \/ l \in TotalOf(s, d, items)
           \/ \E i \in DOMAIN items : l \in DetOf(s, items, i)
<1>1. l \in generate_xml(s, d, items, cNF) BY DEF BuilderInv
<1>2. /\ l \in build_ide(s, d, cNF) => l.in \in IdeGroups \/ l.in \in {"gCompraGov", "gPagAntecipado"}
      /\ l \in PartiesOf(s, d) => l.in \in PartyGroups
      /\ l \in CargoOf(d) => l.in \in CargoGroups
      /\ l \in RestOf(d, cNF) => l.in \in OtherGroups
      /\ l \in Pl010(s, build_agropecuario(d)) => l.in \in {"guiaTransito", "defensivo"}
  BY PartsWhere DEF PartiesOf, CargoOf, RestOf
<1>. QED BY <1>1, <1>2, XmlIs

\* The invariant, and where each builder writes, keep the old schema free of the
\* new groups.
LEMMA OfBothSchemas == BuilderInv => OnlyPl010
<1>1. SUFFICES ASSUME BuilderInv, IsBuilt, ~s.pl010, NEW l \in xml PROVE ~OfPl010(l) BY DEF OnlyPl010
<1>2. l \in generate_xml(s, d, items, cNF) BY <1>1 DEF BuilderInv
<1>3. /\ l \in build_ide(s, d, cNF) => l.in \in IdeGroups
      /\ l \in PartiesOf(s, d) => l.in \in PartyGroups
      /\ l \in CargoOf(d) => l.in \in CargoGroups
      /\ l \in RestOf(d, cNF) => l.in \in OtherGroups
      /\ l \notin Pl010(s, build_agropecuario(d))
  BY <1>1, PartsWhere DEF PartiesOf, CargoOf, RestOf
<1>4. l \in TotalOf(s, d, items) => l.in = "ICMSTot" \/ l.in \in OtherGroups
  BY <1>1, TotalWhere DEF TotalOf
<1>5. ASSUME NEW i \in DOMAIN items, l \in DetOf(s, items, i)
      PROVE  /\ l.in \in ProductGroups \cup TaxGroups \cup ExtraGroups
             /\ <<l.in, l.tag>> \notin {<<"prod", "tpCredPresIBSZFM">>, <<"det", "vItem">>}
  BY <1>1, <1>5, DetWhere DEF DetOf
<1>6. \/ l.in \in IdeGroups \cup PartyGroups \cup CargoGroups \cup OtherGroups \cup {"ICMSTot"}
      \/ l.in \in ProductGroups \cup TaxGroups \cup ExtraGroups
         /\ <<l.in, l.tag>> \notin {<<"prod", "tpCredPresIBSZFM">>, <<"det", "vItem">>}
  BY <1>2, <1>3, <1>4, <1>5, XmlIs
<1>7. \A g \in IdeGroups \cup PartyGroups \cup CargoGroups \cup OtherGroups \cup {"ICMSTot"} :
        g \notin {"prod", "det", "total"}
  BY DEF IdeGroups, PartyGroups, CargoGroups, OtherGroups
<1>8. "total" \notin ProductGroups \cup TaxGroups \cup ExtraGroups BY DEF ProductGroups, TaxGroups, ExtraGroups
<1>9. l.in \notin Pl010Groups BY <1>6, GroupsApart
<1>. QED BY <1>6, <1>7, <1>8, <1>9 DEF OfPl010

\* For every invoice: nothing that only PL_010 has is in an XML built under the
\* schema before it (each build_* checks schema_version).
THEOREM SchemaIsKept == Spec => []OnlyPl010
BY BuilderInvariant, OfBothSchemas, PTL
-----------------------------------------------------------------------------
(***************************************************************************)
(* What is set has the shape of the structs of the program.                *)
(***************************************************************************)

\* The leaf l is a field of the struct st.
Field(l, st) == l.in = st.in /\ l.tag \in st.required \cup st.optional
\* The leaves of h are fields of structs, each where its struct is; a struct
\* inside another one is given with it.
Shaped(h, structs, lists) ==
    /\ \A l \in h : (\E st \in structs : Field(l, st)) /\ (l.in \in lists <=> l.m # <<>>)
    /\ \A pair \in Inside : Given(h, pair[1]) => Given(h, pair[2])
\* What is set has the shape of the structs of the program.
ShapeInv ==
    /\ Shaped(d, DocumentStructs, DocumentLists)
    /\ \A i \in DOMAIN items : Shaped(items[i], ItemStructs, ItemLists)

\* The structs of IBS/CBS are for groups of their own, those of the schema PL_010.
LEMMA IbsCbsApart ==
    ASSUME NEW st \in IbsCbsStructs
    PROVE  st.in \in Pl010Groups /\ st.in \notin {"det", "PISST", "COFINSST"}
<1>1. ASSUME NEW of \in ThreeTaxes, st \in {GDifData(of), GDevTribData(of), GRedData(of)}
      PROVE  st.in \in Pl010Groups /\ st.in \notin {"det", "PISST", "COFINSST"}
  <2>1. of \in DOMAIN gDif BY DEF ThreeTaxes, gDif
  <2>2. st.in \in {gDif[of], gDevTrib[of], gRed[of]} BY <1>1 DEF GDifData, GDevTribData, GRedData, Struct
  <2>3. {gDif[of], gDevTrib[of], gRed[of]} \subseteq Pl010Groups BY <2>1 DEF Pl010Groups
  <2>4. \A in \in {gDif[of], gDevTrib[of], gRed[of]} : in \notin {"det", "PISST", "COFINSST"}
    BY DEF ThreeTaxes, gDif, gDevTrib, gRed
  <2>. QED BY <2>2, <2>3, <2>4
<1>2. ASSUME st \in {IbsCbsData, GIbsCbsData, GIbsUfData, GIbsMunData, GCbsData, GTribRegularData, GTribCompraGovData,
                     GMonoPadraoData, GMonoRetenData, GMonoRetData, GMonoDifData, GIbsCbsMonoData, GTransfCredData,
                     GCredPresIbsZfmData, GAjusteCompetData, GEstornoCredData, GCredPresOperData,
                     GCredPresData("gIBSCredPres"), GCredPresData("gCBSCredPres")}
      PROVE  st.in \in Pl010Groups /\ st.in \notin {"det", "PISST", "COFINSST"}
  BY <1>2 DEF IbsCbsData, GIbsCbsData, GIbsUfData, GIbsMunData, GCbsData, GTribRegularData, GTribCompraGovData,
    GMonoPadraoData, GMonoRetenData, GMonoRetData, GMonoDifData, GIbsCbsMonoData, GTransfCredData,
    GCredPresIbsZfmData, GAjusteCompetData, GEstornoCredData, GCredPresOperData, GCredPresData, Struct, Pl010Groups
<1>. QED BY <1>1, <1>2 DEF IbsCbsStructs

\* A well formed struct has the shape of its structs.
LEMMA WellFormedShaped ==
    ASSUME NEW h, NEW structs, NEW lists, WellFormed(h, structs, lists)
    PROVE  Shaped(h, structs, lists)
BY DEF WellFormed, Shaped, Field

\* An item keeps its shape in its place.
LEMMA PlacedShaped ==
    ASSUME NEW h, AnItem(h), NEW n \in Nat
    PROVE  Shaped(Placed(h, n), ItemStructs, ItemLists)
<1> DEFINE M == Placed(h, n)
<1>1. Holds(h, 0) /\ Shaped(h, ItemStructs, ItemLists) BY WellFormedHolds, WellFormedShaped DEF AnItem
<1>2. \A l \in h : l = [n |-> l.n, in |-> l.in, m |-> l.m, tag |-> l.tag, v |-> l.v]
  BY <1>1 DEF Holds, FieldSet
<1>3. \A l \in M : \E o \in h : l.in = o.in /\ l.tag = o.tag /\ l.m = o.m BY <1>2 DEF Placed
<1>4. ASSUME NEW o \in h PROVE \E l \in M : l.in = o.in
  <2>1. [o EXCEPT !.n = n] \in M /\ [o EXCEPT !.n = n].in = o.in BY <1>2 DEF Placed
  <2>. QED BY <2>1
<1> HIDE DEF M
<1>5. \A l \in M : (\E st \in ItemStructs : Field(l, st)) /\ (l.in \in ItemLists <=> l.m # <<>>)
  BY <1>1, <1>3 DEF Shaped, Field
<1>6. \A pair \in Inside : Given(M, pair[1]) => Given(M, pair[2]) BY <1>1, <1>3, <1>4 DEF Shaped, Given
<1>. QED BY <1>5, <1>6 DEF Shaped, M

\* A setter keeps the shape: what is inside a struct it replaces is replaced too.
LEMMA SetShaped ==
    ASSUME ShapeInv, NEW part \in Parts, Set(part)
    PROVE  Shaped(d', DocumentStructs, DocumentLists)
<1> DEFINE K == {l \in d : /\ l.in \notin part.groups
                           /\ ~\E o \in part.leaves : o.in = l.in /\ o.tag = l.tag}
<1>1. d' = K \cup part.leaves BY DEF Set
<1>2. Shaped(part.leaves, DocumentStructs, DocumentLists)
  BY DataAssumption, WellFormedShaped DEF APart, OfADocument
<1>3. \A pair \in Inside : pair[2] \in part.groups => pair[1] \in part.groups BY DataAssumption DEF APart
<1>4. \A l : l \in K <=> l \in d /\ l.in \notin part.groups /\ ~\E o \in part.leaves : o.in = l.in /\ o.tag = l.tag
  OBVIOUS
<1> HIDE DEF K
<1>5. \A l \in d' : (\E st \in DocumentStructs : Field(l, st)) /\ (l.in \in DocumentLists <=> l.m # <<>>)
  BY <1>1, <1>2, <1>4 DEF ShapeInv, Shaped
<1>6. ASSUME NEW pair \in Inside, Given(d', pair[1]) PROVE Given(d', pair[2])
  <2>1. CASE Given(part.leaves, pair[1])
    <3>1. Given(part.leaves, pair[2]) BY <2>1, <1>2 DEF Shaped
    <3>. QED BY <3>1, <1>1 DEF Given
  <2>2. CASE ~Given(part.leaves, pair[1])
    <3>1. PICK l \in K : l.in = pair[1] BY <2>2, <1>6, <1>1 DEF Given
    <3>2. Given(d, pair[1]) /\ pair[1] \notin part.groups BY <3>1, <1>4 DEF Given
    <3>3. Given(d, pair[2]) /\ pair[2] \notin part.groups BY <3>2, <1>3 DEF ShapeInv, Shaped
    <3>4. PICK o \in d : o.in = pair[2] BY <3>3 DEF Given
    <3>5. CASE o \in K BY <3>4, <3>5, <1>1 DEF Given
    <3>6. CASE o \notin K
      <4>1. PICK p \in part.leaves : p.in = o.in BY <3>3, <3>4, <3>6, <1>4
      <4>. QED BY <4>1, <3>4, <1>1 DEF Given
    <3>. QED BY <3>5, <3>6
  <2>. QED BY <2>1, <2>2
<1>. QED BY <1>5, <1>6 DEF Shaped

\* Every step keeps the shape.
LEMMA ShapeStep == BuilderInv /\ ShapeInv /\ [Next]_vars => ShapeInv'
<1>1. SUFFICES ASSUME BuilderInv, ShapeInv, [Next]_vars PROVE ShapeInv' OBVIOUS
<1>2. ASSUME NEW part \in Parts, Set(part) PROVE ShapeInv'
  BY <1>1, <1>2, SetShaped DEF ShapeInv, Set
<1>3. ASSUME NEW item \in Items, add_item(item) PROVE ShapeInv'
  <2> DEFINE added == Placed(item, Len(items) + 1)
  <2>1. UNCHANGED d /\ items' = Append(items, added) BY <1>3 DEF add_item
  <2>2. items \in Seq(SUBSET FieldSet(Nat)) BY <1>1 DEF BuilderInv, ItemsHold
  <2>3. Shaped(added, ItemStructs, ItemLists)
    <3>1. Len(items) + 1 \in Nat BY <2>2
    <3>. QED BY <3>1, DataAssumption, PlacedShaped
  <2> HIDE DEF added
  <2>4. \A i \in DOMAIN items' : \/ i \in DOMAIN items /\ items'[i] = items[i]
                                 \/ i = Len(items) + 1 /\ items'[i] = added
    <3> DEFINE wide == Append(items, added)
    <3>1. DOMAIN wide = 1..(Len(items) + 1) /\ DOMAIN items = 1..Len(items) /\ Len(items) \in Nat
      BY <2>2
    <3>2. \A i \in 1..(Len(items) + 1) : wide[i] = IF i = Len(items) + 1 THEN added ELSE items[i] BY <2>2
    <3> HIDE DEF wide
    <3>. QED BY <3>1, <3>2, <2>1 DEF wide
  <2>. QED BY <1>1, <2>1, <2>3, <2>4 DEF ShapeInv
<1>4. ASSUME NEW list \in Lists, set_items(list) PROVE ShapeInv'
  <2>1. UNCHANGED d /\ items' = [i \in DOMAIN list |-> Placed(list[i], i)] BY <1>4 DEF set_items
  <2>2. \A i \in DOMAIN list : i \in Nat /\ AnItem(list[i])
    <3>1. \A T : list \in Seq(T) => DOMAIN list = 1..Len(list) /\ Len(list) \in Nat OBVIOUS
    <3>2. list \in Seq({list[i] : i \in DOMAIN list}) /\ \A i \in DOMAIN list : AnItem(list[i])
      BY DataAssumption
    <3>. QED BY <3>1, <3>2
  <2>3. \A i \in DOMAIN list : Shaped(Placed(list[i], i), ItemStructs, ItemLists) BY <2>2, PlacedShaped
  <2>. QED BY <1>1, <2>1, <2>3 DEF ShapeInv
<1>5. CASE UNCHANGED <<d, items>> BY <1>1, <1>5 DEF ShapeInv
<1>. QED BY <1>1, <1>2, <1>3, <1>4, <1>5 DEF Next, vars, schema_version, emission_type, build, sign_with

\* In every reachable state what was set has the shape of the structs.
LEMMA ShapeKept == Spec => []ShapeInv
<1>1. Init => ShapeInv BY DataAssumption, WellFormedShaped DEF Init, ShapeInv, OfADocument
<1>2. BuilderInv /\ ShapeInv /\ [Next]_vars => ShapeInv' BY ShapeStep
<1>. QED BY <1>1, <1>2, BuilderInvariant, PTL DEF Spec
-----------------------------------------------------------------------------
(***************************************************************************)
(* What is set on the document is in the XML, or in a named case.          *)
(***************************************************************************)

\* A leaf the XML need not have: of the other schema, or one of the named cases.
Excused(l) == (~s.pl010 /\ OfPl010(l)) \/ OfDocument(l)

\* What is given is written, also where there is a default.
LEMMA GivenIsWritten ==
    ASSUME NEW h, NEW l \in h, NEW n
    PROVE  /\ \A in, tags : l.in = in /\ l.tag \in tags => l \in Write(h, in, tags) /\ l \in OrZero(h, n, in, tags)
           /\ \A in, tag, default : l.in = in /\ l.tag = tag => l \in WriteOr(h, n, in, tag, default)
<1>1. \A in, tag, default : l.in = in /\ l.tag = tag => l \in WriteOr(h, n, in, tag, default)
  BY DEF WriteOr, Has, Write
<1>2. \A in, tags : l.in = in /\ l.tag \in tags => l \in OrZero(h, n, in, tags)
  BY <1>1 DEF OrZero
<1>3. \A in, tags : l.in = in /\ l.tag \in tags => l \in Write(h, in, tags) BY DEF Write
<1>. QED BY <1>1, <1>2, <1>3

\* A leaf of a list is among the first, or past the limit.
LEMMA FirstOrPast ==
    ASSUME NEW h, NEW n, Holds(h, n), NEW l \in h, NEW in, NEW tags, NEW limit \in Nat, l.in = in, l.tag \in tags,
           l.m # <<>>
    PROVE  /\ l \in FirstOf(h, in, tags, limit) \/ l.m[Len(l.m)] > limit
           /\ l.m[1] \in Nat
<1>1. l.m \in Seq(Nat) BY DEF Holds, FieldSet
<1>2. Len(l.m) \in Nat /\ Len(l.m) >= 1 /\ \A k \in 1..Len(l.m) : l.m[k] \in Nat BY <1>1
<1>3. l.m[Len(l.m)] \in Nat /\ l.m[1] \in Nat BY <1>2
<1>4. l \in Write(h, in, tags) BY DEF Write
<1>. QED BY <1>3, <1>4 DEF FirstOf

\* A field that is in no list is all there is under its tag.
LEMMA OnlyOne ==
    ASSUME NEW h, NEW n, Holds(h, n), NEW l \in h, l.m = <<>>, \A o \in h : o.in = l.in => o.m = <<>>
    PROVE  /\ Amount(h, l.in, l.tag) = l.v
           /\ l = Leaf(n, l.in, <<>>, l.tag, l.v)
<1>1. Write(h, l.in, {l.tag}) = {l} BY DEF Write, Holds
<1>2. l.v \in Int /\ l = [n |-> n, in |-> l.in, m |-> l.m, tag |-> l.tag, v |-> l.v] BY DEF Holds, FieldSet
<1>3. Amount(h, l.in, l.tag) = l.v BY <1>1, <1>2, OneLeaf DEF Amount
<1>4. l = Leaf(n, l.in, <<>>, l.tag, l.v) BY <1>2 DEF Leaf
<1>. QED BY <1>3, <1>4

\* The identification has what is set for it.
LEMMA IdeKept ==
    ASSUME NEW l \in d, NEW drawn, s \in SettingSet, Holds(d, 0),
           NEW st \in {IdeOverrides, ContingencyData, CompraGovData, PagAntecipadoData} \cup ReferenceDoc,
           Field(l, st)
    PROVE  \/ l \in build_ide(s, d, drawn) \/ Excused(l)
           \/ \E written \in build_ide(s, d, drawn) : Restamped(l, written)
<1>1. /\ \A in, tags : l.in = in /\ l.tag \in tags => l \in Write(d, in, tags) /\ l \in OrZero(d, 0, in, tags)
      /\ \A in, tag, default : l.in = in /\ l.tag = tag => l \in WriteOr(d, 0, in, tag, default)
  BY GivenIsWritten
<1>2. l.in = "ide" /\ l.tag \in Ones => l \in UNION {WriteOr(d, 0, "ide", tag, 1) : tag \in Ones}
  BY <1>1
<1>3. s.model = 55 \/ s.model = 65 BY DEF SettingSet
<1>8. ASSUME l.in = "ide", l.tag \in Dates
      PROVE  Excused(l) \/ \E written \in build_ide(s, d, drawn) : Restamped(l, written)
  <2> DEFINE uf == StateOf(d)
             w == Leaf(l.n, l.in, l.m, l.tag, format_datetime_nfe(l.v, uf))
  <2>1. Restamped(l, w)
    <3>1. l.v \in Int BY DEF Holds, FieldSet
    <3>2. w.in = l.in /\ w.tag = l.tag /\ w.n = l.n /\ w.v = format_datetime_nfe(l.v, uf) BY DEF Leaf
    <3>3. w.v \div 100 = l.v \div 100 /\ w.v % 100 = UtcOffset(StateOf(d)) BY <3>1, <3>2, OffsetKeepsDigits
    <3> HIDE DEF w
    <3>. QED BY <1>8, <3>2, <3>3 DEF Restamped, Dates
  <2>2. \A tags : l.tag \in tags => w \in Restamp(Write(d, "ide", tags), uf) BY <1>1, <1>8 DEF Restamp
  <2> HIDE DEF uf, w
  <2>3. CASE l.tag \in {"dhEmi", "dhCont"}
    <3>1. w \in Restamp(Write(d, "ide", {"dhEmi", "dhCont"}), uf) BY <2>2, <2>3
    <3>2. w \in build_ide(s, d, drawn) BY <3>1 DEF build_ide, uf
    <3>. QED BY <2>1, <3>2
  <2>4. CASE l.tag = "dhSaiEnt" /\ s.model = 55
    <3>1. w \in Restamp(Write(d, "ide", {"dhSaiEnt"}), uf) BY <2>2, <2>4
    <3>2. w \in build_ide(s, d, drawn) BY <2>4, <3>1 DEF build_ide, uf
    <3>. QED BY <2>1, <3>2
  <2>5. CASE l.tag = "dhSaiEnt" /\ s.model = 65 BY <1>8, <2>5 DEF Excused, OfDocument
  <2>. QED BY <1>3, <1>8, <2>3, <2>4, <2>5 DEF Dates
<1>9. CASE l.tag \in Dates /\ st \in {IdeOverrides, ContingencyData}
  BY <1>8, <1>9 DEF Field, IdeOverrides, ContingencyData, Struct
<1>4. CASE l.tag \notin Dates /\ st = IdeOverrides
  BY <1>1, <1>2, <1>4 DEF Field, IdeOverrides, Struct, build_ide, Ones, Zeros, Dates
<1>5. CASE l.tag \notin Dates /\ st = ContingencyData
  BY <1>1, <1>5 DEF Field, ContingencyData, Struct, build_ide, Dates
<1>6. CASE st \in ReferenceDoc
  <2>1. l \in build_references(d) BY <1>1, <1>6 DEF Field, ReferenceDoc, Struct, build_references
  <2>. QED BY <2>1 DEF build_ide
<1>7. CASE st \in {CompraGovData, PagAntecipadoData}
  <2>1. l \in build_compra_gov(d) \cup build_pag_antecipado(d) /\ OfPl010(l)
    BY <1>1, <1>7 DEF Field, CompraGovData, PagAntecipadoData, Struct, build_compra_gov, build_pag_antecipado,
       OfPl010, Pl010Groups
  <2>. QED BY <2>1 DEF build_ide, Pl010, Excused
<1>. QED BY <1>4, <1>5, <1>6, <1>7, <1>9

\* So have the parties.
LEMMA PartiesKept ==
    ASSUME NEW l \in d, s \in SettingSet, Shaped(d, DocumentStructs, DocumentLists),
           NEW st \in {IssuerData, IssuerAddress, RecipientData, RecipientAddressData, LocationData("retirada"),
                       LocationData("entrega"), AuthorizedXml},
           Field(l, st)
    PROVE  l \in PartiesOf(s, d) \/ Excused(l)
<1>1. /\ \A in, tags : l.in = in /\ l.tag \in tags => l \in Write(d, in, tags)
      /\ \A in, tag, default : l.in = in /\ l.tag = tag => l \in WriteOr(d, 0, in, tag, default)
  BY GivenIsWritten
<1>2. s.model = 55 \/ s.model = 65 BY DEF SettingSet
<1>3. CASE st = IssuerData
  <2>1. l \in build_emit(s, d) \/ OfDocument(l)
    BY <1>1, <1>3 DEF Field, IssuerData, Struct, build_emit, OfDocument
  <2>. QED BY <2>1 DEF PartiesOf, Excused
<1>4. CASE st = IssuerAddress
  <2>1. l \in build_address_fields(d, "enderEmit")
    BY <1>1, <1>4 DEF Field, IssuerAddress, Struct, build_address_fields
  <2>. QED BY <2>1 DEF PartiesOf, build_emit
<1>5. CASE st = RecipientData
  <2>1. Given(d, "dest") /\ l.in = "dest" BY <1>5 DEF Given, Field, RecipientData, Struct
  <2>2. l.tag = "indIEDest" => l \in Contributor(s, d) \/ OfDocument(l)
    BY <1>1, <1>2, <2>1 DEF Contributor, OfDocument
  <2>3. l.tag = "xNome" => l \in build_dest(s, d) \/ OfDocument(l)
    BY <1>1, <2>1 DEF build_dest, OfDocument, RenamedRecipient
  <2>4. l.tag \in {"taxId", "ISUF", "IM", "email", "IE"} => l \in build_dest(s, d) \/ OfDocument(l)
    BY <1>1, <1>2, <2>1 DEF build_dest, OfDocument
  <2>5. l \in build_dest(s, d) \/ OfDocument(l)
    BY <1>5, <2>1, <2>2, <2>3, <2>4 DEF Field, RecipientData, Struct, build_dest
  <2>. QED BY <2>5 DEF PartiesOf, Excused
<1>6. CASE st = RecipientAddressData
  <2>1. l.in = "enderDest" BY <1>6 DEF Field, RecipientAddressData, Struct
  <2>2. Given(d, "dest")
    <3>1. <<"enderDest", "dest">> \in Inside BY DEF Inside
    <3>2. \A pair \in Inside : Given(d, pair[1]) => Given(d, pair[2]) BY DEF Shaped
    <3>3. Given(d, "enderDest") BY <2>1 DEF Given
    <3>. QED BY <3>1, <3>2, <3>3
  <2>3. l \in RecipientAddress(d) \/ OfDocument(l)
    <3>1. CASE l.tag \in OfIssuer /\ l.v = Empty BY <2>1, <3>1 DEF OfDocument
    <3>2. CASE l.tag \in OfIssuer /\ l.v # Empty
      <4>1. Filled(d, "enderDest", l.tag) BY <2>1, <3>2 DEF Filled
      <4>2. l \in Write(d, "enderDest", {l.tag}) BY <1>1, <2>1
      <4>3. l \in OrOfIssuer(d, l.tag) BY <4>1, <4>2 DEF OrOfIssuer
      <4>. QED BY <3>2, <4>3 DEF RecipientAddress
    <3>3. CASE l.tag \notin OfIssuer
      BY <1>1, <1>6, <3>3 DEF Field, RecipientAddressData, Struct, RecipientAddress, OfIssuer
    <3>. QED BY <3>1, <3>2, <3>3
  <2>4. s.model = 55 => l \in build_dest(s, d) \/ OfDocument(l) BY <2>2, <2>3 DEF build_dest
  <2>5. s.model = 65 => OfDocument(l) BY <2>1 DEF OfDocument
  <2>. QED BY <1>2, <2>4, <2>5 DEF PartiesOf, Excused
<1>7. CASE st \in {LocationData("retirada"), LocationData("entrega")}
  <2>1. l \in build_withdrawal(d) \/ l \in build_delivery(d)
    BY <1>1, <1>7 DEF Field, LocationData, Struct, build_withdrawal, build_delivery, build_location_children
  <2>. QED BY <2>1 DEF PartiesOf
<1>8. CASE st = AuthorizedXml
  <2>1. l \in build_aut_xml(d) BY <1>1, <1>8 DEF Field, AuthorizedXml, Struct, build_aut_xml
  <2>. QED BY <2>1 DEF PartiesOf
<1>. QED BY <1>3, <1>4, <1>5, <1>6, <1>7, <1>8

\* What stands inside a struct of the document is given with it.
LEMMA DocumentNested ==
    ASSUME NEW h, NEW structs, NEW lists, Shaped(h, structs, lists), NEW l \in h
    PROVE  /\ l.in \in {"transporta", "retTransp", "veicTransp", "reboque", "vol", "lacres"} => Given(h, "transp")
           /\ l.in \in {"gIBS", "gIBS/gIBSUF", "gIBS/gIBSMun", "gCBSTot", "gMono", "gEstornoCredTot"}
              => Given(h, "IBSCBSTot")
<1>1. Given(h, l.in) BY DEF Given
<1>2. \A a, b : <<a, b>> \in Inside /\ Given(h, a) => Given(h, b)
  <2>1. \A pair \in Inside : Given(h, pair[1]) => Given(h, pair[2]) BY DEF Shaped
  <2>2. ASSUME NEW a, NEW b, <<a, b>> \in Inside, Given(h, a) PROVE Given(h, b)
    <3>1. <<a, b>>[1] = a /\ <<a, b>>[2] = b OBVIOUS
    <3>. QED BY <2>1, <2>2, <3>1
  <2>. QED BY <2>2
<1>3. l.in \in {"transporta", "retTransp", "veicTransp", "reboque", "vol", "lacres"} => <<l.in, "transp">> \in Inside
  BY DEF Inside
<1>4. l.in \in {"gIBS", "gIBS/gIBSUF", "gIBS/gIBSMun", "gCBSTot", "gMono", "gEstornoCredTot"}
      => <<l.in, "IBSCBSTot">> \in Inside
  BY DEF Inside
<1>. QED BY <1>1, <1>2, <1>3, <1>4

\* So have transport, charges and payments.
LEMMA CargoKept ==
    ASSUME NEW l \in d, Holds(d, 0), Shaped(d, DocumentStructs, DocumentLists), NEW st \in CargoStructs, Field(l, st)
    PROVE  l \in CargoOf(d) \/ Excused(l)
<1>1. \A in, tags : l.in = in /\ l.tag \in tags => l \in Write(d, in, tags) BY GivenIsWritten
<1>2. CASE st \in {TransportData, CarrierData, VehicleData("veicTransp"), VehicleData("reboque"), VolumeData, Seals,
                   RetainedIcmsTransp}
  <2>1. Given(d, "transp")
    <3>1. l.in \in {"transp", "transporta", "retTransp", "veicTransp", "reboque", "vol", "lacres"}
      BY <1>2 DEF Field, TransportData, CarrierData, VehicleData, VolumeData, Seals, RetainedIcmsTransp, Struct
    <3>2. l.in = "transp" => Given(d, "transp") BY DEF Given
    <3>. QED BY <3>1, <3>2, DocumentNested
  <2>2. CASE st = TransportData
    <3>1. l \in Write(d, "transp", {"modFrete"}) \cup Wagon(d) \cup Barge(d) \/ OfDocument(l)
      BY <1>1, <2>2 DEF Field, TransportData, Struct, Wagon, Barge, OfDocument
    <3>2. l \in build_transp(d) \/ OfDocument(l) BY <2>1, <3>1 DEF build_transp
    <3>. QED BY <3>2 DEF CargoOf, Excused
  <2>3. CASE st # TransportData
    <3>1. l \in build_transp(d)
      BY <1>1, <1>2, <2>1, <2>3 DEF Field, CarrierData, VehicleData, VolumeData, Seals, RetainedIcmsTransp, Struct,
         build_transp
    <3>. QED BY <3>1 DEF CargoOf
  <2>. QED BY <2>2, <2>3
<1>3. CASE st \in {BillingInvoice, Installment}
  <2>1. l \in build_cobr(d) BY <1>1, <1>3 DEF Field, BillingInvoice, Installment, Struct, build_cobr
  <2>. QED BY <2>1 DEF CargoOf
<1>4. CASE st = PaymentData
  <2>1. Given(d, "detPag") BY <1>4 DEF Given, Field, PaymentData, Struct
  <2>2. l \in build_pag(d) BY <1>1, <1>4, <2>1 DEF Field, PaymentData, Struct, build_pag
  <2>. QED BY <2>2 DEF CargoOf
<1>5. CASE st = PaymentCardDetail
  <2>1. l.in = "card" /\ l \in Write(d, "card", {"tpIntegra", "CNPJ", "tBand", "cAut", "CNPJReceb", "idTermPag"})
    BY <1>1, <1>5 DEF Field, PaymentCardDetail, Struct
  <2>2. CASE ~\E p \in Of(d, "detPag") : p.m = l.m BY <2>1, <2>2 DEF OfDocument, Excused
  <2>3. CASE ~\E o \in Of(d, "card") : o.m = l.m /\ o.tag = "tpIntegra" /\ o.v \in {1, 2}
    BY <2>1, <2>3 DEF OfDocument, Excused
  <2>4. CASE /\ \E p \in Of(d, "detPag") : p.m = l.m
             /\ \E o \in Of(d, "card") : o.m = l.m /\ o.tag = "tpIntegra" /\ o.v \in {1, 2}
    <3>1. Given(d, "detPag") BY <2>4 DEF Given, Of
    <3>2. \E o \in Write(d, "card", {"tpIntegra"}) : o.m = l.m /\ o.v \in {1, 2} BY <2>4 DEF Of, Write
    <3>3. l \in CardsWithPayment(d) BY <2>1, <2>4, <3>2 DEF CardsWithPayment
    <3>. QED BY <3>1, <3>3 DEF build_pag, CargoOf
  <2>. QED BY <2>2, <2>3, <2>4
<1>6. CASE st = Change
  <2>1. l.in = "pag" /\ l \in Write(d, "pag", {"vTroco"}) BY <1>1, <1>6 DEF Field, Change, Struct
  <2>2. l.v > 0 \/ l.v <= 0 BY DEF Holds, FieldSet
  <2>. QED BY <2>1, <2>2 DEF build_pag, CargoOf, OfDocument, Excused
<1>. QED BY <1>2, <1>3, <1>4, <1>5, <1>6 DEF CargoStructs

\* The structs of the groups that may be there or not.
OptionalStructs == {IntermediaryData, TechResponsibleData, AdditionalInfo, FieldText("obsCont"), FieldText("obsFisco"),
    ProcessRef, PurchaseData, ExportData, CanaData, ForDiaData, DeducData}

\* So have the groups that may be there or not.
LEMMA RestKept ==
    ASSUME NEW l \in d, NEW drawn, Holds(d, 0), Shaped(d, DocumentStructs, DocumentLists),
           NEW st \in OptionalStructs, Field(l, st)
    PROVE  l \in RestOf(d, drawn) \/ Excused(l)
<1>1. \A in, tags : l.in = in /\ l.tag \in tags => l \in Write(d, in, tags) BY GivenIsWritten
<1>2. \A in, tags : \A limit \in Nat : l.in = in /\ l.tag \in tags /\ in \in DocumentLists
      => l \in FirstOf(d, in, tags, limit) \/ l.m[Len(l.m)] > limit
  <2>1. l.in \in DocumentLists => l.m # <<>> BY DEF Shaped
  <2>. QED BY <2>1, FirstOrPast
<1>3. /\ SectionLimit["obsCont"] \in Nat /\ SectionLimit["obsFisco"] \in Nat /\ SectionLimit["procRef"] \in Nat
      /\ SectionLimit["forDia"] \in Nat /\ SectionLimit["deduc"] \in Nat
      /\ {"obsCont", "obsFisco", "procRef", "forDia", "deduc"} \subseteq DocumentLists \cap DOMAIN SectionLimit
  BY DEF SectionLimit, DocumentLists
<1>4. \A in \in DOMAIN SectionLimit : l.in = in /\ l.m[Len(l.m)] > SectionLimit[in] => Excused(l)
  BY DEF Excused, OfDocument, PastLimit
<1>5. CASE st \in {IntermediaryData, PurchaseData, ExportData}
  <2>1. l \in build_intermediary(d) \/ l \in build_purchase(d) \/ l \in build_export(d)
    BY <1>1, <1>5 DEF Field, IntermediaryData, PurchaseData, ExportData, Struct, build_intermediary, build_purchase,
       build_export
  <2>. QED BY <2>1 DEF RestOf
<1>6. CASE st = TechResponsibleData
  <2>1. l \in build_tech_responsible_with_key(d, drawn) \/ OfDocument(l)
    BY <1>1, <1>6 DEF Field, TechResponsibleData, Struct, build_tech_responsible_with_key, OfDocument, Has
  <2>. QED BY <2>1 DEF RestOf, Excused
<1>7. CASE st \in {AdditionalInfo, FieldText("obsCont"), FieldText("obsFisco"), ProcessRef}
  <2>1. l \in build_inf_adic(d) \/ Excused(l)
    BY <1>1, <1>2, <1>3, <1>4, <1>7 DEF Field, AdditionalInfo, FieldText, ProcessRef, Struct, build_inf_adic
  <2>. QED BY <2>1 DEF RestOf
<1>8. CASE st \in {CanaData, ForDiaData, DeducData}
  <2>1. l \in build_cana(d) \/ Excused(l)
    BY <1>1, <1>2, <1>3, <1>4, <1>8 DEF Field, CanaData, ForDiaData, DeducData, Struct, build_cana
  <2>. QED BY <2>1 DEF RestOf
<1>. QED BY <1>5, <1>6, <1>7, <1>8 DEF OptionalStructs

\* So have the groups for agriculture, in their schema.
LEMMA AgropecuarioKept ==
    ASSUME NEW l \in d, Holds(d, 0), Shaped(d, DocumentStructs, DocumentLists),
           NEW st \in {AgropecuarioGuiaData, AgropecuarioDefensivoData}, Field(l, st)
    PROVE  l \in Pl010(s, build_agropecuario(d)) \/ Excused(l)
<1>1. \A in, tags : l.in = in /\ l.tag \in tags => l \in Write(d, in, tags) BY GivenIsWritten
<1>2. SectionLimit["defensivo"] \in Nat /\ "defensivo" \in DOMAIN SectionLimit BY DEF SectionLimit
<1>3. l.in = "defensivo" => l.m # <<>> BY DEF Shaped, DocumentLists
<1>4. l \in build_agropecuario(d) \/ Excused(l)
  <2>1. CASE st = AgropecuarioGuiaData
    BY <1>1, <2>1 DEF Field, AgropecuarioGuiaData, Struct, build_agropecuario
  <2>2. CASE st = AgropecuarioDefensivoData
    <3>1. l.in = "defensivo" /\ l.tag \in {"nReceituario", "CPFRespTec"}
      BY <2>2 DEF Field, AgropecuarioDefensivoData, Struct
    <3>2. \/ l \in FirstOf(d, "defensivo", {"nReceituario", "CPFRespTec"}, SectionLimit["defensivo"])
          \/ l.m[Len(l.m)] > SectionLimit["defensivo"]
      BY <3>1, <1>2, <1>3, FirstOrPast
    <3>. QED BY <3>1, <3>2, <1>2 DEF build_agropecuario, Excused, OfDocument, PastLimit
  <2>. QED BY <2>1, <2>2
<1>5. OfPl010(l)
  BY DEF Field, AgropecuarioGuiaData, AgropecuarioDefensivoData, Struct, OfPl010, Pl010Groups
<1>. QED BY <1>4, <1>5 DEF Pl010, Excused

\* The structs of the totals the caller states.
TotalStructs == {RetTribData, IssqnTotData, TotalOverride, IsTotData} \cup IbsCbsTotData

\* So have the totals, as far as the caller states them.
LEMMA TotalKept ==
    ASSUME NEW l \in d, NEW list, Holds(d, 0), Shaped(d, DocumentStructs, DocumentLists),
           NEW st \in TotalStructs, Field(l, st)
    PROVE  l \in TotalOf(s, d, list) \/ Excused(l)
<1>1. \A in, tags : l.in = in /\ l.tag \in tags => l \in Write(d, in, tags) /\ l \in OrZero(d, 0, in, tags)
  BY GivenIsWritten
<1>2. ASSUME NEW t, NEW deduz PROVE l \in build_total(s, d, t, deduz) \/ Excused(l)
  <2>1. CASE st = RetTribData
    <3>1. l \in build_ret_trib(d) BY <1>1, <2>1 DEF Field, RetTribData, Struct, build_ret_trib
    <3>. QED BY <3>1 DEF build_total
  <2>2. CASE st = IssqnTotData
    <3>1. l.in = "ISSQNtot" /\ Given(d, "ISSQNtot") BY <2>2 DEF Field, IssqnTotData, Struct, Given
    <3>2. l.v > 0 \/ l.v <= 0 BY DEF Holds, FieldSet
    <3>3. l \in build_issqn_tot(d) \/ OfDocument(l)
      BY <1>1, <2>2, <3>1, <3>2 DEF Field, IssqnTotData, Struct, build_issqn_tot, OfDocument
    <3>. QED BY <3>1, <3>3 DEF build_total, Excused
  <2>3. CASE st = TotalOverride
    <3>1. l.in = "total" /\ l.tag = "vNFTot" BY <2>3 DEF Field, TotalOverride, Struct
    <3>2. l.m = <<>> /\ \A o \in d : o.in = l.in => o.m = <<>> BY <3>1 DEF Holds, Single
    <3>3. Amount(d, "total", "vNFTot") = l.v /\ l = Leaf(0, "total", <<>>, "vNFTot", l.v) BY <3>1, <3>2, OnlyOne
    <3>4. \A vNF : v_nf_tot(d, vNF) = l.v BY <3>1, <3>3 DEF v_nf_tot, Has
    <3>5. l.v > 0 \/ l.v <= 0 BY DEF Holds, FieldSet
    <3>6. OfPl010(l) BY <3>1 DEF OfPl010
    <3>7. ~Given(d, "IBSCBSTot") \/ l.v <= 0 => OfDocument(l) BY <3>1 DEF OfDocument
    <3>8. s.pl010 /\ Given(d, "IBSCBSTot") /\ l.v > 0 => l \in build_total(s, d, t, deduz)
      BY <3>3, <3>4 DEF build_total, Pl010, Put
    <3>. QED BY <3>5, <3>6, <3>7, <3>8 DEF Excused
  <2>4. CASE st = IsTotData
    <3>1. l \in build_is_tot_xml(d) /\ OfPl010(l)
      BY <1>1, <2>4 DEF Field, IsTotData, Struct, build_is_tot_xml, OfPl010, Pl010Groups
    <3>. QED BY <3>1 DEF build_total, Pl010, Excused
  <2>5. CASE st \in IbsCbsTotData
    <3>1. OfPl010(l) BY <2>5 DEF Field, IbsCbsTotData, Struct, OfPl010, Pl010Groups
    <3>2. Given(d, "IBSCBSTot")
      <4>1. l.in = "IBSCBSTot" => Given(d, "IBSCBSTot") BY DEF Given
      <4>2. l.in \in {"IBSCBSTot", "gIBS", "gIBS/gIBSUF", "gIBS/gIBSMun", "gCBSTot", "gMono", "gEstornoCredTot"}
        BY <2>5 DEF Field, IbsCbsTotData, Struct
      <4>. QED BY <4>1, <4>2, DocumentNested
    <3>3. l.in = "gEstornoCredTot" => Given(d, "gEstornoCredTot") BY DEF Given
    <3>4. l \in build_ibs_cbs_tot_xml(d) \/ OfDocument(l)
      BY <1>1, <2>5, <3>3 DEF Field, IbsCbsTotData, Struct, build_ibs_cbs_tot_xml, IbsTotals, CbsTotals, MonoTotals,
         ReversedTotals, OfDocument
    <3>. QED BY <3>1, <3>2, <3>4 DEF build_total, Pl010, Excused
  <2>. QED BY <2>1, <2>2, <2>3, <2>4, <2>5 DEF TotalStructs
<1>. QED BY <1>2 DEF TotalOf

\* What is set on the document is in the XML, or in one of the named cases.
LEMMA DocumentKept ==
    ASSUME NEW l \in d, NEW drawn, s \in SettingSet, Holds(d, 0), Shaped(d, DocumentStructs, DocumentLists)
    PROVE  \/ l \in generate_xml(s, d, items, drawn) \/ Excused(l)
           \/ \E written \in generate_xml(s, d, items, drawn) : Restamped(l, written)
<1>1. PICK st \in DocumentStructs : Field(l, st) BY DEF Shaped
<1>2. CASE st \in {IdeOverrides, ContingencyData, CompraGovData, PagAntecipadoData} \cup ReferenceDoc
  BY <1>1, <1>2, IdeKept, XmlIs
<1>3. CASE st \in {IssuerData, IssuerAddress, RecipientData, RecipientAddressData, LocationData("retirada"),
                   LocationData("entrega"), AuthorizedXml}
  BY <1>1, <1>3, PartiesKept, XmlIs
<1>4. CASE st \in CargoStructs BY <1>1, <1>4, CargoKept, XmlIs
<1>5. CASE st \in OptionalStructs BY <1>1, <1>5, RestKept, XmlIs
<1>6. CASE st \in {AgropecuarioGuiaData, AgropecuarioDefensivoData} BY <1>1, <1>6, AgropecuarioKept, XmlIs
<1>7. CASE st \in TotalStructs BY <1>1, <1>7, TotalKept, XmlIs
<1>. QED BY <1>1, <1>2, <1>3, <1>4, <1>5, <1>6, <1>7 DEF DocumentStructs, PartyStructs, RestStructs, OptionalStructs, TotalStructs
-----------------------------------------------------------------------------
(***************************************************************************)
(* What is set on an item is in the XML, or in a named case.               *)
(***************************************************************************)

\* A leaf of an item that the XML need not have.
ItemExcused(h, l) == (~s.pl010 /\ OfPl010(l)) \/ OfItem(h, l)

\* The limits of the lists of an item are numbers of lists that have places.
LEMMA ItemLimits ==
    /\ \A in \in {"gCred", "DI", "adi", "detExport", "rastro", "arma"} :
          in \in DOMAIN Limit /\ Limit[in] \in Nat /\ in \in ItemLists
BY DEF Limit, ItemLists

\* What is set in a list of the item is written, or past the limit.
LEMMA ItemListKept ==
    ASSUME NEW h, NEW n, Holds(h, n), Shaped(h, ItemStructs, ItemLists), NEW l \in h,
           NEW in \in {"gCred", "DI", "adi", "detExport", "rastro", "arma"}, NEW tags, l.in = in, l.tag \in tags
    PROVE  /\ l \in FirstOf(h, in, tags, Limit[in]) \/ OfItem(h, l)
           /\ l.m # <<>> /\ l.m[1] \in Nat
<1>1. l.m # <<>> BY ItemLimits DEF Shaped
<1>2. l.m[1] \in Nat /\ (l \in FirstOf(h, in, tags, Limit[in]) \/ l.m[Len(l.m)] > Limit[in])
  BY <1>1, ItemLimits, FirstOrPast
<1>. QED BY <1>1, <1>2, ItemLimits DEF OfItem, PastLimit

\* The declarations of import have what is set.
LEMMA ImportKept ==
    ASSUME NEW h, NEW n, Holds(h, n), Shaped(h, ItemStructs, ItemLists), NEW l \in h,
           NEW st \in {DiData, AdiData}, Field(l, st)
    PROVE  l \in build_di_xml(h) \/ OfItem(h, l)
<1>1. l.in \in {"DI", "adi"} BY DEF Field, DiData, AdiData, Struct
<1>2. l.m[1] \in Nat BY <1>1, ItemListKept
<1>3. l.m[1] > Limit["DI"] => OfItem(h, l) BY <1>1 DEF OfItem
<1>4. Limit["DI"] \in Nat BY ItemLimits
<1>5. CASE st = DiData
  <2>1. l.in = "DI" /\ l \in Of(h, "DI")
        /\ (l.tag = "CPF" \/ l.tag \in {"nDI", "dDI", "xLocDesemb", "UFDesemb", "dDesemb", "tpViaTransp", "vAFRMM",
                "tpIntermedio", "CNPJ", "UFTerceiro", "cExportador"})
    BY <1>5 DEF Field, DiData, Struct, Of
  <2>2. l.tag = "CPF" /\ (\E o \in Of(h, "DI") : o.m = l.m /\ o.tag = "CNPJ") => OfItem(h, l)
    BY <2>1 DEF OfItem, OneOrTheOther
  <2>. QED BY <1>2, <1>3, <1>4, <2>1, <2>2 DEF build_di_xml
<1>6. CASE st = AdiData
  <2>1. l.in = "adi" /\ l.tag \in {"nAdicao", "nSeqAdic", "cFabricante", "vDescDI", "nDraw"}
    BY <1>6 DEF Field, AdiData, Struct
  <2>2. l \in FirstOf(h, "adi", {"nAdicao", "nSeqAdic", "cFabricante", "vDescDI", "nDraw"}, Limit["adi"]) \/ OfItem(h, l)
    BY <2>1, ItemListKept
  <2>. QED BY <1>2, <1>3, <1>4, <2>2 DEF build_di_xml
<1>. QED BY <1>5, <1>6

\* The description is written, or the item is one the caller numbered 1.
LEMMA DescriptionKept ==
    ASSUME NEW h, NEW n, NEW l \in h, l.in = "prod", l.tag = "xProd"
    PROVE  l \in Description(s, h, n) \/ OfItem(h, l)
BY DEF Description, Write, OfItem, RenamedItem

\* The product has what is set on it.
LEMMA ItemProductKept ==
    ASSUME NEW h, NEW n, Holds(h, n), Shaped(h, ItemStructs, ItemLists), NEW l \in h, Field(l, ItemProduct)
    PROVE  l \in build_prod(s, h, n) \/ ItemExcused(h, l)
<1>1. /\ \A in, tags : l.in = in /\ l.tag \in tags => l \in Write(h, in, tags)
      /\ \A in, tag, default : l.in = in /\ l.tag = tag => l \in WriteOr(h, n, in, tag, default)
  BY GivenIsWritten
<1>2. l.in = "prod" BY DEF Field, ItemProduct, Struct
<1>3. CASE l.tag \in {"uTrib", "qTrib", "vUnTrib"}
  <2> DEFINE commercial == [uTrib |-> "uCom", qTrib |-> "qCom", vUnTrib |-> "vUnCom"]
  <2>1. l.tag \in DOMAIN commercial BY <1>3
  <2> HIDE DEF commercial
  <2>2. l \in UNION {WriteOr(h, n, "prod", tag, Amount(h, "prod", commercial[tag])) : tag \in DOMAIN commercial}
    BY <1>1, <1>2, <2>1
  <2>3. l \in Taxable(h, n) BY <2>2 DEF Taxable, commercial
  <2>. QED BY <2>3 DEF build_prod
<1>4. CASE l.tag = "xProd"
  <2>1. l \in Description(s, h, n) \/ OfItem(h, l) BY <1>2, <1>4, DescriptionKept
  <2>. QED BY <2>1 DEF build_prod, ItemExcused
<1>5. CASE l.tag = "nRECOPI"
  <2>1. l \in Write(h, "prod", {"nRECOPI"}) BY <1>1, <1>2, <1>5
  <2>2. l.v = Empty => OfItem(h, l) BY <1>5 DEF OfItem
  <2>3. Given(h, "veicProd") \/ Given(h, "med") \/ Given(h, "arma") => OfItem(h, l)
    BY <1>5 DEF OfItem, OneOrTheOther
  <2>4. l \in OneOfKind(h) \/ OfItem(h, l) BY <2>1, <2>2, <2>3 DEF OneOfKind
  <2>. QED BY <2>4 DEF build_prod, build_prod_options, ItemExcused
<1>10. CASE l.tag = "indBemMovelUsado"
  <2>1. l \in Write(h, "prod", {"indBemMovelUsado"}) BY <1>1, <1>2, <1>10
  <2>2. l.v # 1 => OfItem(h, l) BY <1>2, <1>10 DEF OfItem
  <2>. QED BY <2>1, <2>2 DEF build_prod, ItemExcused
<1>6. CASE l.tag \in {"CEST", "indEscala", "CNPJFab"}
  <2>1. CASE Has(h, "prod", "CEST")
    <3>1. l \in Write(h, "prod", {"CEST", "indEscala", "CNPJFab"}) BY <1>1, <1>2, <1>6
    <3>. QED BY <2>1, <3>1 DEF build_prod
  <2>2. CASE ~Has(h, "prod", "CEST")
    <3>1. l.tag # "CEST" BY <1>2, <2>2 DEF Has
    <3>2. NeedsAnother(h, l) BY <1>2, <1>6, <2>2, <3>1 DEF NeedsAnother
    <3>. QED BY <3>2 DEF OfItem, ItemExcused
  <2>. QED BY <2>1, <2>2
<1>7. CASE l.tag = "tpCredPresIBSZFM"
  <2>1. l \in Write(h, "prod", {"tpCredPresIBSZFM"}) BY <1>1, <1>2, <1>7
  <2>2. OfPl010(l) BY <1>2, <1>7 DEF OfPl010
  <2>. QED BY <2>1, <2>2 DEF build_prod, Pl010, ItemExcused
<1>8. CASE l.tag \in {"cEAN", "cEANTrib", "indTot"}
  BY <1>1, <1>2, <1>8 DEF build_prod
<1>9. CASE l.tag \in {"cProd", "cBarra", "NCM", "cBenef", "EXTIPI", "CFOP", "uCom", "qCom", "vUnCom", "vProd",
                      "cBarraTrib", "vFrete", "vSeg", "vDesc", "vOutro", "xPed", "nItemPed",
                      "nFCI"}
  BY <1>1, <1>2, <1>9 DEF build_prod
<1>. QED BY <1>3, <1>4, <1>5, <1>6, <1>7, <1>8, <1>9, <1>10 DEF Field, ItemProduct, Struct

\* The structs that are written with the product.
PartsOfProduct == {ItemNve, GCredData, RastroData, VeicProdData, MedData, ArmaData, DiData, AdiData, DetExportData,
    CideData, EncerranteData, OrigCombData, CombData}

\* So have the structs that are written with it.
LEMMA ProductPartsKept ==
    ASSUME NEW h, NEW n, Holds(h, n), Shaped(h, ItemStructs, ItemLists), NEW l \in h, NEW st \in PartsOfProduct, Field(l, st)
    PROVE  l \in build_prod(s, h, n) \/ OfItem(h, l)
<1>1. \A in, tags : l.in = in /\ l.tag \in tags => l \in Write(h, in, tags) BY GivenIsWritten
<1>3. \A tags : \A in \in {"gCred", "DI", "adi", "detExport", "rastro", "arma"} :
        l.in = in /\ l.tag \in tags => l \in FirstOf(h, in, tags, Limit[in]) \/ OfItem(h, l)
  BY ItemListKept
<1>4. CASE st \in {DiData, AdiData}
  <2>1. l \in build_di_xml(h) \/ OfItem(h, l) BY <1>4, ImportKept
  <2>. QED BY <2>1 DEF build_prod
<1>5. CASE st \in {ItemNve, GCredData}
  BY <1>1, <1>3, <1>5 DEF Field, ItemNve, GCredData, Struct, build_prod
<1>6. CASE st = DetExportData
  <2>1. l \in build_det_export_xml(h) \/ OfItem(h, l)
    BY <1>3, <1>6 DEF Field, DetExportData, Struct, build_det_export_xml
  <2>. QED BY <2>1 DEF build_prod
<1>7. CASE st = RastroData
  <2>1. l \in build_prod_options(h) \/ OfItem(h, l)
    BY <1>3, <1>7 DEF Field, RastroData, Struct, build_prod_options
  <2>. QED BY <2>1 DEF build_prod
<1>8. CASE st \in {VeicProdData, MedData, ArmaData}
  <2>1. l \in OneOfKind(h) \/ OfItem(h, l)
    <3>1. CASE st = VeicProdData
      BY <1>1, <3>1 DEF Field, VeicProdData, Struct, OneOfKind, Given
    <3>2. CASE st = MedData
      <4>1. l.in = "med" /\ Given(h, "med") BY <3>2 DEF Field, MedData, Struct, Given
      <4>. QED BY <1>1, <3>2, <4>1 DEF Field, MedData, Struct, OneOfKind, OfItem, OneOrTheOther
    <3>3. CASE st = ArmaData
      <4>1. l.in = "arma" /\ Given(h, "arma") BY <3>3 DEF Field, ArmaData, Struct, Given
      <4>2. l \in FirstOf(h, "arma", {"tpArma", "nSerie", "nCano", "descr"}, Limit["arma"]) \/ OfItem(h, l)
        BY <1>3, <3>3, <4>1 DEF Field, ArmaData, Struct
      <4>. QED BY <4>1, <4>2 DEF OneOfKind, OfItem, OneOrTheOther
    <3>. QED BY <1>8, <3>1, <3>2, <3>3
  <2>. QED BY <2>1 DEF build_prod, build_prod_options
<1>9. CASE st \in {CideData, EncerranteData, OrigCombData, CombData}
  <2>1. l \in build_comb_xml(h)
    BY <1>1, <1>9 DEF Field, CideData, EncerranteData, OrigCombData, CombData, Struct, build_comb_xml
  <2>. QED BY <2>1 DEF build_prod, build_prod_options
<1>. QED BY <1>4, <1>5, <1>6, <1>7, <1>8, <1>9 DEF PartsOfProduct

\* A contribution by substitution has no CST.
LEMMA SubstitutionHasNoCst ==
    ASSUME NEW h, Shaped(h, ItemStructs, ItemLists), NEW in \in {"PISST", "COFINSST"}
    PROVE  ~Has(h, in, "CST")
<1>1. ASSUME NEW st \in ProductStructs PROVE st.in \notin {"PISST", "COFINSST"}
  BY DEF ProductStructs, ItemProduct, ItemRest, ItemNve, GCredData, RastroData, VeicProdData, MedData, ArmaData,
     ObsField, DiData, AdiData, DetExportData, ImpostoDevolData, DFeReferenciadoData, CideData, EncerranteData,
     OrigCombData, CombData, Struct
<1>2. ASSUME NEW st \in TaxStructs, st.in \in {"PISST", "COFINSST"} PROVE "CST" \notin st.required \cup st.optional
  BY <1>2 DEF TaxStructs, ItemTotTrib, ItemIcms, ItemPis, ItemCofins, ItemIpi, ItemIi, PisStData, CofinsStData,
     IssqnData, IsData, Struct
<1>3. ASSUME NEW st \in IbsCbsStructs PROVE st.in \notin {"PISST", "COFINSST"} BY IbsCbsApart
<1>. QED BY <1>1, <1>2, <1>3 DEF Has, Shaped, Field, ItemStructs

\* A contribution has what is set for it and for its CST.
LEMMA ContributionKept ==
    ASSUME NEW h, NEW n, NEW l \in h, NEW tax \in {"PIS", "COFINS"}, l.in = tax, ~Given(h, Substitution[tax]),
           l.tag \in {"CST", "vBC", Rate(tax), Worth(tax), "qBCProd", "vAliqProd"}
    PROVE  l \in calculate_contribution_tax(h, n, tax) \/ OfItem(h, l)
<1> DEFINE cst == Value(h, tax, "CST", 0)
<1>1. \A in, tags : l.in = in /\ l.tag \in tags => l \in Write(h, in, tags) /\ l \in OrZero(h, n, in, tags)
  BY GivenIsWritten
<1>2. CASE l.tag = "CST" BY <1>1, <1>2 DEF calculate_contribution_tax
<1>3. /\ cst \in AliqCsts => cst \notin QtdeCsts /\ cst \notin OutrCsts
      /\ cst \in QtdeCsts => cst \notin AliqCsts /\ cst \notin OutrCsts
      /\ cst \in OutrCsts => cst \notin AliqCsts /\ cst \notin QtdeCsts
  <2> HIDE DEF cst
  <2>. QED BY DEF AliqCsts, QtdeCsts, OutrCsts
<1>4. CASE l.tag # "CST" /\ Untaxed(h, tax) BY <1>4 DEF OfItem, NotForCst
<1>5. CASE l.tag # "CST" /\ ~Untaxed(h, tax)
  <2>1. cst \in AliqCsts \cup QtdeCsts \cup OutrCsts BY <1>5 DEF Untaxed
  <2>2. Has(h, tax, "CST") BY <2>1 DEF Value, AliqCsts, QtdeCsts, OutrCsts
  <2>3. Value(h, tax, "CST", 99) = cst BY <2>2 DEF Value
  <2>4. tax \in Contributions /\ Rate(tax) \in {"pPIS", "pCOFINS"} /\ Worth(tax) \in {"vPIS", "vCOFINS"}
    BY DEF Contributions, Rate, Worth
  <2> HIDE DEF cst
  <2>5. CASE cst \in AliqCsts
    <3>1. ~ByQuantity(h, tax) BY <2>3, <2>5 DEF ByQuantity, AliqCsts, QtdeCsts
    <3>2. l.tag \in {"qBCProd", "vAliqProd"} => OneOrTheOther(h, l) BY <2>4, <3>1 DEF OneOrTheOther
    <3>3. l.tag \in {"vBC", Rate(tax), Worth(tax)} => l \in calculate_contribution_tax(h, n, tax)
      BY <1>1, <1>3, <2>5 DEF calculate_contribution_tax, cst
    <3>. QED BY <1>5, <3>2, <3>3 DEF OfItem
  <2>6. CASE cst \in QtdeCsts
    <3>1. ByQuantity(h, tax) /\ cst \notin AliqCsts BY <2>3, <2>6 DEF ByQuantity, AliqCsts, QtdeCsts
    <3>2. l.tag \in {"vBC", Rate(tax)} => OneOrTheOther(h, l) BY <2>4, <3>1 DEF OneOrTheOther
    <3>3. l.tag \in {"qBCProd", "vAliqProd", Worth(tax)} => l \in calculate_contribution_tax(h, n, tax)
      BY <1>1, <1>3, <2>6, <3>1 DEF calculate_contribution_tax, cst
    <3>. QED BY <1>5, <3>2, <3>3 DEF OfItem
  <2>7. CASE cst \in OutrCsts /\ cst \notin AliqCsts /\ cst \notin QtdeCsts
    <3>1. ByQuantity(h, tax) <=> Has(h, tax, "qBCProd") BY <2>3, <2>7 DEF ByQuantity
    <3>2. l \in build_contribution_outr_fields(h, n, tax) => l \in calculate_contribution_tax(h, n, tax)
      BY <2>7 DEF calculate_contribution_tax, cst
    <3>3. CASE Has(h, tax, "qBCProd")
      <4>1. l.tag \in {"vBC", Rate(tax)} => OneOrTheOther(h, l) BY <2>4, <3>1, <3>3 DEF OneOrTheOther
      <4>2. l.tag \in {"qBCProd", "vAliqProd", Worth(tax)} => l \in build_contribution_outr_fields(h, n, tax)
        BY <1>1, <3>3 DEF build_contribution_outr_fields, Base
      <4>. QED BY <1>5, <3>2, <4>1, <4>2 DEF OfItem
    <3>4. CASE ~Has(h, tax, "qBCProd")
      <4>1. l.tag \in {"qBCProd", "vAliqProd"} => OneOrTheOther(h, l) BY <2>4, <3>1, <3>4 DEF OneOrTheOther
      <4>2. l.tag \in {"vBC", Rate(tax), Worth(tax)} => l \in build_contribution_outr_fields(h, n, tax)
        BY <1>1, <3>4 DEF build_contribution_outr_fields, Base
      <4>. QED BY <1>5, <3>2, <4>1, <4>2 DEF OfItem
    <3>. QED BY <3>3, <3>4
  <2>. QED BY <2>1, <2>5, <2>6, <2>7
<1>. QED BY <1>2, <1>4, <1>5

\* A contribution by substitution has what is set for it.
LEMMA SubstitutionKept ==
    ASSUME NEW h, NEW n, Shaped(h, ItemStructs, ItemLists), NEW l \in h, NEW tax \in {"PISST", "COFINSST"},
           NEW sums, l.in = tax, l.tag \in {"vBC", Rate(tax), Worth(tax), "qBCProd", "vAliqProd", sums}
    PROVE  l \in calculate_contribution_tax_st(h, n, tax, sums) \/ OfItem(h, l)
<1>1. \A in, tags : l.in = in /\ l.tag \in tags => l \in Write(h, in, tags) /\ l \in OrZero(h, n, in, tags)
  BY GivenIsWritten
<1>2. Value(h, tax, "CST", 99) = 99 BY SubstitutionHasNoCst DEF Value
<1>3. ByQuantity(h, tax) <=> Has(h, tax, "qBCProd") BY <1>2 DEF ByQuantity, AliqCsts, QtdeCsts
<1>4. tax \in Contributions BY DEF Contributions
<1>5. CASE Has(h, tax, "qBCProd")
  <2>1. l.tag \in {"vBC", Rate(tax)} => OneOrTheOther(h, l) BY <1>3, <1>4, <1>5 DEF OneOrTheOther
  <2>2. l.tag \in {"qBCProd", "vAliqProd", Worth(tax), sums} => l \in calculate_contribution_tax_st(h, n, tax, sums)
    BY <1>1, <1>5 DEF calculate_contribution_tax_st, Base
  <2>. QED BY <2>1, <2>2 DEF OfItem
<1>6. CASE ~Has(h, tax, "qBCProd")
  <2>1. l.tag \in {"qBCProd", "vAliqProd"} => OneOrTheOther(h, l) BY <1>3, <1>4, <1>6 DEF OneOrTheOther
  <2>2. l.tag \in {"vBC", Rate(tax), Worth(tax), sums} => l \in calculate_contribution_tax_st(h, n, tax, sums)
    BY <1>1, <1>6 DEF calculate_contribution_tax_st, Base
  <2>. QED BY <2>1, <2>2 DEF OfItem
<1>. QED BY <1>5, <1>6

\* PIS and COFINS, of both kinds.
LEMMA PisCofinsKept ==
    ASSUME NEW h, NEW n, Shaped(h, ItemStructs, ItemLists), NEW l \in h,
           NEW st \in {ItemPis, ItemCofins, PisStData, CofinsStData}, Field(l, st)
    PROVE  l \in build_imposto(s, h, n) \/ OfItem(h, l)
<1>1. CASE st = ItemPis
  <2>1. l.in = "PIS" /\ l.tag \in {"CST", "vBC", Rate("PIS"), Worth("PIS"), "qBCProd", "vAliqProd"}
    BY <1>1 DEF Field, ItemPis, Struct, Rate, Worth
  <2>2. Substitution["PIS"] = "PISST" BY DEF Substitution
  <2>3. Given(h, "PISST") => OfItem(h, l) BY <2>1, <2>2 DEF OfItem, NotForCst
  <2>4. ~Given(h, "PISST") => l \in build_pis_xml(h, n) \/ OfItem(h, l)
    BY <2>1, <2>2, ContributionKept DEF build_pis_xml
  <2>. QED BY <2>3, <2>4 DEF build_imposto
<1>2. CASE st = ItemCofins
  <2>1. l.in = "COFINS" /\ l.tag \in {"CST", "vBC", Rate("COFINS"), Worth("COFINS"), "qBCProd", "vAliqProd"}
    BY <1>2 DEF Field, ItemCofins, Struct, Rate, Worth
  <2>2. Substitution["COFINS"] = "COFINSST" BY DEF Substitution
  <2>3. Given(h, "COFINSST") => OfItem(h, l) BY <2>1, <2>2 DEF OfItem, NotForCst
  <2>4. ~Given(h, "COFINSST") => l \in build_cofins_xml(h, n) \/ OfItem(h, l)
    BY <2>1, <2>2, ContributionKept DEF build_cofins_xml
  <2>. QED BY <2>3, <2>4 DEF build_imposto
<1>3. CASE st = PisStData
  <2>1. l.in = "PISST" /\ l.tag \in {"vBC", Rate("PISST"), Worth("PISST"), "qBCProd", "vAliqProd", "indSomaPISST"}
        /\ Given(h, "PISST")
    BY <1>3 DEF Field, PisStData, Struct, Rate, Worth, Given
  <2>2. l \in build_pis_st_xml(h, n) \/ OfItem(h, l) BY <2>1, SubstitutionKept DEF build_pis_st_xml
  <2>. QED BY <2>1, <2>2 DEF build_imposto
<1>4. CASE st = CofinsStData
  <2>1. l.in = "COFINSST" /\ l.tag \in {"vBC", Rate("COFINSST"), Worth("COFINSST"), "qBCProd", "vAliqProd",
                                       "indSomaCOFINSST"}
        /\ Given(h, "COFINSST")
    BY <1>4 DEF Field, CofinsStData, Struct, Rate, Worth, Given
  <2>2. l \in build_cofins_st_xml(h, n) \/ OfItem(h, l) BY <2>1, SubstitutionKept DEF build_cofins_st_xml
  <2>. QED BY <2>1, <2>2 DEF build_imposto
<1>. QED BY <1>1, <1>2, <1>3, <1>4

\* IPI, II, ISSQN and the Imposto Seletivo.
LEMMA OtherTaxesKept ==
    ASSUME NEW h, NEW n, Holds(h, n), NEW l \in h,
           NEW st \in {ItemTotTrib, ItemIpi, ItemIi, IssqnData, IsData}, Field(l, st)
    PROVE  l \in build_imposto(s, h, n) \/ ItemExcused(h, l)
<1>1. /\ \A in, tags : l.in = in /\ l.tag \in tags => l \in Write(h, in, tags) /\ l \in OrZero(h, n, in, tags)
      /\ \A in, tag, default : l.in = in /\ l.tag = tag => l \in WriteOr(h, n, in, tag, default)
  BY GivenIsWritten
<1>2. CASE st = ItemTotTrib
  <2>1. l.in = "imposto" /\ l.tag = "vTotTrib" BY <1>2 DEF Field, ItemTotTrib, Struct
  <2>2. l.v > 0 \/ l.v <= 0 BY DEF Holds, FieldSet
  <2>3. l.v <= 0 => OfItem(h, l) BY <2>1 DEF OfItem
  <2>. QED BY <1>1, <2>1, <2>2, <2>3 DEF build_imposto, ItemExcused
<1>3. CASE st = ItemIpi
  <2>1. l.in = "IPI" /\ l.tag \in {"CST", "cEnq", "vBC", "pIPI", "vIPI", "qUnid", "vUnid"}
    BY <1>3 DEF Field, ItemIpi, Struct
  <2>2. ~Has(h, "IPI", "CST") => OfItem(h, l) BY <2>1 DEF OfItem, NeedsAnother
  <2>3. l.tag \in {"CST", "cEnq"} => l \in build_ipi_xml(h, n) BY <1>1, <2>1 DEF build_ipi_xml
  <2>4. l.tag \notin {"CST", "cEnq"} /\ Value(h, "IPI", "CST", -1) \notin TaxedIpi => OfItem(h, l)
    BY <2>1 DEF OfItem, NotForCst
  <2>5. ASSUME Value(h, "IPI", "CST", -1) \in TaxedIpi, l.tag \in {"vBC", "pIPI", "vIPI", "qUnid", "vUnid"}
        PROVE  l \in build_ipi_xml(h, n) \/ OfItem(h, l)
    <3>1. IpiByRate(h) /\ l.tag \in {"qUnid", "vUnid"} => OfItem(h, l) BY <2>1 DEF OfItem, OneOrTheOther
    <3>2. ~IpiByRate(h) /\ l.tag \in {"vBC", "pIPI"} => OfItem(h, l) BY <2>1 DEF OfItem, OneOrTheOther
    <3>3. IpiByRate(h) /\ l.tag \in {"vBC", "pIPI", "vIPI"} => l \in build_ipi_xml(h, n)
      BY <1>1, <2>1, <2>5 DEF build_ipi_xml, IpiByRate
    <3>4. ~IpiByRate(h) /\ l.tag \in {"qUnid", "vUnid", "vIPI"} => l \in build_ipi_xml(h, n)
      BY <1>1, <2>1, <2>5 DEF build_ipi_xml, IpiByRate
    <3>. QED BY <2>5, <3>1, <3>2, <3>3, <3>4
  <2>6. l \in build_ipi_xml(h, n) \/ OfItem(h, l) BY <2>1, <2>3, <2>4, <2>5
  <2>. QED BY <2>2, <2>6 DEF build_imposto, ItemExcused
<1>4. CASE st = ItemIi
  <2>1. l.in = "II" /\ l \in build_ii_xml(h, n) BY <1>1, <1>4 DEF Field, ItemIi, Struct, build_ii_xml
  <2>2. ~Has(h, "II", "vBC") => OfItem(h, l) BY <2>1 DEF OfItem, NeedsAnother
  <2>. QED BY <2>1, <2>2 DEF build_imposto, ItemExcused
<1>5. CASE st = IssqnData
  <2>1. has_issqn(h) /\ l \in build_issqn_xml(h)
    BY <1>1, <1>5 DEF Field, IssqnData, Struct, build_issqn_xml, has_issqn, Given
  <2>. QED BY <2>1 DEF build_imposto
<1>6. CASE st = IsData
  <2>1. l.in = "IS" /\ l.tag \in {"CSTIS", "cClassTribIS", "vIS", "vBCIS", "pIS", "pISEspec", "uTrib", "qTrib"}
    BY <1>6 DEF Field, IsData, Struct
  <2>2. OfPl010(l) BY <2>1 DEF OfPl010, Pl010Groups
  <2>3. l.tag = "vBCIS" => Has(h, "IS", "vBCIS") BY <2>1 DEF Has
  <2>4. l \in build_is_xml(h) \/ OfItem(h, l)
    BY <1>1, <2>1, <2>3 DEF build_is_xml, OfItem, NeedsAnother
  <2>. QED BY <2>2, <2>4 DEF build_imposto, Pl010, ItemExcused
<1>. QED BY <1>2, <1>3, <1>4, <1>5, <1>6

\* What stands inside IBS/CBS is given with it.
LEMMA ItemNested ==
    ASSUME NEW h, NEW structs, NEW lists, Shaped(h, structs, lists), NEW l \in h
    PROVE  /\ \A st \in IbsCbsStructs : l.in = st.in => Given(h, "IBSCBS")
           /\ \A of \in ThreeTaxes : l.in \in {of, gDif[of], gDevTrib[of], gRed[of]} => Given(h, "gIBSCBS")
<1>1. Given(h, l.in) BY DEF Given
<1>2. ASSUME NEW a, NEW b, <<a, b>> \in Inside, Given(h, a) PROVE Given(h, b)
  <2>1. \A pair \in Inside : Given(h, pair[1]) => Given(h, pair[2]) BY DEF Shaped
  <2>2. <<a, b>>[1] = a /\ <<a, b>>[2] = b OBVIOUS
  <2>. QED BY <2>1, <2>2, <1>2
<1>3. ASSUME NEW st \in IbsCbsStructs, l.in = st.in PROVE Given(h, "IBSCBS")
  <2>1. CASE l.in = "IBSCBS" BY <2>1, <1>1
  <2>2. CASE l.in # "IBSCBS"
    <3>1. l.in \in {o.in : o \in IbsCbsStructs} \ {"IBSCBS"} BY <1>3, <2>2
    <3>2. <<l.in, "IBSCBS">> \in Inside BY <3>1 DEF Inside
    <3>. QED BY <3>2, <1>1, <1>2
  <2>. QED BY <2>1, <2>2
<1>4. ASSUME NEW of \in ThreeTaxes, l.in \in {of, gDif[of], gDevTrib[of], gRed[of]} PROVE Given(h, "gIBSCBS")
  <2>1. l.in \in ThreeTaxes \cup {inside[kind] : inside \in {gDif, gDevTrib, gRed}, kind \in ThreeTaxes} BY <1>4
  <2>2. <<l.in, "gIBSCBS">> \in Inside BY <2>1 DEF Inside
  <2>. QED BY <2>2, <1>1, <1>2
<1>. QED BY <1>3, <1>4

\* The adjustments of a tax have what is set in them.
LEMMA AdjustmentsKept ==
    ASSUME NEW h, NEW l \in h, NEW of \in ThreeTaxes, NEW st \in {GDifData(of), GDevTribData(of), GRedData(of)},
           Field(l, st)
    PROVE  l \in Adjustments(h, of) /\ l.in \in {gDif[of], gDevTrib[of], gRed[of]}
<1>1. \A in, tags : l.in = in /\ l.tag \in tags => l \in Write(h, in, tags) BY GivenIsWritten
<1> DEFINE dif == gDif[of]  dev == gDevTrib[of]  red == gRed[of]
<1>2. CASE st = GDifData(of)
  <2>1. l.in = dif /\ l.tag \in {"pDif", "vDif"} BY <1>2 DEF Field, GDifData, Struct
  <2> HIDE DEF dif
  <2>2. l \in Write(h, dif, {"pDif", "vDif"}) BY <1>1, <2>1
  <2>. QED BY <2>1, <2>2 DEF Adjustments, build_g_dif, dif
<1>3. CASE st = GDevTribData(of)
  <2>1. l.in = dev /\ l.tag \in {"vDevTrib"} BY <1>3 DEF Field, GDevTribData, Struct
  <2> HIDE DEF dev
  <2>2. l \in Write(h, dev, {"vDevTrib"}) BY <1>1, <2>1
  <2>. QED BY <2>1, <2>2 DEF Adjustments, build_g_dev_trib, dev
<1>4. CASE st = GRedData(of)
  <2>1. l.in = red /\ l.tag \in {"pRedAliq", "pAliqEfet"} BY <1>4 DEF Field, GRedData, Struct
  <2> HIDE DEF red
  <2>2. l \in Write(h, red, {"pRedAliq", "pAliqEfet"}) BY <1>1, <2>1
  <2>. QED BY <2>1, <2>2 DEF Adjustments, build_g_red, red
<1>. QED BY <1>2, <1>3, <1>4

\* IBS/CBS has what is set, in its schema.
LEMMA IbsCbsKept ==
    ASSUME NEW h, NEW n, Shaped(h, ItemStructs, ItemLists), NEW l \in h, NEW st \in IbsCbsStructs, Field(l, st)
    PROVE  l \in build_imposto(s, h, n) \/ ItemExcused(h, l)
<1>1. \A in, tags : l.in = in /\ l.tag \in tags => l \in Write(h, in, tags) /\ l \in OrZero(h, n, in, tags)
  BY GivenIsWritten
<1>2. OfPl010(l) BY IbsCbsApart DEF Field, OfPl010
<1>3. Given(h, "IBSCBS") BY ItemNested DEF Field
<1>4. CASE \E of \in ThreeTaxes : st \in {GDifData(of), GDevTribData(of), GRedData(of)}
  <2>1. PICK of \in ThreeTaxes : st \in {GDifData(of), GDevTribData(of), GRedData(of)} BY <1>4
  <2>2. l \in Adjustments(h, of) /\ Given(h, "gIBSCBS") BY <2>1, AdjustmentsKept, ItemNested
  <2>3. l \in build_g_ibs_uf(h) \cup build_g_ibs_mun(h) \cup build_g_cbs(h)
    BY <2>2 DEF ThreeTaxes, build_g_ibs_uf, build_g_ibs_mun, build_g_cbs
  <2>4. l \in build_g_ibs_cbs(h, n) BY <2>3 DEF build_g_ibs_cbs
  <2>5. l \in build_ibs_cbs_xml(h, n) BY <2>2, <2>4 DEF build_ibs_cbs_xml
  <2>. QED BY <1>2, <1>3, <2>5 DEF build_imposto, Pl010, ItemExcused
<1>5. CASE st \in {GIbsCbsData, GIbsUfData, GIbsMunData, GCbsData}
  <2>1. Given(h, "gIBSCBS")
    <3>1. l.in = "gIBSCBS" => Given(h, "gIBSCBS") BY DEF Given
    <3>2. l.in = "gIBSCBS" \/ l.in \in ThreeTaxes
      BY <1>5 DEF Field, GIbsCbsData, GIbsUfData, GIbsMunData, GCbsData, Struct, ThreeTaxes
    <3>. QED BY <3>1, <3>2, ItemNested
  <2>2. l \in build_g_ibs_cbs(h, n)
    BY <1>1, <1>5 DEF Field, GIbsCbsData, GIbsUfData, GIbsMunData, GCbsData, Struct, build_g_ibs_cbs,
       build_g_ibs_uf, build_g_ibs_mun, build_g_cbs
  <2>3. l \in build_ibs_cbs_xml(h, n) BY <2>1, <2>2 DEF build_ibs_cbs_xml
  <2>. QED BY <1>2, <1>3, <2>3 DEF build_imposto, Pl010, ItemExcused
<1>6. CASE st \in {IbsCbsData, GTribRegularData, GTribCompraGovData, GMonoPadraoData, GMonoRetenData, GMonoRetData,
                   GMonoDifData, GIbsCbsMonoData, GTransfCredData, GCredPresIbsZfmData, GAjusteCompetData,
                   GEstornoCredData}
  <2>1. l \in build_ibs_cbs_xml(h, n)
    BY <1>1, <1>6 DEF Field, IbsCbsData, GTribRegularData, GTribCompraGovData, GMonoPadraoData, GMonoRetenData,
       GMonoRetData, GMonoDifData, GIbsCbsMonoData, GTransfCredData, GCredPresIbsZfmData, GAjusteCompetData,
       GEstornoCredData, Struct, build_ibs_cbs_xml, build_g_trib_regular, build_g_trib_compra_gov,
       build_g_ibs_cbs_mono, build_g_transf_cred, build_g_cred_pres_ibs_zfm, build_g_ajuste_compet,
       build_g_estorno_cred
  <2>. QED BY <1>2, <1>3, <2>1 DEF build_imposto, Pl010, ItemExcused
<1>7. CASE st \in {GCredPresOperData, GCredPresData("gIBSCredPres"), GCredPresData("gCBSCredPres")}
  <2>1. l.tag = "vCredPres" => Has(h, l.in, "vCredPres") BY DEF Has
  <2>2. l.tag = "vCredPresCondSus" /\ Has(h, l.in, "vCredPres") => OfItem(h, l) BY DEF OfItem, OneOrTheOther
  <2>3. l \in build_g_cred_pres_oper(h) \/ OfItem(h, l)
    BY <1>1, <1>7, <2>1, <2>2 DEF Field, GCredPresOperData, GCredPresData, Struct, build_g_cred_pres_oper,
       build_cred_pres_sub
  <2>4. l \in build_ibs_cbs_xml(h, n) \/ OfItem(h, l) BY <2>3 DEF build_ibs_cbs_xml
  <2>. QED BY <1>2, <1>3, <2>4 DEF build_imposto, Pl010, ItemExcused
<1>. QED BY <1>4, <1>5, <1>6, <1>7 DEF IbsCbsStructs

\* The arm of a code writes no field of an item that its variant does not take.
LEMMA ArmWithinVariant ==
    ASSUME NEW simples \in BOOLEAN, NEW code, Supported(simples, code), simples => code # 0,
           NEW tag \in ItemIcms.required \cup ItemIcms.optional, tag \in ArmOf(simples, code).tags,
           tag \notin {"orig", "CST"}
    PROVE  tag \in VariantOf(simples, code).fields /\ tag # "vBC"
<1>1. tag \in {"pICMS", "vICMS", "modBC", "pRedBC", "modBCST", "pMVAST", "pRedBCST", "vBCST", "pICMSST", "vICMSST",
                "vICMSDeson", "motDesICMS", "pFCP", "vFCP", "vBCFCP", "pFCPST", "vFCPST", "vBCFCPST", "pCredSN",
                "vCredICMSSN", "vICMSSubstituto", "indDeduzDeson"}
  BY DEF ItemIcms, Struct
<1>2. CASE ~simples
  <2>1. tag \in build_icms_cst_xml(code).tags /\ VariantOf(simples, code) = NormalVariant(code) /\ code \in NormalCsts
    BY <1>2 DEF ArmOf, VariantOf, Supported
  <2>2. CASE code = 0
    <3>1. build_icms_cst_xml(code) = Cst00 BY <2>2 DEF build_icms_cst_xml
    <3>. QED BY <1>1, <2>1, <2>2, <3>1 DEF NormalVariant, Variant, Cst00, Arm, Own, Fcp, BaseFcp, St, FcpSt, Relief, Credit
  <2>3. CASE code = 10
    <3>1. build_icms_cst_xml(code) = Cst10 BY <2>3 DEF build_icms_cst_xml
    <3>. QED BY <1>1, <2>1, <2>3, <3>1 DEF NormalVariant, Variant, Cst10, Arm, Own, Fcp, BaseFcp, St, FcpSt, Relief, Credit, StRelief
  <2>4. CASE code = 20
    <3>1. build_icms_cst_xml(code) = Cst20 BY <2>4 DEF build_icms_cst_xml
    <3>. QED BY <1>1, <2>1, <2>4, <3>1 DEF NormalVariant, Variant, Cst20, Arm, Own, Fcp, BaseFcp, St, FcpSt, Relief, Credit
  <2>5. CASE code = 30
    <3>1. build_icms_cst_xml(code) = Cst30 BY <2>5 DEF build_icms_cst_xml
    <3>. QED BY <1>1, <2>1, <2>5, <3>1 DEF NormalVariant, Variant, Cst30, Arm, Own, Fcp, BaseFcp, St, FcpSt, Relief, Credit
  <2>6. CASE code \in {40, 41, 50}
    <3>1. build_icms_cst_xml(code) = Cst40 BY <2>6 DEF build_icms_cst_xml
    <3>. QED BY <1>1, <2>1, <2>6, <3>1 DEF NormalVariant, Variant, Cst40, Arm, Own, Fcp, BaseFcp, St, FcpSt, Relief, Credit
  <2>7. CASE code = 51
    <3>1. build_icms_cst_xml(code) = Cst51 BY <2>7 DEF build_icms_cst_xml
    <3>. QED BY <1>1, <2>1, <2>7, <3>1 DEF NormalVariant, Variant, Cst51, Arm, Own, Fcp, BaseFcp, St, FcpSt, Relief, Credit, Deferral
  <2>8. CASE code = 60
    <3>1. build_icms_cst_xml(code) = Cst60 BY <2>8 DEF build_icms_cst_xml
    <3>. QED BY <1>1, <2>1, <2>8, <3>1 DEF NormalVariant, Variant, Cst60, Arm, Own, Fcp, BaseFcp, St, FcpSt, Relief, Credit, Withheld, Effective
  <2>9. CASE code = 70
    <3>1. build_icms_cst_xml(code) = Cst70 BY <2>9 DEF build_icms_cst_xml
    <3>. QED BY <1>1, <2>1, <2>9, <3>1 DEF NormalVariant, Variant, Cst70, Arm, Own, Fcp, BaseFcp, St, FcpSt, Relief, Credit, StRelief
  <2>10. CASE code = 90
    <3>1. build_icms_cst_xml(code) = Cst90 BY <2>10 DEF build_icms_cst_xml
    <3>. QED BY <1>1, <2>1, <2>10, <3>1 DEF NormalVariant, Variant, Cst90, Arm, Own, Fcp, BaseFcp, St, FcpSt, Relief, Credit, StRelief, Deferral
  <2>. QED BY <2>1, <2>2, <2>3, <2>4, <2>5, <2>6, <2>7, <2>8, <2>9, <2>10 DEF NormalCsts
<1>3. CASE simples
  <2>1. tag \in build_icms_csosn_xml(code).tags /\ VariantOf(simples, code) = SimplesVariant(code)
        /\ code \in SimplesCsosns /\ code # 0
    BY <1>3 DEF ArmOf, VariantOf, Supported
  <2>2. CASE code = 101
    <3>1. build_icms_csosn_xml(code) = Csosn101 BY <2>2 DEF build_icms_csosn_xml
    <3>. QED BY <1>1, <2>1, <2>2, <3>1 DEF SimplesVariant, Variant, Csosn101, Arm, Own, Fcp, BaseFcp, St, FcpSt, Relief, Credit
  <2>3. CASE code \in {102, 103, 300, 400}
    <3>1. build_icms_csosn_xml(code) = Csosn102 BY <2>3 DEF build_icms_csosn_xml
    <3>. QED BY <1>1, <2>1, <2>3, <3>1 DEF SimplesVariant, Variant, Csosn102, Arm, Own, Fcp, BaseFcp, St, FcpSt, Relief, Credit
  <2>4. CASE code = 201
    <3>1. build_icms_csosn_xml(code) = Csosn201 BY <2>4 DEF build_icms_csosn_xml
    <3>. QED BY <1>1, <2>1, <2>4, <3>1 DEF SimplesVariant, Variant, Csosn201, Arm, Own, Fcp, BaseFcp, St, FcpSt, Relief, Credit
  <2>5. CASE code \in {202, 203}
    <3>1. build_icms_csosn_xml(code) = Csosn202 BY <2>5 DEF build_icms_csosn_xml
    <3>. QED BY <1>1, <2>1, <2>5, <3>1 DEF SimplesVariant, Variant, Csosn202, Arm, Own, Fcp, BaseFcp, St, FcpSt, Relief, Credit
  <2>6. CASE code = 500
    <3>1. build_icms_csosn_xml(code) = Csosn500 BY <2>6 DEF build_icms_csosn_xml
    <3>. QED BY <1>1, <2>1, <2>6, <3>1 DEF SimplesVariant, Variant, Csosn500, Arm, Own, Fcp, BaseFcp, St, FcpSt, Relief, Credit, Withheld, Effective
  <2>7. CASE code = 900
    <3>1. build_icms_csosn_xml(code) = Csosn900 BY <2>7 DEF build_icms_csosn_xml
    <3>. QED BY <1>1, <2>1, <2>7, <3>1 DEF SimplesVariant, Variant, Csosn900, Arm, Own, Fcp, BaseFcp, St, FcpSt, Relief, Credit
  <2>. QED BY <2>1, <2>2, <2>3, <2>4, <2>5, <2>6, <2>7 DEF SimplesCsosns
<1>. QED BY <1>2, <1>3

\* ICMS has what is set for its CST.
LEMMA IcmsKept ==
    ASSUME NEW h, NEW n, Holds(h, n), s \in SettingSet, NEW l \in h, Field(l, ItemIcms), ~DetError(s, h)
    PROVE  l \in build_imposto(s, h, n) \/ OfItem(h, l)
<1> DEFINE code == Code(is_simples(s), h)
           arm == ArmOf(is_simples(s), code)
<1>1. l.in = "ICMS" /\ l.tag \in ItemIcms.required \cup ItemIcms.optional BY DEF Field, ItemIcms, Struct
<1>2. is_simples(s) \in BOOLEAN BY DEF is_simples
<1>3. CASE has_issqn(h) BY <1>1, <1>3 DEF OfItem, NotForCst
<1>4. CASE l.tag \notin arm.tags BY <1>1, <1>4 DEF OfItem, NotForCst
<1>5. CASE ~has_issqn(h) /\ l.tag \in arm.tags
  <2>1. Supported(is_simples(s), code) BY <1>5 DEF DetError, IcmsError
  <2>2. is_simples(s) => code # 0 BY DEF Code
  <2>3. CASE l.tag = "CST"
    <3>1. l.m = <<>> /\ \A o \in h : o.in = l.in => o.m = <<>> BY <1>1 DEF Holds, Single
    <3>2. l = Leaf(n, "ICMS", <<>>, "CST", l.v) BY <1>1, <2>3, <3>1, OnlyOne
    <3>3. \A o \in h : o.in = "ICMS" /\ o.tag = "CST" => o = l BY <1>1, <2>3, <3>1 DEF Holds
    <3>4. Value(h, "ICMS", "CST", 0) = l.v
      <4>1. Has(h, "ICMS", "CST") BY <1>1, <2>3 DEF Has
      <4> DEFINE o == CHOOSE o \in h : o.in = "ICMS" /\ o.tag = "CST"
      <4>2. o \in h /\ o.in = "ICMS" /\ o.tag = "CST" BY <4>1 DEF Has
      <4>3. Value(h, "ICMS", "CST", 0) = o.v BY <4>1 DEF Value
      <4> HIDE DEF o
      <4>. QED BY <3>3, <4>2, <4>3
    <3>5. code = l.v \/ (is_simples(s) /\ l.v = 0) BY <3>4 DEF Code
    <3>6. is_simples(s) /\ l.v = 0 => OfItem(h, l) BY <1>1, <2>3 DEF OfItem, NotForCst
    <3>7. code = l.v => l \in build_icms_variant(is_simples(s), h, n) BY <3>2 DEF build_icms_variant, Put
    <3>8. code = l.v => l \in build_icms_xml(is_simples(s), h, n)
      BY <1>1, <1>5, <2>3, <3>7 DEF build_icms_xml, NoOrigin, Write
    <3> HIDE DEF code, arm
    <3>. QED BY <1>5, <3>5, <3>6, <3>8 DEF build_imposto
  <2>4. CASE l.tag # "CST"
    <3>1. l \in build_icms_variant(is_simples(s), h, n)
      <4>1. CASE l.tag = "orig"
        <5>1. l \in WriteOr(h, n, "ICMS", "orig", 0) BY <1>1, <4>1, GivenIsWritten
        <5>. QED BY <5>1 DEF build_icms_variant
      <4>2. CASE l.tag # "orig"
        <5>1. l.tag \in VariantOf(is_simples(s), code).fields \ {"vBC"}
          <6> HIDE DEF code
          <6>. QED BY <1>1, <1>2, <1>5, <2>1, <2>2, <2>4, <4>2, ArmWithinVariant DEF arm
        <5>2. l \in Write(h, "ICMS", VariantOf(is_simples(s), code).fields \ {"vBC"}) BY <1>1, <5>1, GivenIsWritten
        <5>. QED BY <5>2 DEF build_icms_variant
      <4>. QED BY <4>1, <4>2
    <3>2. NoOrigin(is_simples(s), code, l) \/ l \in build_icms_xml(is_simples(s), h, n)
      BY <1>1, <1>5, <3>1 DEF build_icms_xml, Write
    <3>3. NoOrigin(is_simples(s), code, l) => OfItem(h, l) BY <1>1 DEF OfItem, NotForCst
    <3> HIDE DEF code, arm
    <3>. QED BY <1>5, <3>2, <3>3 DEF build_imposto
  <2>. QED BY <2>3, <2>4
<1>. QED BY <1>3, <1>4, <1>5

\* The worth the caller states is the worth that is written.
LEMMA WorthKept ==
    ASSUME NEW h, NEW n, Holds(h, n), NEW l \in h, l.in = "det", l.tag = "vItem", NEW values \in BOOLEAN
    PROVE  \/ l \in build_det(s, values, h, n) \/ ~values \/ ~s.pl010
<1>1. l.m = <<>> /\ \A o \in h : o.in = l.in => o.m = <<>> BY DEF Holds, Single
<1>2. Amount(h, "det", "vItem") = l.v /\ l = Leaf(n, "det", <<>>, "vItem", l.v) BY <1>1, OnlyOne
<1>3. v_item(s, h, n) = l.v BY <1>2 DEF v_item, Has
<1> DEFINE worth == Put(n, "det", "vItem", v_item(s, h, n))
<1>4. l \in worth BY <1>2, <1>3 DEF Put
<1>5. l \in build_det_extras(h, worth)
  <2> HIDE DEF worth
  <2>. QED BY <1>4 DEF build_det_extras
<1>. QED BY <1>5 DEF build_det, Pl010

\* What is set on an item is in its <det>, or in one of the named cases.
LEMMA ItemKept ==
    ASSUME NEW i \in DOMAIN items, BuilderInv, ShapeInv, ~DetError(s, items[i]), NEW l \in items[i]
    PROVE  l \in DetOf(s, items, i) \/ ItemExcused(items[i], l)
<1> DEFINE h == items[i]
           values == AnyIbsCbs(items)
<1>1. Holds(h, i) /\ Shaped(h, ItemStructs, ItemLists) /\ s \in SettingSet
  BY DEF BuilderInv, ItemsHold, ShapeInv
<1>2. PICK st \in ItemStructs : Field(l, st) BY <1>1 DEF Shaped
<1>3. values \in BOOLEAN /\ (values <=> \E j \in DOMAIN items : Given(items[j], "IBSCBS")) BY DEF AnyIbsCbs
<1>4. DetOf(s, items, i) = build_det(s, values, h, i) BY DEF DetOf
<1>5. l \in h /\ ~DetError(s, h) OBVIOUS
<1> HIDE DEF h, values
<1>6. l \in build_prod(s, h, i) \/ l \in build_imposto(s, h, i) \/ l \in build_imposto_devol(h)
      => l \in build_det(s, values, h, i)
  BY DEF build_det
<1>7. \A in, tags : l.in = in /\ l.tag \in tags => l \in Write(h, in, tags) BY <1>5, GivenIsWritten
<1>8. l \in build_det(s, values, h, i) \/ ItemExcused(h, l)
  <2>1. CASE st = ItemProduct BY <1>1, <1>2, <1>5, <1>6, <2>1, ItemProductKept
  <2>2. CASE st \in PartsOfProduct BY <1>1, <1>2, <1>5, <1>6, <2>2, ProductPartsKept DEF ItemExcused
  <2>3. CASE st = ItemRest
    <3>1. l.in = "det" /\ l.tag \in {"nItem", "infAdProd", "vItem"} BY <1>2, <2>3 DEF Field, ItemRest, Struct
    <3>2. l.tag = "nItem" => l \in build_det(s, values, h, i) BY <1>7, <3>1 DEF build_det
    <3>3. l.tag = "infAdProd" => l \in build_det(s, values, h, i)
      BY <1>7, <3>1 DEF build_det, build_det_extras
    <3>4. CASE l.tag = "vItem"
      <4>1. OfPl010(l) BY <3>1, <3>4 DEF OfPl010
      <4>2. ~values => OfItem(h, l) BY <1>3, <3>1, <3>4 DEF OfItem, NeedsAnother
      <4>3. l \in build_det(s, values, h, i) \/ ~values \/ ~s.pl010 BY <1>1, <1>3, <1>5, <3>1, <3>4, WorthKept
      <4>. QED BY <4>1, <4>2, <4>3 DEF ItemExcused
    <3>. QED BY <3>1, <3>2, <3>3, <3>4
  <2>4. CASE st \in {ObsField("obsCont"), ObsField("obsFisco"), DFeReferenciadoData}
    BY <1>2, <1>7, <2>4 DEF Field, ObsField, DFeReferenciadoData, Struct, build_det, build_det_extras
  <2>5. CASE st = ImpostoDevolData
    BY <1>2, <1>6, <1>7, <2>5 DEF Field, ImpostoDevolData, Struct, build_imposto_devol
  <2>6. CASE st = ItemIcms BY <1>1, <1>2, <1>5, <1>6, <2>6, IcmsKept DEF ItemExcused
  <2>7. CASE st \in {ItemPis, ItemCofins, PisStData, CofinsStData}
    BY <1>1, <1>2, <1>5, <1>6, <2>7, PisCofinsKept DEF ItemExcused
  <2>8. CASE st \in {ItemTotTrib, ItemIpi, ItemIi, IssqnData, IsData}
    BY <1>1, <1>2, <1>5, <1>6, <2>8, OtherTaxesKept
  <2>9. CASE st \in IbsCbsStructs BY <1>1, <1>2, <1>5, <1>6, <2>9, IbsCbsKept
  <2>. QED BY <1>2, <2>1, <2>2, <2>3, <2>4, <2>5, <2>6, <2>7, <2>8, <2>9
       DEF ItemStructs, ProductStructs, TaxStructs, PartsOfProduct
<1>. QED BY <1>4, <1>8 DEF h

\* What was set is in the XML, or in one of the named cases.
LEMMA KeptOrNamed == BuilderInv /\ ShapeInv => NothingLost
<1>1. SUFFICES ASSUME BuilderInv, ShapeInv, IsBuilt, NEW l \in Given_ \ xml
               PROVE  \/ ~s.pl010 /\ OfPl010(l)
                      \/ l.n # 0 /\ OfItem(items[l.n], l)
                      \/ l.n = 0 /\ (OfDocument(l) \/ \E written \in xml : Restamped(l, written))
  BY DEF NothingLost
<1>2. xml = generate_xml(s, d, items, cNF) /\ s \in SettingSet /\ Holds(d, 0)
      /\ \A i \in DOMAIN items : ~DetError(s, items[i]) /\ Holds(items[i], i)
  BY <1>1 DEF BuilderInv, ItemsHold
<1>3. CASE l \in d
  <2>1. l.n = 0 BY <1>2, <1>3 DEF Holds, FieldSet
  <2>2. l \in xml \/ Excused(l) \/ \E written \in xml : Restamped(l, written)
    BY <1>1, <1>2, <1>3, DocumentKept DEF ShapeInv
  <2>. QED BY <1>1, <1>2, <2>1, <2>2 DEF Excused
<1>4. ASSUME NEW i \in DOMAIN items, l \in items[i]
      PROVE  (~s.pl010 /\ OfPl010(l)) \/ (l.n # 0 /\ OfItem(items[l.n], l))
  <2>1. l.n = i BY <1>2, <1>4 DEF Holds, FieldSet
  <2>2. i # 0 BY <1>1 DEF BuilderInv, ItemsHold
  <2>3. l \in DetOf(s, items, i) \/ ItemExcused(items[i], l) BY <1>1, <1>2, <1>4, ItemKept
  <2>4. l \in DetOf(s, items, i) => l \in xml BY <1>2, XmlIs
  <2>. QED BY <1>1, <2>1, <2>2, <2>3, <2>4 DEF ItemExcused
<1>. QED BY <1>1, <1>3, <1>4 DEF Given_

\* NothingLost: what the caller set is in the XML, in its place and with its
\* value, but in the cases it names.
THEOREM NothingIsLost == Spec => []NothingLost
BY BuilderInvariant, ShapeKept, KeptOrNamed, PTL
-----------------------------------------------------------------------------
(***************************************************************************)
(* The parts of an item.                                                   *)
(***************************************************************************)

\* Write selects.
LEMMA OneGroup ==
    ASSUME NEW h, NEW l
    PROVE  \A in, tags : l \in Write(h, in, tags) <=> l \in h /\ l.in = in /\ l.tag \in tags
BY DEF Write

\* What is in a group of an item comes from the builder of that group.
LEMMA DetParts ==
    ASSUME NEW c, NEW values, NEW h, NEW n, NEW l \in build_det(c, values, h, n)
    PROVE  /\ l.in = "prod" => l \in build_prod(c, h, n)
           /\ l.in \in TaxGroups => l \in build_imposto(c, h, n)
           /\ l.in = "impostoDevol" => l \in build_imposto_devol(h)
           /\ l.in = "det" /\ l.tag = "vItem" =>
                values /\ l \in Pl010(c, Put(n, "det", "vItem", v_item(c, h, n)))
<1>1. /\ \A in, tags : l \in Write(h, in, tags) => l.in = in /\ l.tag \in tags
      /\ \A in, tag, v : l \in Put(n, in, tag, v) => l.in = in /\ l.tag = tag
  BY WhereWritten
<1>2. l \in build_prod(c, h, n) => l.in \in ProductGroups BY ProductWhere
<1>3. l \in build_imposto(c, h, n) => l.in \in TaxGroups \cup {"IS"} \cup IbsCbsGroups BY ImpostoWhere
<1>4. l \in build_imposto_devol(h) => l.in = "impostoDevol" BY <1>1 DEF build_imposto_devol
<1>5. ASSUME NEW v, l \in build_det_extras(h, v), l \notin v
      PROVE  l.in \in {"det", "obsCont", "obsFisco", "DFeReferenciado"} /\ (l.in = "det" => l.tag = "infAdProd")
  BY <1>1, <1>5 DEF build_det_extras
<1>6. l \in Write(h, "det", {"nItem"}) => l.in = "det" /\ l.tag = "nItem" BY <1>1
<1> DEFINE v == IF values THEN Pl010(c, Put(n, "det", "vItem", v_item(c, h, n))) ELSE {}
<1>7. /\ l \in v => l.in = "det" /\ l.tag = "vItem"
      /\ l \in v => values /\ l \in Pl010(c, Put(n, "det", "vItem", v_item(c, h, n)))
  BY <1>1 DEF Pl010
<1>8. \/ l \in Write(h, "det", {"nItem"}) \/ l \in build_prod(c, h, n) \/ l \in build_imposto(c, h, n)
      \/ l \in build_imposto_devol(h) \/ l \in build_det_extras(h, v)
  BY DEF build_det
<1> HIDE DEF v
<1>9. {"prod", "impostoDevol", "det", "obsCont", "obsFisco", "DFeReferenciado"} \cap TaxGroups = {}
      /\ {"impostoDevol", "det"} \cap ProductGroups = {} /\ ProductGroups \cap TaxGroups = {}
  BY DEF TaxGroups, ProductGroups
<1>10. {"prod", "impostoDevol", "det"} \cap ({"IS"} \cup IbsCbsGroups) = {} BY DEF IbsCbsGroups
<1>. QED BY <1>2, <1>3, <1>4, <1>5, <1>6, <1>7, <1>8, <1>9, <1>10

\* What is under a tax of an item comes from the builder of that tax.
LEMMA ImpostoParts ==
    ASSUME NEW c, NEW h, NEW n, NEW l \in build_imposto(c, h, n)
    PROVE  /\ l.in = "ICMS" => ~has_issqn(h) /\ l \in build_icms_xml(is_simples(c), h, n)
           /\ l.in = "IPI" => Has(h, "IPI", "CST") /\ l \in build_ipi_xml(h, n)
           /\ l.in = "II" => Has(h, "II", "vBC") /\ l \in build_ii_xml(h, n)
           /\ l.in = "PIS" => l \in build_pis_xml(h, n)
           /\ l.in = "COFINS" => l \in build_cofins_xml(h, n)
<1>1. /\ \A in, tags : l \in Write(h, in, tags) => l.in = in
      /\ \A in, tag, v : l \in Put(n, in, tag, v) => l.in = in
      /\ \A in, tag, v : l \in WriteOr(h, n, in, tag, v) => l.in = in
      /\ \A in, tags : l \in OrZero(h, n, in, tags) => l.in = in
  BY WhereWritten
<1>2. l \in build_icms_xml(is_simples(c), h, n) => l.in = "ICMS" BY DEF build_icms_xml, Write
<1>3. \A tax, sums : l \in calculate_contribution_tax(h, n, tax) \cup calculate_contribution_tax_st(h, n, tax, sums)
                     => l.in = tax
  BY <1>1 DEF calculate_contribution_tax, calculate_contribution_tax_st, build_contribution_outr_fields, Base
<1>4. /\ l \in build_pis_xml(h, n) => l.in = "PIS"
      /\ l \in build_pis_st_xml(h, n) => l.in = "PISST"
      /\ l \in build_cofins_xml(h, n) => l.in = "COFINS"
      /\ l \in build_cofins_st_xml(h, n) => l.in = "COFINSST"
  BY <1>3 DEF build_pis_xml, build_pis_st_xml, build_cofins_xml, build_cofins_st_xml
<1>5. /\ l \in build_ipi_xml(h, n) => l.in = "IPI"
      /\ l \in build_ii_xml(h, n) => l.in = "II"
      /\ l \in build_issqn_xml(h) => l.in = "ISSQN"
      /\ l \in build_is_xml(h) => l.in = "IS"
  BY <1>1 DEF build_ipi_xml, build_ii_xml, build_issqn_xml, build_is_xml
<1>6. l \in build_ibs_cbs_xml(h, n) => l.in \in IbsCbsGroups BY IbsCbsWhere
<1>7. l \in Write(h, "imposto", {"vTotTrib"}) => l.in = "imposto" BY <1>1
<1>8. l \in Pl010(c, build_is_xml(h) \cup IF Given(h, "IBSCBS") THEN build_ibs_cbs_xml(h, n) ELSE {})
      => l.in \notin {"ICMS", "IPI", "II", "PIS", "COFINS"}
  BY <1>5, <1>6 DEF Pl010, IbsCbsGroups
<1>. QED BY <1>2, <1>4, <1>5, <1>7, <1>8 DEF build_imposto

\* Finitely many leaves whose sum is v.
Adds(leaves, v) == IsFiniteSet(leaves) /\ (\A l \in leaves : l.v \in Int) /\ Sum(leaves) = v

\* X has at most what the item has under the tag, or a zero.
AtMost(X, h, n, in, tag) == X \in SUBSET WriteOr(h, n, in, tag, 0)
\* X, and what the item has under the tag.
WithIt(X, h, in, tag) == X \cup Write(h, in, {tag})

\* A sum with a zero where the item has nothing is the item's amount.
LEMMA WithGiven ==
    ASSUME NEW h, NEW n, Holds(h, n), NEW in, NEW tag, NEW X, AtMost(X, h, n, in, tag)
    PROVE  Adds(WithIt(X, h, in, tag), Amount(h, in, tag))
<1> USE DEF AtMost, WithIt
<1> DEFINE W == Write(h, in, {tag})
<1>1. IsFiniteSet(W)
  <2>1. W \in SUBSET h BY DEF Write
  <2>. QED BY <2>1, FS_Subset DEF Holds
<1>2. \A l \in W : l.v \in Int BY DEF Write, Holds, FieldSet
<1>3. CASE Has(h, in, tag)
  <2>1. X \cup W = W BY <1>3 DEF WriteOr
  <2>. QED BY <1>1, <1>2, <2>1 DEF Amount, Adds
<1>4. CASE ~Has(h, in, tag)
  <2>1. W = {} BY <1>4 DEF Has, Write
  <2>2. X \in SUBSET {Leaf(n, in, <<>>, tag, 0)} BY <1>4 DEF WriteOr, Put
  <2>3. X \cup W = X BY <2>1
  <2>4. \A l \in X : l.v = 0 BY <2>2 DEF Leaf
  <2>5. IsFiniteSet(X)
    <3>1. IsFiniteSet({Leaf(n, in, <<>>, tag, 0)}) BY FS_Singleton
    <3>. QED BY <2>2, <3>1, FS_Subset
  <2>6. Sum(X) = 0 BY <2>4, <2>5, LeavesZero
  <2>7. Amount(h, in, tag) = 0 BY <2>1, NoLeaves DEF Amount
  <2> HIDE DEF W
  <2>. QED BY <2>3, <2>4, <2>5, <2>6, <2>7 DEF W, Adds
<1>. QED BY <1>3, <1>4

\* What is written with a default of zero adds up to the item's amount.
LEMMA ZeroOrGiven ==
    ASSUME NEW h, NEW n, Holds(h, n), NEW in, NEW tag
    PROVE  Adds(WriteOr(h, n, in, tag, 0), Amount(h, in, tag))
<1> DEFINE W == Write(h, in, {tag})
           zero == Leaf(n, in, <<>>, tag, 0)
<1>1. CASE Has(h, in, tag)
  <2>1. WriteOr(h, n, in, tag, 0) = W BY <1>1 DEF WriteOr
  <2>2. IsFiniteSet(W)
    <3>1. W \in SUBSET h BY DEF Write
    <3>. QED BY <3>1, FS_Subset DEF Holds
  <2>3. \A l \in W : l.v \in Int BY DEF Write, Holds, FieldSet
  <2>. QED BY <2>1, <2>2, <2>3 DEF Amount, Adds
<1>2. CASE ~Has(h, in, tag)
  <2>1. WriteOr(h, n, in, tag, 0) = {zero} BY <1>2 DEF WriteOr, Put
  <2>2. W = {} BY <1>2 DEF Has, Write
  <2>3. Amount(h, in, tag) = 0 BY <2>2, NoLeaves DEF Amount
  <2>4. zero.v = 0 BY DEF Leaf
  <2> HIDE DEF zero
  <2>5. Sum({zero}) = zero.v BY <2>4, OneLeaf
  <2>6. IsFiniteSet({zero}) BY FS_Singleton
  <2>. QED BY <2>1, <2>3, <2>4, <2>5, <2>6 DEF Adds
<1>. QED BY <1>1, <1>2

\* The totals that a product says of itself.
PricesOf == {"vProd", "vFrete", "vSeg", "vDesc", "vOutro"}

\* X has the prices of h.
PricesFrom(X, h) == \A tag \in PricesOf : Write(X, "prod", {tag}) = Write(h, "prod", {tag})

\* The XML of an item has the prices it was given.
LEMMA PricesWritten ==
    ASSUME NEW c, NEW values, NEW h, NEW n
    PROVE  PricesFrom(build_det(c, values, h, n), h)
<1> SUFFICES ASSUME NEW tag \in PricesOf
             PROVE  Write(build_det(c, values, h, n), "prod", {tag}) = Write(h, "prod", {tag})
  BY DEF PricesFrom
<1>1. ASSUME NEW l \in build_prod(c, h, n), l.in = "prod", l.tag = tag
      PROVE  l \in h
  <2>1. /\ \A in, tags : l \in Write(h, in, tags) => l \in h /\ l.in = in /\ l.tag \in tags
        /\ \A in, tags, limit : l \in FirstOf(h, in, tags, limit) => l.in = in /\ l.tag \in tags
        /\ \A in, t, v : l \in Put(n, in, t, v) => l.in = in /\ l.tag = t
        /\ \A in, t, v : l \in WriteOr(h, n, in, t, v) => l.in = in /\ l.tag = t
    BY WhereWritten, OneGroup
  <2>2. l \notin Description(c, h, n)
    BY <1>1, <2>1 DEF Description, PricesOf
  <2>3. l \notin Taxable(h, n) BY <1>1, <2>1 DEF Taxable, PricesOf
  <2>4. l \notin build_di_xml(h) /\ l \notin build_det_export_xml(h)
    BY <1>1, <2>1 DEF build_di_xml, Of, build_det_export_xml
  <2>5. l \notin build_prod_options(h)
    BY <1>1, <2>1 DEF build_prod_options, OneOfKind, build_comb_xml, PricesOf
  <2>. QED BY <1>1, <2>1, <2>2, <2>3, <2>4, <2>5 DEF build_prod, Pl010, PricesOf
<1>2. ASSUME NEW l \in Write(h, "prod", {tag}) PROVE l \in build_det(c, values, h, n)
  <2>1. l \in build_prod(c, h, n) BY <1>2 DEF build_prod, Write, PricesOf
  <2>. QED BY <2>1 DEF build_det
<1>3. ASSUME NEW l \in Write(build_det(c, values, h, n), "prod", {tag}) PROVE l \in Write(h, "prod", {tag})
  <2>1. l \in build_det(c, values, h, n) /\ l.in = "prod" /\ l.tag = tag BY OneGroup
  <2>2. l \in build_prod(c, h, n) BY <2>1, DetParts
  <2>. QED BY <1>1, <2>1, <2>2, OneGroup
<1>4. \A l \in Write(h, "prod", {tag}) : l.in = "prod" /\ l.tag = tag BY OneGroup
<1>5. \A l \in Write(h, "prod", {tag}) : l \in Write(build_det(c, values, h, n), "prod", {tag})
  BY <1>2, <1>4, OneGroup
<1>. QED BY <1>3, <1>5

-----------------------------------------------------------------------------
(***************************************************************************)
(* What an item adds to a total, tax by tax.                               *)
(***************************************************************************)

\* What is written of the other taxes is the item's value, or a zero.
TaxesFrom(X, h, n) ==
    /\ Write(X, "II", {"vII"}) = IF Has(h, "II", "vBC") THEN WriteOr(h, n, "II", "vII", 0) ELSE {}
    /\ ~Has(h, "IPI", "CST") => Write(X, "IPI", {"vIPI"}) = {}
    /\ AtMost(Write(X, "IPI", {"vIPI"}), h, n, "IPI", "vIPI")
    /\ AtMost(Write(X, "PIS", {"vPIS"}), h, n, "PIS", "vPIS")
    /\ AtMost(Write(X, "COFINS", {"vCOFINS"}), h, n, "COFINS", "vCOFINS")
    /\ Write(X, "impostoDevol", {"vIPIDevol"}) = Write(h, "impostoDevol", {"vIPIDevol"})

\* The XML of an item has the other taxes it was given, or zeros.
LEMMA TaxesWritten ==
    ASSUME NEW c, NEW values, NEW h, NEW n
    PROVE  TaxesFrom(build_det(c, values, h, n), h, n)
<1> DEFINE X == build_det(c, values, h, n)
<1>1. \A l \in X : l.in \in TaxGroups => l \in build_imposto(c, h, n) BY DetParts
<1>2. "II" \in TaxGroups /\ "IPI" \in TaxGroups /\ "PIS" \in TaxGroups /\ "COFINS" \in TaxGroups BY DEF TaxGroups
<1>3. build_imposto(c, h, n) \subseteq X BY DEF build_det
<1>4. ASSUME NEW l PROVE l \in Write(X, "II", {"vII"}) <=>
                          l \in (IF Has(h, "II", "vBC") THEN WriteOr(h, n, "II", "vII", 0) ELSE {})
  <2>1. /\ \A tags : l \in OrZero(h, n, "II", tags) <=> \E tag \in tags : l \in WriteOr(h, n, "II", tag, 0)
        /\ \A tag : l \in WriteOr(h, n, "II", tag, 0) => l.in = "II" /\ l.tag = tag
    BY WhereWritten DEF OrZero
  <2>2. l \in X /\ l.in = "II" => Has(h, "II", "vBC") /\ l \in build_ii_xml(h, n)
    BY <1>1, <1>2, ImpostoParts
  <2>3. Has(h, "II", "vBC") /\ l \in build_ii_xml(h, n) => l \in X BY <1>3 DEF build_imposto
  <2>4. l \in build_ii_xml(h, n) /\ l.tag = "vII" <=> l \in WriteOr(h, n, "II", "vII", 0)
    BY <2>1 DEF build_ii_xml
  <2> HIDE DEF X
  <2>. QED BY <2>1, <2>2, <2>3, <2>4, OneGroup
<1>5. ASSUME NEW l \in Write(X, "IPI", {"vIPI"})
      PROVE  Has(h, "IPI", "CST") /\ l \in WriteOr(h, n, "IPI", "vIPI", 0)
  <2>1. l \in X /\ l.in = "IPI" /\ l.tag = "vIPI" BY OneGroup
  <2>2. Has(h, "IPI", "CST") /\ l \in build_ipi_xml(h, n) BY <1>1, <1>2, <2>1, ImpostoParts
  <2>3. /\ \A tags : l \in Write(h, "IPI", tags) => l.tag \in tags
        /\ \A tag, v : l \in WriteOr(h, n, "IPI", tag, v) => l.tag = tag
    BY WhereWritten
  <2>. QED BY <2>1, <2>2, <2>3 DEF build_ipi_xml, OrZero
<1>6. ASSUME NEW tax, NEW l \in calculate_contribution_tax(h, n, tax), l.tag \in {"vPIS", "vCOFINS"}
      PROVE  l \in WriteOr(h, n, tax, Worth(tax), 0)
  <2>1. /\ \A tags : l \in Write(h, tax, tags) => l.tag \in tags
        /\ \A tag, v : l \in WriteOr(h, n, tax, tag, v) => l.tag = tag
    BY WhereWritten
  <2>2. Rate(tax) \in {"pPIS", "pCOFINS"} BY DEF Rate
  <2>. QED BY <1>6, <2>1, <2>2 DEF calculate_contribution_tax, build_contribution_outr_fields, Base, OrZero
<1>7. AtMost(Write(X, "PIS", {"vPIS"}), h, n, "PIS", "vPIS")
  <2>1. ASSUME NEW l \in Write(X, "PIS", {"vPIS"}) PROVE l \in WriteOr(h, n, "PIS", "vPIS", 0)
    <3>1. l \in X /\ l.in = "PIS" /\ l.tag = "vPIS" BY OneGroup
    <3>2. l \in build_pis_xml(h, n) BY <1>1, <1>2, <3>1, ImpostoParts
    <3>3. Worth("PIS") = "vPIS" BY DEF Worth
    <3>. QED BY <1>6, <3>1, <3>2, <3>3 DEF build_pis_xml
  <2>. QED BY <2>1 DEF AtMost
<1>8. AtMost(Write(X, "COFINS", {"vCOFINS"}), h, n, "COFINS", "vCOFINS")
  <2>1. ASSUME NEW l \in Write(X, "COFINS", {"vCOFINS"}) PROVE l \in WriteOr(h, n, "COFINS", "vCOFINS", 0)
    <3>1. l \in X /\ l.in = "COFINS" /\ l.tag = "vCOFINS" BY OneGroup
    <3>2. l \in build_cofins_xml(h, n) BY <1>1, <1>2, <3>1, ImpostoParts
    <3>3. Worth("COFINS") = "vCOFINS" BY DEF Worth
    <3>. QED BY <1>6, <3>1, <3>2, <3>3 DEF build_cofins_xml
  <2>. QED BY <2>1 DEF AtMost
<1>9. Write(X, "impostoDevol", {"vIPIDevol"}) = Write(h, "impostoDevol", {"vIPIDevol"})
  <2>1. ASSUME NEW l \in Write(X, "impostoDevol", {"vIPIDevol"}) PROVE l \in Write(h, "impostoDevol", {"vIPIDevol"})
    <3>1. l \in X /\ l.in = "impostoDevol" /\ l.tag = "vIPIDevol" BY OneGroup
    <3>2. l \in build_imposto_devol(h) BY <3>1, DetParts
    <3>. QED BY <3>1, <3>2 DEF build_imposto_devol, Write
  <2>2. ASSUME NEW l \in Write(h, "impostoDevol", {"vIPIDevol"}) PROVE l \in Write(X, "impostoDevol", {"vIPIDevol"})
    <3>1. l.in = "impostoDevol" /\ l.tag = "vIPIDevol" BY OneGroup
    <3>2. l \in build_imposto_devol(h) BY DEF build_imposto_devol, Write
    <3>3. l \in X BY <3>2 DEF build_det
    <3>. QED BY <3>1, <3>3, OneGroup
  <2>. QED BY <2>1, <2>2
<1> HIDE DEF X
<1>10. Write(X, "II", {"vII"}) = IF Has(h, "II", "vBC") THEN WriteOr(h, n, "II", "vII", 0) ELSE {} BY <1>4
<1>11. ~Has(h, "IPI", "CST") => Write(X, "IPI", {"vIPI"}) = {} BY <1>5
<1>13. AtMost(Write(X, "IPI", {"vIPI"}), h, n, "IPI", "vIPI") BY <1>5 DEF AtMost
<1>12. TaxesFrom(X, h, n) BY <1>7, <1>8, <1>9, <1>10, <1>11, <1>13 DEF TaxesFrom
<1>. QED BY <1>12 DEF X

\* What an item has under the tag of a total, as it is written or as it is given.
PartOf(c, values, h, n, tag) ==
    Write(build_det(c, values, h, n), Source[tag][1], {Source[tag][2]})
    \cup IF tag \in {"vPIS", "vCOFINS"} \/ (tag = "vIPI" /\ Has(h, "IPI", "CST"))
         THEN Write(h, Source[tag][1], {Source[tag][2]}) ELSE {}

\* The totals an item adds to by itself, apart from ICMS.
AddedTags == DOMAIN Source \cap AddedByItems

\* What is given adds up to its amount.
LEMMA GivenAdds ==
    ASSUME NEW h, NEW n, Holds(h, n), NEW in, NEW tag
    PROVE  Adds(Write(h, in, {tag}), Amount(h, in, tag))
<1>1. IsFiniteSet(Write(h, in, {tag})) BY FiniteWrites DEF Holds
<1>2. \A l \in Write(h, in, {tag}) : l.v \in Int BY DEF Write, Holds, FieldSet
<1>. QED BY <1>1, <1>2 DEF Adds, Amount

\* Nothing adds up to zero.
LEMMA NothingAdds == Adds({}, 0)
BY NoLeaves, FS_EmptySet DEF Adds

\* It adds up to what the item adds to the total.
LEMMA PartAdds ==
    ASSUME NEW c, NEW values, NEW h, NEW n, Holds(h, n), NEW tag \in AddedTags
    PROVE  Adds(PartOf(c, values, h, n, tag), DetResult(c, h, n)[tag])
<1> DEFINE X == build_det(c, values, h, n)
<1> HIDE DEF X
<1>1. /\ \A in, t : Adds(Write(h, in, {t}), Amount(h, in, t))
      /\ \A in, t : Adds(WriteOr(h, n, in, t, 0), Amount(h, in, t))
      /\ Adds({}, 0)
      /\ \A Y, in, t : AtMost(Y, h, n, in, t) => Adds(WithIt(Y, h, in, t), Amount(h, in, t))
  BY GivenAdds, ZeroOrGiven, NothingAdds, WithGiven
<1>2. TaxesFrom(X, h, n) BY TaxesWritten DEF X
<1>3. PricesFrom(X, h) BY PricesWritten DEF X
<1>4. CASE tag \in PricesOf
  <2>1. PartOf(c, values, h, n, tag) = Write(X, "prod", {tag}) BY <1>4 DEF PartOf, Source, PricesOf, X
  <2>2. DetResult(c, h, n)[tag] = Amount(h, "prod", tag) BY <1>4 DEF DetResult, PricesOf
  <2>. QED BY <1>1, <1>3, <1>4, <2>1, <2>2 DEF PricesFrom
<1>5. CASE tag = "vII"
  <2>1. PartOf(c, values, h, n, tag) = Write(X, "II", {"vII"}) BY <1>5 DEF PartOf, Source, X
  <2>2. DetResult(c, h, n)[tag] = IF Has(h, "II", "vBC") THEN Amount(h, "II", "vII") ELSE 0
    BY <1>5 DEF DetResult, v_ii
  <2>. QED BY <1>1, <1>2, <2>1, <2>2 DEF TaxesFrom
<1>6. CASE tag = "vIPIDevol"
  <2>1. PartOf(c, values, h, n, tag) = Write(X, "impostoDevol", {"vIPIDevol"}) BY <1>6 DEF PartOf, Source, X
  <2>2. DetResult(c, h, n)[tag] = Amount(h, "impostoDevol", "vIPIDevol") BY <1>6 DEF DetResult
  <2>. QED BY <1>1, <1>2, <2>1, <2>2 DEF TaxesFrom
<1>7. CASE tag = "vIPI"
  <2>1. PartOf(c, values, h, n, tag) = IF Has(h, "IPI", "CST") THEN WithIt(Write(X, "IPI", {"vIPI"}), h, "IPI", "vIPI")
                                       ELSE Write(X, "IPI", {"vIPI"})
    BY <1>7 DEF PartOf, Source, X, WithIt
  <2>2. DetResult(c, h, n)[tag] = IF Has(h, "IPI", "CST") THEN Amount(h, "IPI", "vIPI") ELSE 0
    BY <1>7 DEF DetResult, v_ipi
  <2>. QED BY <1>1, <1>2, <2>1, <2>2 DEF TaxesFrom
<1>8. CASE tag = "vPIS"
  <2>1. PartOf(c, values, h, n, tag) = WithIt(Write(X, "PIS", {"vPIS"}), h, "PIS", "vPIS")
    BY <1>8 DEF PartOf, Source, X, WithIt
  <2>2. DetResult(c, h, n)[tag] = Amount(h, "PIS", "vPIS") BY <1>8 DEF DetResult
  <2>3. AtMost(Write(X, "PIS", {"vPIS"}), h, n, "PIS", "vPIS") BY <1>2 DEF TaxesFrom
  <2>4. Adds(WithIt(Write(X, "PIS", {"vPIS"}), h, "PIS", "vPIS"), Amount(h, "PIS", "vPIS")) BY <2>3, WithGiven
  <2>. QED BY <2>1, <2>2, <2>4
<1>9. CASE tag = "vCOFINS"
  <2>1. PartOf(c, values, h, n, tag) = WithIt(Write(X, "COFINS", {"vCOFINS"}), h, "COFINS", "vCOFINS")
    BY <1>9 DEF PartOf, Source, X, WithIt
  <2>2. DetResult(c, h, n)[tag] = Amount(h, "COFINS", "vCOFINS") BY <1>9 DEF DetResult
  <2>3. AtMost(Write(X, "COFINS", {"vCOFINS"}), h, n, "COFINS", "vCOFINS") BY <1>2 DEF TaxesFrom
  <2>4. Adds(WithIt(Write(X, "COFINS", {"vCOFINS"}), h, "COFINS", "vCOFINS"), Amount(h, "COFINS", "vCOFINS")) BY <2>3, WithGiven
  <2>. QED BY <2>1, <2>2, <2>4
<1>10. tag \in PricesOf \cup {"vII", "vIPIDevol", "vIPI", "vPIS", "vCOFINS"}
  BY DEF AddedTags, Source, AddedByItems, PricesOf
<1>. QED BY <1>4, <1>5, <1>6, <1>7, <1>8, <1>9, <1>10

-----------------------------------------------------------------------------
(***************************************************************************)
(* The item and the totals in the XML.                                     *)
(***************************************************************************)

\* An item has in the XML what build_det writes of it, and nothing else has its number.
LEMMA ItemInXml ==
    ASSUME BuilderInv, xml # {}, NEW i \in DOMAIN items, NEW l
    PROVE  l \in DetOf(s, items, i) <=> l \in xml /\ l.n = i
<1>1. xml = generate_xml(s, d, items, cNF) BY DEF BuilderInv
<1>2. /\ Holds(d, 0) /\ \A j \in DOMAIN items : Holds(items[j], j)
      /\ \A j \in DOMAIN items : j # 0
  BY PlacesFinite DEF BuilderInv, ItemsHold
<1>3. l \in DetOf(s, items, i) => l \in xml BY <1>1, XmlIs
<1>4. l \in DetOf(s, items, i) => Fair(l, items[i], i) \/ NamedByProgram(l, s, items[i], i)
  BY <1>2, DetFair DEF DetOf
<1>5. \A j \in DOMAIN items : Fair(l, items[j], j) \/ NamedByProgram(l, s, items[j], j) => l.n = j
  BY <1>2 DEF Fair, NamedByProgram, Holds, FieldSet
<1>6. Traced(l, s, d, cNF) => l.n = 0
  BY <1>2 DEF Traced, Holds, FieldSet
<1>7. l \in xml => Traced(l, s, d, cNF)
                   \/ \E j \in DOMAIN items : /\ l \in DetOf(s, items, j)
                                              /\ Fair(l, items[j], j) \/ NamedByProgram(l, s, items[j], j)
  BY XmlOfState
<1>10. (\E j \in DOMAIN items : /\ l \in DetOf(s, items, j)
                                /\ Fair(l, items[j], j) \/ NamedByProgram(l, s, items[j], j))
       => \E j \in DOMAIN items : l \in DetOf(s, items, j) /\ l.n = j
  BY <1>5, Zenon
<1>8. l \in DetOf(s, items, i) => l.n = i BY <1>4, <1>5
<1>9. ASSUME l \in xml, l.n = i PROVE l \in DetOf(s, items, i)
  <2>1. ~Traced(l, s, d, cNF) BY <1>2, <1>6, <1>9
  <2>2. \E j \in DOMAIN items : l \in DetOf(s, items, j) /\ l.n = j BY <1>7, <1>9, <1>10, <2>1, Zenon
  <2>. QED BY <1>9, <2>2
<1>. QED BY <1>3, <1>8, <1>9

\* The totals of the XML are those build_total writes.
LEMMA OnlyTotals ==
    ASSUME BuilderInv, NEW l \in xml, l.in = "ICMSTot"
    PROVE  l \in TotalOf(s, d, items)
<1>1. \A i \in DOMAIN items : l \in DetOf(s, items, i)
          => l.in \in ProductGroups \cup TaxGroups \cup ExtraGroups \cup {"IS"} \cup IbsCbsGroups
  BY DetWhere DEF DetOf
<1>2. "ICMSTot" \notin ProductGroups \cup TaxGroups \cup ExtraGroups \cup {"IS"} \cup IbsCbsGroups
  BY DEF ProductGroups, TaxGroups, ExtraGroups, IbsCbsGroups
<1>3. "ICMSTot" \notin IdeGroups \cup PartyGroups \cup CargoGroups \cup OtherGroups
  BY DEF IdeGroups, PartyGroups, CargoGroups, OtherGroups
<1>. QED BY <1>1, <1>2, <1>3, XmlWhere

\* What they are: t are the sums, deduz whether the relief is deducted.
LEMMA WhatTotals ==
    ASSUME NEW c, NEW h, NEW t, NEW deduz, NEW l
    PROVE  l \in build_total(c, h, t, deduz) /\ l.in = "ICMSTot"
                <=> \/ \E u \in AlwaysTotalled : l = Leaf(0, "ICMSTot", <<>>, u, t[u])
                    \/ l = Leaf(0, "ICMSTot", <<>>, "vNF", calculate_v_nf(t, deduz, Amount(h, "ISSQNtot", "vServ")))
                    \/ t.vTotTrib > 0 /\ l = Leaf(0, "ICMSTot", <<>>, "vTotTrib", t.vTotTrib)
<1> DEFINE vNF == calculate_v_nf(t, deduz, Amount(h, "ISSQNtot", "vServ"))
           tot == v_nf_tot(h, vNF)
           A == UNION {Put(0, "ICMSTot", tag, t[tag]) : tag \in AlwaysTotalled}
           B == Put(0, "ICMSTot", "vNF", vNF)
           C == IF t.vTotTrib > 0 THEN Put(0, "ICMSTot", "vTotTrib", t.vTotTrib) ELSE {}
           D == IF Given(h, "ISSQNtot") THEN build_issqn_tot(h) ELSE {}
           E == Pl010(c, build_is_tot_xml(h)
                         \cup IF ~Given(h, "IBSCBSTot") THEN {}
                              ELSE build_ibs_cbs_tot_xml(h)
                                   \cup IF tot > 0 THEN Put(0, "total", "vNFTot", tot) ELSE {})
           F == build_ret_trib(h)
<1>1. build_total(c, h, t, deduz) = A \cup B \cup C \cup D \cup E \cup F BY DEF build_total
<1>2. l \in A <=> \E u \in AlwaysTotalled : l = Leaf(0, "ICMSTot", <<>>, u, t[u]) BY DEF Put
<1>3. l \in B <=> l = Leaf(0, "ICMSTot", <<>>, "vNF", vNF) BY DEF Put
<1>4. l \in C <=> t.vTotTrib > 0 /\ l = Leaf(0, "ICMSTot", <<>>, "vTotTrib", t.vTotTrib) BY DEF Put
<1>5. l \in D \/ l \in F => l.in # "ICMSTot"
  BY DEF build_issqn_tot, build_ret_trib, Write
<1>6. l \in E => l.in # "ICMSTot"
  <2>1. /\ \A in, tags : l \in Write(h, in, tags) => l.in = in
        /\ \A in, tag, v : l \in Put(0, in, tag, v) => l.in = in
        /\ \A in, tags : l \in OrZero(h, 0, in, tags) => l.in = in
    BY WhereWritten
  <2>2. l \in build_is_tot_xml(h) \cup build_ibs_cbs_tot_xml(h) => l.in # "ICMSTot"
    BY <2>1 DEF build_is_tot_xml, build_ibs_cbs_tot_xml, IbsTotals, CbsTotals, MonoTotals, ReversedTotals
  <2> HIDE DEF tot
  <2>. QED BY <2>1, <2>2 DEF Pl010
<1>7. \A u, v : Leaf(0, "ICMSTot", <<>>, u, v).in = "ICMSTot" BY DEF Leaf
<1> HIDE DEF A, B, C, D, E, F
<1>. QED BY <1>1, <1>2, <1>3, <1>4, <1>5, <1>6, <1>7

\* What the XML says of a total is what was added up.
LEMMA TotalWritten ==
    ASSUME BuilderInv, xml # {}
    PROVE  /\ \A tag \in AlwaysTotalled : Total(tag) = Totals(ResultsOf(s, items))[tag]
           /\ Total("vNF") = calculate_v_nf(Totals(ResultsOf(s, items)), DeductsRelief(ResultsOf(s, items)),
                                            Amount(d, "ISSQNtot", "vServ"))
<1> DEFINE t == Totals(ResultsOf(s, items))
           deduz == DeductsRelief(ResultsOf(s, items))
           vNF == calculate_v_nf(t, deduz, Amount(d, "ISSQNtot", "vServ"))
<1>1. TotalOf(s, d, items) \subseteq xml BY XmlIs DEF BuilderInv
<1>2. TotalOf(s, d, items) = build_total(s, d, t, deduz) BY DEF TotalOf
<1>3. ItemsHold(items) /\ Holds(d, 0) BY DEF BuilderInv
<1>4. \A tag \in AddedByItems \cup DOMAIN AddedByIcms : t[tag] \in Int BY <1>3, TotalsInt
<1>5. vNF \in Int
  <2>1. Amount(d, "ISSQNtot", "vServ") \in Int BY <1>3, AmountInt
  <2> HIDE DEF t, deduz
  <2>. QED BY <1>4, <2>1 DEF calculate_v_nf, AddedByItems, AddedByIcms
<1> HIDE DEF t, deduz, vNF
<1>6. \A l : l \in xml /\ l.in = "ICMSTot" <=>
                    \/ \E u \in AlwaysTotalled : l = Leaf(0, "ICMSTot", <<>>, u, t[u])
                    \/ l = Leaf(0, "ICMSTot", <<>>, "vNF", vNF)
                    \/ t.vTotTrib > 0 /\ l = Leaf(0, "ICMSTot", <<>>, "vTotTrib", t.vTotTrib)
  <2> TAKE l
  <2>1. l \in xml /\ l.in = "ICMSTot" <=> l \in build_total(s, d, t, deduz) /\ l.in = "ICMSTot"
    BY <1>1, <1>2, OnlyTotals
  <2>2. \/ ~(l \in build_total(s, d, t, deduz) /\ l.in = "ICMSTot")
        \/ \E u \in AlwaysTotalled : l = Leaf(0, "ICMSTot", <<>>, u, t[u])
        \/ l = Leaf(0, "ICMSTot", <<>>, "vNF", vNF)
        \/ t.vTotTrib > 0 /\ l = Leaf(0, "ICMSTot", <<>>, "vTotTrib", t.vTotTrib)
    BY WhatTotals DEF vNF
  <2>3. \/ l \in build_total(s, d, t, deduz) /\ l.in = "ICMSTot"
        \/ ~\/ \E u \in AlwaysTotalled : l = Leaf(0, "ICMSTot", <<>>, u, t[u])
            \/ l = Leaf(0, "ICMSTot", <<>>, "vNF", vNF)
            \/ t.vTotTrib > 0 /\ l = Leaf(0, "ICMSTot", <<>>, "vTotTrib", t.vTotTrib)
    BY WhatTotals DEF vNF
  <2>. QED BY <2>1, <2>2, <2>3
<1>7. ASSUME NEW tag, NEW v \in Int,
             \A l : l \in xml /\ l.in = "ICMSTot" /\ l.tag = tag <=> l = Leaf(0, "ICMSTot", <<>>, tag, v)
      PROVE  Total(tag) = v
  <2> DEFINE leaf == Leaf(0, "ICMSTot", <<>>, tag, v)
  <2>1. leaf.n = 0 /\ leaf.v = v BY DEF Leaf
  <2>2. \A l : l \in xml /\ l.in = "ICMSTot" /\ l.tag = tag <=> l = leaf BY <1>7
  <2> HIDE DEF leaf
  <2>3. Write({l \in xml : l.n = 0}, "ICMSTot", {tag}) = {leaf}
    <3>1. \A l : l \in Write({o \in xml : o.n = 0}, "ICMSTot", {tag}) <=> l = leaf BY <2>1, <2>2, OneGroup
    <3>. QED BY <3>1
  <2>. QED BY <2>1, <2>3, OneLeaf DEF Total, Amount
<1>8. "vNF" \notin AlwaysTotalled /\ "vTotTrib" \notin AlwaysTotalled BY DEF AlwaysTotalled
<1>9. \A u, v : Leaf(0, "ICMSTot", <<>>, u, v).tag = u /\ Leaf(0, "ICMSTot", <<>>, u, v).in = "ICMSTot" BY DEF Leaf
<1>10. ASSUME NEW tag \in AlwaysTotalled PROVE Total(tag) = t[tag]
  <2>1. t[tag] \in Int
    <3>1. tag \in AddedByItems \cup DOMAIN AddedByIcms BY DEF AlwaysTotalled, AddedByItems, AddedByIcms
    <3>. QED BY <1>4, <3>1
  <2>2. \A l : l \in xml /\ l.in = "ICMSTot" /\ l.tag = tag <=> l = Leaf(0, "ICMSTot", <<>>, tag, t[tag])
    BY <1>6, <1>8, <1>9
  <2>. QED BY <1>7, <2>1, <2>2
<1>11. Total("vNF") = vNF
  <2>1. \A l : l \in xml /\ l.in = "ICMSTot" /\ l.tag = "vNF" <=> l = Leaf(0, "ICMSTot", <<>>, "vNF", vNF)
    BY <1>6, <1>8, <1>9
  <2>. QED BY <1>5, <1>7, <2>1
<1>. QED BY <1>10, <1>11 DEF t, deduz, vNF

-----------------------------------------------------------------------------
(***************************************************************************)
(* The arms of ICMS: what they write and what they add.                    *)
(***************************************************************************)

\* The part of item i in the total.
PartIn(tag, i) == PartOf(s, AnyIbsCbs(items), items[i], i, tag)

\* The leaves of a total are those of the items that count.
LEMMA PartsOfTotal ==
    ASSUME BuilderInv, xml # {}, NEW tag \in DOMAIN Source
    PROVE  Leaves_(xml, tag) \cup TotalledAsGiven(tag) = UNION {PartIn(tag, i) : i \in CountedOf(items)}
<1> DEFINE in == Source[tag][1]
           field == Source[tag][2]
           AsGiven(i) == tag \in {"vPIS", "vCOFINS"} \/ (tag = "vIPI" /\ Has(items[i], "IPI", "CST"))
<1>1. Counted = CountedOf(items) /\ CountedOf(items) \subseteq DOMAIN items BY DEF Counted, CountedOf
<1>2. /\ \A l \in d : l.n = 0
      /\ \A j \in DOMAIN items : j # 0 /\ \A l \in items[j] : l.n = j
  BY PlacesFinite DEF BuilderInv, ItemsHold, Holds, FieldSet
<1>3. \A l : l \in Leaves_(xml, tag) <=> l \in xml /\ l.tag = field /\ l.in = in /\ l.n \in CountedOf(items)
  BY <1>1 DEF Leaves_
<1>4. \A l : l \in TotalledAsGiven(tag) <=>
                l \in Given_ /\ l.tag = field /\ l.in = in /\ l.n \in CountedOf(items) /\ AsGiven(l.n)
  BY <1>1 DEF TotalledAsGiven, Leaves_
<1>5. \A i \in DOMAIN items : \A l : l \in PartIn(tag, i) <=>
            /\ l \in DetOf(s, items, i) \/ (AsGiven(i) /\ l \in items[i])
            /\ l.in = in /\ l.tag = field
  BY DEF PartIn, PartOf, DetOf, Write
<1>6. \A l : \A i \in DOMAIN items : l \in Given_ /\ l.n = i <=> l \in items[i] BY <1>2 DEF Given_
<1> HIDE DEF in, field, AsGiven
<1>7. ASSUME NEW i \in CountedOf(items), NEW l
      PROVE  l \in PartIn(tag, i) <=> (l \in Leaves_(xml, tag) \/ l \in TotalledAsGiven(tag)) /\ l.n = i
  <2>1. l \in DetOf(s, items, i) <=> l \in xml /\ l.n = i BY <1>1, ItemInXml
  <2>2. l \in Given_ /\ l.n = i <=> l \in items[i] BY <1>1, <1>6
  <2>. QED BY <1>1, <1>3, <1>4, <1>5, <2>1, <2>2
<1>8. \A l : l \in Leaves_(xml, tag) \/ l \in TotalledAsGiven(tag) => l.n \in CountedOf(items) BY <1>3, <1>4
<1>. QED BY <1>7, <1>8

\* The tags of ICMS that are totalled.
IcmsTags == {"vBC", "vICMS", "vICMSDeson", "vFCP", "vBCST", "vICMSST", "vFCPST", "vFCPSTRet"}

\* An arm adds to the totals what it writes.
LEMMA ArmsAgree ==
    ASSUME NEW simples \in BOOLEAN, NEW code, Supported(simples, code), simples => code # 0,
           NEW tag \in IcmsTags \ {"vFCPSTRet"}, ~(simples /\ tag = "vFCPST")
    PROVE  tag \in ArmOf(simples, code).tags <=> tag \in ArmOf(simples, code).sums
<1>1. CASE simples
  <2>1. code \in {101, 102, 103, 201, 202, 203, 300, 400, 500, 900} BY <1>1 DEF Supported, SimplesCsosns
  <2>2. ArmOf(simples, code) \in {Csosn101, Csosn102, Csosn201, Csosn202, Csosn500, Csosn900}
    BY <1>1, <2>1 DEF ArmOf, build_icms_csosn_xml
  <2>3. tag \in {"vBC", "vICMS", "vICMSDeson", "vFCP", "vBCST", "vICMSST"} BY <1>1 DEF IcmsTags
  <2>4. tag \in Csosn101.tags <=> tag \in Csosn101.sums BY <2>3 DEF Csosn101, Arm, Credit
  <2>5. tag \in Csosn102.tags <=> tag \in Csosn102.sums BY <2>3 DEF Csosn102, Arm
  <2>6. tag \in Csosn201.tags <=> tag \in Csosn201.sums BY <2>3 DEF Csosn201, Arm, St, FcpSt, Credit
  <2>7. tag \in Csosn202.tags <=> tag \in Csosn202.sums BY <2>3 DEF Csosn202, Arm, St, FcpSt
  <2>8. tag \in Csosn500.tags <=> tag \in Csosn500.sums BY <2>3 DEF Csosn500, Arm, Withheld, Effective
  <2>9. tag \in Csosn900.tags <=> tag \in Csosn900.sums BY <2>3 DEF Csosn900, Arm, Own, St, FcpSt, Credit
  <2>. QED BY <2>2, <2>4, <2>5, <2>6, <2>7, <2>8, <2>9
<1>2. CASE ~simples
  <2>1. code \in NormalCsts BY <1>2 DEF Supported
  <2>2. ArmOf(simples, code) \in {Cst00, Cst10, Cst20, Cst30, Cst40, Cst51, Cst60, Cst70, Cst90}
    BY <1>2, <2>1 DEF ArmOf, build_icms_cst_xml, NormalCsts
  <2>3. tag \in {"vBC", "vICMS", "vICMSDeson", "vFCP", "vBCST", "vICMSST", "vFCPST"} BY DEF IcmsTags
  <2>4. tag \in Cst00.tags <=> tag \in Cst00.sums BY <2>3 DEF Cst00, Arm, Own, Fcp
  <2>5. tag \in Cst10.tags <=> tag \in Cst10.sums BY <2>3 DEF Cst10, Arm, Own, BaseFcp, Fcp, St, FcpSt, StRelief
  <2>6. tag \in Cst20.tags <=> tag \in Cst20.sums BY <2>3 DEF Cst20, Arm, Own, BaseFcp, Fcp, Relief
  <2>7. tag \in Cst30.tags <=> tag \in Cst30.sums BY <2>3 DEF Cst30, Arm, St, FcpSt, Relief
  <2>8. tag \in Cst40.tags <=> tag \in Cst40.sums BY <2>3 DEF Cst40, Arm, Relief
  <2>9. tag \in Cst51.tags <=> tag \in Cst51.sums BY <2>3 DEF Cst51, Arm, Own, BaseFcp, Fcp, Deferral
  <2>10. tag \in Cst60.tags <=> tag \in Cst60.sums BY <2>3 DEF Cst60, Arm, Withheld, Effective
  <2>11. tag \in Cst70.tags <=> tag \in Cst70.sums
    BY <2>3 DEF Cst70, Arm, Own, BaseFcp, Fcp, St, FcpSt, Relief, StRelief
  <2>12. tag \in Cst90.tags <=> tag \in Cst90.sums
    BY <2>3 DEF Cst90, Arm, Own, BaseFcp, Fcp, Deferral, St, FcpSt, Relief, StRelief
  <2>. QED BY <2>2, <2>4, <2>5, <2>6, <2>7, <2>8, <2>9, <2>10, <2>11, <2>12
<1>. QED BY <1>1, <1>2

\* No arm of the Simples Nacional adds the FCP by substitution.
LEMMA SimplesAddsNoFcp ==
    ASSUME NEW code, Supported(TRUE, code), code # 0
    PROVE  "vFCPST" \notin ArmOf(TRUE, code).sums
<1>1. code \in {101, 102, 103, 201, 202, 203, 300, 400, 500, 900} BY DEF Supported, SimplesCsosns
<1>2. ArmOf(TRUE, code) \in {Csosn101, Csosn102, Csosn201, Csosn202, Csosn500, Csosn900}
  BY <1>1 DEF ArmOf, build_icms_csosn_xml
<1>3. /\ "vFCPST" \notin Csosn101.sums /\ "vFCPST" \notin Csosn102.sums /\ "vFCPST" \notin Csosn201.sums
      /\ "vFCPST" \notin Csosn202.sums /\ "vFCPST" \notin Csosn500.sums /\ "vFCPST" \notin Csosn900.sums
  BY DEF Csosn101, Csosn102, Csosn201, Csosn202, Csosn500, Csosn900, Arm
<1>. QED BY <1>2, <1>3

\* No variant has the FCP that was withheld.
LEMMA NothingWithheld ==
    ASSUME NEW simples \in BOOLEAN, NEW code, Supported(simples, code)
    PROVE  "vFCPSTRet" \notin VariantOf(simples, code).fields
<1>1. CASE simples
  <2>1. code \in {0, 101, 102, 103, 201, 202, 203, 300, 400, 500, 900} BY <1>1 DEF Supported, SimplesCsosns
  <2>. QED BY <1>1, <2>1 DEF VariantOf, SimplesVariant, Variant, Own, St, FcpSt, Credit
<1>2. CASE ~simples
  <2>1. code \in NormalCsts BY <1>2 DEF Supported
  <2>. QED BY <1>2, <2>1 DEF VariantOf, NormalVariant, NormalCsts, Variant, Own, BaseFcp, Fcp, St, FcpSt, Relief
<1>. QED BY <1>1, <1>2

-----------------------------------------------------------------------------
(***************************************************************************)
(* The totals match the items.                                             *)
(***************************************************************************)

\* The ICMS code of an item without an error has an arm.
LEMMA CodeSupported ==
    ASSUME NEW c \in SettingSet, NEW h, ~DetError(c, h), ~has_issqn(h)
    PROVE  Supported(is_simples(c), Code(is_simples(c), h)) /\ (is_simples(c) => Code(is_simples(c), h) # 0)
BY DEF DetError, IcmsError, Code

\* An item adds to the totals of ICMS what the XML has of it.
LEMMA IcmsPart ==
    ASSUME NEW c \in SettingSet, NEW values, NEW h, NEW n, ~DetError(c, h),
           NEW tag \in IcmsTags, ~(is_simples(c) /\ tag = "vFCPST")
    PROVE  Write(build_det(c, values, h, n), "ICMS", {tag}) = Write(IcmsTotals(c, h, n), "ICMS", {tag})
<1> DEFINE V == build_icms_variant(is_simples(c), h, n)
           arm == ArmOf(is_simples(c), Code(is_simples(c), h))
<1>1. \A l : l \in build_icms_xml(is_simples(c), h, n)
            <=> l \in V /\ l.in = "ICMS" /\ l.tag \in arm.tags /\ ~NoOrigin(is_simples(c), Code(is_simples(c), h), l)
  BY DEF build_icms_xml, Write
<1>7. \A l : l.tag = tag => ~NoOrigin(is_simples(c), Code(is_simples(c), h), l) BY DEF NoOrigin, IcmsTags
<1>2. \A l : l \in icms_totals(is_simples(c), h, n) <=> l \in V /\ l.in = "ICMS" /\ l.tag \in arm.sums
  BY DEF icms_totals, Write
<1>3. \A l : l \in build_det(c, values, h, n) /\ l.in = "ICMS" <=> ~has_issqn(h) /\ l \in build_icms_xml(is_simples(c), h, n)
  <2> TAKE l
  <2>1. l \in build_det(c, values, h, n) /\ l.in = "ICMS" => l \in build_imposto(c, h, n) BY DetParts DEF TaxGroups
  <2>2. l \in build_imposto(c, h, n) /\ l.in = "ICMS" => ~has_issqn(h) /\ l \in build_icms_xml(is_simples(c), h, n)
    BY ImpostoParts
  <2>3. l \in build_icms_xml(is_simples(c), h, n) => l.in = "ICMS" BY <1>1
  <2>4. ~has_issqn(h) /\ l \in build_icms_xml(is_simples(c), h, n) => l \in build_imposto(c, h, n) BY DEF build_imposto
  <2>5. l \in build_imposto(c, h, n) => l \in build_det(c, values, h, n) BY DEF build_det
  <2> HIDE DEF V, arm
  <2>. QED BY <2>1, <2>2, <2>3, <2>4, <2>5
<1>4. ASSUME ~has_issqn(h), NEW l \in V, l.tag = tag PROVE tag \in arm.tags <=> tag \in arm.sums
  <2>1. Supported(is_simples(c), Code(is_simples(c), h)) /\ (is_simples(c) => Code(is_simples(c), h) # 0) BY <1>4, CodeSupported
  <2>2. is_simples(c) \in BOOLEAN BY DEF is_simples
  <2>3. CASE tag = "vFCPSTRet"
    <3>1. /\ \A in, tags : l \in Write(h, in, tags) => l.tag \in tags
          /\ \A in, t, v : l \in Put(n, in, t, v) => l.tag = t
          /\ \A in, t, v : l \in WriteOr(h, n, in, t, v) => l.tag = t
      BY WhereWritten
    <3>2. "vFCPSTRet" \notin VariantOf(is_simples(c), Code(is_simples(c), h)).fields BY <2>1, <2>2, NothingWithheld
    <3>. QED BY <1>4, <2>3, <3>1, <3>2 DEF build_icms_variant
  <2>4. CASE tag # "vFCPSTRet" BY <2>1, <2>2, <2>4, ArmsAgree
  <2>. QED BY <2>3, <2>4
<1> HIDE DEF V, arm
<1>5. \A l : l \in IcmsTotals(c, h, n) <=> ~has_issqn(h) /\ l \in icms_totals(is_simples(c), h, n) BY DEF IcmsTotals
<1>6. ASSUME NEW l
      PROVE  l \in Write(build_det(c, values, h, n), "ICMS", {tag}) <=> l \in Write(IcmsTotals(c, h, n), "ICMS", {tag})
  BY <1>1, <1>2, <1>3, <1>4, <1>5, <1>7, OneGroup
<1>. QED BY <1>6

\* Under the Simples Nacional nothing is added to the FCP by substitution.
LEMMA NoFcpPart ==
    ASSUME NEW c \in SettingSet, is_simples(c), NEW h, NEW n, ~DetError(c, h)
    PROVE  Write(IcmsTotals(c, h, n), "ICMS", {"vFCPST"}) = {}
<1>1. is_simples(c) = TRUE BY DEF is_simples
<1>2. ~has_issqn(h) => "vFCPST" \notin ArmOf(is_simples(c), Code(is_simples(c), h)).sums
  BY <1>1, CodeSupported, SimplesAddsNoFcp
<1>. QED BY <1>2 DEF IcmsTotals, icms_totals, Write

\* What a total of ICMS adds up is what the XML has of the items that count.
LEMMA IcmsMatch ==
    ASSUME BuilderInv, xml # {}, NEW tag \in DOMAIN AddedByIcms
    PROVE  Total(tag) = IF NeverTotalled(tag) THEN 0 ELSE Sum(Leaves_(xml, tag) \cup TotalledAsGiven(tag))
<1> DEFINE field == AddedByIcms[tag]
           C == CountedOf(items)
           W == Write(IcmsOf(s, items), "ICMS", {field})
<1>1. s \in SettingSet /\ ItemsHold(items) /\ C \subseteq DOMAIN items /\ \A i \in C : ~DetError(s, items[i])
  BY DEF BuilderInv, CountedOf
<1>2. field \in IcmsTags /\ tag \in AlwaysTotalled /\ tag \in DOMAIN Source /\ Source[tag] = <<"ICMS", field>>
      /\ (field = "vFCPST" <=> tag = "vFCPST")
  BY DEF AddedByIcms, IcmsTags, AlwaysTotalled, Source
<1>3. Total(tag) = Sum(W)
  <2>1. Total(tag) = Totals(ResultsOf(s, items))[tag] BY <1>2, TotalWritten
  <2>2. Totals(ResultsOf(s, items))[tag] = Amount(IcmsOf(s, items), "ICMS", field) BY <1>1, TotalsAre
  <2>. QED BY <2>1, <2>2 DEF Amount
<1>4. \A l : l \in W <=> \E i \in C : l \in Write(IcmsTotals(s, items[i], i), "ICMS", {field})
  BY OneGroup DEF IcmsOf
<1>5. CASE NeverTotalled(tag)
  <2>1. is_simples(s) /\ field = "vFCPST" BY <1>2, <1>5 DEF NeverTotalled
  <2>2. \A i \in C : Write(IcmsTotals(s, items[i], i), "ICMS", {field}) = {} BY <1>1, <2>1, NoFcpPart
  <2>3. W = {} BY <1>4, <2>2
  <2>. QED BY <1>3, <1>5, <2>3, NoLeaves
<1>6. CASE ~NeverTotalled(tag)
  <2>1. ~(is_simples(s) /\ field = "vFCPST") BY <1>2, <1>6 DEF NeverTotalled
  <2>2. \A i \in C : PartIn(tag, i) = Write(IcmsTotals(s, items[i], i), "ICMS", {field})
    <3> TAKE i \in C
    <3>1. PartIn(tag, i) = Write(build_det(s, AnyIbsCbs(items), items[i], i), "ICMS", {field})
      <4>1. tag \notin {"vPIS", "vCOFINS", "vIPI"} BY DEF AddedByIcms
      <4>2. Source[tag][1] = "ICMS" /\ Source[tag][2] = field BY <1>2
      <4> HIDE DEF field
      <4>. QED BY <4>1, <4>2 DEF PartIn, PartOf
    <3> HIDE DEF field
    <3>. QED BY <1>1, <1>2, <2>1, <3>1, IcmsPart
  <2>3. Leaves_(xml, tag) \cup TotalledAsGiven(tag) = UNION {PartIn(tag, i) : i \in C} BY <1>2, PartsOfTotal
  <2> HIDE DEF W, C, field
  <2>4. UNION {PartIn(tag, i) : i \in C} = W BY <1>4, <2>2
  <2>. QED BY <1>3, <1>6, <2>3, <2>4
<1>. QED BY <1>5, <1>6

\* What any other total adds up is what the XML, or the caller, has of the items that count.
LEMMA AddedMatch ==
    ASSUME BuilderInv, xml # {}, NEW tag \in AddedTags
    PROVE  Total(tag) = Sum(Leaves_(xml, tag) \cup TotalledAsGiven(tag))
<1> DEFINE C == CountedOf(items)
           P == [i \in C |-> PartIn(tag, i)]
<1>1. s \in SettingSet /\ ItemsHold(items) /\ C \subseteq DOMAIN items BY DEF BuilderInv, CountedOf
<1>2. tag \in AlwaysTotalled /\ tag \in DOMAIN Source /\ tag \in AddedByItems
  BY DEF AddedTags, AddedByItems, AlwaysTotalled, Source
<1>3. \A i \in C : Holds(items[i], i) BY <1>1 DEF ItemsHold
<1>4. \A i \in C : Adds(PartIn(tag, i), DetResult(s, items[i], i)[tag]) BY <1>3, PartAdds DEF PartIn
<1>5. \A i \in C : \A l \in PartIn(tag, i) : l.n = i
  <2> TAKE i \in C
  <2> TAKE l \in PartIn(tag, i)
  <2>1. l \in build_det(s, AnyIbsCbs(items), items[i], i) \/ l \in items[i] BY DEF PartIn, PartOf, Write
  <2>2. Fair(l, items[i], i) \/ NamedByProgram(l, s, items[i], i) BY <1>3, <2>1, DetFair DEF Fair
  <2>. QED BY <1>3, <2>2 DEF Fair, NamedByProgram, Holds, FieldSet
<1>6. IsFiniteSet(C) BY <1>1, PlacesFinite
<1>7. Total(tag) = SumOf([i \in C |-> DetResult(s, items[i], i)[tag]], C)
  BY <1>1, <1>2, TotalWritten, TotalsAre
<1>8. Leaves_(xml, tag) \cup TotalledAsGiven(tag) = UNION {PartIn(tag, i) : i \in C} BY <1>2, PartsOfTotal
<1>9. /\ \A i \in C : P[i] = PartIn(tag, i)
      /\ UNION {PartIn(tag, i) : i \in C} = UNION {P[i] : i \in C}
  OBVIOUS
<1> HIDE DEF C, P
<1>10. Parted(P, C)
  <2>1. \A i \in C : IsFiniteSet(P[i]) /\ \A l \in P[i] : l.v \in Int BY <1>4, <1>9 DEF Adds
  <2>2. \A i, j \in C : i # j => P[i] \cap P[j] = {} BY <1>5, <1>9
  <2>. QED BY <1>6, <2>1, <2>2 DEF Parted
<1>11. Sum(UNION {P[i] : i \in C}) = SumOf([i \in C |-> Sum(P[i])], C) BY <1>10, LeavesByParts
<1>12. [i \in C |-> Sum(P[i])] = [i \in C |-> DetResult(s, items[i], i)[tag]]
  <2>1. \A i \in C : Sum(P[i]) = DetResult(s, items[i], i)[tag] BY <1>4, <1>9 DEF Adds
  <2>. QED BY <2>1
<1>. QED BY <1>7, <1>8, <1>9, <1>11, <1>12

\* The invariant, and what each item adds, make the totals match.
LEMMA TotalsMatch == BuilderInv => TotalsMatchItems
<1>1. SUFFICES ASSUME BuilderInv, IsBuilt, NEW tag \in DOMAIN Source
      PROVE  Total(tag) = IF NeverTotalled(tag) THEN 0 ELSE Sum(Leaves_(xml, tag) \cup TotalledAsGiven(tag))
  BY DEF TotalsMatchItems
<1>2. xml # {} BY <1>1 DEF BuilderInv
<1>3. tag \in DOMAIN AddedByIcms \/ tag \in AddedTags BY DEF Source, AddedByIcms, AddedTags, AddedByItems
<1>4. tag \in AddedTags => ~NeverTotalled(tag) BY DEF AddedTags, AddedByItems, NeverTotalled
<1>. QED BY <1>1, <1>2, <1>3, <1>4, IcmsMatch, AddedMatch

\* The totals of the document are the sums of what its items say.
THEOREM TotalsAreOfItems == Spec => []TotalsMatchItems
BY BuilderInvariant, TotalsMatch, PTL

-----------------------------------------------------------------------------
(***************************************************************************)
(* Sums over the items, one per term of the value of the note.             *)
(***************************************************************************)

\* The values of S add up to v.
Sums(f, S, v) == (\A i \in S : f[i] \in Int) /\ v \in Int /\ SumOf(f, S) = v

\* Two sums are added.
LEMMA SumsPlus ==
    ASSUME NEW S, IsFiniteSet(S), NEW f, NEW g, NEW v, NEW w, Sums(f, S, v), Sums(g, S, w)
    PROVE  Sums([i \in S |-> f[i] + g[i]], S, v + w)
<1> DEFINE h == [i \in S |-> f[i] + g[i]]
<1>1. \A i \in S : f[i] \in Int /\ g[i] \in Int /\ h[i] = f[i] + g[i] BY DEF Sums
<1>2. \A i \in S : h[i] \in Int BY <1>1
<1> HIDE DEF h
<1>3. SumOf(h, S) = SumOf(f, S) + SumOf(g, S) BY <1>1, SumPlus
<1>4. Sums(h, S, v + w) BY <1>2, <1>3 DEF Sums
<1>. QED BY <1>4 DEF h

\* One sum is taken from another.
LEMMA SumsMinus ==
    ASSUME NEW S, IsFiniteSet(S), NEW f, NEW g, NEW v, NEW w, Sums(f, S, v), Sums(g, S, w)
    PROVE  Sums([i \in S |-> f[i] - g[i]], S, v - w)
<1> DEFINE h == [i \in S |-> f[i] - g[i]]
<1>1. \A i \in S : f[i] \in Int /\ g[i] \in Int /\ h[i] = f[i] - g[i] BY DEF Sums
<1>2. \A i \in S : h[i] \in Int BY <1>1
<1> HIDE DEF h
<1>3. SumOf(h, S) = SumOf(f, S) - SumOf(g, S) BY <1>1, SumMinus
<1>4. Sums(h, S, v - w) BY <1>2, <1>3 DEF Sums
<1>. QED BY <1>4 DEF h

\* What the items make of a field, and of a total of ICMS.
OfItems(tag) == [i \in CountedOf(items) |-> DetResult(s, items[i], i)[tag]]
\* What the arms of ICMS make of a tag, item by item.
OfArms(tag) == [i \in CountedOf(items) |-> Amount(IcmsTotals(s, items[i], i), "ICMS", tag)]

\* A total is the sum of what each item adds to it.
LEMMA SumsOfItems ==
    ASSUME BuilderInv, NEW tag \in AddedByItems
    PROVE  Sums(OfItems(tag), CountedOf(items), Totals(ResultsOf(s, items))[tag])
<1>1. ItemsHold(items) BY DEF BuilderInv
<1>2. \A i \in CountedOf(items) : DetResult(s, items[i], i)[tag] \in Int
  BY <1>1, ResultInt DEF ItemsHold, CountedOf
<1>3. Totals(ResultsOf(s, items))[tag] \in Int BY <1>1, TotalsInt
<1>4. Totals(ResultsOf(s, items))[tag] = SumOf(OfItems(tag), CountedOf(items)) BY <1>1, TotalsAre DEF OfItems
<1>5. \A i \in CountedOf(items) : OfItems(tag)[i] \in Int BY <1>2 DEF OfItems
<1>. QED BY <1>3, <1>4, <1>5 DEF Sums

\* A total of ICMS is the sum of what each item adds to it.
LEMMA SumsOfArms ==
    ASSUME BuilderInv, NEW tag \in DOMAIN AddedByIcms
    PROVE  Sums(OfArms(AddedByIcms[tag]), CountedOf(items), Totals(ResultsOf(s, items))[tag])
<1> DEFINE field == AddedByIcms[tag]
           C == CountedOf(items)
           P == [i \in C |-> Write(IcmsTotals(s, items[i], i), "ICMS", {field})]
<1>1. ItemsHold(items) /\ C \subseteq DOMAIN items BY DEF BuilderInv, CountedOf
<1>2. IsFiniteSet(C) BY <1>1, PlacesFinite
<1>3. \A i \in C : IsFiniteSet(IcmsTotals(s, items[i], i))
                   /\ \A l \in IcmsTotals(s, items[i], i) : l.n = i /\ l.v \in Int
  BY <1>1, IcmsTotalsInt DEF ItemsHold
<1>4. \A i \in C : IsFiniteSet(P[i]) /\ \A l \in P[i] : l.n = i /\ l.v \in Int
  <2> TAKE i \in C
  <2>1. P[i] = Write(IcmsTotals(s, items[i], i), "ICMS", {field}) OBVIOUS
  <2>2. P[i] \in SUBSET IcmsTotals(s, items[i], i) BY <2>1, OneGroup
  <2> HIDE DEF P
  <2>. QED BY <1>3, <2>2, FS_Subset
<1>5. \A i \in C : OfArms(field)[i] = Sum(P[i]) BY DEF OfArms, Amount
<1>6. OfArms(field) = [i \in C |-> Sum(P[i])] BY DEF OfArms, Amount
<1>7. UNION {P[i] : i \in C} = Write(IcmsOf(s, items), "ICMS", {field})
  <2>1. \A l : l \in UNION {P[i] : i \in C} <=> \E i \in C : l \in IcmsTotals(s, items[i], i) /\ l.in = "ICMS" /\ l.tag = field
    <3> HIDE DEF field
    <3>. QED BY OneGroup
  <2>2. \A l : l \in Write(IcmsOf(s, items), "ICMS", {field}) <=>
                    \E i \in C : l \in IcmsTotals(s, items[i], i) /\ l.in = "ICMS" /\ l.tag = field
    <3> HIDE DEF field
    <3>. QED BY OneGroup DEF IcmsOf
  <2> HIDE DEF P, field
  <2>. QED BY <2>1, <2>2
<1>8. Totals(ResultsOf(s, items))[tag] = Sum(Write(IcmsOf(s, items), "ICMS", {field}))
  BY <1>1, TotalsAre DEF Amount
<1>9. Totals(ResultsOf(s, items))[tag] \in Int BY <1>1, TotalsInt
<1> HIDE DEF C, P, field
<1>10. Parted(P, C)
  <2>1. \A i \in C : IsFiniteSet(P[i]) /\ \A l \in P[i] : l.v \in Int BY <1>4
  <2>2. \A i, j \in C : i # j => P[i] \cap P[j] = {} BY <1>4
  <2>. QED BY <1>2, <2>1, <2>2 DEF Parted
<1>11. Sum(UNION {P[i] : i \in C}) = SumOf([i \in C |-> Sum(P[i])], C) BY <1>10, LeavesByParts
<1>12. \A i \in C : OfArms(field)[i] \in Int BY <1>4, <1>5, LeavesInt
<1>13. SumOf(OfArms(field), C) = Totals(ResultsOf(s, items))[tag] BY <1>6, <1>7, <1>8, <1>11
<1>. QED BY <1>9, <1>12, <1>13 DEF Sums, C, field

-----------------------------------------------------------------------------
(***************************************************************************)
(* The relief that is deducted.                                            *)
(***************************************************************************)

\* A code whose arm writes the relief has it in its variant.
LEMMA ReliefInVariant ==
    ASSUME NEW simples \in BOOLEAN, NEW code, Supported(simples, code), simples => code # 0,
           "vICMSDeson" \in ArmOf(simples, code).tags
    PROVE  "vICMSDeson" \in VariantOf(simples, code).fields
<1>1. CASE simples
  <2>1. code \in {101, 102, 103, 201, 202, 203, 300, 400, 500, 900} BY <1>1 DEF Supported, SimplesCsosns
  <2>2. ArmOf(simples, code) \in {Csosn101, Csosn102, Csosn201, Csosn202, Csosn500, Csosn900}
    BY <1>1, <2>1 DEF ArmOf, build_icms_csosn_xml
  <2>3. /\ "vICMSDeson" \notin Csosn101.tags /\ "vICMSDeson" \notin Csosn102.tags
        /\ "vICMSDeson" \notin Csosn201.tags /\ "vICMSDeson" \notin Csosn202.tags
        /\ "vICMSDeson" \notin Csosn500.tags /\ "vICMSDeson" \notin Csosn900.tags
    BY DEF Csosn101, Csosn102, Csosn201, Csosn202, Csosn500, Csosn900, Arm, Credit, St, FcpSt, Withheld,
           Effective, Own
  <2>. QED BY <2>2, <2>3
<1>2. CASE ~simples
  <2>1. code \in NormalCsts BY <1>2 DEF Supported
  <2>2. code \in {20, 30, 40, 41, 50, 70, 90} => "vICMSDeson" \in NormalVariant(code).fields
    BY DEF NormalVariant, Variant, Relief
  <2>3. code \in {0, 10, 51, 60} => ArmOf(simples, code) \in {Cst00, Cst10, Cst51, Cst60}
    BY <1>2 DEF ArmOf, build_icms_cst_xml
  <2>4. /\ "vICMSDeson" \notin Cst00.tags /\ "vICMSDeson" \notin Cst10.tags
        /\ "vICMSDeson" \notin Cst51.tags /\ "vICMSDeson" \notin Cst60.tags
    BY DEF Cst00, Cst10, Cst51, Cst60, Arm, Own, BaseFcp, Fcp, St, FcpSt, StRelief, Deferral, Withheld, Effective
  <2>. QED BY <1>2, <2>1, <2>2, <2>3, <2>4 DEF NormalCsts, VariantOf
<1>. QED BY <1>1, <1>2

\* The relief an item has is the relief its arm adds, when its code has a relief.
LEMMA ReliefOfArm ==
    ASSUME NEW c \in SettingSet, NEW h, NEW n, ~DetError(c, h),
           Has(h, "ICMS", "vICMSDeson") => ~has_issqn(h) /\ "vICMSDeson" \in ArmOf(is_simples(c), Code(is_simples(c), h)).tags
    PROVE  Write(IcmsTotals(c, h, n), "ICMS", {"vICMSDeson"}) = Write(h, "ICMS", {"vICMSDeson"})
<1> DEFINE code == Code(is_simples(c), h)
           V == build_icms_variant(is_simples(c), h, n)
<1>1. is_simples(c) \in BOOLEAN BY DEF is_simples
<1>2. ASSUME NEW l \in V, l.tag = "vICMSDeson" PROVE l \in h
  <2>1. /\ \A in, tags : l \in Write(h, in, tags) => l \in h
        /\ \A in, t, v : l \in Put(n, in, t, v) => l.tag = t
        /\ \A in, t, v : l \in WriteOr(h, n, in, t, v) => l.tag = t
    BY WhereWritten, OneGroup
  <2>. QED BY <1>2, <2>1 DEF build_icms_variant
<1>3. ASSUME NEW l \in Write(h, "ICMS", {"vICMSDeson"})
      PROVE  /\ ~has_issqn(h) /\ "vICMSDeson" \in ArmOf(is_simples(c), code).sums /\ l \in V
  <2>1. l \in h /\ l.in = "ICMS" /\ l.tag = "vICMSDeson" BY OneGroup
  <2>2. Has(h, "ICMS", "vICMSDeson") BY <2>1 DEF Has
  <2>3. ~has_issqn(h) /\ "vICMSDeson" \in ArmOf(is_simples(c), code).tags BY <2>2
  <2>4. Supported(is_simples(c), code) /\ (is_simples(c) => code # 0) BY <2>3, CodeSupported
  <2> HIDE DEF code
  <2>5. "vICMSDeson" \in IcmsTags \ {"vFCPSTRet"} BY DEF IcmsTags
  <2>6. "vICMSDeson" \in ArmOf(is_simples(c), code).sums BY <1>1, <2>3, <2>4, <2>5, ArmsAgree
  <2>7. "vICMSDeson" \in VariantOf(is_simples(c), code).fields BY <1>1, <2>3, <2>4, ReliefInVariant
  <2>8. l \in Write(h, "ICMS", VariantOf(is_simples(c), code).fields \ {"vBC"}) BY <2>1, <2>7, OneGroup
  <2>9. l \in V BY <2>8 DEF build_icms_variant, code
  <2>. QED BY <2>3, <2>6, <2>9
<1>4. \A l : l \in IcmsTotals(c, h, n) <=>
                ~has_issqn(h) /\ l \in V /\ l.in = "ICMS" /\ l.tag \in ArmOf(is_simples(c), code).sums
  BY DEF IcmsTotals, icms_totals, Write
<1> HIDE DEF V, code
<1>5. ASSUME NEW l
      PROVE  l \in Write(IcmsTotals(c, h, n), "ICMS", {"vICMSDeson"}) <=> l \in Write(h, "ICMS", {"vICMSDeson"})
  BY <1>2, <1>3, <1>4, OneGroup
<1>. QED BY <1>5

\* What the items have deducted from them.
ReliefsOf == [i \in CountedOf(items) |->
                IF ind_deduz_deson(items[i]) THEN Amount(items[i], "ICMS", "vICMSDeson") ELSE 0]

\* It is what the document deducts, when the items are alike.
LEMMA SumsOfReliefs ==
    ASSUME BuilderInv, xml # {}, \A i \in DOMAIN items : Regular(items[i]), AlikeInRelief
    PROVE  Sums(ReliefsOf, CountedOf(items),
                IF DeductsRelief(ResultsOf(s, items)) THEN Totals(ResultsOf(s, items))["vICMSDeson"] ELSE 0)
<1> DEFINE C == CountedOf(items)
<1>1. /\ s \in SettingSet /\ ItemsHold(items) /\ C \subseteq DOMAIN items
      /\ \A i \in DOMAIN items : ~DetError(s, items[i])
  BY DEF BuilderInv, CountedOf
<1>2. IsFiniteSet(C) BY <1>1, PlacesFinite
<1>3. \A i \in C : ReliefsOf[i] = IF ind_deduz_deson(items[i]) THEN Amount(items[i], "ICMS", "vICMSDeson") ELSE 0
  BY DEF ReliefsOf
<1>4. \A i \in C : Amount(items[i], "ICMS", "vICMSDeson") \in Int BY <1>1, AmountInt DEF ItemsHold
<1>5. \A i \in C : OfArms("vICMSDeson")[i] = Amount(items[i], "ICMS", "vICMSDeson")
  BY <1>1, ReliefOfArm DEF OfArms, Amount, Regular
<1>6. DeductsRelief(ResultsOf(s, items)) <=> \E i \in DOMAIN items : ind_deduz_deson(items[i])
  BY DEF DeductsRelief, ResultsOf, DetResult
<1>7. Sums(OfArms("vICMSDeson"), C, Totals(ResultsOf(s, items))["vICMSDeson"])
  <2>1. "vICMSDeson" \in DOMAIN AddedByIcms /\ AddedByIcms["vICMSDeson"] = "vICMSDeson" BY DEF AddedByIcms
  <2>. QED BY <2>1, SumsOfArms
<1> HIDE DEF C
<1>8. CASE \A i \in DOMAIN items : ~ind_deduz_deson(items[i])
  <2>1. \A i \in C : ReliefsOf[i] = 0 BY <1>1, <1>3, <1>8
  <2>2. SumOf(ReliefsOf, C) = 0 BY <1>2, <2>1, SumZero
  <2>. QED BY <1>6, <1>8, <2>1, <2>2 DEF Sums, C
<1>9. CASE \E i \in DOMAIN items : ind_deduz_deson(items[i])
  <2>1. \A i \in DOMAIN items : Has(items[i], "ICMS", "vICMSDeson") => ind_deduz_deson(items[i])
    BY <1>9 DEF AlikeInRelief
  <2>2. \A i \in C : ~Has(items[i], "ICMS", "vICMSDeson") => Amount(items[i], "ICMS", "vICMSDeson") = 0
    <3> TAKE i \in C
    <3>1. ~Has(items[i], "ICMS", "vICMSDeson") => Write(items[i], "ICMS", {"vICMSDeson"}) = {} BY DEF Has, Write
    <3>. QED BY <3>1, NoLeaves DEF Amount
  <2>3. \A i \in C : ReliefsOf[i] = OfArms("vICMSDeson")[i] BY <1>1, <1>3, <1>5, <2>1, <2>2
  <2>4. SumOf(ReliefsOf, C) = SumOf(OfArms("vICMSDeson"), C) BY <1>2, <2>3, SumSame
  <2>5. \A i \in C : ReliefsOf[i] \in Int BY <1>4, <1>5, <2>3
  <2>. QED BY <1>6, <1>7, <1>9, <2>4, <2>5 DEF Sums, C
<1>. QED BY <1>8, <1>9

-----------------------------------------------------------------------------
(***************************************************************************)
(* The value of the note.                                                  *)
(***************************************************************************)

\* The worth of each item.
WorthOf == [i \in CountedOf(items) |-> v_item(s, items[i], i)]

\* The second formula: the worth of an item, from what it adds to the totals.
LEMMA WorthOfItem ==
    ASSUME BuilderInv, NEW i \in CountedOf(items), ~Has(items[i], "det", "vItem")
    PROVE  WorthOf[i] = OfItems("vProd")[i] - OfItems("vDesc")[i] - ReliefsOf[i] + OfArms("vICMSST")[i]
                        + OfArms("vFCPST")[i] + OfItems("vFrete")[i] + OfItems("vSeg")[i] + OfItems("vOutro")[i]
                        + (OfItems("vII")[i] + OfItems("vIPI")[i] + OfItems("vIPIDevol")[i] + OfItems("vPISST")[i]
                           + OfItems("vCOFINSST")[i])
<1> DEFINE h == items[i]
<1>1. WorthOf[i] = v_item(s, h, i) BY DEF WorthOf
<1>2. /\ OfItems("vProd")[i] = Amount(h, "prod", "vProd") /\ OfItems("vDesc")[i] = Amount(h, "prod", "vDesc")
      /\ OfItems("vFrete")[i] = Amount(h, "prod", "vFrete") /\ OfItems("vSeg")[i] = Amount(h, "prod", "vSeg")
      /\ OfItems("vOutro")[i] = Amount(h, "prod", "vOutro")
      /\ OfItems("vII")[i] = v_ii(h) /\ OfItems("vIPI")[i] = v_ipi(h)
      /\ OfItems("vIPIDevol")[i] = Amount(h, "impostoDevol", "vIPIDevol")
      /\ OfItems("vPISST")[i] = v_pis_st(h) /\ OfItems("vCOFINSST")[i] = v_cofins_st(h)
  BY DEF OfItems, DetResult
<1>3. /\ OfArms("vICMSST")[i] = Amount(IcmsTotals(s, h, i), "ICMS", "vICMSST")
      /\ OfArms("vFCPST")[i] = Amount(IcmsTotals(s, h, i), "ICMS", "vFCPST")
  BY DEF OfArms
<1>4. ReliefsOf[i] = IF ind_deduz_deson(h) THEN Amount(h, "ICMS", "vICMSDeson") ELSE 0 BY DEF ReliefsOf
<1>5. ~Has(h, "det", "vItem") OBVIOUS
<1> HIDE DEF h
<1>. QED BY <1>1, <1>2, <1>3, <1>4, <1>5 DEF v_item, TaxesOnTop

\* The worth of the items adds up to the value of the note.
LEMMA SumsOfWorths ==
    ASSUME BuilderInv, xml # {}, \A i \in DOMAIN items : Regular(items[i]), AlikeInRelief
    PROVE  Sums(WorthOf, CountedOf(items),
                calculate_v_nf(Totals(ResultsOf(s, items)), DeductsRelief(ResultsOf(s, items)), 0))
<1> DEFINE C == CountedOf(items)
           t == Totals(ResultsOf(s, items))
           relief == IF DeductsRelief(ResultsOf(s, items)) THEN t["vICMSDeson"] ELSE 0
           T(tag) == t[tag]
<1>1. IsFiniteSet(C)
  <2>1. ItemsHold(items) /\ C \in SUBSET DOMAIN items BY DEF BuilderInv, CountedOf
  <2>. QED BY <2>1, PlacesFinite
<1>2. \A tag \in AddedByItems : Sums(OfItems(tag), C, T(tag)) BY SumsOfItems
<1>3. Sums(ReliefsOf, C, relief) BY SumsOfReliefs
<1>4. Sums(OfArms("vICMSST"), C, T("vST")) /\ Sums(OfArms("vFCPST"), C, T("vFCPST"))
  <2>1. /\ "vST" \in DOMAIN AddedByIcms /\ AddedByIcms["vST"] = "vICMSST"
        /\ "vFCPST" \in DOMAIN AddedByIcms /\ AddedByIcms["vFCPST"] = "vFCPST"
    BY DEF AddedByIcms
  <2>. QED BY <2>1, SumsOfArms
<1>5. {"vProd", "vDesc", "vFrete", "vSeg", "vOutro", "vII", "vIPI", "vIPIDevol", "vPISST", "vCOFINSST"}
        \subseteq AddedByItems
  BY DEF AddedByItems
<1> DEFINE a == [i \in C |-> OfItems("vProd")[i] - OfItems("vDesc")[i]]
           b == [i \in C |-> a[i] - ReliefsOf[i]]
           e == [i \in C |-> b[i] + OfArms("vICMSST")[i]]
           f == [i \in C |-> e[i] + OfArms("vFCPST")[i]]
           g == [i \in C |-> f[i] + OfItems("vFrete")[i]]
           j == [i \in C |-> g[i] + OfItems("vSeg")[i]]
           k == [i \in C |-> j[i] + OfItems("vOutro")[i]]
           m == [i \in C |-> OfItems("vII")[i] + OfItems("vIPI")[i]]
           o == [i \in C |-> m[i] + OfItems("vIPIDevol")[i]]
           p == [i \in C |-> o[i] + OfItems("vPISST")[i]]
           q == [i \in C |-> p[i] + OfItems("vCOFINSST")[i]]
           w == [i \in C |-> k[i] + q[i]]
<1>6. \A i \in C : w[i] = OfItems("vProd")[i] - OfItems("vDesc")[i] - ReliefsOf[i] + OfArms("vICMSST")[i]
                        + OfArms("vFCPST")[i] + OfItems("vFrete")[i] + OfItems("vSeg")[i] + OfItems("vOutro")[i]
                        + (OfItems("vII")[i] + OfItems("vIPI")[i] + OfItems("vIPIDevol")[i] + OfItems("vPISST")[i]
                           + OfItems("vCOFINSST")[i])
  OBVIOUS
<1>7. \A i \in C : WorthOf[i] = w[i]
  <2> TAKE i \in C
  <2>1. ~Has(items[i], "det", "vItem") BY DEF Regular, CountedOf
  <2> HIDE DEF w
  <2>. QED BY <1>6, <2>1, WorthOfItem
<1> HIDE DEF C, t, T, relief
<1>8. Sums(a, C, T("vProd") - T("vDesc")) BY <1>1, <1>2, <1>5, SumsMinus
<1> HIDE DEF a
<1>9. Sums(b, C, T("vProd") - T("vDesc") - relief) BY <1>1, <1>3, <1>8, SumsMinus
<1> HIDE DEF b
<1>10. Sums(e, C, T("vProd") - T("vDesc") - relief + T("vST")) BY <1>1, <1>4, <1>9, SumsPlus
<1> HIDE DEF e
<1>11. Sums(f, C, T("vProd") - T("vDesc") - relief + T("vST") + T("vFCPST")) BY <1>1, <1>4, <1>10, SumsPlus
<1> HIDE DEF f
<1>12. Sums(g, C, T("vProd") - T("vDesc") - relief + T("vST") + T("vFCPST") + T("vFrete"))
  BY <1>1, <1>2, <1>5, <1>11, SumsPlus
<1> HIDE DEF g
<1>13. Sums(j, C, T("vProd") - T("vDesc") - relief + T("vST") + T("vFCPST") + T("vFrete") + T("vSeg"))
  BY <1>1, <1>2, <1>5, <1>12, SumsPlus
<1> HIDE DEF j
<1>14. Sums(k, C, T("vProd") - T("vDesc") - relief + T("vST") + T("vFCPST") + T("vFrete") + T("vSeg") + T("vOutro"))
  BY <1>1, <1>2, <1>5, <1>13, SumsPlus
<1> HIDE DEF k
<1>15. Sums(m, C, T("vII") + T("vIPI")) BY <1>1, <1>2, <1>5, SumsPlus
<1> HIDE DEF m
<1>16. Sums(o, C, T("vII") + T("vIPI") + T("vIPIDevol")) BY <1>1, <1>2, <1>5, <1>15, SumsPlus
<1> HIDE DEF o
<1>17. Sums(p, C, T("vII") + T("vIPI") + T("vIPIDevol") + T("vPISST")) BY <1>1, <1>2, <1>5, <1>16, SumsPlus
<1> HIDE DEF p
<1>18. Sums(q, C, T("vII") + T("vIPI") + T("vIPIDevol") + T("vPISST") + T("vCOFINSST"))
  BY <1>1, <1>2, <1>5, <1>17, SumsPlus
<1> HIDE DEF q
<1>19. Sums(w, C, (T("vProd") - T("vDesc") - relief + T("vST") + T("vFCPST") + T("vFrete") + T("vSeg") + T("vOutro"))
                  + (T("vII") + T("vIPI") + T("vIPIDevol") + T("vPISST") + T("vCOFINSST")))
  BY <1>1, <1>14, <1>18, SumsPlus
<1> HIDE DEF w
<1>20. SumOf(WorthOf, C) = SumOf(w, C) BY <1>1, <1>7, SumSame
<1>21. \A tag \in AddedByItems : T(tag) \in Int BY <1>2 DEF Sums
<1>22. T("vST") \in Int /\ T("vFCPST") \in Int /\ relief \in Int BY <1>3, <1>4 DEF Sums
<1>23. calculate_v_nf(t, DeductsRelief(ResultsOf(s, items)), 0)
        = T("vProd") - T("vDesc") - relief + T("vST") + T("vFCPST") + T("vFrete") + T("vSeg") + T("vOutro")
          + T("vII") + T("vIPI") + T("vIPIDevol") + T("vPISST") + T("vCOFINSST") + 0
  BY DEF calculate_v_nf, T, relief
<1>24. calculate_v_nf(t, DeductsRelief(ResultsOf(s, items)), 0)
        = (T("vProd") - T("vDesc") - relief + T("vST") + T("vFCPST") + T("vFrete") + T("vSeg") + T("vOutro"))
          + (T("vII") + T("vIPI") + T("vIPIDevol") + T("vPISST") + T("vCOFINSST"))
  BY <1>5, <1>21, <1>22, <1>23
<1>25. \A i \in C : WorthOf[i] \in Int BY <1>7, <1>19 DEF Sums
<1>26. Sums(WorthOf, C, calculate_v_nf(t, DeductsRelief(ResultsOf(s, items)), 0))
  BY <1>19, <1>20, <1>24, <1>25 DEF Sums
<1>. QED BY <1>26 DEF C, t

\* What the XML has of the worth of the items.
LEMMA WorthsWritten ==
    ASSUME BuilderInv, xml # {}, s.pl010, AnyIbsCbs(items), NEW l
    PROVE  l \in xml /\ l.in = "det" /\ l.tag = "vItem"
                <=> \E i \in DOMAIN items : l = Leaf(i, "det", <<>>, "vItem", v_item(s, items[i], i))
<1>1. /\ Holds(d, 0) /\ \A j \in DOMAIN items : Holds(items[j], j) BY DEF BuilderInv, ItemsHold
<1>2. ASSUME l \in xml, l.in = "det", l.tag = "vItem"
      PROVE  \E i \in DOMAIN items : l = Leaf(i, "det", <<>>, "vItem", v_item(s, items[i], i))
  <2>1. PICK i \in DOMAIN items : l \in DetOf(s, items, i)
    <3>1. "det" \notin IdeGroups \cup PartyGroups \cup CargoGroups \cup OtherGroups \cup TotalGroups
      BY DEF IdeGroups, PartyGroups, CargoGroups, OtherGroups, TotalGroups
    <3>2. l \in TotalOf(s, d, items) => l.in = "ICMSTot" \/ l.in \in OtherGroups \cup TotalGroups
      BY TotalWhere DEF TotalOf
    <3>. QED BY <1>2, <3>1, <3>2, XmlWhere
  <2>2. l \in Pl010(s, Put(i, "det", "vItem", v_item(s, items[i], i))) BY <1>2, <2>1, DetParts DEF DetOf
  <2>. QED BY <2>2 DEF Pl010, Put
<1>3. ASSUME NEW i \in DOMAIN items, l = Leaf(i, "det", <<>>, "vItem", v_item(s, items[i], i))
      PROVE  l \in xml /\ l.in = "det" /\ l.tag = "vItem"
  <2>1. l \in Put(i, "det", "vItem", v_item(s, items[i], i)) BY <1>3 DEF Put
  <2>2. l \in DetOf(s, items, i)
    BY <2>1 DEF DetOf, build_det, build_det_extras, Pl010
  <2>3. l \in xml BY <2>2, ItemInXml
  <2>. QED BY <1>3, <2>3 DEF Leaf
<1>. QED BY <1>2, <1>3

\* The invariant, and the sums of the terms, give the value of the note.
LEMMA NoteWorth == BuilderInv => NoteIsItemsWorth
<1>1. SUFFICES ASSUME BuilderInv, IsBuilt, s.pl010, AnyIbsCbs(items),
                      \A i \in DOMAIN items : Regular(items[i]), AlikeInRelief, ~Has(d, "ISSQNtot", "vServ")
               PROVE  Total("vNF") = Sum({l \in xml : l.in = "det" /\ l.tag = "vItem"})
  BY DEF NoteIsItemsWorth, AnyIbsCbs
<1>2. xml # {} BY <1>1 DEF BuilderInv
<1> DEFINE C == CountedOf(items)
           leaf(i) == Leaf(i, "det", <<>>, "vItem", v_item(s, items[i], i))
           P == [i \in C |-> {leaf(i)}]
           v == calculate_v_nf(Totals(ResultsOf(s, items)), DeductsRelief(ResultsOf(s, items)), 0)
<1>3. Total("vNF") = v
  <2>1. Write(d, "ISSQNtot", {"vServ"}) = {} BY <1>1 DEF Has, Write
  <2>2. Amount(d, "ISSQNtot", "vServ") = 0 BY <2>1, NoLeaves DEF Amount
  <2>. QED BY <1>1, <1>2, <2>2, TotalWritten
<1>4. C = DOMAIN items BY <1>1 DEF CountedOf, Regular
<1>5. IsFiniteSet(C)
  <2>1. ItemsHold(items) BY <1>1 DEF BuilderInv
  <2>. QED BY <1>4, <2>1, PlacesFinite
<1>6. Sums(WorthOf, C, v) BY <1>1, <1>2, SumsOfWorths
<1>7. \A i \in C : leaf(i).n = i /\ leaf(i).v = WorthOf[i] /\ WorthOf[i] \in Int BY <1>6 DEF Leaf, WorthOf, Sums
<1>8. {l \in xml : l.in = "det" /\ l.tag = "vItem"} = UNION {P[i] : i \in C}
  <2>1. \A l : l \in xml /\ l.in = "det" /\ l.tag = "vItem" <=> \E i \in C : l = leaf(i)
    BY <1>1, <1>2, <1>4, WorthsWritten
  <2>2. \A l : l \in UNION {P[i] : i \in C} <=> \E i \in C : l = leaf(i) OBVIOUS
  <2> HIDE DEF P, C, leaf
  <2>. QED BY <2>1, <2>2
<1>9. \A i \in C : P[i] = {leaf(i)} OBVIOUS
<1> HIDE DEF P, C, leaf, v
<1>10. \A i \in C : IsFiniteSet(P[i]) /\ \A l \in P[i] : l.v \in Int
  <2> TAKE i \in C
  <2>1. IsFiniteSet({leaf(i)}) BY FS_Singleton
  <2>. QED BY <1>7, <1>9, <2>1
<1>11. \A i \in C : Sum(P[i]) = WorthOf[i]
  <2> TAKE i \in C
  <2>1. Sum({leaf(i)}) = leaf(i).v BY <1>7, OneLeaf
  <2>. QED BY <1>7, <1>9, <2>1
<1>12. Parted(P, C)
  <2>1. \A i, j \in C : i # j => P[i] \cap P[j] = {} BY <1>7, <1>9
  <2>. QED BY <1>5, <1>10, <2>1 DEF Parted
<1>13. Sum(UNION {P[i] : i \in C}) = SumOf([i \in C |-> Sum(P[i])], C) BY <1>12, LeavesByParts
<1>14. SumOf([i \in C |-> Sum(P[i])], C) = SumOf(WorthOf, C)
  <2> DEFINE sums == [i \in C |-> Sum(P[i])]
  <2>1. \A i \in C : sums[i] = WorthOf[i] BY <1>11
  <2> HIDE DEF sums
  <2>2. SumOf(sums, C) = SumOf(WorthOf, C) BY <1>5, <2>1, SumSame
  <2>. QED BY <2>2 DEF sums
<1>. QED BY <1>3, <1>6, <1>8, <1>13, <1>14 DEF Sums

\* The value of the note is what its items are worth.
THEOREM NoteIsWorth == Spec => []NoteIsItemsWorth
BY BuilderInvariant, NoteWorth, PTL
=============================================================================
