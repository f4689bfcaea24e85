------------------------- MODULE Contingency_proofs -------------------------
(***************************************************************************)
(* Proofs about Contingency: however a justification is worded, the line   *)
(* that is saved is loaded as the same contingency or not at all.          *)
(***************************************************************************)
EXTENDS Contingency, NaturalsInduction, SequenceTheorems, WellFoundedInduction, TLAPS

\* What a justification, and what may be left of one, is made of.
Alphabet == Tokens \cup {"Q", "B", "n"}

\* The tokens that are escaped.
Special == {"Q", "B", "L"}

\* The first element of a set of positions.
LEMMA FirstIsLeast ==
    ASSUME NEW T \in SUBSET Nat, T # {}
    PROVE  First(T) \in T /\ \A j \in T : First(T) <= j
<1>1. PICK i \in T : \A j \in T : ~ (<<j, i>> \in OpToRel(<, Nat))
  BY NatLessThanWellFounded, WFMin, Zenon
<1>2. ASSUME NEW j \in T PROVE i <= j
  <2>1. i \in Nat /\ j \in Nat BY <1>1
  <2>2. ~(j < i) BY <1>1, <2>1 DEF OpToRel
  <2>. QED BY <2>1, <2>2
<1>. QED BY <1>2, Zenon DEF First

\* It is the one that no other precedes.
LEMMA FirstIs ==
    ASSUME NEW T \in SUBSET Nat, NEW i \in T, \A j \in T : i <= j
    PROVE  First(T) = i
<1>1. First(T) \in T /\ \A j \in T : First(T) <= j BY FirstIsLeast
<1>2. First(T) \in Nat /\ i \in Nat BY <1>1
<1>3. First(T) <= i /\ i <= First(T) BY <1>1
<1>. QED BY <1>2, <1>3
-----------------------------------------------------------------------------
(***************************************************************************)
(* Escaping.                                                               *)
(***************************************************************************)
\* g holds what the first pieces make, one after another.
Joins(g, pieces, k) ==
    g = [i \in 1..k |-> IF i = 1 THEN pieces[i] ELSE g[i - 1] \o pieces[i]]

\* There is such a function, however many the pieces.
LEMMA JoinsExists ==
    ASSUME NEW pieces, NEW k \in Nat
    PROVE  \E g : Joins(g, pieces, k)
<1> DEFINE T == {m \in Nat : ~\E g : Joins(g, pieces, m)}
<1>1. SUFFICES ASSUME T # {} PROVE FALSE OBVIOUS
<1>2. First(T) \in T /\ \A j \in T : First(T) <= j BY <1>1, FirstIsLeast
<1> DEFINE m == First(T)
<1>3. m \in Nat /\ ~\E g : Joins(g, pieces, m) BY <1>2
<1>4. CASE m = 0
  <2>1. Joins([i \in 1..0 |-> pieces[i]], pieces, 0) BY DEF Joins
  <2>. QED BY <1>3, <1>4, <2>1
<1>5. CASE m # 0
  <2>1. m - 1 \in Nat /\ m - 1 \notin T
    <3>1. m - 1 \in Nat /\ ~(m <= m - 1)
      <4> HIDE DEF m
      <4>. QED BY <1>3, <1>5
    <3>. QED BY <3>1, <1>2
  <2>2. PICK g : Joins(g, pieces, m - 1) BY <2>1
  <2> DEFINE h == [i \in 1..m |-> IF i = 1 THEN pieces[i] ELSE g[i - 1] \o pieces[i]]
  <2> HIDE DEF m
  <2>3. \A i \in 1..(m - 1) : h[i] = g[i]
    <3>1. \A i \in 1..(m - 1) :
            g[i] = IF i = 1 THEN pieces[i] ELSE g[i - 1] \o pieces[i]
      BY <2>2 DEF Joins
    <3>. QED BY <3>1, <2>1, <1>3
  <2>4. \A i \in 1..m : i # 1 => h[i - 1] = g[i - 1]
    <3> HIDE DEF h
    <3>. QED BY <2>3, <1>3
  <2>5. h = [i \in 1..m |-> IF i = 1 THEN pieces[i] ELSE h[i - 1] \o pieces[i]]
    <3>1. h = [i \in 1..m |-> IF i = 1 THEN pieces[i] ELSE g[i - 1] \o pieces[i]] OBVIOUS
    <3> HIDE DEF h
    <3>. QED BY <3>1, <2>4
  <2>6. Joins(h, pieces, m)
    <3> HIDE DEF h
    <3>. QED BY <2>5 DEF Joins
  <2>. QED BY <2>6, <1>3
<1>. QED BY <1>4, <1>5

\* Flattening takes the pieces one after another.
LEMMA FlattenSteps ==
    ASSUME NEW S, NEW pieces \in Seq(S), Len(pieces) # 0
    PROVE  \E g : /\ g[1] = pieces[1]
                  /\ \A i \in 2..Len(pieces) : g[i] = g[i - 1] \o pieces[i]
                  /\ FlattenSeq(pieces) = g[Len(pieces)]
<1> DEFINE flat == CHOOSE g : Joins(g, pieces, Len(pieces))
<1>1. Len(pieces) \in Nat /\ 1 \in 1..Len(pieces) OBVIOUS
<1>2. Joins(flat, pieces, Len(pieces)) BY <1>1, JoinsExists
<1>3. FlattenSeq(pieces) = flat[Len(pieces)]
  BY Zenon DEF FlattenSeq, Joins
<1> HIDE DEF flat
<1>4. \A i \in 1..Len(pieces) :
          flat[i] = IF i = 1 THEN pieces[i] ELSE flat[i - 1] \o pieces[i]
  BY <1>2 DEF Joins
<1>5. flat[1] = pieces[1] BY <1>1, <1>4
<1>6. \A i \in 2..Len(pieces) : flat[i] = flat[i - 1] \o pieces[i]
  <2>1. \A i \in 2..Len(pieces) : i \in 1..Len(pieces) /\ i # 1 BY <1>1
  <2>. QED BY <2>1, <1>4
<1>. QED BY <1>3, <1>5, <1>6

\* What escaping the first tokens of a text has made: no quote without a
\* backslash before it, and the text itself if there was nothing to escape.
EscapeOf(e, text, k) ==
    /\ e \in Seq(Alphabet)
    /\ Len(e) >= k
    /\ \A j \in 1..Len(e) : e[j] = "Q" => j - 1 \in 1..Len(e) /\ e[j - 1] = "B"
    /\ (\E j \in 1..k : text[j] \in Special) => \E j \in 1..Len(e) : e[j] = "B"
    /\ (\A j \in 1..k : text[j] \notin Special) =>
           Len(e) = k /\ \A j \in 1..k : e[j] = text[j]

\* What a token is escaped to.
Piece(token) ==
    CASE token = "Q" -> <<"B", "Q">>
      [] token = "B" -> <<"B", "B">>
      [] token = "L" -> <<"B", "n">>
      [] OTHER -> <<token>>

\* A token is escaped by a backslash and another, or stands for itself.
LEMMA PieceIs ==
    ASSUME NEW token \in Alphabet
    PROVE  \/ /\ token \in Special
              /\ \E x \in {"Q", "B", "n"} : Piece(token) = <<"B", x>>
           \/ token \notin Special /\ Piece(token) = <<token>>
<1>1. CASE token = "Q" BY <1>1 DEF Piece, Special
<1>2. CASE token = "B" BY <1>2 DEF Piece, Special
<1>3. CASE token = "L" BY <1>3 DEF Piece, Special
<1>4. CASE token \notin Special BY <1>4 DEF Piece, Special
<1>. QED BY <1>1, <1>2, <1>3, <1>4 DEF Special

\* One token more.
LEMMA EscapeStep ==
    ASSUME NEW text \in Seq(Alphabet), NEW k \in Nat, k + 1 \in 1..Len(text),
           NEW e, EscapeOf(e, text, k)
    PROVE  EscapeOf(e \o Piece(text[k + 1]), text, k + 1)
<1> DEFINE token == text[k + 1]
           n == Len(e)
           f == e \o Piece(token)
<1>1. token \in Alphabet OBVIOUS
<1>2. e \in Seq(Alphabet) /\ n \in Nat /\ n >= k BY DEF EscapeOf
<1>3. \A j \in 1..n : e[j] = "Q" => j - 1 \in 1..n /\ e[j - 1] = "B" BY DEF EscapeOf
<1>4. \A j \in 1..(k + 1) : j \in 1..k \/ j = k + 1 OBVIOUS
<1>5. k + 1 \in 1..(k + 1) /\ 1..k \subseteq 1..(k + 1) OBVIOUS
<1>6. CASE token \in Special
  <2>1. PICK x \in {"Q", "B", "n"} : Piece(token) = <<"B", x>>
    BY <1>1, <1>6, PieceIs
  <2> DEFINE g == <<"B", x>>
  <2>2. g \in Seq(Alphabet) /\ Len(g) = 2 /\ g[1] = "B" /\ g[2] = x
    BY DEF Alphabet
  <2>3. f = e \o g BY <2>1
  <2> HIDE DEF f, g, n, token
  <2>4. /\ f \in Seq(Alphabet)
        /\ Len(f) = n + 2
        /\ \A j \in 1..(n + 2) : f[j] = IF j <= n THEN e[j] ELSE g[j - n]
    <3>1. /\ e \o g \in Seq(Alphabet)
          /\ Len(e \o g) = Len(e) + Len(g)
          /\ \A j \in 1..(Len(e) + Len(g)) :
                (e \o g)[j] = IF j <= Len(e) THEN e[j] ELSE g[j - Len(e)]
      BY <1>2, <2>2, ConcatProperties
    <3>. QED BY <3>1, <2>2, <2>3 DEF n
  <2>5. f[n + 1] = "B" /\ f[n + 2] = x /\ \A j \in 1..n : f[j] = e[j]
    BY <1>2, <2>2, <2>4
  <2>6. ASSUME NEW j \in 1..Len(f), f[j] = "Q" PROVE j - 1 \in 1..Len(f) /\ f[j - 1] = "B"
    <3>1. CASE j \in 1..n
      <4>1. e[j] = "Q" BY <2>5, <2>6, <3>1
      <4>2. j - 1 \in 1..n /\ e[j - 1] = "B" BY <1>3, <3>1, <4>1
      <4>. QED BY <4>2, <2>4, <2>5, <1>2
    <3>2. CASE j = n + 1 BY <2>5, <2>6, <3>2
    <3>3. CASE j = n + 2 BY <2>4, <2>5, <3>3, <1>2
    <3>. QED BY <2>4, <1>2, <3>1, <3>2, <3>3
  <2>7. \E j \in 1..Len(f) : f[j] = "B" BY <2>4, <2>5, <1>2
  <2>8. Len(f) >= k + 1 BY <2>4, <1>2
  <2>9. ~ \A j \in 1..(k + 1) : text[j] \notin Special BY <1>5, <1>6 DEF token
  <2>10. EscapeOf(f, text, k + 1) BY <2>4, <2>6, <2>7, <2>8, <2>9 DEF EscapeOf
  <2>. QED BY <2>10 DEF f, token
<1>7. CASE token \notin Special
  <2>1. Piece(token) = <<token>> BY <1>1, <1>7, PieceIs
  <2> DEFINE g == <<token>>
  <2>2. g \in Seq(Alphabet) /\ Len(g) = 1 /\ g[1] = token BY <1>1
  <2>3. f = e \o g BY <2>1
  <2> HIDE DEF f, g, n, token
  <2>4. /\ f \in Seq(Alphabet)
        /\ Len(f) = n + 1
        /\ \A j \in 1..(n + 1) : f[j] = IF j <= n THEN e[j] ELSE g[j - n]
    <3>1. /\ e \o g \in Seq(Alphabet)
          /\ Len(e \o g) = Len(e) + Len(g)
          /\ \A j \in 1..(Len(e) + Len(g)) :
                (e \o g)[j] = IF j <= Len(e) THEN e[j] ELSE g[j - Len(e)]
      BY <1>2, <2>2, ConcatProperties
    <3>. QED BY <3>1, <2>2, <2>3 DEF n
  <2>5. f[n + 1] = token /\ \A j \in 1..n : f[j] = e[j]
    BY <1>2, <2>2, <2>4
  <2>6. ASSUME NEW j \in 1..Len(f), f[j] = "Q" PROVE j - 1 \in 1..Len(f) /\ f[j - 1] = "B"
    <3>1. CASE j \in 1..n
      <4>1. e[j] = "Q" BY <2>5, <2>6, <3>1
      <4>2. j - 1 \in 1..n /\ e[j - 1] = "B" BY <1>3, <3>1, <4>1
      <4>. QED BY <4>2, <2>4, <2>5, <1>2
    <3>2. CASE j = n + 1 BY <2>5, <2>6, <3>2, <1>7 DEF Special
    <3>. QED BY <2>4, <1>2, <3>1, <3>2
  <2>7. ASSUME \E j \in 1..(k + 1) : text[j] \in Special
        PROVE  \E j \in 1..Len(f) : f[j] = "B"
    <3>1. \E j \in 1..k : text[j] \in Special BY <2>7, <1>4, <1>7 DEF token
    <3>2. PICK j \in 1..n : e[j] = "B" BY <3>1 DEF EscapeOf, n
    <3>. QED BY <3>2, <2>4, <2>5, <1>2
  <2>8. Len(f) >= k + 1 BY <2>4, <1>2
  <2>9. ASSUME \A j \in 1..(k + 1) : text[j] \notin Special
        PROVE  Len(f) = k + 1 /\ \A j \in 1..(k + 1) : f[j] = text[j]
    <3>1. n = k /\ \A j \in 1..k : e[j] = text[j] BY <2>9, <1>5 DEF EscapeOf, n
    <3>2. f[k + 1] = text[k + 1] BY <2>5, <3>1 DEF token
    <3>3. \A j \in 1..k : f[j] = text[j] BY <2>5, <3>1
    <3>. QED BY <3>1, <3>2, <3>3, <1>4, <2>4
  <2>10. EscapeOf(f, text, k + 1) BY <2>4, <2>6, <2>7, <2>8, <2>9 DEF EscapeOf
  <2>. QED BY <2>10 DEF f, token
<1>. QED BY <1>6, <1>7

\* What escaping makes of a whole text.
LEMMA EscapeIs ==
    ASSUME NEW text \in Seq(Alphabet)
    PROVE  EscapeOf(escape_json_string(text), text, Len(text))
<1> DEFINE pieces == [i \in DOMAIN text |-> Piece(text[i])]
           N == Len(text)
<1>1. N \in Nat /\ DOMAIN text = 1..N OBVIOUS
<1>2. escape_json_string(text) = FlattenSeq(pieces)
  BY Zenon DEF escape_json_string, Piece
<1>3. \A i \in 1..N : text[i] \in Alphabet OBVIOUS
<1>4. \A i \in 1..N : Piece(text[i]) \in Seq(Alphabet)
  <2>1. ASSUME NEW token \in Alphabet PROVE Piece(token) \in Seq(Alphabet)
    <3>1. \A x \in Alphabet : <<"B", x>> \in Seq(Alphabet) /\ <<x>> \in Seq(Alphabet)
      BY DEF Alphabet
    <3>. QED BY <3>1, PieceIs DEF Alphabet
  <2>. QED BY <1>3, <2>1
<1>5. pieces \in Seq(Seq(Alphabet)) /\ Len(pieces) = N BY <1>1, <1>4
<1> HIDE DEF pieces, N
<1>6. CASE N = 0
  <2>1. FlattenSeq(pieces) = pieces BY <1>5, <1>6 DEF FlattenSeq
  <2>2. pieces = <<>> BY <1>5, <1>6
  <2>3. EscapeOf(<<>>, text, 0) BY DEF EscapeOf
  <2>. QED BY <1>2, <1>6, <2>1, <2>2, <2>3 DEF N
<1>7. CASE N # 0
  <2>1. PICK g : /\ g[1] = pieces[1]
                 /\ \A i \in 2..N : g[i] = g[i - 1] \o pieces[i]
                 /\ FlattenSeq(pieces) = g[N]
    BY <1>5, <1>7, FlattenSteps
  <2>2. \A i \in 1..N : pieces[i] = Piece(text[i]) BY <1>1 DEF pieces
  <2> DEFINE T == {m \in Nat : m \in 1..N /\ ~EscapeOf(g[m], text, m)}
  <2>3. SUFFICES ASSUME T # {} PROVE FALSE
    BY <1>1, <1>2, <1>7, <2>1 DEF N
  <2>4. First(T) \in T /\ \A j \in T : First(T) <= j BY <2>3, FirstIsLeast
  <2> DEFINE m == First(T)
  <2>5. m \in Nat /\ m \in 1..N /\ ~EscapeOf(g[m], text, m) BY <2>4
  <2>6. CASE m = 1
    <3>1. EscapeOf(<<>>, text, 0) BY DEF EscapeOf
    <3>2. 0 + 1 \in 1..Len(text) BY <1>1, <1>7 DEF N
    <3>3. EscapeOf(<<>> \o Piece(text[0 + 1]), text, 0 + 1) BY <3>1, <3>2, EscapeStep
    <3>4. <<>> \o Piece(text[1]) = Piece(text[1]) BY <1>4, <2>5, <2>6, ConcatEmptySeq
    <3>. QED BY <2>1, <2>2, <2>5, <2>6, <3>3, <3>4
  <2>7. CASE m # 1
    <3> HIDE DEF m
    <3>1. /\ m - 1 \in Nat /\ m - 1 \in 1..N /\ ~(m <= m - 1)
          /\ m \in 2..N /\ (m - 1) + 1 = m
      BY <1>1, <2>5, <2>7
    <3>2. EscapeOf(g[m - 1], text, m - 1) BY <3>1, <2>4 DEF m
    <3>3. EscapeOf(g[m - 1] \o Piece(text[m]), text, m)
      BY <3>1, <3>2, EscapeStep DEF N
    <3>. QED BY <3>1, <3>3, <2>1, <2>2, <2>5
  <2>. QED BY <2>6, <2>7
<1>. QED BY <1>6, <1>7
-----------------------------------------------------------------------------
(***************************************************************************)
(* The line that is written, token by token.                               *)
(***************************************************************************)
\* Everything that may stand in the line.
Written ==
    Alphabet \cup {"{", "}", ",", ":", "motive", "timestamp", "type", "tpEmis"}
             \cup {to_type_str[t] : t \in ContingencyType}
             \cup {Decimal[n] : n \in Numbers}

\* The syntax of the record.
LEMMA SyntaxIsWritten ==
    /\ "Q" \in Written /\ "," \in Written /\ ":" \in Written
    /\ "{" \in Written /\ "}" \in Written
    /\ "motive" \in Written /\ "timestamp" \in Written
    /\ "type" \in Written /\ "tpEmis" \in Written
BY Zenon DEF Written, Alphabet

\* s stands in text, after the first p tokens.
At(text, p, s) ==
    p + Len(s) <= Len(text) /\ \A i \in 1..Len(s) : text[p + i] = s[i]

\* A part stays where it is when more is written, and what is written
\* stands at the end.
LEMMA AtConcat ==
    ASSUME NEW a \in Seq(Written), NEW b \in Seq(Written)
    PROVE  /\ a \o b \in Seq(Written)
           /\ Len(a \o b) = Len(a) + Len(b)
           /\ At(a \o b, Len(a), b)
           /\ At(a \o b, 0, a)
           /\ \A p \in Nat, c \in Seq(Written) : At(a, p, c) => At(a \o b, p, c)
<1>1. Len(a) \in Nat /\ Len(b) \in Nat OBVIOUS
<1>2. /\ a \o b \in Seq(Written)
      /\ Len(a \o b) = Len(a) + Len(b)
      /\ \A i \in 1..(Len(a) + Len(b)) :
            (a \o b)[i] = IF i <= Len(a) THEN a[i] ELSE b[i - Len(a)]
  BY ConcatProperties
<1> DEFINE ab == a \o b
<1> HIDE DEF ab
<1>3. \A i \in 1..Len(a) : ab[i] = a[i] BY <1>1, <1>2 DEF ab
<1>4. \A i \in 1..Len(b) : ab[Len(a) + i] = b[i] BY <1>1, <1>2 DEF ab
<1>5. Len(ab) = Len(a) + Len(b) /\ ab \in Seq(Written) BY <1>2 DEF ab
<1>6. At(ab, Len(a), b) BY <1>1, <1>4, <1>5 DEF At
<1>7. At(ab, 0, a) BY <1>1, <1>3, <1>5 DEF At
<1>8. ASSUME NEW p \in Nat, NEW c \in Seq(Written), At(a, p, c) PROVE At(ab, p, c)
  <2>1. Len(c) \in Nat OBVIOUS
  <2>2. \A i \in 1..Len(c) : p + i \in 1..Len(a) BY <1>1, <1>8, <2>1 DEF At
  <2>. QED BY <1>1, <1>3, <1>5, <1>8, <2>1, <2>2 DEF At
<1>. QED BY <1>5, <1>6, <1>7, <1>8 DEF ab

\* A field of the record.
LEMMA FieldIs ==
    ASSUME NEW key \in Written, NEW value \in Seq(Written)
    PROVE  /\ Field(key, value) \in Seq(Written)
           /\ Len(Field(key, value)) = 4 + Len(value)
           /\ Field(key, value)[1] = "Q"
           /\ Field(key, value)[2] = key
           /\ Field(key, value)[3] = "Q"
           /\ Field(key, value)[4] = ":"
           /\ \A i \in 1..Len(value) : Field(key, value)[4 + i] = value[i]
<1> DEFINE a == <<"Q", key, "Q", ":">>
<1>1. a \in Seq(Written) /\ Len(a) = 4
  <2>1. "Q" \in Written /\ ":" \in Written BY SyntaxIsWritten
  <2>. QED BY <2>1
<1>2. a[1] = "Q" /\ a[2] = key /\ a[3] = "Q" /\ a[4] = ":" OBVIOUS
<1>3. Field(key, value) = a \o value BY DEF Field
<1> HIDE DEF a
<1>4. /\ a \o value \in Seq(Written)
      /\ Len(a \o value) = Len(a) + Len(value)
      /\ At(a \o value, Len(a), value)
      /\ At(a \o value, 0, a)
  BY <1>1, AtConcat
<1> DEFINE f == Field(key, value)
<1> HIDE DEF f
<1>5. f \in Seq(Written) /\ Len(f) = 4 + Len(value) BY <1>1, <1>3, <1>4 DEF f
<1>6. \A i \in 1..Len(value) : f[4 + i] = value[i] BY <1>1, <1>3, <1>4 DEF At, f
<1>7. \A i \in 1..4 : f[0 + i] = a[i] BY <1>1, <1>3, <1>4 DEF At, f
<1>8. f[1] = a[1] /\ f[2] = a[2] /\ f[3] = a[3] /\ f[4] = a[4] BY <1>7
<1>. QED BY <1>2, <1>5, <1>6, <1>8 DEF f

\* A string value.
LEMMA QuotedIs ==
    ASSUME NEW text \in Seq(Written)
    PROVE  /\ Quoted(text) \in Seq(Written)
           /\ Len(Quoted(text)) = Len(text) + 2
           /\ Quoted(text)[1] = "Q"
           /\ \A i \in 1..Len(text) : Quoted(text)[1 + i] = text[i]
           /\ Quoted(text)[Len(text) + 2] = "Q"
<1> DEFINE q == <<"Q">>
           a == q \o text
           f == a \o q
<1>1. q \in Seq(Written) /\ Len(q) = 1 /\ q[1] = "Q"
  <2>1. "Q" \in Written BY SyntaxIsWritten
  <2>. QED BY <2>1
<1>2. Quoted(text) = f BY DEF Quoted
<1> HIDE DEF q
<1>3. /\ a \in Seq(Written) /\ Len(a) = 1 + Len(text)
      /\ At(a, 1, text) /\ At(a, 0, q)
  BY <1>1, AtConcat
<1> HIDE DEF a
<1>4. /\ f \in Seq(Written) /\ Len(f) = Len(a) + 1
      /\ At(f, Len(a), q) /\ At(f, 1, text) /\ At(f, 0, q)
  BY <1>1, <1>3, AtConcat
<1> HIDE DEF f
<1>5. Len(text) \in Nat OBVIOUS
<1>6. f[0 + 1] = "Q" /\ f[Len(a) + 1] = "Q" BY <1>1, <1>4 DEF At
<1>7. Len(a) + 1 = Len(text) + 2 BY <1>3, <1>5
<1>. QED BY <1>2, <1>3, <1>4, <1>5, <1>6, <1>7 DEF At

\* The line with these values in it.
Line(e, time, type, emis) ==
    <<"{">> \o Field("motive", Quoted(e))
        \o <<",">> \o Field("timestamp", <<time>>)
        \o <<",">> \o Field("type", Quoted(type))
        \o <<",">> \o Field("tpEmis", <<emis>>) \o <<"}">>

\* Where everything stands in a line with n tokens of text and k of type.
Laid(j, e, time, type, emis, n, k) ==
    /\ j \in Seq(Written) /\ Len(j) = 27 + n + k
    /\ j[1] = "{" /\ j[2] = "Q" /\ j[3] = "motive" /\ j[4] = "Q" /\ j[5] = ":" /\ j[6] = "Q"
    /\ \A i \in 1..n : j[6 + i] = e[i]
    /\ j[7 + n] = "Q" /\ j[8 + n] = ","
    /\ j[9 + n] = "Q" /\ j[10 + n] = "timestamp" /\ j[11 + n] = "Q" /\ j[12 + n] = ":"
    /\ j[13 + n] = time /\ j[14 + n] = ","
    /\ j[15 + n] = "Q" /\ j[16 + n] = "type" /\ j[17 + n] = "Q" /\ j[18 + n] = ":"
    /\ j[19 + n] = "Q"
    /\ \A i \in 1..k : j[19 + n + i] = type[i]
    /\ j[20 + n + k] = "Q" /\ j[21 + n + k] = ","
    /\ j[22 + n + k] = "Q" /\ j[23 + n + k] = "tpEmis" /\ j[24 + n + k] = "Q"
    /\ j[25 + n + k] = ":" /\ j[26 + n + k] = emis /\ j[27 + n + k] = "}"

\* A field with one token.
IsNumberField(f, key, number) ==
    /\ f \in Seq(Written) /\ Len(f) = 5
    /\ f[1] = "Q" /\ f[2] = key /\ f[3] = "Q" /\ f[4] = ":" /\ f[5] = number

\* A field with a text of n tokens between quotes.
IsTextField(f, key, text, n) ==
    /\ f \in Seq(Written) /\ Len(f) = 6 + n
    /\ f[1] = "Q" /\ f[2] = key /\ f[3] = "Q" /\ f[4] = ":" /\ f[5] = "Q"
    /\ \A i \in 1..n : f[5 + i] = text[i]
    /\ f[6 + n] = "Q"

\* A token, as a text.
LEMMA OneToken ==
    ASSUME NEW x \in Written
    PROVE  <<x>> \in Seq(Written) /\ Len(<<x>>) = 1 /\ <<x>>[1] = x
OBVIOUS

\* A number, as the value of a field.
LEMMA NumberFieldIs ==
    ASSUME NEW key \in Written, NEW number \in Written
    PROVE  IsNumberField(Field(key, <<number>>), key, number)
<1> DEFINE v == <<number>>
           f == Field(key, v)
<1>1. v \in Seq(Written) /\ Len(v) = 1 /\ v[1] = number OBVIOUS
<1>2. 1 \in 1..1 /\ 4 + 1 = 5 OBVIOUS
<1> HIDE DEF v
<1>3. /\ f \in Seq(Written) /\ Len(f) = 4 + Len(v)
      /\ f[1] = "Q" /\ f[2] = key /\ f[3] = "Q" /\ f[4] = ":"
      /\ \A i \in 1..Len(v) : f[4 + i] = v[i]
  <2>1. key \in Written /\ v \in Seq(Written) BY <1>1
  <2>2. Field(key, v) \in Seq(Written) /\ Len(Field(key, v)) = 4 + Len(v) BY <2>1, FieldIs
  <2>3. /\ Field(key, v)[1] = "Q" /\ Field(key, v)[2] = key
        /\ Field(key, v)[3] = "Q" /\ Field(key, v)[4] = ":"
    BY <2>1, FieldIs
  <2>4. \A i \in 1..Len(v) : Field(key, v)[4 + i] = v[i] BY <2>1, FieldIs
  <2>. QED BY <2>2, <2>3, <2>4
<1> HIDE DEF f
<1>4. f[4 + 1] = number BY <1>1, <1>2, <1>3
<1>5. Len(f) = 5 /\ f[5] = number BY <1>1, <1>2, <1>3, <1>4
<1>6. IsNumberField(f, key, number) BY <1>3, <1>5 DEF IsNumberField
<1>. QED BY <1>6 DEF f, v

\* A text, as the value of a field.
LEMMA TextFieldIs ==
    ASSUME NEW key \in Written, NEW text \in Seq(Written), NEW n \in Nat, n = Len(text)
    PROVE  IsTextField(Field(key, Quoted(text)), key, text, n)
<1> DEFINE v == Quoted(text)
           f == Field(key, v)
<1>1. /\ v \in Seq(Written) /\ Len(v) = n + 2 /\ v[1] = "Q"
      /\ \A i \in 1..n : v[1 + i] = text[i]
      /\ v[n + 2] = "Q"
  BY QuotedIs
<1> HIDE DEF v
<1>2. /\ f \in Seq(Written) /\ Len(f) = 4 + Len(v)
      /\ f[1] = "Q" /\ f[2] = key /\ f[3] = "Q" /\ f[4] = ":"
      /\ \A i \in 1..Len(v) : f[4 + i] = v[i]
  <2>1. key \in Written /\ v \in Seq(Written) BY <1>1
  <2>2. Field(key, v) \in Seq(Written) /\ Len(Field(key, v)) = 4 + Len(v) BY <2>1, FieldIs
  <2>3. /\ Field(key, v)[1] = "Q" /\ Field(key, v)[2] = key
        /\ Field(key, v)[3] = "Q" /\ Field(key, v)[4] = ":"
    BY <2>1, FieldIs
  <2>4. \A i \in 1..Len(v) : Field(key, v)[4 + i] = v[i] BY <2>1, FieldIs
  <2>. QED BY <2>2, <2>3, <2>4
<1> HIDE DEF f
<1>3. \A i \in 1..n : 1 + i \in 1..Len(v) /\ 4 + (1 + i) = 5 + i BY <1>1
<1>4. \A i \in 1..n : f[5 + i] = text[i] BY <1>1, <1>2, <1>3
<1>5. /\ 1 \in 1..Len(v) /\ n + 2 \in 1..Len(v)
      /\ 4 + 1 = 5 /\ 4 + (n + 2) = 6 + n
  BY <1>1
<1>6. f[4 + 1] = v[1] /\ f[4 + (n + 2)] = v[n + 2] BY <1>2, <1>5
<1>7. f[5] = "Q" /\ f[6 + n] = "Q" BY <1>1, <1>5, <1>6
<1>8. Len(f) = 6 + n BY <1>1, <1>2
<1>9. IsTextField(f, key, text, n) BY <1>2, <1>4, <1>7, <1>8 DEF IsTextField
<1>. QED BY <1>9 DEF f, v

\* Where the parts of a line stand.
Stand(j, o, a, c, b, d, g, z, n, k) ==
    /\ j \in Seq(Written) /\ Len(j) = 27 + n + k
    /\ At(j, 0, o) /\ At(j, 1, a) /\ At(j, 7 + n, c) /\ At(j, 8 + n, b)
    /\ At(j, 13 + n, c) /\ At(j, 14 + n, d) /\ At(j, 20 + n + k, c)
    /\ At(j, 21 + n + k, g) /\ At(j, 26 + n + k, z)

\* Parts written one after another stand where those before them end.
LEMMA PartsStand ==
    ASSUME NEW n \in Nat, NEW k \in Nat,
           NEW o \in Seq(Written), NEW c \in Seq(Written), NEW z \in Seq(Written),
           NEW a \in Seq(Written), NEW b \in Seq(Written),
           NEW d \in Seq(Written), NEW g \in Seq(Written),
           Len(o) = 1, Len(c) = 1, Len(z) = 1,
           Len(a) = 6 + n, Len(b) = 5, Len(d) = 6 + k, Len(g) = 5
    PROVE  Stand(o \o a \o c \o b \o c \o d \o c \o g \o z, o, a, c, b, d, g, z, n, k)
<1> DEFINE j1 == o \o a
           j2 == j1 \o c
           j3 == j2 \o b
           j4 == j3 \o c
           j5 == j4 \o d
           j6 == j5 \o c
           j7 == j6 \o g
           j8 == j7 \o z
<1>1. /\ 0 \in Nat /\ 1 \in Nat /\ 7 + n \in Nat /\ 8 + n \in Nat /\ 13 + n \in Nat
      /\ 14 + n \in Nat /\ 20 + n + k \in Nat /\ 21 + n + k \in Nat /\ 26 + n + k \in Nat
  OBVIOUS
<1>2. /\ j1 \in Seq(Written)
      /\ Len(j1) = Len(o) + Len(a)
      /\ At(j1, Len(o), a)
      /\ At(j1, 0, o)
  BY AtConcat
<1>3. /\ Len(j1) = 7 + n
      /\ At(j1, 0, o) /\ At(j1, 1, a)
  <2>1. Len(j1) = 7 + n BY <1>2
  <2>. QED BY <2>1, <1>1, <1>2
<1> HIDE DEF j1
<1>4. /\ j2 \in Seq(Written)
      /\ Len(j2) = Len(j1) + Len(c)
      /\ At(j2, Len(j1), c)
      /\ \A p \in Nat, x \in Seq(Written) : At(j1, p, x) => At(j2, p, x)
  BY <1>2, AtConcat
<1>5. /\ Len(j2) = 8 + n
      /\ At(j2, 0, o) /\ At(j2, 1, a) /\ At(j2, 7 + n, c)
  <2>1. Len(j2) = 8 + n BY <1>4, <1>3
  <2>. QED BY <2>1, <1>1, <1>4, <1>3
<1> HIDE DEF j2
<1>6. /\ j3 \in Seq(Written)
      /\ Len(j3) = Len(j2) + Len(b)
      /\ At(j3, Len(j2), b)
      /\ \A p \in Nat, x \in Seq(Written) : At(j2, p, x) => At(j3, p, x)
  BY <1>4, AtConcat
<1>7. /\ Len(j3) = 13 + n
      /\ At(j3, 0, o) /\ At(j3, 1, a) /\ At(j3, 7 + n, c) /\ At(j3, 8 + n, b)
  <2>1. Len(j3) = 13 + n BY <1>6, <1>5
  <2>. QED BY <2>1, <1>1, <1>6, <1>5
<1> HIDE DEF j3
<1>8. /\ j4 \in Seq(Written)
      /\ Len(j4) = Len(j3) + Len(c)
      /\ At(j4, Len(j3), c)
      /\ \A p \in Nat, x \in Seq(Written) : At(j3, p, x) => At(j4, p, x)
  BY <1>6, AtConcat
<1>9. /\ Len(j4) = 14 + n
      /\ At(j4, 0, o) /\ At(j4, 1, a) /\ At(j4, 7 + n, c) /\ At(j4, 8 + n, b)
      /\ At(j4, 13 + n, c)
  <2>1. Len(j4) = 14 + n BY <1>8, <1>7
  <2>. QED BY <2>1, <1>1, <1>8, <1>7
<1> HIDE DEF j4
<1>10. /\ j5 \in Seq(Written)
      /\ Len(j5) = Len(j4) + Len(d)
      /\ At(j5, Len(j4), d)
      /\ \A p \in Nat, x \in Seq(Written) : At(j4, p, x) => At(j5, p, x)
  BY <1>8, AtConcat
<1>11. /\ Len(j5) = 20 + n + k
      /\ At(j5, 0, o) /\ At(j5, 1, a) /\ At(j5, 7 + n, c) /\ At(j5, 8 + n, b)
      /\ At(j5, 13 + n, c) /\ At(j5, 14 + n, d)
  <2>1. Len(j5) = 20 + n + k BY <1>10, <1>9
  <2>. QED BY <2>1, <1>1, <1>10, <1>9
<1> HIDE DEF j5
<1>12. /\ j6 \in Seq(Written)
      /\ Len(j6) = Len(j5) + Len(c)
      /\ At(j6, Len(j5), c)
      /\ \A p \in Nat, x \in Seq(Written) : At(j5, p, x) => At(j6, p, x)
  BY <1>10, AtConcat
<1>13. /\ Len(j6) = 21 + n + k
      /\ At(j6, 0, o) /\ At(j6, 1, a) /\ At(j6, 7 + n, c) /\ At(j6, 8 + n, b)
      /\ At(j6, 13 + n, c) /\ At(j6, 14 + n, d) /\ At(j6, 20 + n + k, c)
  <2>1. Len(j6) = 21 + n + k BY <1>12, <1>11
  <2>. QED BY <2>1, <1>1, <1>12, <1>11
<1> HIDE DEF j6
<1>14. /\ j7 \in Seq(Written)
      /\ Len(j7) = Len(j6) + Len(g)
      /\ At(j7, Len(j6), g)
      /\ \A p \in Nat, x \in Seq(Written) : At(j6, p, x) => At(j7, p, x)
  BY <1>12, AtConcat
<1>15. /\ Len(j7) = 26 + n + k
      /\ At(j7, 0, o) /\ At(j7, 1, a) /\ At(j7, 7 + n, c) /\ At(j7, 8 + n, b)
      /\ At(j7, 13 + n, c) /\ At(j7, 14 + n, d) /\ At(j7, 20 + n + k, c) /\ At(j7, 21 + n + k, g)
  <2>1. Len(j7) = 26 + n + k BY <1>14, <1>13
  <2>. QED BY <2>1, <1>1, <1>14, <1>13
<1> HIDE DEF j7
<1>16. /\ j8 \in Seq(Written)
      /\ Len(j8) = Len(j7) + Len(z)
      /\ At(j8, Len(j7), z)
      /\ \A p \in Nat, x \in Seq(Written) : At(j7, p, x) => At(j8, p, x)
  BY <1>14, AtConcat
<1>17. /\ Len(j8) = 27 + n + k
      /\ At(j8, 0, o) /\ At(j8, 1, a) /\ At(j8, 7 + n, c) /\ At(j8, 8 + n, b)
      /\ At(j8, 13 + n, c) /\ At(j8, 14 + n, d) /\ At(j8, 20 + n + k, c) /\ At(j8, 21 + n + k, g)
      /\ At(j8, 26 + n + k, z)
  <2>1. Len(j8) = 27 + n + k BY <1>16, <1>15
  <2>. QED BY <2>1, <1>1, <1>16, <1>15
<1> HIDE DEF j8
<1>18. Stand(j8, o, a, c, b, d, g, z, n, k) BY <1>16, <1>17, Zenon DEF Stand
<1>. QED BY <1>18, Zenon DEF j1, j2, j3, j4, j5, j6, j7, j8

\* The line is laid out so.
LEMMA LineIsLaid ==
    ASSUME NEW e \in Seq(Written), NEW type \in Seq(Written),
           NEW time \in Written, NEW emis \in Written,
           NEW n \in Nat, n = Len(e), NEW k \in Nat, k = Len(type)
    PROVE  Laid(Line(e, time, type, emis), e, time, type, emis, n, k)
<1> DEFINE o == <<"{">>
           c == <<",">>
           z == <<"}">>
           a == Field("motive", Quoted(e))
           b == Field("timestamp", <<time>>)
           d == Field("type", Quoted(type))
           g == Field("tpEmis", <<emis>>)
           j == o \o a \o c \o b \o c \o d \o c \o g \o z
<1>1. /\ o \in Seq(Written) /\ Len(o) = 1 /\ o[1] = "{"
      /\ c \in Seq(Written) /\ Len(c) = 1 /\ c[1] = ","
      /\ z \in Seq(Written) /\ Len(z) = 1 /\ z[1] = "}"
  <2>1. "{" \in Written /\ "," \in Written /\ "}" \in Written BY SyntaxIsWritten
  <2>2. o \in Seq(Written) /\ Len(o) = 1 /\ o[1] = "{" BY <2>1, OneToken
  <2>3. c \in Seq(Written) /\ Len(c) = 1 /\ c[1] = "," BY <2>1, OneToken
  <2>4. z \in Seq(Written) /\ Len(z) = 1 /\ z[1] = "}" BY <2>1, OneToken
  <2>. QED BY <2>2, <2>3, <2>4
<1>2. IsTextField(a, "motive", e, n) BY SyntaxIsWritten, TextFieldIs
<1>3. IsNumberField(b, "timestamp", time) BY SyntaxIsWritten, NumberFieldIs
<1>4. IsTextField(d, "type", type, k) BY SyntaxIsWritten, TextFieldIs
<1>5. IsNumberField(g, "tpEmis", emis) BY SyntaxIsWritten, NumberFieldIs
<1>6. Line(e, time, type, emis) = j BY Zenon DEF Line
<1> HIDE DEF o, c, z, a, b, d, g
<1>7. Stand(j, o, a, c, b, d, g, z, n, k)
  <2>1. /\ a \in Seq(Written) /\ Len(a) = 6 + n
        /\ b \in Seq(Written) /\ Len(b) = 5
        /\ d \in Seq(Written) /\ Len(d) = 6 + k
        /\ g \in Seq(Written) /\ Len(g) = 5
    BY <1>2, <1>3, <1>4, <1>5 DEF IsTextField, IsNumberField
  <2>. QED BY <1>1, <2>1, PartsStand
<1> HIDE DEF j
<1>8. /\ j[0 + 1] = "{" /\ j[7 + n + 1] = "," /\ j[13 + n + 1] = ","
      /\ j[20 + n + k + 1] = "," /\ j[26 + n + k + 1] = "}"
  <2>1. 1 \in 1..1 OBVIOUS
  <2>. QED BY <1>1, <1>7, <2>1 DEF At, Stand, IsTextField, IsNumberField
<1>9. \A i \in 1..(6 + n) : j[1 + i] = a[i] BY <1>2, <1>7 DEF At, Stand, IsTextField, IsNumberField
<1>10. \A i \in 1..5 : j[8 + n + i] = b[i] BY <1>3, <1>7 DEF At, Stand, IsTextField, IsNumberField
<1>11. \A i \in 1..(6 + k) : j[14 + n + i] = d[i]
  BY <1>4, <1>7 DEF At, Stand, IsTextField, IsNumberField
<1>12. \A i \in 1..5 : j[21 + n + k + i] = g[i]
  BY <1>5, <1>7 DEF At, Stand, IsTextField, IsNumberField
<1>13. /\ j[1 + 1] = "Q" /\ j[1 + 2] = "motive" /\ j[1 + 3] = "Q" /\ j[1 + 4] = ":"
       /\ j[1 + 5] = "Q" /\ j[1 + (6 + n)] = "Q"
  BY <1>2, <1>9 DEF IsTextField, IsNumberField
<1>14. \A i \in 1..n : j[6 + i] = e[i]
  <2>1. \A i \in 1..n : 5 + i \in 1..(6 + n) /\ 1 + (5 + i) = 6 + i OBVIOUS
  <2>. QED BY <2>1, <1>2, <1>9 DEF IsTextField, IsNumberField
<1>15. /\ j[8 + n + 1] = "Q" /\ j[8 + n + 2] = "timestamp" /\ j[8 + n + 3] = "Q"
       /\ j[8 + n + 4] = ":" /\ j[8 + n + 5] = time
  BY <1>3, <1>10 DEF IsTextField, IsNumberField
<1>16. /\ j[14 + n + 1] = "Q" /\ j[14 + n + 2] = "type" /\ j[14 + n + 3] = "Q"
       /\ j[14 + n + 4] = ":" /\ j[14 + n + 5] = "Q" /\ j[14 + n + (6 + k)] = "Q"
  BY <1>4, <1>11 DEF IsTextField, IsNumberField
<1>17. \A i \in 1..k : j[19 + n + i] = type[i]
  <2>1. \A i \in 1..k : 5 + i \in 1..(6 + k) /\ 14 + n + (5 + i) = 19 + n + i OBVIOUS
  <2>. QED BY <2>1, <1>4, <1>11 DEF IsTextField, IsNumberField
<1>18. /\ j[21 + n + k + 1] = "Q" /\ j[21 + n + k + 2] = "tpEmis" /\ j[21 + n + k + 3] = "Q"
       /\ j[21 + n + k + 4] = ":" /\ j[21 + n + k + 5] = emis
  BY <1>5, <1>12 DEF IsTextField, IsNumberField
<1>19. /\ 0 + 1 = 1 /\ 1 + 1 = 2 /\ 1 + 2 = 3 /\ 1 + 3 = 4 /\ 1 + 4 = 5 /\ 1 + 5 = 6
       /\ 1 + (6 + n) = 7 + n /\ 7 + n + 1 = 8 + n
  OBVIOUS
<1>20. /\ 8 + n + 1 = 9 + n /\ 8 + n + 2 = 10 + n /\ 8 + n + 3 = 11 + n
       /\ 8 + n + 4 = 12 + n /\ 8 + n + 5 = 13 + n /\ 13 + n + 1 = 14 + n
  OBVIOUS
<1>21. /\ 14 + n + 1 = 15 + n /\ 14 + n + 2 = 16 + n /\ 14 + n + 3 = 17 + n
       /\ 14 + n + 4 = 18 + n /\ 14 + n + 5 = 19 + n
       /\ 14 + n + (6 + k) = 20 + n + k /\ 20 + n + k + 1 = 21 + n + k
  OBVIOUS
<1>22. /\ 21 + n + k + 1 = 22 + n + k /\ 21 + n + k + 2 = 23 + n + k
       /\ 21 + n + k + 3 = 24 + n + k /\ 21 + n + k + 4 = 25 + n + k
       /\ 21 + n + k + 5 = 26 + n + k /\ 26 + n + k + 1 = 27 + n + k
  OBVIOUS
<1>23. /\ j[1] = "{" /\ j[2] = "Q" /\ j[3] = "motive" /\ j[4] = "Q" /\ j[5] = ":"
       /\ j[6] = "Q" /\ j[7 + n] = "Q" /\ j[8 + n] = ","
  BY <1>8, <1>13, <1>19, Zenon
<1>24. /\ j[9 + n] = "Q" /\ j[10 + n] = "timestamp" /\ j[11 + n] = "Q" /\ j[12 + n] = ":"
       /\ j[13 + n] = time /\ j[14 + n] = ","
  BY <1>8, <1>15, <1>20, Zenon
<1>25. /\ j[15 + n] = "Q" /\ j[16 + n] = "type" /\ j[17 + n] = "Q" /\ j[18 + n] = ":"
       /\ j[19 + n] = "Q" /\ j[20 + n + k] = "Q" /\ j[21 + n + k] = ","
  BY <1>8, <1>16, <1>21, Zenon
<1>26. /\ j[22 + n + k] = "Q" /\ j[23 + n + k] = "tpEmis" /\ j[24 + n + k] = "Q"
       /\ j[25 + n + k] = ":" /\ j[26 + n + k] = emis /\ j[27 + n + k] = "}"
  BY <1>8, <1>18, <1>22, Zenon
<1>27. Laid(j, e, time, type, emis, n, k)
  BY <1>7, <1>14, <1>17, <1>23, <1>24, <1>25, <1>26, Zenon DEF Laid, Stand
<1>. QED BY <1>6, <1>27, Zenon
-----------------------------------------------------------------------------
(***************************************************************************)
(* Looking for a key.                                                      *)
(***************************************************************************)
\* The quoted key stands at i.
Hit(text, key, i) == text[i] = "Q" /\ text[i + 1] = key /\ text[i + 2] = "Q"

\* A text that begins with something solid begins there.
LEMMA TrimStartIs ==
    ASSUME NEW s \in Seq(Written), s # <<>>, s[1] \notin White
    PROVE  trim_start(s) = s
<1> DEFINE N == Len(s)
<1>1. N \in Nat /\ N >= 1 /\ DOMAIN s = 1..N /\ \A i \in 1..N : s[i] \in Written
  OBVIOUS
<1>2. Solid(s) \in SUBSET Nat /\ 1 \in Solid(s) /\ \A i \in Solid(s) : 1 <= i
  BY <1>1 DEF Solid
<1>3. First(Solid(s)) = 1 BY <1>2, FirstIs
<1>4. trim_start(s) = SubSeq(s, 1, N) BY <1>2, <1>3 DEF trim_start
<1>5. /\ SubSeq(s, 1, N) \in Seq(Written)
      /\ Len(SubSeq(s, 1, N)) = IF 1 <= N THEN N - 1 + 1 ELSE 0
      /\ \A i \in 1..(N - 1 + 1) : SubSeq(s, 1, N)[i] = s[1 + i - 1]
  <2> HIDE DEF N
  <2>1. 1 \in Int /\ N \in Int BY <1>1
  <2>. QED BY <1>1, <2>1, SubSeqProperties
<1> DEFINE t == SubSeq(s, 1, N)
<1> HIDE DEF t
<1>6. N - 1 + 1 = N /\ \A i \in 1..N : 1 + i - 1 = i BY <1>1
<1>7. t \in Seq(Written) /\ Len(t) = N /\ \A i \in 1..N : t[i] = s[i]
  <2> HIDE DEF N
  <2>. QED BY <1>1, <1>5, <1>6 DEF t
<1>8. t = s BY <1>7, SeqEqual
<1>. QED BY <1>4, <1>8 DEF t

\* a is what follows the first p + 3 tokens.
Follows(a, j, p) ==
    /\ a \in Seq(Written) /\ Len(a) = Len(j) - p - 3
    /\ \A i \in 1..(Len(j) - p - 3) : a[i] = j[p + 3 + i]

\* A colon after the first hit: what follows the colon is taken.
LEMMA AfterColon ==
    ASSUME NEW j \in Seq(Written), NEW key, NEW p \in Nat, p >= 1, p + 4 <= Len(j),
           Hit(j, key, p), \A i \in 1..(p - 1) : ~Hit(j, key, i), j[p + 3] = ":",
           j[p + 4] \notin White
    PROVE  Follows(AfterKey(j, key), j, p)
<1> DEFINE L == Len(j)
           hits == {i \in 1..(L - 2) : Hit(j, key, i)}
           rest == SubSeq(j, p + 3, L)
<1>1. L \in Nat OBVIOUS
<1>2. hits \in SUBSET Nat /\ p \in hits BY <1>1
<1>3. \A i \in hits : p <= i BY <1>1
<1>4. First(hits) = p /\ hits # {}
  <2> HIDE DEF hits
  <2>. QED BY <1>2, <1>3, FirstIs
<1>5. /\ rest \in Seq(Written) /\ Len(rest) = L - p - 2
      /\ \A i \in 1..(L - p - 2) : rest[i] = j[p + 2 + i]
  <2>1. \A i \in (p + 3)..L : j[i] \in Written BY <1>1
  <2>2. /\ SubSeq(j, p + 3, L) \in Seq(Written)
        /\ Len(SubSeq(j, p + 3, L)) = IF p + 3 <= L THEN L - (p + 3) + 1 ELSE 0
        /\ \A i \in 1..(L - (p + 3) + 1) : SubSeq(j, p + 3, L)[i] = j[(p + 3) + i - 1]
    <3> HIDE DEF L
    <3>1. p + 3 \in Int /\ L \in Int BY <1>1
    <3>. QED BY <2>1, <3>1, SubSeqProperties
  <2> HIDE DEF rest
  <2>3. \A i \in 1..(L - p - 2) : i \in 1..(L - (p + 3) + 1) /\ (p + 3) + i - 1 = p + 2 + i
    BY <1>1
  <2>. QED BY <1>1, <2>2, <2>3 DEF rest
<1>6. AfterKey(j, key) =
        LET R == trim_start(rest)
        IN  IF hits # {} /\ R # <<>> /\ R[1] = ":" THEN trim_start(Tail(R)) ELSE <<>>
  <2>1. AfterKey(j, key) =
          LET R == trim_start(SubSeq(j, First(hits) + 3, L))
          IN  IF hits # {} /\ R # <<>> /\ R[1] = ":" THEN trim_start(Tail(R)) ELSE <<>>
    BY Zenon DEF AfterKey, Hit
  <2>. QED
    <3> HIDE DEF hits
    <3>. QED BY <1>4, <2>1
<1> HIDE DEF hits, rest, L
<1>7. 1 \in 1..(L - p - 2) /\ p + 2 + 1 = p + 3 BY <1>1 DEF L
<1>8. rest # <<>> /\ rest[1] = ":" BY <1>1, <1>5, <1>7
<1>9. AfterKey(j, key) = trim_start(Tail(rest))
  <2>1. ":" \notin White BY DEF White
  <2>2. trim_start(rest) = rest BY <1>5, <1>8, <2>1, TrimStartIs
  <2>. QED BY <1>4, <1>6, <1>8, <2>2
<1>10. /\ Tail(rest) \in Seq(Written) /\ Len(Tail(rest)) = Len(rest) - 1
       /\ \A i \in 1..Len(Tail(rest)) : Tail(rest)[i] = rest[i + 1]
  BY <1>5, <1>8, HeadTailProperties
<1>11. Len(rest) - 1 = L - p - 3 BY <1>1, <1>5
<1>12. \A i \in 1..(L - p - 3) : i + 1 \in 1..(L - p - 2) /\ p + 2 + (i + 1) = p + 3 + i
  BY <1>1
<1>13. \A i \in 1..(L - p - 3) : Tail(rest)[i] = j[p + 3 + i]
  BY <1>5, <1>10, <1>11, <1>12
<1>14. trim_start(Tail(rest)) = Tail(rest)
  <2> DEFINE t == Tail(rest)
  <2>1. 1 \in 1..(L - p - 3) /\ p + 3 + 1 = p + 4 /\ L - p - 3 # 0 BY <1>1 DEF L
  <2>2. Tail(rest)[1] = j[p + 4] BY <1>13, <2>1
  <2>3. t \in Seq(Written) /\ Len(t) = L - p - 3 /\ t[1] \notin White BY <1>10, <1>11, <2>2
  <2> HIDE DEF t
  <2>4. t # <<>> BY <2>1, <2>3
  <2>5. trim_start(t) = t BY <2>3, <2>4, TrimStartIs
  <2>. QED BY <2>5 DEF t
<1>. QED BY <1>9, <1>10, <1>11, <1>13, <1>14 DEF L, Follows

\* Something else than a colon after the first hit: there is nothing to take.
LEMMA AfterNoColon ==
    ASSUME NEW j \in Seq(Written), NEW key, NEW p \in Nat, p >= 1, p + 3 <= Len(j),
           Hit(j, key, p), \A i \in 1..(p - 1) : ~Hit(j, key, i),
           j[p + 3] \notin White, j[p + 3] # ":"
    PROVE  AfterKey(j, key) = <<>>
<1> DEFINE L == Len(j)
           hits == {i \in 1..(L - 2) : Hit(j, key, i)}
           rest == SubSeq(j, p + 3, L)
<1>1. L \in Nat OBVIOUS
<1>2. hits \in SUBSET Nat /\ p \in hits BY <1>1
<1>3. \A i \in hits : p <= i BY <1>1
<1>4. First(hits) = p
  <2> HIDE DEF hits
  <2>. QED BY <1>2, <1>3, FirstIs
<1>5. rest \in Seq(Written) /\ rest # <<>> /\ rest[1] = j[p + 3]
  <2>1. \A i \in (p + 3)..L : j[i] \in Written BY <1>1
  <2>2. /\ SubSeq(j, p + 3, L) \in Seq(Written)
        /\ Len(SubSeq(j, p + 3, L)) = IF p + 3 <= L THEN L - (p + 3) + 1 ELSE 0
        /\ \A i \in 1..(L - (p + 3) + 1) : SubSeq(j, p + 3, L)[i] = j[(p + 3) + i - 1]
    <3> HIDE DEF L
    <3>1. p + 3 \in Int /\ L \in Int BY <1>1
    <3>. QED BY <2>1, <3>1, SubSeqProperties
  <2> HIDE DEF rest
  <2>3. /\ 1 \in 1..(L - (p + 3) + 1) /\ (p + 3) + 1 - 1 = p + 3
        /\ p + 3 <= L /\ L - (p + 3) + 1 # 0
    BY <1>1
  <2>4. rest \in Seq(Written) /\ Len(rest) # 0 /\ rest[1] = j[p + 3]
    <3> HIDE DEF L
    <3>. QED BY <2>2, <2>3 DEF rest
  <2>. QED BY <2>4
<1>6. AfterKey(j, key) =
        LET R == trim_start(rest)
        IN  IF hits # {} /\ R # <<>> /\ R[1] = ":" THEN trim_start(Tail(R)) ELSE <<>>
  <2>1. AfterKey(j, key) =
          LET R == trim_start(SubSeq(j, First(hits) + 3, L))
          IN  IF hits # {} /\ R # <<>> /\ R[1] = ":" THEN trim_start(Tail(R)) ELSE <<>>
    BY Zenon DEF AfterKey, Hit
  <2>. QED
    <3> HIDE DEF hits
    <3>. QED BY <1>4, <2>1
<1>. QED
  <2> HIDE DEF rest, hits
  <2>1. trim_start(rest) = rest BY <1>5, TrimStartIs
  <2>. QED BY <1>5, <1>6, <2>1

\* No quote of the text is without its backslash; the type and the numbers
\* hold no quote, the numbers no white space, and the type is no key.
Guarded(e, time, type, emis, n, k) ==
    /\ \A i \in 1..n : e[i] = "Q" => i - 1 \in 1..n /\ e[i - 1] = "B"
    /\ {time, emis} \cap ({"Q"} \cup White) = {}
    /\ k \in {0, 1} /\ \A i \in 1..k : type[i] \notin {"Q", "tpEmis"}

\* The keys that are written behind the text.
LateKeys == {"timestamp", "type", "tpEmis"}

\* The text can only be taken for a key where it ends with one, right before
\* the quote that closes it.
EndsWithKey(e, key, n) == n >= 1 /\ e[n] = key /\ (n = 1 \/ e[n - 1] = "Q")

\* Up to its end the text is no key, or it is right before its closing quote.
LEMMA EarlyHit ==
    ASSUME NEW j, NEW e, NEW time, NEW type, NEW emis, NEW n \in Nat, NEW k \in Nat,
           Laid(j, e, time, type, emis, n, k), Guarded(e, time, type, emis, n, k),
           NEW key \in LateKeys, NEW i \in 1..(8 + n), Hit(j, key, i)
    PROVE  i = 5 + n /\ EndsWithKey(e, key, n)
<1>1. key \notin {"Q", "motive", ":", ",", "B"} BY DEF LateKeys
<1>2. j[i] = "Q" /\ j[i + 1] = key /\ j[i + 2] = "Q" BY DEF Hit
<1>3. \A m \in 1..n : j[6 + m] = e[m] BY DEF Laid
<1>4. \A m \in 1..n : e[m] = "Q" => e[m - 1] = "B" BY DEF Guarded
<1>5. CASE i \in 1..5
  <2>1. j[1] = "{" /\ j[3] = "motive" /\ j[5] = ":" BY DEF Laid
  <2>2. i # 1 /\ i # 3 /\ i # 5 BY <1>2, <2>1
  <2>3. i # 2
    <3>1. i = 2 => i + 1 = 3 OBVIOUS
    <3>. QED BY <1>1, <1>2, <2>1, <3>1
  <2>4. i # 4
    <3>1. i = 4 => i + 1 = 5 OBVIOUS
    <3>. QED BY <1>1, <1>2, <2>1, <3>1
  <2>. QED BY <1>5, <2>2, <2>3, <2>4
<1>6. CASE i \in 6..(6 + n)
  <2>1. PICK m \in 0..n : i = 6 + m
    <3>1. i - 6 \in 0..n /\ i = 6 + (i - 6) BY <1>6
    <3>. QED BY <3>1
  <2>2. m # n
    <3>1. m = n => i + 1 = 7 + n BY <2>1
    <3>2. j[7 + n] = "Q" BY DEF Laid
    <3>. QED BY <1>1, <1>2, <3>1, <3>2
  <2>3. m + 1 \in 1..n /\ i + 1 = 6 + (m + 1) /\ i + 2 = 6 + (m + 2) BY <2>1, <2>2
  <2>4. e[m + 1] = key BY <1>2, <1>3, <2>3
  <2>5. m + 1 = n
    <3>1. SUFFICES ASSUME m + 1 # n PROVE FALSE OBVIOUS
    <3>2. m + 2 \in 1..n /\ (m + 2) - 1 = m + 1 BY <2>3, <3>1
    <3>3. e[m + 2] = "Q" BY <1>2, <1>3, <2>3, <3>2
    <3>4. e[m + 1] = "B" BY <1>4, <3>2, <3>3
    <3>. QED BY <1>1, <2>4, <3>4
  <2>6. i = 5 + n /\ n >= 1 /\ e[n] = key BY <2>1, <2>3, <2>4, <2>5
  <2>7. n = 1 \/ e[n - 1] = "Q"
    <3>1. SUFFICES ASSUME n # 1 PROVE e[n - 1] = "Q" OBVIOUS
    <3>2. n - 1 \in 1..n /\ 6 + (n - 1) = i BY <2>6, <3>1
    <3>. QED BY <1>2, <1>3, <3>2
  <2>. QED BY <2>6, <2>7 DEF EndsWithKey
<1>7. CASE i = 7 + n
  <2>1. i + 1 = 8 + n BY <1>7
  <2>2. j[8 + n] = "," BY DEF Laid
  <2>. QED BY <1>1, <1>2, <2>1, <2>2
<1>8. CASE i = 8 + n
  <2>1. j[8 + n] = "," BY DEF Laid
  <2>. QED BY <1>2, <1>8, <2>1
<1>. QED BY <1>5, <1>6, <1>7, <1>8

\* The place of each of these keys, and what stands between them.
Place(key, n, k) ==
    CASE key = "timestamp" -> 9 + n
      [] key = "type" -> 15 + n
      [] key = "tpEmis" -> 22 + n + k

\* The places, spelled out.
LEMMA PlaceIs ==
    \A n, k : /\ Place("timestamp", n, k) = 9 + n
              /\ Place("type", n, k) = 15 + n
              /\ Place("tpEmis", n, k) = 22 + n + k
BY DEF Place

\* Behind the text, a key stands at its place only.
LEMMA LateHit ==
    ASSUME NEW j, NEW e, NEW time, NEW type, NEW emis, NEW n \in Nat, NEW k \in Nat,
           Laid(j, e, time, type, emis, n, k), Guarded(e, time, type, emis, n, k),
           NEW key \in LateKeys, NEW i \in (9 + n)..(Place(key, n, k) - 1)
    PROVE  ~Hit(j, key, i)
<1>1. SUFFICES ASSUME j[i] = "Q", j[i + 1] = key PROVE FALSE BY DEF Hit
<1>2. key \in {"timestamp", "type", "tpEmis"} /\ key \notin {"Q", ":", ","} BY DEF LateKeys
<1>3. CASE key = "timestamp"
  <2>1. i \in (9 + n)..(9 + n - 1) BY <1>3, PlaceIs
  <2>. QED BY <2>1
<1>4. CASE key \in {"type", "tpEmis"} /\ i \in (9 + n)..(14 + n)
  <2>1. /\ j[10 + n] = "timestamp" /\ j[12 + n] = ":" /\ j[13 + n] = time /\ j[14 + n] = ","
        /\ time # "Q"
    BY DEF Laid, Guarded
  <2>2. i # 10 + n /\ i # 12 + n /\ i # 13 + n /\ i # 14 + n BY <1>1, <2>1
  <2>3. i # 9 + n
    <3>1. i = 9 + n => i + 1 = 10 + n OBVIOUS
    <3>. QED BY <1>1, <1>4, <2>1, <3>1
  <2>4. i # 11 + n
    <3>1. i = 11 + n => i + 1 = 12 + n OBVIOUS
    <3>. QED BY <1>1, <1>2, <2>1, <3>1
  <2>. QED BY <1>4, <2>2, <2>3, <2>4
<1>5. CASE key = "type" /\ i \notin (9 + n)..(14 + n)
  <2>1. i \in (9 + n)..(15 + n - 1) BY <1>5, PlaceIs
  <2>. QED BY <2>1, <1>5
<1>6. CASE key = "tpEmis" /\ i \notin (9 + n)..(14 + n)
  <2>1. i \in (9 + n)..(22 + n + k - 1) BY <1>6, PlaceIs
  <2>2. k \in {0, 1} BY DEF Guarded
  <2>3. i \in (15 + n)..(21 + n + k) BY <1>6, <2>1, <2>2
  <2>4. /\ j[16 + n] = "type" /\ j[18 + n] = ":" /\ j[20 + n + k] = "Q" /\ j[21 + n + k] = ","
    BY DEF Laid
  <2>5. i # 16 + n /\ i # 18 + n /\ i # 21 + n + k BY <1>1, <2>4
  <2>6. i # 15 + n
    <3>1. i = 15 + n => i + 1 = 16 + n OBVIOUS
    <3>. QED BY <1>1, <1>6, <2>4, <3>1
  <2>7. i # 17 + n
    <3>1. i = 17 + n => i + 1 = 18 + n OBVIOUS
    <3>. QED BY <1>1, <1>2, <2>4, <3>1
  <2>8. i # 20 + n + k
    <3>1. i = 20 + n + k => i + 1 = 21 + n + k OBVIOUS
    <3>. QED BY <1>1, <1>2, <2>4, <3>1
  <2>9. CASE k = 0
    <3>1. i = 19 + n => i + 1 = 20 + n + k BY <2>9
    <3>2. i # 19 + n BY <1>1, <1>2, <2>4, <3>1
    <3>. QED BY <2>3, <2>5, <2>6, <2>7, <2>8, <2>9, <3>2
  <2>10. CASE k = 1
    <3>1. 1 \in 1..k BY <2>10
    <3>2. j[19 + n + 1] = type[1] /\ type[1] \notin {"Q", "tpEmis"} BY <3>1 DEF Laid, Guarded
    <3>3. j[20 + n] \notin {"Q", "tpEmis"}
      <4>1. 19 + n + 1 = 20 + n OBVIOUS
      <4>. QED BY <3>2, <4>1
    <3>4. i = 19 + n => i + 1 = 20 + n OBVIOUS
    <3>5. i # 19 + n /\ i # 20 + n BY <1>1, <1>6, <3>3, <3>4
    <3>. QED BY <2>3, <2>5, <2>6, <2>7, <2>8, <2>10, <3>5
  <2>. QED BY <2>2, <2>9, <2>10
<1>. QED BY <1>2, <1>3, <1>4, <1>5, <1>6

\* What is read after one of these keys: what follows the key at its place,
\* or nothing, which is so only if the text ends with the key.
LEMMA LateKeyIsFound ==
    ASSUME NEW j, NEW e, NEW time, NEW type, NEW emis, NEW n \in Nat, NEW k \in Nat,
           Laid(j, e, time, type, emis, n, k), Guarded(e, time, type, emis, n, k),
           NEW key \in LateKeys
    PROVE  \/ AfterKey(j, key) = <<>> /\ EndsWithKey(e, key, n)
           \/ Follows(AfterKey(j, key), j, Place(key, n, k))
<1>1. j \in Seq(Written) /\ Len(j) = 27 + n + k BY DEF Laid
<1>2. CASE Hit(j, key, 5 + n)
  <2>1. \A i \in 1..(5 + n - 1) : i \in 1..(8 + n) /\ i # 5 + n OBVIOUS
  <2>2. \A i \in 1..(5 + n - 1) : ~Hit(j, key, i) BY <2>1, EarlyHit
  <2>3. EndsWithKey(e, key, n)
    <3>1. 5 + n \in 1..(8 + n) OBVIOUS
    <3>. QED BY <1>2, <3>1, EarlyHit
  <2>4. j[5 + n + 3] # ":" /\ j[5 + n + 3] \notin White
    <3>1. 5 + n + 3 = 8 + n OBVIOUS
    <3>2. j[8 + n] = "," BY DEF Laid
    <3>. QED BY <3>1, <3>2 DEF White
  <2>5. 5 + n \in Nat /\ 5 + n >= 1 /\ 5 + n + 3 <= Len(j) BY <1>1
  <2>6. AfterKey(j, key) = <<>> BY <1>1, <1>2, <2>2, <2>4, <2>5, AfterNoColon
  <2>. QED BY <2>3, <2>6
<1>3. CASE ~Hit(j, key, 5 + n)
  <2> DEFINE p == Place(key, n, k)
  <2>1. /\ p \in Nat /\ p >= 9 + n /\ p + 4 <= Len(j)
        /\ Hit(j, key, p) /\ j[p + 3] = ":" /\ j[p + 4] \notin White
    <3>1. CASE key = "timestamp"
      <4>1. p = 9 + n BY <3>1, PlaceIs
      <4>2. /\ j[9 + n] = "Q" /\ j[10 + n] = "timestamp" /\ j[11 + n] = "Q"
            /\ j[12 + n] = ":" /\ j[13 + n] = time /\ time \notin White
        BY DEF Laid, Guarded
      <4>3. p + 1 = 10 + n /\ p + 2 = 11 + n /\ p + 3 = 12 + n /\ p + 4 = 13 + n BY <4>1
      <4>4. Hit(j, key, p) /\ j[p + 3] = ":" /\ j[p + 4] \notin White BY <3>1, <4>1, <4>2, <4>3 DEF Hit
      <4>. QED BY <1>1, <4>1, <4>4
    <3>2. CASE key = "type"
      <4>1. p = 15 + n BY <3>2, PlaceIs
      <4>2. /\ j[15 + n] = "Q" /\ j[16 + n] = "type" /\ j[17 + n] = "Q"
            /\ j[18 + n] = ":" /\ j[19 + n] = "Q"
        BY DEF Laid
      <4>3. p + 1 = 16 + n /\ p + 2 = 17 + n /\ p + 3 = 18 + n /\ p + 4 = 19 + n BY <4>1
      <4>4. Hit(j, key, p) /\ j[p + 3] = ":" /\ j[p + 4] \notin White
        BY <3>2, <4>1, <4>2, <4>3 DEF Hit, White
      <4>. QED BY <1>1, <4>1, <4>4
    <3>3. CASE key = "tpEmis"
      <4>1. p = 22 + n + k BY <3>3, PlaceIs
      <4>2. /\ j[22 + n + k] = "Q" /\ j[23 + n + k] = "tpEmis" /\ j[24 + n + k] = "Q"
            /\ j[25 + n + k] = ":" /\ j[26 + n + k] = emis /\ emis \notin White
        BY DEF Laid, Guarded
      <4>3. /\ p + 1 = 23 + n + k /\ p + 2 = 24 + n + k /\ p + 3 = 25 + n + k
            /\ p + 4 = 26 + n + k
        BY <4>1
      <4>4. Hit(j, key, p) /\ j[p + 3] = ":" /\ j[p + 4] \notin White BY <3>3, <4>1, <4>2, <4>3 DEF Hit
      <4>. QED BY <1>1, <4>1, <4>4
    <3>. QED BY <3>1, <3>2, <3>3 DEF LateKeys
  <2>2. ASSUME NEW i \in 1..(p - 1) PROVE ~Hit(j, key, i)
    <3>1. CASE i \in 1..(8 + n) BY <1>3, <3>1, EarlyHit
    <3>2. CASE i \in (9 + n)..(p - 1) BY <3>2, LateHit
    <3>3. i \in 1..(8 + n) \/ i \in (9 + n)..(p - 1)
      <4> HIDE DEF p
      <4>. QED BY <2>1
    <3>. QED BY <3>1, <3>2, <3>3
  <2> HIDE DEF p
  <2>3. p >= 1 BY <2>1
  <2>4. Follows(AfterKey(j, key), j, p) BY <1>1, <2>1, <2>2, <2>3, AfterColon
  <2>. QED BY <2>4 DEF p
<1>. QED BY <1>2, <1>3

\* What is read after the first key is the text and all that follows it.
LEMMA MotiveIsFound ==
    ASSUME NEW j, NEW e, NEW time, NEW type, NEW emis, NEW n \in Nat, NEW k \in Nat,
           Laid(j, e, time, type, emis, n, k)
    PROVE  Follows(AfterKey(j, "motive"), j, 2)
<1>1. j \in Seq(Written) /\ Len(j) = 27 + n + k BY DEF Laid
<1>2. /\ j[1] = "{" /\ j[2] = "Q" /\ j[3] = "motive" /\ j[4] = "Q" /\ j[5] = ":"
      /\ j[6] = "Q"
  BY DEF Laid
<1>3. /\ 2 + 1 = 3 /\ 2 + 2 = 4 /\ 2 + 3 = 5 /\ 2 + 4 = 6
      /\ 2 \in Nat /\ 2 >= 1 /\ 2 + 4 <= Len(j)
  BY <1>1
<1>4. Hit(j, "motive", 2) /\ j[2 + 3] = ":" /\ j[2 + 4] \notin White
  BY <1>2, <1>3 DEF Hit, White
<1>5. \A i \in 1..(2 - 1) : ~Hit(j, "motive", i)
  <2>1. \A i \in 1..(2 - 1) : i = 1 OBVIOUS
  <2>. QED BY <1>2, <2>1 DEF Hit
<1>. QED BY <1>1, <1>3, <1>4, <1>5, AfterColon
-----------------------------------------------------------------------------
(***************************************************************************)
(* Taking the value.                                                       *)
(***************************************************************************)
\* A string ends at the first quote after the one that opens it.
LEMMA StringRead ==
    ASSUME NEW j, NEW key, NEW a \in Seq(Written), a = AfterKey(j, key),
           NEW f \in 2..Len(a), a[1] = "Q", a[f] = "Q", \A i \in 2..(f - 1) : a[i] # "Q"
    PROVE  /\ extract_json_string(j, key) = SubSeq(a, 2, f - 1)
           /\ extract_json_string(j, key) \in Seq(Written)
           /\ Len(extract_json_string(j, key)) = f - 2
           /\ \A i \in 1..(f - 2) : extract_json_string(j, key)[i] = a[1 + i]
<1> DEFINE ends == {i \in 2..Len(a) : a[i] = "Q"}
           x == SubSeq(a, 2, f - 1)
<1>1. Len(a) \in Nat /\ f \in Nat OBVIOUS
<1>2. ends \in SUBSET Nat /\ f \in ends BY <1>1
<1>3. \A i \in ends : f <= i BY <1>1
<1>4. First(ends) = f /\ ends # {}
  <2> HIDE DEF ends
  <2>. QED BY <1>2, <1>3, FirstIs
<1>5. a # <<>> BY <1>1
<1>6. extract_json_string(j, key) =
        IF a # <<>> /\ a[1] = "Q" /\ ends # {} THEN SubSeq(a, 2, First(ends) - 1) ELSE <<None>>
  BY Zenon DEF extract_json_string
<1> HIDE DEF ends
<1>7. extract_json_string(j, key) = x BY <1>4, <1>5, <1>6
<1>8. \A i \in 2..(f - 1) : a[i] \in Written BY <1>1
<1>9. /\ SubSeq(a, 2, f - 1) \in Seq(Written)
      /\ Len(SubSeq(a, 2, f - 1)) = IF 2 <= f - 1 THEN f - 1 - 2 + 1 ELSE 0
      /\ \A i \in 1..(f - 1 - 2 + 1) : SubSeq(a, 2, f - 1)[i] = a[2 + i - 1]
  <2>1. 2 \in Int /\ f - 1 \in Int BY <1>1
  <2>. QED BY <1>8, <2>1, SubSeqProperties
<1> HIDE DEF x
<1>10. (IF 2 <= f - 1 THEN f - 1 - 2 + 1 ELSE 0) = f - 2 BY <1>1
<1>11. \A i \in 1..(f - 2) : i \in 1..(f - 1 - 2 + 1) /\ 2 + i - 1 = 1 + i BY <1>1
<1>12. x \in Seq(Written) /\ Len(x) = f - 2 BY <1>9, <1>10 DEF x
<1>13. \A i \in 1..(f - 2) : x[i] = a[1 + i] BY <1>9, <1>11 DEF x
<1>14. extract_json_string(j, key) = SubSeq(a, 2, f - 1) BY <1>7 DEF x
<1>. QED BY <1>7, <1>12, <1>13, <1>14

\* There is nothing to take where nothing follows the key.
LEMMA NothingRead ==
    ASSUME NEW j, NEW key, AfterKey(j, key) = <<>>
    PROVE  extract_json_string(j, key) = <<None>> /\ extract_json_number(j, key) = None
BY DEF extract_json_string, extract_json_number

\* Numbers are told apart by how they are written.
LEMMA NumberRead ==
    ASSUME NEW j, NEW key, NEW a, a = AfterKey(j, key), a # <<>>,
           NEW number \in Numbers, a[1] = Decimal[number]
    PROVE  extract_json_number(j, key) = number
<1>1. \A m \in Numbers : Decimal[m] = Decimal[number] => m = number BY DecimalAssumption
<1>2. extract_json_number(j, key) =
        LET rest == AfterKey(j, key)
        IN  IF rest # <<>> /\ rest[1] \in {Decimal[n] : n \in Numbers}
            THEN CHOOSE n \in Numbers : Decimal[n] = rest[1] ELSE None
  BY Zenon DEF extract_json_number
<1>3. (CHOOSE n \in Numbers : Decimal[n] = a[1]) = number BY <1>1
<1>. QED BY <1>2, <1>3

\* The motive that is read is the text up to its first quote, which has a
\* backslash before it.
IsMotive(x, e, n) ==
    \E f \in 0..n : /\ x \in Seq(Written) /\ Len(x) = f /\ \A i \in 1..f : x[i] = e[i]
                    /\ f = n \/ (f >= 1 /\ e[f] = "B" /\ e[f + 1] = "Q")

\* Such a text is read from a line that is laid out so.
LEMMA MotiveIsRead ==
    ASSUME NEW j, NEW e, NEW time, NEW type, NEW emis, NEW n \in Nat, NEW k \in Nat,
           Laid(j, e, time, type, emis, n, k), Guarded(e, time, type, emis, n, k)
    PROVE  IsMotive(extract_json_string(j, "motive"), e, n)
<1> DEFINE a == AfterKey(j, "motive")
           quotes == {i \in 2..(n + 2) : a[i] = "Q"}
           q == First(quotes)
<1>1. a = AfterKey(j, "motive") OBVIOUS
<1>2. Follows(a, j, 2) BY MotiveIsFound
<1>3. Len(j) = 27 + n + k /\ j[6] = "Q" /\ j[7 + n] = "Q" /\ \A i \in 1..n : j[6 + i] = e[i]
  BY DEF Laid
<1> HIDE DEF a
<1>4. a \in Seq(Written) /\ Len(a) = 22 + n + k /\ \A i \in 1..(22 + n + k) : a[i] = j[5 + i]
  <2>1. Len(j) - 2 - 3 = 22 + n + k /\ \A i \in 1..(22 + n + k) : 2 + 3 + i = 5 + i BY <1>3
  <2>. QED BY <1>2, <2>1 DEF Follows
<1>5. a[1] = "Q" /\ a[n + 2] = "Q" /\ \A i \in 1..n : a[1 + i] = e[i]
  <2>1. 1 \in 1..(22 + n + k) /\ 5 + 1 = 6 OBVIOUS
  <2>2. n + 2 \in 1..(22 + n + k) /\ 5 + (n + 2) = 7 + n OBVIOUS
  <2>3. \A i \in 1..n : 1 + i \in 1..(22 + n + k) /\ 5 + (1 + i) = 6 + i OBVIOUS
  <2>4. a[1] = "Q" BY <1>3, <1>4, <2>1
  <2>5. a[n + 2] = "Q" BY <1>3, <1>4, <2>2
  <2>6. \A i \in 1..n : a[1 + i] = e[i] BY <1>3, <1>4, <2>3
  <2>. QED BY <2>4, <2>5, <2>6
<1>6. quotes \in SUBSET Nat /\ n + 2 \in quotes BY <1>5
<1>7. q \in quotes /\ \A i \in quotes : q <= i
  <2> HIDE DEF quotes
  <2>. QED BY <1>6, FirstIsLeast
<1> HIDE DEF q
<1>8. q \in 2..(n + 2) /\ a[q] = "Q" BY <1>7
<1>9. \A i \in 2..(q - 1) : a[i] # "Q"
  <2>1. SUFFICES ASSUME NEW i \in 2..(q - 1), a[i] = "Q" PROVE FALSE OBVIOUS
  <2>2. i \in quotes /\ ~(q <= i) BY <1>8, <2>1
  <2>. QED BY <1>7, <2>2
<1> HIDE DEF quotes
<1>10. q \in 2..Len(a) BY <1>4, <1>8
<1> DEFINE x == extract_json_string(j, "motive")
<1>11. x \in Seq(Written) /\ Len(x) = q - 2 /\ \A i \in 1..(q - 2) : x[i] = a[1 + i]
  <2>1. /\ extract_json_string(j, "motive") \in Seq(Written)
        /\ Len(extract_json_string(j, "motive")) = q - 2
        /\ \A i \in 1..(q - 2) : extract_json_string(j, "motive")[i] = a[1 + i]
    <3>1. a \in Seq(Written) /\ a = AfterKey(j, "motive") /\ a[1] = "Q" /\ a[q] = "Q"
      BY <1>1, <1>4, <1>5, <1>8
    <3>. QED BY <3>1, <1>9, <1>10, StringRead
  <2>. QED BY <2>1
<1> HIDE DEF x
<1>12. q - 2 \in 0..n /\ 1..(q - 2) \subseteq 1..n BY <1>8
<1>13. \A i \in 1..(q - 2) : x[i] = e[i] BY <1>5, <1>11, <1>12
<1>14. q - 2 = n \/ (q - 2 >= 1 /\ e[q - 2] = "B" /\ e[q - 2 + 1] = "Q")
  <2>1. SUFFICES ASSUME q - 2 # n PROVE q - 2 >= 1 /\ e[q - 2] = "B" /\ e[q - 2 + 1] = "Q"
    OBVIOUS
  <2>2. q - 1 \in 1..n /\ 1 + (q - 1) = q /\ (q - 1) - 1 = q - 2 /\ q - 2 + 1 = q - 1
    BY <1>8, <2>1
  <2>3. e[q - 1] = "Q" BY <1>5, <1>8, <2>2
  <2>4. (q - 1) - 1 \in 1..n /\ e[(q - 1) - 1] = "B" BY <2>2, <2>3 DEF Guarded
  <2>. QED BY <2>2, <2>3, <2>4
<1>15. IsMotive(x, e, n) BY <1>11, <1>12, <1>13, <1>14 DEF IsMotive
<1>. QED BY <1>15 DEF x

\* The type that is read is the one that was written.
LEMMA TypeIsRead ==
    ASSUME NEW j, NEW e, NEW time, NEW type, NEW emis, NEW n \in Nat, NEW k \in Nat,
           Laid(j, e, time, type, emis, n, k), Guarded(e, time, type, emis, n, k),
           type \in Seq(Written), k = Len(type),
           Follows(AfterKey(j, "type"), j, Place("type", n, k))
    PROVE  extract_json_string(j, "type") = type
<1> DEFINE a == AfterKey(j, "type")
           x == extract_json_string(j, "type")
<1>1. /\ Len(j) = 27 + n + k /\ j[19 + n] = "Q" /\ j[20 + n + k] = "Q"
      /\ \A i \in 1..k : j[19 + n + i] = type[i]
  BY DEF Laid
<1>2. \A i \in 1..k : type[i] # "Q" BY DEF Guarded
<1>3. a \in Seq(Written) /\ Len(a) = 9 + k /\ \A i \in 1..(9 + k) : a[i] = j[18 + n + i]
  <2> HIDE DEF a
  <2>1. Follows(a, j, 15 + n) BY PlaceIs DEF a
  <2>2. Len(j) - (15 + n) - 3 = 9 + k /\ \A i \in 1..(9 + k) : 15 + n + 3 + i = 18 + n + i
    BY <1>1
  <2>. QED BY <2>1, <2>2 DEF Follows
<1> HIDE DEF a
<1>4. a[1] = "Q" /\ a[k + 2] = "Q" /\ \A i \in 1..k : a[1 + i] = type[i]
  <2>1. 1 \in 1..(9 + k) /\ 18 + n + 1 = 19 + n OBVIOUS
  <2>2. k + 2 \in 1..(9 + k) /\ 18 + n + (k + 2) = 20 + n + k OBVIOUS
  <2>3. \A i \in 1..k : 1 + i \in 1..(9 + k) /\ 18 + n + (1 + i) = 19 + n + i OBVIOUS
  <2>4. a[1] = "Q" BY <1>1, <1>3, <2>1
  <2>5. a[k + 2] = "Q" BY <1>1, <1>3, <2>2
  <2>6. \A i \in 1..k : a[1 + i] = type[i] BY <1>1, <1>3, <2>3
  <2>. QED BY <2>4, <2>5, <2>6
<1>5. k + 2 \in 2..Len(a) BY <1>3
<1>6. \A i \in 2..(k + 2 - 1) : a[i] # "Q"
  <2>1. \A i \in 2..(k + 2 - 1) : i - 1 \in 1..k /\ 1 + (i - 1) = i OBVIOUS
  <2>2. SUFFICES ASSUME NEW i \in 2..(k + 2 - 1) PROVE a[i] # "Q" OBVIOUS
  <2>3. a[1 + (i - 1)] = type[i - 1] /\ type[i - 1] # "Q" BY <1>2, <1>4, <2>1
  <2>. QED BY <2>1, <2>3
<1>7. x \in Seq(Written) /\ Len(x) = k + 2 - 2 /\ \A i \in 1..(k + 2 - 2) : x[i] = a[1 + i]
  BY <1>3, <1>4, <1>5, <1>6, StringRead DEF a
<1> HIDE DEF x
<1>8. k + 2 - 2 = k OBVIOUS
<1>9. Len(x) = Len(type) /\ \A i \in 1..Len(x) : x[i] = type[i] BY <1>4, <1>7, <1>8
<1>10. x = type BY <1>7, <1>9, SeqEqual
<1>. QED BY <1>10 DEF x

\* So are the numbers.
LEMMA NumbersAreRead ==
    ASSUME NEW j, NEW e, NEW time \in Numbers, NEW type, NEW emis \in Numbers,
           NEW n \in Nat, NEW k \in Nat,
           Laid(j, e, Decimal[time], type, Decimal[emis], n, k)
    PROVE  /\ Follows(AfterKey(j, "timestamp"), j, Place("timestamp", n, k)) =>
                extract_json_number(j, "timestamp") = time
           /\ Follows(AfterKey(j, "tpEmis"), j, Place("tpEmis", n, k)) =>
                extract_json_number(j, "tpEmis") = emis
<1>1. Len(j) = 27 + n + k /\ j[13 + n] = Decimal[time] /\ j[26 + n + k] = Decimal[emis]
  BY DEF Laid
<1>2. ASSUME Follows(AfterKey(j, "timestamp"), j, Place("timestamp", n, k))
      PROVE  extract_json_number(j, "timestamp") = time
  <2> DEFINE a == AfterKey(j, "timestamp")
  <2> HIDE DEF a
  <2>1. Follows(a, j, 9 + n) BY <1>2, PlaceIs DEF a
  <2>2. /\ Len(j) - (9 + n) - 3 = 15 + k /\ 1 \in 1..(15 + k) /\ 9 + n + 3 + 1 = 13 + n
        /\ 15 + k # 0
    BY <1>1
  <2>3. Len(a) = 15 + k /\ a[1] = Decimal[time] BY <1>1, <2>1, <2>2 DEF Follows
  <2>4. a # <<>> BY <2>2, <2>3
  <2>. QED BY <2>3, <2>4, NumberRead DEF a
<1>3. ASSUME Follows(AfterKey(j, "tpEmis"), j, Place("tpEmis", n, k))
      PROVE  extract_json_number(j, "tpEmis") = emis
  <2> DEFINE a == AfterKey(j, "tpEmis")
  <2> HIDE DEF a
  <2>1. Follows(a, j, 22 + n + k) BY <1>3, PlaceIs DEF a
  <2>2. /\ Len(j) - (22 + n + k) - 3 = 2 /\ 1 \in 1..2 /\ 22 + n + k + 3 + 1 = 26 + n + k
    BY <1>1
  <2>3. Len(a) = 2 /\ a[1] = Decimal[emis] BY <1>1, <2>1, <2>2 DEF Follows
  <2>4. Len(<<>>) = 0 /\ 2 # 0 OBVIOUS
  <2>5. a # <<>> BY <2>3, <2>4, Zenon
  <2>. QED BY <2>3, <2>5, NumberRead DEF a
<1>. QED BY <1>2, <1>3
-----------------------------------------------------------------------------
(***************************************************************************)
(* Saving and loading.                                                     *)
(***************************************************************************)
\* A justification, or what was left of one by loading it: it is longer than
\* a key, or holds a backslash.
GoodReason(r) ==
    r \in Seq(Alphabet) /\ (Len(r) >= 2 \/ \E i \in 1..Len(r) : r[i] = "B")

\* What activate, deactivate and load make of a manager.
Sound(m) ==
    /\ m = [contingency_type |-> m.contingency_type, reason |-> m.reason,
            activated_at |-> m.activated_at, timestamp |-> m.timestamp]
    /\ m.contingency_type \in ContingencyType \cup {None}
    /\ m.timestamp \in 0..MaxClock
    /\ m.contingency_type = None <=> m.timestamp = 0
    /\ m.activated_at = IF m.timestamp > 0 THEN m.timestamp ELSE None
    /\ m.reason = None \/ GoodReason(m.reason)

\* Nothing in the justification is escaped.
Plain(m) == m.reason = None \/ \A i \in DOMAIN m.reason : m.reason[i] \notin Special

\* The manager, with what is left of its justification.
Reloaded(m, motive) ==
    [contingency_type |-> m.contingency_type,
     reason |-> IF motive = <<>> THEN None ELSE motive,
     activated_at |-> m.activated_at, timestamp |-> m.timestamp]

\* The text that is written for the justification, before it is escaped.
Text(m) == IF m.reason = None THEN <<>> ELSE m.reason

\* The name of the type, or nothing.
TypeName(m) ==
    IF m.contingency_type = None THEN <<>> ELSE <<to_type_str[m.contingency_type]>>

\* Nothing is loaded if a field is missing.
LEMMA LoadErr ==
    ASSUME NEW j, \/ extract_json_string(j, "type") = <<None>>
                  \/ extract_json_number(j, "timestamp") = None
                  \/ extract_json_number(j, "tpEmis") = None
    PROVE  load(j) = Err
BY DEF load

\* No two types have one name.
LEMMA TypeNames ==
    /\ \A t, u \in ContingencyType : to_type_str[t] = to_type_str[u] => t = u
    /\ \A t \in ContingencyType : to_type_str[t] \notin {"Q", "tpEmis"}
BY DEF ContingencyType, to_type_str

\* The manager is loaded if every field is there.
LEMMA LoadOk ==
    ASSUME NEW m, Sound(m), NEW j, NEW emis \in Numbers,
           extract_json_string(j, "motive") # <<None>>,
           extract_json_number(j, "timestamp") = m.timestamp,
           extract_json_string(j, "type") = TypeName(m),
           extract_json_number(j, "tpEmis") = emis
    PROVE  load(j) = Ok(Reloaded(m, extract_json_string(j, "motive")))
<1> DEFINE motive == extract_json_string(j, "motive")
           type == TypeName(m)
           known == {t \in ContingencyType : type = <<to_type_str[t]>>}
<1>1. m.timestamp \in Numbers BY DEF Sound, Numbers
<1>2. None # m.timestamp /\ None # emis BY <1>1, NoneIsNoValue
<1>3. type # <<None>>
  <2>1. CASE m.contingency_type = None
    <3>1. type = <<>> BY <2>1 DEF TypeName
    <3>. QED BY <3>1
  <2>2. CASE m.contingency_type # None
    <3>1. type = <<to_type_str[m.contingency_type]>> /\ m.contingency_type \in ContingencyType
      BY <2>2 DEF TypeName, Sound
    <3>2. to_type_str[m.contingency_type] # None BY <3>1, NoneIsNoValue
    <3>. QED BY <3>1, <3>2
  <2>. QED BY <2>1, <2>2
<1>4. CASE m.contingency_type = None
  <2>1. type = <<>> BY <1>4 DEF TypeName
  <2>2. load(j) = Ok([contingency_type |-> IF type = <<>> THEN None ELSE CHOOSE t \in known : TRUE,
                      reason |-> IF motive = <<>> THEN None ELSE motive,
                      activated_at |-> IF m.timestamp > 0 THEN m.timestamp ELSE None,
                      timestamp |-> m.timestamp])
    <3> HIDE DEF motive
    <3>. QED BY <1>2, <1>3, <2>1 DEF load, motive
  <2>. QED BY <1>4, <2>1, <2>2 DEF Reloaded, Sound
<1>5. CASE m.contingency_type # None
  <2>1. type = <<to_type_str[m.contingency_type]>> /\ m.contingency_type \in ContingencyType
    BY <1>5 DEF TypeName, Sound
  <2>2. type # <<>> /\ \A t \in ContingencyType : type = <<to_type_str[t]>> => t = m.contingency_type
    BY <2>1, TypeNames
  <2>3. m.contingency_type \in known /\ \A t \in known : t = m.contingency_type
    BY <2>1, <2>2
  <2>4. known # {} /\ (CHOOSE t \in known : TRUE) = m.contingency_type
    <3> HIDE DEF known
    <3>. QED BY <2>3
  <2>5. load(j) = Ok([contingency_type |-> IF type = <<>> THEN None ELSE CHOOSE t \in known : TRUE,
                      reason |-> IF motive = <<>> THEN None ELSE motive,
                      activated_at |-> IF m.timestamp > 0 THEN m.timestamp ELSE None,
                      timestamp |-> m.timestamp])
    <3>1. load(j) =
            LET mo == extract_json_string(j, "motive")
                ti == extract_json_number(j, "timestamp")
                ty == extract_json_string(j, "type")
                kn == {t \in ContingencyType : ty = <<to_type_str[t]>>}
            IN  IF \/ <<None>> \in {mo, ty}
                   \/ None \in {ti, extract_json_number(j, "tpEmis")}
                   \/ ty # <<>> /\ kn = {}
                THEN Err
                ELSE Ok([contingency_type |-> IF ty = <<>> THEN None ELSE CHOOSE t \in kn : TRUE,
                         reason |-> IF mo = <<>> THEN None ELSE mo,
                         activated_at |-> IF ti > 0 THEN ti ELSE None,
                         timestamp |-> ti])
      BY Zenon DEF load
    <3>2. load(j) =
            IF \/ <<None>> \in {motive, type}
               \/ None \in {m.timestamp, emis}
               \/ type # <<>> /\ known = {}
            THEN Err
            ELSE Ok([contingency_type |-> IF type = <<>> THEN None ELSE CHOOSE t \in known : TRUE,
                     reason |-> IF motive = <<>> THEN None ELSE motive,
                     activated_at |-> IF m.timestamp > 0 THEN m.timestamp ELSE None,
                     timestamp |-> m.timestamp])
      BY <3>1
    <3>3. <<None>> # motive /\ <<None>> # type /\ None # m.timestamp /\ None # emis /\ known # {}
      BY <1>2, <1>3, <2>4
    <3> HIDE DEF motive, type, known
    <3>. QED BY <3>2, <3>3
  <2>6. load(j) = Ok([contingency_type |-> m.contingency_type,
                      reason |-> IF motive = <<>> THEN None ELSE motive,
                      activated_at |-> IF m.timestamp > 0 THEN m.timestamp ELSE None,
                      timestamp |-> m.timestamp])
    <3> HIDE DEF motive, type, known
    <3>. QED BY <2>2, <2>4, <2>5
  <2>. QED BY <2>6 DEF Reloaded, Sound
<1>. QED BY <1>4, <1>5

\* What is saved is laid out as a line with the escaped text.
Saved(m, e, n, k) ==
    /\ n \in Nat /\ n = Len(e) /\ k \in Nat /\ k = Len(TypeName(m))
    /\ Text(m) \in Seq(Alphabet) /\ EscapeOf(e, Text(m), Len(Text(m)))
    /\ TypeName(m) \in Seq(Written)
    /\ m.timestamp \in Numbers /\ emission_type(m) \in Numbers
    /\ Laid(to_json(m), e, Decimal[m.timestamp], TypeName(m), Decimal[emission_type(m)], n, k)
    /\ Guarded(e, Decimal[m.timestamp], TypeName(m), Decimal[emission_type(m)], n, k)

\* Whatever the manager, it is.
LEMMA SavedIsLaid ==
    ASSUME NEW m, Sound(m)
    PROVE  Saved(m, escape_json_string(Text(m)), Len(escape_json_string(Text(m))), Len(TypeName(m)))
<1> DEFINE e == escape_json_string(Text(m))
           n == Len(e)
           type == TypeName(m)
           k == Len(type)
           time == Decimal[m.timestamp]
           emis == Decimal[emission_type(m)]
<1>1. Text(m) \in Seq(Alphabet)
  <2>1. <<>> \in Seq(Alphabet) OBVIOUS
  <2>. QED BY <2>1 DEF Text, Sound, GoodReason
<1>2. EscapeOf(e, Text(m), Len(Text(m))) BY <1>1, EscapeIs
<1>3. Alphabet \subseteq Written BY Zenon DEF Written
<1>4. e \in Seq(Written) /\ n \in Nat
  <2> HIDE DEF e
  <2>1. e \in Seq(Alphabet) BY <1>2 DEF EscapeOf
  <2>. QED BY <1>3, <2>1, SeqMonotonic
<1>5. m.timestamp \in Numbers BY DEF Sound, Numbers
<1>6. emission_type(m) \in Numbers
  <2>1. Normal \in EmissionType /\ \A t \in ContingencyType : tp_emis[t] \in EmissionType
    BY DEF Normal, EmissionType, ContingencyType, tp_emis
  <2>. QED BY <2>1 DEF emission_type, Sound, Numbers
<1>7. \A x \in Numbers : Decimal[x] \in Written BY Zenon DEF Written
<1>8. time \in Written /\ emis \in Written /\ {time, emis} \cap ({"Q"} \cup White) = {}
  BY <1>5, <1>6, <1>7, DecimalAssumption DEF White
<1>9. type \in Seq(Written) /\ k \in {0, 1} /\ \A i \in 1..k : type[i] \notin {"Q", "tpEmis"}
  <2>1. CASE m.contingency_type = None
    <3>1. type = <<>> BY <2>1 DEF TypeName
    <3>2. <<>> \in Seq(Written) /\ Len(<<>>) = 0 OBVIOUS
    <3> HIDE DEF type
    <3>. QED BY <3>1, <3>2
  <2>2. CASE m.contingency_type # None
    <3> DEFINE x == to_type_str[m.contingency_type]
    <3>1. type = <<x>> /\ m.contingency_type \in ContingencyType BY <2>2 DEF TypeName, Sound
    <3>2. x \in Written BY <3>1, Zenon DEF Written
    <3>3. x \notin {"Q", "tpEmis"} BY <3>1, TypeNames
    <3> HIDE DEF x, type
    <3>4. type \in Seq(Written) /\ Len(type) = 1 /\ type[1] = x BY <3>1, <3>2, OneToken
    <3>5. \A i \in 1..1 : i = 1 OBVIOUS
    <3>. QED BY <3>3, <3>4, <3>5
  <2>. QED BY <2>1, <2>2
<1>10. k \in Nat BY <1>9
<1>11. to_json(m) = Line(e, time, type, emis) BY Zenon DEF to_json, Line, Text, TypeName
<1>12. Laid(to_json(m), e, time, type, emis, n, k)
  <2> HIDE DEF e, time, type, emis
  <2>. QED BY <1>4, <1>8, <1>9, <1>10, <1>11, LineIsLaid
<1>13. Guarded(e, time, type, emis, n, k)
  <2> HIDE DEF e, time, type, emis, k
  <2>1. \A i \in 1..n : e[i] = "Q" => i - 1 \in 1..n /\ e[i - 1] = "B" BY <1>2 DEF EscapeOf
  <2>. QED BY <1>8, <1>9, <2>1 DEF Guarded
<1>14. Saved(m, e, n, k)
  <2>1. n = Len(e) /\ k = Len(type) OBVIOUS
  <2> HIDE DEF e, n, k
  <2>. QED BY <1>1, <1>2, <1>4, <1>5, <1>6, <1>9, <1>10, <1>12, <1>13, <2>1, Zenon DEF Saved
<1>. QED BY <1>14

\* What is left of a justification is one, or there was none; and it is what
\* it was if there was nothing to escape.
LEMMA MotiveKept ==
    ASSUME NEW m, Sound(m), NEW e, EscapeOf(e, Text(m), Len(Text(m))),
           Text(m) \in Seq(Alphabet), NEW x, IsMotive(x, e, Len(e))
    PROVE  /\ x # <<None>>
           /\ x = <<>> \/ GoodReason(x)
           /\ Plain(m) => x = Text(m)
           /\ Plain(m) => \A key : ~EndsWithKey(e, key, Len(e))
<1> DEFINE text == Text(m)
           n == Len(e)
           N == Len(text)
<1>1. /\ e \in Seq(Alphabet) /\ n >= N
      /\ (\E i \in 1..N : text[i] \in Special) => \E i \in 1..n : e[i] = "B"
      /\ (\A i \in 1..N : text[i] \notin Special) =>
             n = N /\ \A i \in 1..N : e[i] = text[i]
  BY DEF EscapeOf
<1>2. n \in Nat /\ N \in Nat /\ DOMAIN text = 1..N BY <1>1
<1>3. PICK f \in 0..n : /\ x \in Seq(Written) /\ Len(x) = f /\ \A i \in 1..f : x[i] = e[i]
                        /\ f = n \/ (f >= 1 /\ e[f] = "B" /\ e[f + 1] = "Q")
  BY DEF IsMotive
<1>4. x \in Seq(Written) /\ Len(x) = f /\ f \in Nat /\ f <= n
  <2>1. x \in Seq(Written) /\ Len(x) = f /\ f \in 0..n BY <1>3, Zenon
  <2>. QED BY <1>2, <2>1
<1>5. \A i \in 1..f : x[i] = e[i] BY <1>3, Zenon
<1>6. f = n \/ (f >= 1 /\ e[f] = "B") BY <1>3
<1>7. 1..f \subseteq 1..n BY <1>2, <1>4
<1>8. x \in Seq(Alphabet)
  <2>1. \A i \in 1..n : e[i] \in Alphabet BY <1>1
  <2>2. \A i \in 1..Len(x) : x[i] \in Alphabet BY <1>4, <1>5, <1>7, <2>1
  <2>. QED BY <1>4, <2>2
<1>9. x # <<None>>
  <2>1. SUFFICES ASSUME x = <<None>> PROVE FALSE OBVIOUS
  <2>2. Len(x) = 1 /\ x[1] = None /\ 1 \in 1..1 BY <2>1
  <2>3. x[1] \in Alphabet BY <1>8, <2>2, ElementOfSeq
  <2>4. None \in Alphabet BY <2>2, <2>3
  <2>. QED BY <2>4, NoneIsNoValue DEF Alphabet
<1>10. m.reason = None => text = <<>> BY DEF Text
<1>11. m.reason # None => text = m.reason /\ GoodReason(text) BY DEF Text, Sound
<1>12. (\A i \in DOMAIN text : text[i] \notin Special) <=> Plain(m)
  BY <1>2, <1>10, <1>11 DEF Plain
<1>13. text \in Seq(Alphabet) OBVIOUS
<1> HIDE DEF text, n, N
<1>14. x = <<>> \/ GoodReason(x)
  <2>1. CASE f # n
    <3>1. f \in 1..Len(x) /\ f \in 1..f BY <1>4, <1>6, <2>1
    <3>2. x[f] = "B" BY <1>5, <1>6, <2>1, <3>1
    <3>. QED BY <1>8, <3>1, <3>2 DEF GoodReason
  <2>2. CASE f = n /\ m.reason = None
    <3>1. N = 0 BY <1>10, <2>2 DEF N
    <3>2. \A i \in 1..N : text[i] \notin Special BY <3>1
    <3>3. Len(x) = 0 BY <1>1, <1>4, <2>2, <3>1, <3>2
    <3>. QED BY <1>8, <3>3
  <2>3. CASE f = n /\ m.reason # None
    <3>1. N >= 2 \/ \E i \in 1..N : text[i] = "B" BY <1>11, <2>3 DEF GoodReason, N
    <3>2. CASE N >= 2
      <4>1. Len(x) >= 2 BY <1>1, <1>2, <1>4, <2>3, <3>2
      <4>. QED BY <1>8, <4>1 DEF GoodReason
    <3>3. CASE \E i \in 1..N : text[i] = "B"
      <4>1. \E i \in 1..N : text[i] \in Special BY <3>3 DEF Special
      <4>2. PICK i \in 1..n : e[i] = "B" BY <1>1, <4>1
      <4>3. i \in 1..Len(x) /\ x[i] = "B" BY <1>4, <1>5, <2>3, <4>2
      <4>. QED BY <1>8, <4>3 DEF GoodReason
    <3>. QED BY <3>1, <3>2, <3>3
  <2>. QED BY <2>1, <2>2, <2>3
<1>15. ASSUME Plain(m) PROVE x = text /\ \A key : ~EndsWithKey(e, key, n)
  <2>1. \A i \in 1..N : text[i] \notin Special BY <1>2, <1>12, <1>15
  <2>2. n = N /\ \A i \in 1..N : e[i] = text[i] BY <1>1, <2>1
  <2>3. \A i \in 1..n : e[i] # "B" /\ e[i] # "Q" BY <2>1, <2>2 DEF Special
  <2>4. f = n
    <3>1. SUFFICES ASSUME f >= 1, e[f] = "B" PROVE FALSE BY <1>6
    <3>2. f \in 1..n BY <1>2, <1>4, <3>1
    <3>. QED BY <2>3, <3>1, <3>2
  <2>5. x = text
    <3>1. text \in Seq(Alphabet) /\ Len(x) = Len(text) BY <1>4, <1>13, <2>2, <2>4 DEF N
    <3>2. \A i \in 1..Len(x) : x[i] = text[i] BY <1>4, <1>5, <2>2, <2>4
    <3>. QED BY <1>8, <3>1, <3>2, SeqEqual
  <2>6. n # 1
    <3>1. CASE m.reason = None
      <4>1. N = 0 BY <1>10, <3>1 DEF N
      <4>. QED BY <2>2, <4>1
    <3>2. CASE m.reason # None
      <4>1. N >= 2 \/ \E i \in 1..N : text[i] = "B" BY <1>11, <3>2 DEF GoodReason, N
      <4>2. ~\E i \in 1..N : text[i] = "B" BY <2>1 DEF Special
      <4>. QED BY <1>2, <2>2, <4>1, <4>2
    <3>. QED BY <3>1, <3>2
  <2>7. ASSUME NEW key, EndsWithKey(e, key, n) PROVE FALSE
    <3>1. n >= 1 /\ e[n - 1] = "Q" BY <2>6, <2>7 DEF EndsWithKey
    <3>2. n - 1 \in 1..n BY <1>2, <2>6, <3>1
    <3>. QED BY <2>3, <3>1, <3>2
  <2>. QED BY <2>5, <2>7
<1>. QED BY <1>9, <1>14, <1>15 DEF text, n

\* Loading what was saved: nothing, or the manager with what is left of its
\* justification, which is all of it if there was nothing to escape.
LEMMA LoadSaved ==
    ASSUME NEW m, Sound(m)
    PROVE  /\ \/ load(to_json(m)) = Err
              \/ \E x : /\ x = <<>> \/ GoodReason(x)
                        /\ load(to_json(m)) = Ok(Reloaded(m, x))
           /\ Plain(m) => load(to_json(m)) = Ok(m)
<1> DEFINE j == to_json(m)
           time == Decimal[m.timestamp]
           emis == Decimal[emission_type(m)]
           type == TypeName(m)
           x == extract_json_string(j, "motive")
<1> DEFINE e == escape_json_string(Text(m))
           n == Len(e)
           k == Len(type)
<1>1. Saved(m, e, n, k) BY SavedIsLaid
<1> HIDE DEF e, n, k
<1>2. /\ n \in Nat /\ n = Len(e) /\ k \in Nat /\ k = Len(type)
      /\ Text(m) \in Seq(Alphabet) /\ EscapeOf(e, Text(m), Len(Text(m)))
      /\ type \in Seq(Written)
      /\ m.timestamp \in Numbers /\ emission_type(m) \in Numbers
      /\ Laid(j, e, time, type, emis, n, k)
      /\ Guarded(e, time, type, emis, n, k)
  BY <1>1, Zenon DEF Saved
<1> HIDE DEF j
<1>3. IsMotive(x, e, n) BY <1>2, MotiveIsRead
<1>4. /\ x # <<None>>
      /\ x = <<>> \/ GoodReason(x)
      /\ Plain(m) => x = Text(m)
      /\ Plain(m) => \A key : ~EndsWithKey(e, key, n)
  BY <1>2, <1>3, MotiveKept
<1>5. \A key \in LateKeys : \/ AfterKey(j, key) = <<>> /\ EndsWithKey(e, key, n)
                            \/ Follows(AfterKey(j, key), j, Place(key, n, k))
  BY <1>2, LateKeyIsFound
<1>6. "timestamp" \in LateKeys /\ "type" \in LateKeys /\ "tpEmis" \in LateKeys BY DEF LateKeys
<1>7. CASE \E key \in LateKeys : AfterKey(j, key) = <<>> /\ EndsWithKey(e, key, n)
  <2>1. PICK key \in LateKeys : AfterKey(j, key) = <<>> /\ EndsWithKey(e, key, n) BY <1>7
  <2>2. extract_json_string(j, key) = <<None>> /\ extract_json_number(j, key) = None
    BY <2>1, NothingRead
  <2>3. load(j) = Err BY <2>2, LoadErr DEF LateKeys
  <2>4. ~Plain(m) BY <1>4, <2>1
  <2>. QED BY <2>3, <2>4 DEF j
<1>8. CASE \A key \in LateKeys : Follows(AfterKey(j, key), j, Place(key, n, k))
  <2>1. extract_json_string(j, "type") = type BY <1>2, <1>6, <1>8, TypeIsRead
  <2>2. extract_json_number(j, "timestamp") = m.timestamp BY <1>2, <1>6, <1>8, NumbersAreRead
  <2>3. extract_json_number(j, "tpEmis") = emission_type(m) BY <1>2, <1>6, <1>8, NumbersAreRead
  <2>4. load(j) = Ok(Reloaded(m, x)) BY <1>2, <1>4, <2>1, <2>2, <2>3, LoadOk
  <2>5. ASSUME Plain(m) PROVE Reloaded(m, x) = m
    <3>1. x = Text(m) BY <1>4, <2>5
    <3>2. (IF x = <<>> THEN None ELSE x) = m.reason
      <4> HIDE DEF x
      <4>1. m.reason # None => m.reason # <<>>
        <5>1. Len(<<>>) = 0 /\ \A i \in 1..0 : FALSE OBVIOUS
        <5>. QED BY <5>1 DEF Sound, GoodReason
      <4>. QED BY <3>1, <4>1 DEF Text
    <3> HIDE DEF x
    <3>. QED BY <3>2 DEF Reloaded, Sound
  <2> HIDE DEF x
  <2>. QED BY <1>4, <2>4, <2>5 DEF j
<1>. QED BY <1>5, <1>7, <1>8

\* A manager that is loaded is sound.
LEMMA ReloadedSound ==
    ASSUME NEW m, Sound(m), NEW x, x = <<>> \/ GoodReason(x)
    PROVE  Sound(Reloaded(m, x))
BY DEF Sound, Reloaded
-----------------------------------------------------------------------------
(***************************************************************************)
(* The invariant.                                                          *)
(***************************************************************************)
\* A sound manager, and on disk nothing or what a sound manager wrote.
IInv ==
    /\ Sound(mgr)
    /\ clock \in 1..MaxClock
    /\ json = <<>> \/ \E m : Sound(m) /\ json = to_json(m)

\* Trimming a text leaves a text.
LEMMA TrimIs ==
    ASSUME NEW text \in Seq(Tokens)
    PROVE  trim(text) \in Seq(Tokens)
<1> DEFINE N == Len(text)
           solid == Solid(text)
           last == CHOOSE i \in solid : \A j \in solid : j <= i
           back == {k \in Nat : \E i \in solid : k = N - i}
<1>1. N \in Nat /\ DOMAIN text = 1..N /\ \A i \in 1..N : text[i] \in Tokens OBVIOUS
<1>2. solid \subseteq 1..N BY <1>1 DEF Solid
<1>3. trim(text) = IF solid = {} THEN <<>> ELSE SubSeq(text, First(solid), last)
  BY Zenon DEF trim
<1>4. CASE solid = {}
  <2>1. <<>> \in Seq(Tokens) OBVIOUS
  <2>. QED BY <1>3, <1>4, <2>1
<1>5. CASE solid # {}
  <2> HIDE DEF solid, N
  <2>1. First(solid) \in solid
    <3>1. solid \in SUBSET Nat BY <1>1, <1>2
    <3>. QED BY <1>5, <3>1, FirstIsLeast
  <2>2. back \in SUBSET Nat /\ back # {}
    <3>1. \A i \in solid : N - i \in Nat BY <1>1, <1>2
    <3>. QED BY <1>5, <3>1
  <2>3. First(back) \in back /\ \A k \in back : First(back) <= k
    <3> HIDE DEF back
    <3>. QED BY <2>2, FirstIsLeast
  <2>4. PICK i \in solid : First(back) = N - i BY <2>3
  <2>5. \A j \in solid : j <= i
    <3>1. SUFFICES ASSUME NEW j \in solid PROVE j <= i OBVIOUS
    <3>2. i \in 1..N /\ j \in 1..N BY <1>2, <2>4, <3>1
    <3>3. N - j \in back BY <1>1, <3>2
    <3>4. N - i <= N - j BY <2>3, <2>4, <3>3
    <3>. QED BY <1>1, <3>2, <3>4
  <2>6. last \in solid BY <2>5
  <2> HIDE DEF last
  <2>7. First(solid) \in Int /\ last \in Int /\ First(solid)..last \subseteq 1..N
    <3> DEFINE f == First(solid)
    <3> HIDE DEF f
    <3>1. f \in 1..N /\ last \in 1..N BY <1>2, <2>1, <2>6 DEF f
    <3>2. f \in Int /\ last \in Int /\ f..last \subseteq 1..N BY <1>1, <3>1
    <3>. QED BY <3>2 DEF f
  <2>8. \A k \in First(solid)..last : text[k] \in Tokens BY <1>1, <2>7
  <2>9. SubSeq(text, First(solid), last) \in Seq(Tokens) BY <2>7, <2>8, SubSeqProperties
  <2>. QED BY <1>3, <1>5, <2>9
<1>. QED BY <1>4, <1>5

\* Nothing is loaded where nothing was saved.
LEMMA LoadNothing == load(<<>>) = Err
<1>1. AfterKey(<<>>, "timestamp") = <<>>
  <2>1. Len(<<>>) = 0 /\ {i \in 1..(0 - 2) : Hit(<<>>, "timestamp", i)} = {} OBVIOUS
  <2>. QED BY <2>1 DEF AfterKey, Hit
<1>. QED BY <1>1, NothingRead, LoadErr

\* The new manager is sound.
LEMMA NewSound == Sound(new)
<1>1. 0 \in 0..MaxClock BY BoundsAssumption
<1>. QED BY <1>1 DEF Sound, new

\* The invariant holds at first and every step keeps it.
THEOREM Inductive == Spec => []IInv
<1>1. Init => IInv
  <2>1. 1 \in 1..MaxClock BY BoundsAssumption
  <2>. QED BY <2>1, NewSound DEF Init, IInv
<1>2. IInv /\ [Next]_vars => IInv'
  <2> SUFFICES ASSUME IInv, [Next]_vars PROVE IInv' OBVIOUS
  <2>1. CASE Tick
    <3>1. clock' \in 1..MaxClock BY <2>1, BoundsAssumption DEF Tick, IInv
    <3>. QED BY <2>1, <3>1 DEF Tick, IInv
  <2>2. CASE deactivate BY <2>2, NewSound DEF deactivate, IInv
  <2>3. CASE Save BY <2>3 DEF Save, IInv
  <2>4. CASE Restart
    <3>1. Sound(mgr')
      <4>1. CASE json = <<>>
        <5>1. load(json).err BY <4>1, LoadNothing DEF Err
        <5>. QED BY <2>4, <5>1, NewSound DEF Restart
      <4>2. CASE json # <<>>
        <5>1. PICK m : Sound(m) /\ json = to_json(m) BY <4>2 DEF IInv
        <5>2. CASE load(json) = Err
          <6>1. load(json).err BY <5>2 DEF Err
          <6>. QED BY <2>4, <6>1, NewSound DEF Restart
        <5>3. CASE load(json) # Err
          <6>1. PICK x : (x = <<>> \/ GoodReason(x)) /\ load(json) = Ok(Reloaded(m, x))
            BY <5>1, <5>3, LoadSaved
          <6>2. ~load(json).err /\ load(json).mgr = Reloaded(m, x) BY <6>1 DEF Ok
          <6>3. Sound(Reloaded(m, x)) BY <5>1, <6>1, ReloadedSound
          <6>. QED BY <2>4, <6>2, <6>3 DEF Restart
        <5>. QED BY <5>2, <5>3
      <4>. QED BY <4>1, <4>2
    <3>. QED BY <2>4, <3>1 DEF Restart, IInv
  <2>5. ASSUME NEW type \in Types, NEW reason \in Reasons, activate(type, reason)
        PROVE  IInv'
    <3>1. trim(reason) \in Seq(Alphabet)
      <4>1. reason \in Seq(Tokens) /\ Tokens \subseteq Alphabet BY ReasonsAssumption DEF Alphabet
      <4>2. trim(reason) \in Seq(Tokens) BY <4>1, TrimIs
      <4>. QED BY <4>1, <4>2, SeqMonotonic
    <3>2. Len(trim(reason)) \in Nat BY <3>1
    <3>3. Len(trim(reason)) >= 2 BY <2>5, <3>2, LengthAssumption DEF activate
    <3>4. GoodReason(trim(reason)) BY <3>1, <3>3 DEF GoodReason
    <3>5. type \in ContingencyType /\ type # None BY TypesAssumption, NoneIsNoValue
    <3>6. clock \in 1..MaxClock /\ MaxClock \in Nat BY BoundsAssumption DEF IInv
    <3>7. clock \in 0..MaxClock /\ clock # 0 /\ clock > 0 BY <3>6
    <3>8. mgr' = [contingency_type |-> type, reason |-> trim(reason),
                  activated_at |-> clock, timestamp |-> clock]
      BY <2>5 DEF activate
    <3>9. Sound(mgr') BY <3>4, <3>5, <3>7, <3>8 DEF Sound
    <3>. QED BY <2>5, <3>9 DEF activate, IInv
  <2>6. CASE UNCHANGED vars BY <2>6 DEF vars, IInv
  <2>. QED BY <2>1, <2>2, <2>3, <2>4, <2>5, <2>6 DEF Next
<1>. QED BY <1>1, <1>2, PTL DEF Spec

\* The manager and the clock hold values of their types, and no contingency
\* is active exactly when no activation time is kept.
THEOREM TypeCorrect == Spec => []TypeOK
<1>1. IInv => TypeOK BY DEF IInv, TypeOK, Sound
<1>. QED BY <1>1, Inductive, PTL

\* However a justification is worded, what is loaded from the saved line is
\* never another contingency (Contingency::to_json and Contingency::load).
THEOREM NeverAnotherContingency == Spec => []NoOtherContingency
<1>1. IInv => NoOtherContingency
  <2> SUFFICES ASSUME IInv PROVE NoOtherContingency OBVIOUS
  <2>1. Sound(mgr) BY DEF IInv
  <2>2. CASE load(to_json(mgr)) = Err
    <3>1. load(to_json(mgr)).err BY <2>2 DEF Err
    <3>. QED BY <3>1 DEF NoOtherContingency
  <2>3. CASE load(to_json(mgr)) # Err
    <3>1. PICK x : load(to_json(mgr)) = Ok(Reloaded(mgr, x)) BY <2>1, <2>3, LoadSaved
    <3>2. load(to_json(mgr)).mgr = Reloaded(mgr, x) BY <3>1 DEF Ok
    <3>3. Same(Reloaded(mgr, x), mgr) BY DEF Same, Reloaded
    <3>. QED BY <3>2, <3>3 DEF NoOtherContingency
  <2>. QED BY <2>2, <2>3
<1>. QED BY <1>1, Inductive, PTL

\* A justification with nothing to escape survives saving and loading, with
\* everything else, restart after restart.
THEOREM PlainSurvives == Spec => []PlainRoundTrip
<1>1. IInv => PlainRoundTrip
  <2> SUFFICES ASSUME IInv PROVE PlainRoundTrip OBVIOUS
  <2>1. Sound(mgr) BY DEF IInv
  <2>2. Plain(mgr) => load(to_json(mgr)) = Ok(mgr) BY <2>1, LoadSaved
  <2>. QED BY <2>2, Zenon DEF PlainRoundTrip, Plain, Special
<1>. QED BY <1>1, Inductive, PTL
=============================================================================
