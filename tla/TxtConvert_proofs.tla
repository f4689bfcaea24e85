------------------------- MODULE TxtConvert_proofs --------------------------
(***************************************************************************)
(* Proofs about the conversion of TXT files (TxtConvert): what the XML of  *)
(* an invoice says was read from the lines of that invoice, at the place   *)
(* it is written to, and the validator and the converter agree.            *)
(*                                                                         *)
(* The parser.  Its state holds records of values, lists of records and    *)
(* items made of both.  Parsers(F, V) are the states whose fields are of F *)
(* and whose values are of V; each operator of the parser leads from one   *)
(* of them to another, so the whole of a parse does, whatever V is.        *)
(* Taking for V the values read from the lines of an invoice gives         *)
(* TypeCorrect.                                                            *)
(*                                                                         *)
(* The places.  A part of an invoice (an item, a volume, a payment) starts *)
(* at a line that names it, and what says of the k-th part of a kind in    *)
(* the XML must have been read after k lines of that kind and no more.     *)
(* The readers keep the order InOrder of the lines; under it, InvoiceAt    *)
(* says after each line where the parser has put what was read so far,     *)
(* and it is kept line by line.  The XML is then followed entity by        *)
(* entity, which gives InItsGroup.                                         *)
(***************************************************************************)
EXTENDS TxtConvert, FiniteSetTheorems, FunctionTheorems, SequenceTheorems, NaturalsInduction,
        WellFoundedInduction, TLAPS

-----------------------------------------------------------------------------
(***************************************************************************)
(* The states of the parser.                                               *)
(***************************************************************************)
\* Records of some fields, with values of V.
Std(F, V) == UNION {[D -> V] : D \in SUBSET F}

\* A volume with its seals, an import declaration with its additions.
Volumes(F, V) == [own : Std(F, V), lacres : Seq(Std(F, V))]
Declarations(F, V) == [own : Std(F, V), adi : Seq(Std(F, V))]

\* What the slots and lists of an invoice hold.
Slotted(F, V) ==
    {slot \in [Slots \cup OptionalSlots -> Std(F, V) \cup {None}] : \A s \in Slots : slot[s] \in Std(F, V)}
Listed(F, V) ==
    {list \in [Lists -> Seq(Std(F, V)) \cup Seq(Volumes(F, V))] :
        \A l \in Lists : list[l] \in IF l = "volumes" THEN Seq(Volumes(F, V)) ELSE Seq(Std(F, V))}

\* What the slots, lists and single values of an item hold.
Singles(F, V) == [ItemSlots -> Std(F, V) \cup {None}]
Manifold(F, V) ==
    {many \in [ItemLists -> Seq(Std(F, V)) \cup Seq(Declarations(F, V))] :
        \A l \in ItemLists : many[l] \in IF l = "di" THEN Seq(Declarations(F, V)) ELSE Seq(Std(F, V))}
Rates(V) == [Scalars -> V \cup {None}]

\* Items, and the parser.
Items(F, V) == [prod : Std(F, V), one : Singles(F, V), many : Manifold(F, V), scalar : Rates(V)]
Layouts == {"LOCAL", "LOCAL_V12", "LOCAL_V13", "SEBRAE"}
Parsers(F, V) ==
    [base_layout : Layouts, slot : Slotted(F, V), list : Listed(F, V), cur : Items(F, V),
     items : Seq(Items(F, V)), seals : Seq(Std(F, V))]

\* A record of values, taken apart and put together.
LEMMA StdIs ==
    ASSUME NEW F, NEW V, NEW x
    PROVE  x \in Std(F, V) <=> /\ x = [f \in DOMAIN x |-> x[f]] /\ DOMAIN x \subseteq F
                               /\ \A f \in DOMAIN x : x[f] \in V
<1>1. ASSUME x \in Std(F, V)
      PROVE  x = [f \in DOMAIN x |-> x[f]] /\ DOMAIN x \subseteq F /\ \A f \in DOMAIN x : x[f] \in V
  <2>1. PICK D \in SUBSET F : x \in [D -> V] BY <1>1 DEF Std
  <2>. QED BY <2>1
<1>2. ASSUME x = [f \in DOMAIN x |-> x[f]], DOMAIN x \subseteq F, \A f \in DOMAIN x : x[f] \in V
      PROVE  x \in Std(F, V)
  <2>1. x \in [DOMAIN x -> V] BY <1>2
  <2>. QED BY <1>2, <2>1 DEF Std
<1>. QED BY <1>1, <1>2

\* The empty record is one.
LEMMA EmptyIs ==
    ASSUME NEW F, NEW V
    PROVE  Empty \in Std(F, V)
<1>1. Empty \in [{} -> V] BY DEF Empty
<1>. QED BY <1>1 DEF Std

\* Extending a record by another.
LEMMA ExtendIs ==
    ASSUME NEW F, NEW V, NEW x \in Std(F, V), NEW y \in Std(F, V)
    PROVE  Extend(x, y) \in Std(F, V)
<1>1. /\ DOMAIN x \subseteq F /\ \A f \in DOMAIN x : x[f] \in V
      /\ DOMAIN y \subseteq F /\ \A f \in DOMAIN y : y[f] \in V
  BY StdIs
<1>2. Extend(x, y) \in [DOMAIN x \cup DOMAIN y -> V] BY <1>1 DEF Extend
<1>3. DOMAIN x \cup DOMAIN y \in SUBSET F BY <1>1
<1>. QED BY <1>2, <1>3 DEF Std

\* One field of a record is a record.
LEMMA FieldIs ==
    ASSUME NEW F, NEW V, NEW x \in Std(F, V), NEW f \in DOMAIN x
    PROVE  [g \in {f} |-> x[g]] \in Std(F, V)
<1>1. DOMAIN x \subseteq F /\ x[f] \in V BY StdIs
<1>2. [g \in {f} |-> x[g]] \in [{f} -> V] BY <1>1
<1>. QED BY <1>1, <1>2 DEF Std
-----------------------------------------------------------------------------
(***************************************************************************)
(* What a line may do to the parser.                                       *)
(***************************************************************************)
\* A record is put into a slot.
LEMMA PutIs ==
    ASSUME NEW F, NEW V, NEW p \in Parsers(F, V), NEW s \in Slots \cup OptionalSlots,
           NEW x \in Std(F, V)
    PROVE  Put(p, s, x) \in Parsers(F, V)
<1>1. [p.slot EXCEPT ![s] = x] \in Slotted(F, V) BY DEF Parsers, Slotted
<1>. QED BY <1>1 DEF Parsers, Put

\* An optional slot is emptied, or filled.
LEMMA PutOptional ==
    ASSUME NEW F, NEW V, NEW p \in Parsers(F, V), NEW s \in OptionalSlots,
           NEW x \in Std(F, V) \cup {None}
    PROVE  Put(p, s, x) \in Parsers(F, V)
<1>1. s \notin Slots BY DEF Slots, OptionalSlots
<1>2. [p.slot EXCEPT ![s] = x] \in Slotted(F, V) BY <1>1 DEF Parsers, Slotted
<1>. QED BY <1>2 DEF Parsers, Put

\* A field is inserted into a slot.
LEMMA InsertIs ==
    ASSUME NEW F, NEW V, NEW p \in Parsers(F, V), NEW s \in Slots \cup OptionalSlots,
           NEW f, NEW x \in Std(F, V)
    PROVE  /\ Insert(p, s, f, x) \in Parsers(F, V)
           /\ p.slot[s] # None => Insert(p, s, f, x).slot[s] \in Std(F, V)
<1>1. p.slot[s] \in Std(F, V) \cup {None} BY DEF Parsers, Slotted
<1>2. CASE p.slot[s] = None \/ f \notin DOMAIN x
  BY <1>1, <1>2 DEF Insert
<1>3. CASE ~(p.slot[s] = None \/ f \notin DOMAIN x)
  <2> DEFINE y == [g \in {f} |-> x[g]]
             z == Extend(p.slot[s], y)
  <2>1. y \in Std(F, V) BY <1>3, FieldIs
  <2>2. z \in Std(F, V) BY <1>1, <1>3, <2>1, ExtendIs
  <2>3. Insert(p, s, f, x) = [p EXCEPT !.slot = [p.slot EXCEPT ![s] = z]] BY <1>3 DEF Insert
  <2> HIDE DEF z
  <2>4. [p.slot EXCEPT ![s] = z] \in Slotted(F, V) BY <2>2 DEF Parsers, Slotted
  <2>5. [p.slot EXCEPT ![s] = z][s] = z BY DEF Parsers, Slotted
  <2>. QED BY <2>2, <2>3, <2>4, <2>5 DEF Parsers
<1>. QED BY <1>2, <1>3

\* A list with another value.
WithList(p, l, list) == [p EXCEPT !.list[l] = list]

\* A list gets another value.
LEMMA ListIs ==
    ASSUME NEW F, NEW V, NEW p \in Parsers(F, V), NEW l \in Lists \ {"volumes"},
           NEW list \in Seq(Std(F, V))
    PROVE  WithList(p, l, list) \in Parsers(F, V)
<1>1. [p.list EXCEPT ![l] = list] \in Listed(F, V) BY DEF Parsers, Listed
<1>. QED BY <1>1 DEF Parsers, WithList

\* So does the list of volumes.
LEMMA VolumesAre ==
    ASSUME NEW F, NEW V, NEW p \in Parsers(F, V), NEW list \in Seq(Volumes(F, V))
    PROVE  WithList(p, "volumes", list) \in Parsers(F, V)
<1>1. "volumes" \in Lists BY DEF Lists
<1>2. [p.list EXCEPT !["volumes"] = list] \in Listed(F, V) BY <1>1 DEF Parsers, Listed
<1>. QED BY <1>2 DEF Parsers, WithList

\* A record is pushed onto a list.
LEMMA PushIs ==
    ASSUME NEW F, NEW V, NEW p \in Parsers(F, V), NEW l \in Lists \ {"volumes"}, NEW x \in Std(F, V)
    PROVE  Push(p, l, x) \in Parsers(F, V)
<1>1. p.list[l] \in Seq(Std(F, V)) BY DEF Parsers, Listed
<1>2. Append(p.list[l], x) \in Seq(Std(F, V)) BY <1>1
<1>3. Push(p, l, x) = WithList(p, l, Append(p.list[l], x)) BY DEF Push, WithList
<1>. QED BY <1>2, <1>3, ListIs

\* A volume is pushed onto the list of volumes.
LEMMA PushVolume ==
    ASSUME NEW F, NEW V, NEW p \in Parsers(F, V), NEW x \in Volumes(F, V)
    PROVE  Push(p, "volumes", x) \in Parsers(F, V)
<1>1. "volumes" \in Lists BY DEF Lists
<1>2. p.list["volumes"] \in Seq(Volumes(F, V)) BY <1>1 DEF Parsers, Listed
<1>3. Append(p.list["volumes"], x) \in Seq(Volumes(F, V)) BY <1>2
<1>4. Push(p, "volumes", x) = WithList(p, "volumes", Append(p.list["volumes"], x))
  BY DEF Push, WithList
<1>. QED BY <1>3, <1>4, VolumesAre

\* Only when it has the field.
LEMMA PushValueIs ==
    ASSUME NEW F, NEW V, NEW p \in Parsers(F, V), NEW l \in Lists \ {"volumes"}, NEW f,
           NEW x \in Std(F, V)
    PROVE  PushValue(p, l, f, x) \in Parsers(F, V)
BY PushIs DEF PushValue

\* A record is merged into the last of a list.
LEMMA MergeIs ==
    ASSUME NEW F, NEW V, NEW p \in Parsers(F, V), NEW l \in Lists \ {"volumes"}, NEW x \in Std(F, V)
    PROVE  MergeIntoLast(p, l, x) \in Parsers(F, V)
<1> DEFINE list == p.list[l]
           n == Len(list)
           z == Extend(list[n], x)
<1>1. list \in Seq(Std(F, V)) BY DEF Parsers, Listed
<1>2. CASE list = <<>> BY <1>2 DEF MergeIntoLast
<1>3. CASE list # <<>>
  <2>1. n \in 1..Len(list) /\ list[n] \in Std(F, V)
    <3> HIDE DEF list
    <3>. QED BY <1>1, <1>3
  <2>2. z \in Std(F, V) BY <2>1, ExtendIs
  <2>3. MergeIntoLast(p, l, x) = WithList(p, l, [list EXCEPT ![n] = z])
    BY <1>3 DEF MergeIntoLast, WithList
  <2> HIDE DEF z, n
  <2>4. [list EXCEPT ![n] = z] \in Seq(Std(F, V))
    <3> HIDE DEF list
    <3>. QED BY <1>1, <2>1, <2>2
  <2> HIDE DEF list
  <2>. QED BY <2>3, <2>4, ListIs
<1>. QED BY <1>2, <1>3

\* A record that waits is completed and pushed.
LEMMA CompleteIs ==
    ASSUME NEW F, NEW V, NEW p \in Parsers(F, V), NEW s \in OptionalSlots,
           NEW l \in Lists \ {"volumes"}, NEW f, NEW x \in Std(F, V)
    PROVE  Complete(p, s, l, f, x) \in Parsers(F, V)
<1>1. CASE p.slot[s] = None BY <1>1 DEF Complete
<1>2. CASE p.slot[s] # None
  <2> DEFINE y == Insert(p, s, f, x).slot[s]
  <2>1. y \in Std(F, V) BY <1>2, InsertIs
  <2>2. Push(p, l, y) \in Parsers(F, V)
    <3> HIDE DEF y
    <3>. QED BY <2>1, PushIs
  <2>3. Complete(p, s, l, f, x) = Put(Push(p, l, y), s, None) BY <1>2 DEF Complete
  <2> HIDE DEF y
  <2>. QED BY <2>2, <2>3, PutOptional
<1>. QED BY <1>1, <1>2

\* A value of the item being read.
LEMMA CurIs ==
    ASSUME NEW F, NEW V, NEW p \in Parsers(F, V), NEW item \in Items(F, V)
    PROVE  [p EXCEPT !.cur = item] \in Parsers(F, V)
BY DEF Parsers

\* A record of the item.
LEMMA PutItemIs ==
    ASSUME NEW F, NEW V, NEW p \in Parsers(F, V), NEW s \in ItemSlots, NEW x \in Std(F, V) \cup {None}
    PROVE  PutItem(p, s, x) \in Parsers(F, V)
<1>1. p.cur \in Items(F, V) BY DEF Parsers
<1>2. [p.cur.one EXCEPT ![s] = x] \in Singles(F, V) BY <1>1 DEF Items, Singles
<1>3. [p.cur EXCEPT !.one = [p.cur.one EXCEPT ![s] = x]] \in Items(F, V) BY <1>1, <1>2 DEF Items
<1>4. PutItem(p, s, x) = [p EXCEPT !.cur = [p.cur EXCEPT !.one = [p.cur.one EXCEPT ![s] = x]]]
  BY DEF PutItem
<1>. QED BY <1>3, <1>4, CurIs

\* An item with another list.
WithItemList(p, l, list) == [p EXCEPT !.cur.many[l] = list]

\* A list of the item gets another value.
LEMMA ItemListIs ==
    ASSUME NEW F, NEW V, NEW p \in Parsers(F, V), NEW l \in ItemLists \ {"di"},
           NEW list \in Seq(Std(F, V))
    PROVE  WithItemList(p, l, list) \in Parsers(F, V)
<1>1. p.cur \in Items(F, V) BY DEF Parsers
<1>2. [p.cur.many EXCEPT ![l] = list] \in Manifold(F, V) BY <1>1 DEF Items, Manifold
<1>3. [p.cur EXCEPT !.many = [p.cur.many EXCEPT ![l] = list]] \in Items(F, V) BY <1>1, <1>2 DEF Items
<1>4. WithItemList(p, l, list) = [p EXCEPT !.cur = [p.cur EXCEPT !.many = [p.cur.many EXCEPT ![l] = list]]]
  BY DEF WithItemList
<1>. QED BY <1>3, <1>4, CurIs

\* So does the list of import declarations.
LEMMA DeclarationsAre ==
    ASSUME NEW F, NEW V, NEW p \in Parsers(F, V), NEW list \in Seq(Declarations(F, V))
    PROVE  WithItemList(p, "di", list) \in Parsers(F, V)
<1>1. p.cur \in Items(F, V) /\ "di" \in ItemLists BY DEF Parsers, ItemLists
<1>2. [p.cur.many EXCEPT !["di"] = list] \in Manifold(F, V) BY <1>1 DEF Items, Manifold
<1>3. [p.cur EXCEPT !.many = [p.cur.many EXCEPT !["di"] = list]] \in Items(F, V) BY <1>1, <1>2 DEF Items
<1>4. WithItemList(p, "di", list) = [p EXCEPT !.cur = [p.cur EXCEPT !.many = [p.cur.many EXCEPT !["di"] = list]]]
  BY DEF WithItemList
<1>. QED BY <1>3, <1>4, CurIs

\* A record is pushed onto a list of the item.
LEMMA PushItemIs ==
    ASSUME NEW F, NEW V, NEW p \in Parsers(F, V), NEW l \in ItemLists \ {"di"}, NEW x \in Std(F, V)
    PROVE  PushItem(p, l, x) \in Parsers(F, V)
<1>1. p.cur.many[l] \in Seq(Std(F, V)) BY DEF Parsers, Items, Manifold
<1>2. Append(p.cur.many[l], x) \in Seq(Std(F, V)) BY <1>1
<1>3. PushItem(p, l, x) = WithItemList(p, l, Append(p.cur.many[l], x)) BY DEF PushItem, WithItemList
<1>. QED BY <1>2, <1>3, ItemListIs

\* So is an import declaration.
LEMMA PushDeclaration ==
    ASSUME NEW F, NEW V, NEW p \in Parsers(F, V), NEW x \in Declarations(F, V)
    PROVE  PushItem(p, "di", x) \in Parsers(F, V)
<1>1. "di" \in ItemLists BY DEF ItemLists
<1>2. p.cur.many["di"] \in Seq(Declarations(F, V)) BY <1>1 DEF Parsers, Items, Manifold
<1>3. Append(p.cur.many["di"], x) \in Seq(Declarations(F, V)) BY <1>2
<1>4. PushItem(p, "di", x) = WithItemList(p, "di", Append(p.cur.many["di"], x))
  BY DEF PushItem, WithItemList
<1>. QED BY <1>3, <1>4, DeclarationsAre

\* A record goes to the last export or the last import declaration.
LEMMA AddToLastIs ==
    ASSUME NEW F, NEW V, NEW p \in Parsers(F, V), NEW l \in {"di", "det_export"}, NEW x \in Std(F, V)
    PROVE  AddToLast(p, l, x) \in Parsers(F, V)
<1> DEFINE list == p.cur.many[l]
           n == Len(list)
<1>1. CASE list = <<>> BY <1>1 DEF AddToLast
<1>2. CASE list # <<>> /\ l = "di"
  <2> DEFINE z == [list[n] EXCEPT !.adi = Append(@, x)]
  <2>1. list \in Seq(Declarations(F, V))
    <3>1. "di" \in ItemLists BY DEF ItemLists
    <3>. QED BY <3>1, <1>2 DEF Parsers, Items, Manifold
  <2>2. AddToLast(p, l, x) = WithItemList(p, "di", [list EXCEPT ![n] = z])
    BY <1>2 DEF AddToLast, WithItemList
  <2> HIDE DEF list
  <2>3. n \in 1..Len(list) /\ list[n] \in Declarations(F, V) BY <1>2, <2>1
  <2>4. z \in Declarations(F, V)
    <3>1. list[n].adi \in Seq(Std(F, V)) BY <2>3 DEF Declarations
    <3>2. Append(list[n].adi, x) \in Seq(Std(F, V)) BY <3>1
    <3>. QED BY <2>3, <3>2 DEF Declarations
  <2> HIDE DEF z
  <2>5. [list EXCEPT ![n] = z] \in Seq(Declarations(F, V)) BY <2>1, <2>3, <2>4
  <2>. QED BY <2>2, <2>5, DeclarationsAre
<1>3. CASE list # <<>> /\ l = "det_export"
  <2> DEFINE z == Extend(list[n], x)
  <2>1. list \in Seq(Std(F, V)) /\ l \in ItemLists \ {"di"}
    <3>1. "det_export" \in ItemLists BY DEF ItemLists
    <3>. QED BY <3>1, <1>3 DEF Parsers, Items, Manifold
  <2>2. AddToLast(p, l, x) = WithItemList(p, l, [list EXCEPT ![n] = z])
    BY <1>3 DEF AddToLast, WithItemList
  <2> HIDE DEF list
  <2>3. n \in 1..Len(list) /\ list[n] \in Std(F, V) BY <1>3, <2>1
  <2>4. z \in Std(F, V) BY <2>3, ExtendIs
  <2> HIDE DEF z
  <2>5. [list EXCEPT ![n] = z] \in Seq(Std(F, V)) BY <2>1, <2>3, <2>4
  <2>. QED BY <2>1, <2>2, <2>5, ItemListIs
<1>. QED BY <1>1, <1>2, <1>3

\* What a record has under a field.
LEMMA GetIs ==
    ASSUME NEW F, NEW V, NEW x \in Std(F, V), NEW f
    PROVE  Get(x, f) \in V \cup {None}
BY StdIs DEF Get

\* Single values of the item are assigned.
LEMMA AssignIs ==
    ASSUME NEW F, NEW V, NEW p \in Parsers(F, V), NEW tax, NEW fields, NEW x \in Std(F, V)
    PROVE  Assign(p, tax, fields, x) \in Parsers(F, V)
<1> DEFINE rates == [y \in Scalars |-> IF y[1] = tax /\ y[2] \in fields THEN Get(x, y[2])
                                       ELSE p.cur.scalar[y]]
<1>1. p.cur \in Items(F, V) BY DEF Parsers
<1>2. \A y \in Scalars : p.cur.scalar[y] \in V \cup {None} BY <1>1 DEF Items, Rates
<1>3. rates \in Rates(V) BY <1>2, GetIs DEF Rates
<1>4. Assign(p, tax, fields, x) = [p EXCEPT !.cur = [p.cur EXCEPT !.scalar = rates]] BY DEF Assign
<1> HIDE DEF rates
<1>5. [p.cur EXCEPT !.scalar = rates] \in Items(F, V) BY <1>1, <1>3 DEF Items
<1>. QED BY <1>4, <1>5, CurIs
-----------------------------------------------------------------------------
(***************************************************************************)
(* The arms of the parser.                                                 *)
(***************************************************************************)
\* The seals go to the last volume, and nowhere else.
LEMMA FlushIs ==
    ASSUME NEW F, NEW V, NEW p \in Parsers(F, V)
    PROVE  flush_seals(p) \in Parsers(F, V)
<1> DEFINE list == p.list["volumes"]
           n == Len(list)
<1>1. CASE p.seals = <<>> \/ list = <<>> BY <1>1 DEF flush_seals
<1>2. CASE ~(p.seals = <<>> \/ list = <<>>)
  <2> DEFINE z == [list[n] EXCEPT !.lacres = p.seals]
             q == WithList(p, "volumes", [list EXCEPT ![n] = z])
  <2>1. list \in Seq(Volumes(F, V))
    <3>1. "volumes" \in Lists BY DEF Lists
    <3>. QED BY <3>1 DEF Parsers, Listed
  <2>2. flush_seals(p) = [q EXCEPT !.seals = <<>>] BY <1>2 DEF flush_seals, WithList
  <2> HIDE DEF list
  <2>3. n \in 1..Len(list) /\ list[n] \in Volumes(F, V) BY <1>2, <2>1
  <2>4. p.seals \in Seq(Std(F, V)) BY DEF Parsers
  <2>5. z \in Volumes(F, V) BY <2>3, <2>4 DEF Volumes
  <2> HIDE DEF z
  <2>6. [list EXCEPT ![n] = z] \in Seq(Volumes(F, V)) BY <2>1, <2>3, <2>5
  <2>7. q \in Parsers(F, V) BY <2>6, VolumesAre
  <2> HIDE DEF q
  <2>8. [q EXCEPT !.seals = <<>>] \in Parsers(F, V)
    <3>1. <<>> \in Seq(Std(F, V)) OBVIOUS
    <3>. QED BY <2>7, <3>1 DEF Parsers
  <2>. QED BY <2>2, <2>8
<1>. QED BY <1>1, <1>2

\* A new item is an item.
LEMMA ItemBuildIs ==
    ASSUME NEW F, NEW V
    PROVE  ItemBuild \in Items(F, V)
<1>1. Empty \in Std(F, V) BY EmptyIs
<1>2. [s \in ItemSlots |-> None] \in Singles(F, V) BY DEF Singles
<1>3. [l \in ItemLists |-> <<>>] \in Manifold(F, V)
  <2>1. <<>> \in Seq(Std(F, V)) /\ <<>> \in Seq(Declarations(F, V)) OBVIOUS
  <2>. QED BY <2>1 DEF Manifold
<1>4. [x \in Scalars |-> None] \in Rates(V) BY DEF Rates
<1>. QED BY <1>1, <1>2, <1>3, <1>4 DEF ItemBuild, Items

\* The item read goes to the items.
LEMMA FinalizeIs ==
    ASSUME NEW F, NEW V, NEW p \in Parsers(F, V)
    PROVE  finalize_current_item(p) \in Parsers(F, V)
<1> DEFINE q == flush_seals(p)
<1>1. CASE {"cProd", "xProd"} \cap DOMAIN p.cur.prod = {} BY <1>1 DEF finalize_current_item
<1>2. CASE {"cProd", "xProd"} \cap DOMAIN p.cur.prod # {}
  <2>1. q \in Parsers(F, V) BY FlushIs
  <2>2. finalize_current_item(p) = [q EXCEPT !.items = Append(q.items, p.cur), !.cur = ItemBuild]
    BY <1>2 DEF finalize_current_item
  <2> HIDE DEF q
  <2>3. p.cur \in Items(F, V) /\ q.items \in Seq(Items(F, V)) BY <2>1 DEF Parsers
  <2> DEFINE items == Append(q.items, p.cur)
  <2>4. items \in Seq(Items(F, V)) BY <2>3
  <2>5. ItemBuild \in Items(F, V) BY ItemBuildIs
  <2> HIDE DEF items
  <2>6. [q EXCEPT !.items = items, !.cur = ItemBuild] \in Parsers(F, V) BY <2>1, <2>4, <2>5 DEF Parsers
  <2>. QED BY <2>2, <2>6 DEF items
<1>. QED BY <1>1, <1>2

\* A new item begins.
LEMMA StartItemIs ==
    ASSUME NEW F, NEW V, NEW p \in Parsers(F, V), NEW x \in Std(F, V)
    PROVE  start_item(p, x) \in Parsers(F, V)
<1> DEFINE q == finalize_current_item(p)
           kept == {"qUnid", "vUnid", "qBCProd", "vAliqProd"}
           reset == {y \in Scalars : y[1] \in {"item", "ipi", "pis", "cofins"} /\ y[2] \notin kept}
           none == [s \in {"cest", "g_cred", "icms", "ipi_header"} |-> None]
           said == [y \in reset |-> IF y = <<"item", "infAdProd">> THEN Get(x, "infAdProd") ELSE None]
           one == Extend(q.cur.one, none)
           scalar == Extend(q.cur.scalar, said)
           item == [q.cur EXCEPT !.prod = Empty, !.one = one, !.scalar = scalar]
<1>1. q \in Parsers(F, V) BY FinalizeIs
<1>2. start_item(p, x) = [q EXCEPT !.cur = item] BY DEF start_item
<1> HIDE DEF q
<1>3. q.cur \in Items(F, V) BY <1>1 DEF Parsers
<1>4. one \in Singles(F, V)
  <2>1. q.cur.one \in [ItemSlots -> Std(F, V) \cup {None}] BY <1>3 DEF Items, Singles
  <2>2. {"cest", "g_cred", "icms", "ipi_header"} \subseteq ItemSlots BY DEF ItemSlots
  <2>. QED BY <2>1, <2>2 DEF Extend, Singles
<1>5. scalar \in Rates(V)
  <2>1. q.cur.scalar \in [Scalars -> V \cup {None}] BY <1>3 DEF Items, Rates
  <2>2. Get(x, "infAdProd") \in V \cup {None} BY GetIs
  <2>3. DOMAIN said \subseteq Scalars /\ \A y \in DOMAIN said : said[y] \in V \cup {None} BY <2>2
  <2> HIDE DEF said
  <2>. QED BY <2>1, <2>3 DEF Extend, Rates
<1> HIDE DEF one, scalar
<1>6. item \in Items(F, V) BY <1>3, <1>4, <1>5, EmptyIs DEF Items
<1> HIDE DEF item
<1>. QED BY <1>1, <1>2, <1>6, CurIs
-----------------------------------------------------------------------------
\* The entities of the ICMS.
LEMMA IcmsRefs ==
    DOMAIN Icms \cup DOMAIN IcmsSpecial =
        {"N02", "N03", "N04", "N05", "N06", "N07", "N08", "N09", "N10",
         "N10A", "N10B", "N10C", "N10D", "N10E", "N10F", "N10G", "N10H"}
BY DEF Icms, IcmsSpecial

\* The lines of the header, the document and its references.
LEMMA HeaderIs ==
    ASSUME NEW F, NEW V, NEW p \in Parsers(F, V), NEW x \in Std(F, V),
           NEW ref \in {"A", "B", "BA02", "BA03", "BA10", "BA13", "BA14", "BA19", "BA20",
                       "BB01", "BB02"}
    PROVE  read_header(p, ref, x) \in Parsers(F, V)
<1>1. /\ Put(p, "hdr", x) \in Parsers(F, V)
      /\ Put(p, "ide", x) \in Parsers(F, V)
      /\ Put(p, "nfp_pending", x) \in Parsers(F, V)
  BY PutIs DEF Slots, OptionalSlots
<1>2. /\ PushValue(p, "nf_ref", "refNFe", x) \in Parsers(F, V)
      /\ PushValue(p, "nf_ref_cte", "refCTe", x) \in Parsers(F, V)
      /\ PushValue(p, "bb02_ref_nfe", "refNFe", x) \in Parsers(F, V)
  BY PushValueIs DEF Lists
<1>3. /\ Push(p, "nf_ref_nf", x) \in Parsers(F, V)
      /\ Push(p, "nf_ref_ecf", x) \in Parsers(F, V)
  BY PushIs DEF Lists
<1>4. /\ Complete(p, "nfp_pending", "nf_ref_nf", "CNPJ", x) \in Parsers(F, V)
      /\ Complete(p, "nfp_pending", "nf_ref_nf", "CPF", x) \in Parsers(F, V)
  BY CompleteIs DEF OptionalSlots, Lists
<1>. QED BY <1>1, <1>2, <1>3, <1>4 DEF read_header

\* The lines of the parties.
LEMMA PartyIs ==
    ASSUME NEW F, NEW V, NEW p \in Parsers(F, V), NEW x \in Std(F, V),
           NEW ref \in {"C", "C02", "C02A", "C05", "E", "E02", "E03", "E03A", "E05"}
    PROVE  read_party(p, ref, x) \in Parsers(F, V)
<1>1. /\ Put(p, "emit", x) \in Parsers(F, V)
      /\ Put(p, "ender_emit", x) \in Parsers(F, V)
      /\ Put(p, "dest", x) \in Parsers(F, V)
      /\ Put(p, "ender_dest", x) \in Parsers(F, V)
  BY PutIs DEF Slots, OptionalSlots
<1>2. /\ Insert(p, "emit", "CNPJ", x) \in Parsers(F, V)
      /\ Insert(p, "emit", "CPF", x) \in Parsers(F, V)
      /\ Insert(p, "dest", "CNPJ", x) \in Parsers(F, V)
      /\ Insert(p, "dest", "CPF", x) \in Parsers(F, V)
      /\ Insert(p, "dest", "idEstrangeiro", x) \in Parsers(F, V)
  BY InsertIs DEF Slots, OptionalSlots
<1>. QED BY <1>1, <1>2 DEF read_party

\* The lines of the places and the authorized persons.
LEMMA LocalIs ==
    ASSUME NEW F, NEW V, NEW p \in Parsers(F, V), NEW x \in Std(F, V),
           NEW ref \in {"F", "F02", "F02A", "F02B", "G", "G02", "G02A", "G02B", "GA",
                       "GA02", "GA03"}
    PROVE  read_local(p, ref, x) \in Parsers(F, V)
<1>1. /\ Put(p, "retirada", x) \in Parsers(F, V)
      /\ Put(p, "entrega", x) \in Parsers(F, V)
      /\ Put(p, "aut_xml_pending", Empty) \in Parsers(F, V)
  BY PutIs, EmptyIs DEF Slots, OptionalSlots
<1>2. /\ Insert(p, "retirada", "CNPJ", x) \in Parsers(F, V)
      /\ Insert(p, "retirada", "CPF", x) \in Parsers(F, V)
      /\ Insert(p, "retirada", "xNome", x) \in Parsers(F, V)
      /\ Insert(p, "entrega", "CNPJ", x) \in Parsers(F, V)
      /\ Insert(p, "entrega", "CPF", x) \in Parsers(F, V)
      /\ Insert(p, "entrega", "xNome", x) \in Parsers(F, V)
  BY InsertIs DEF Slots, OptionalSlots
<1>3. /\ Complete(p, "aut_xml_pending", "aut_xml", "CNPJ", x) \in Parsers(F, V)
      /\ Complete(p, "aut_xml_pending", "aut_xml", "CPF", x) \in Parsers(F, V)
  BY CompleteIs DEF OptionalSlots, Lists
<1>. QED BY <1>1, <1>2, <1>3 DEF read_local

\* The lines of an item and its product.
LEMMA ProductIs ==
    ASSUME NEW F, NEW V, NEW p \in Parsers(F, V), NEW x \in Std(F, V),
           NEW ref \in {"H", "I", "I05A", "I05C", "I05G", "I18", "I25", "I50", "I52",
                       "I80", "JA", "K", "L", "LA", "LA07", "LA11", "LB"}
    PROVE  read_product(p, ref, x) \in Parsers(F, V)
<1>1. start_item(p, x) \in Parsers(F, V)
  BY StartItemIs
<1>2. /\ PutItem(p, "cest", x) \in Parsers(F, V)
      /\ PutItem(p, "g_cred", x) \in Parsers(F, V)
      /\ PutItem(p, "veic_prod", x) \in Parsers(F, V)
      /\ PutItem(p, "med", x) \in Parsers(F, V)
      /\ PutItem(p, "comb", x) \in Parsers(F, V)
      /\ PutItem(p, "comb_cide", x) \in Parsers(F, V)
      /\ PutItem(p, "encerrante", x) \in Parsers(F, V)
  BY PutItemIs DEF ItemSlots
<1>3. /\ AddToLast(p, "di", x) \in Parsers(F, V)
      /\ AddToLast(p, "det_export", x) \in Parsers(F, V)
  BY AddToLastIs
<1>4. /\ PushItem(p, "det_export", x) \in Parsers(F, V)
      /\ PushItem(p, "rastro", x) \in Parsers(F, V)
      /\ PushItem(p, "arma", x) \in Parsers(F, V)
  BY PushItemIs DEF ItemLists
<1>5. [p EXCEPT !.cur.prod = x] \in Parsers(F, V)
  <2>1. p.cur \in Items(F, V) BY DEF Parsers
  <2>2. [p.cur EXCEPT !.prod = x] \in Items(F, V) BY <2>1 DEF Items
  <2>3. [p EXCEPT !.cur.prod = x] = [p EXCEPT !.cur = [p.cur EXCEPT !.prod = x]] OBVIOUS
  <2>. QED BY <2>2, <2>3, CurIs
<1>6. PushItem(p, "nve", x) \in Parsers(F, V)
  BY PushItemIs DEF ItemLists
<1>7. PushItem(p, "di", [own |-> x, adi |-> <<>>]) \in Parsers(F, V)
  <2>1. <<>> \in Seq(Std(F, V)) OBVIOUS
  <2>2. [own |-> x, adi |-> <<>>] \in Declarations(F, V) BY <2>1 DEF Declarations
  <2>. QED BY <2>2, PushDeclaration
<1>8. PutItem(p, "recopi", x) \in Parsers(F, V) /\ PutItem(p, "recopi", None) \in Parsers(F, V)
  BY PutItemIs DEF ItemSlots
<1>. QED BY <1>1, <1>2, <1>3, <1>4, <1>5, <1>6, <1>7, <1>8 DEF read_product

\* The lines of ICMS, IPI and the lesser taxes.
LEMMA IcmsIpiIs ==
    ASSUME NEW F, NEW V, NEW p \in Parsers(F, V), NEW x \in Std(F, V),
           NEW ref \in {"M", "NA", "O", "O07", "O08", "O10", "O11", "P", "U",
                       "UA"} \cup DOMAIN Icms \cup DOMAIN IcmsSpecial
    PROVE  read_icms_ipi(p, ref, x) \in Parsers(F, V)
<1>1. /\ Assign(p, "item", {"vTotTrib"}, x) \in Parsers(F, V)
      /\ Assign(p, "ipi", {"CST", "vIPI"}, x) \in Parsers(F, V)
      /\ Assign(p, "ipi", {"CST"}, x) \in Parsers(F, V)
      /\ Assign(p, "ipi", {"vBC", "pIPI"}, x) \in Parsers(F, V)
      /\ Assign(p, "ipi", {"qUnid", "vUnid"}, x) \in Parsers(F, V)
  BY AssignIs
<1>2. /\ PutItem(p, "icms", x) \in Parsers(F, V)
      /\ PutItem(p, "icms_ufdest", x) \in Parsers(F, V)
      /\ PutItem(p, "ipi_header", x) \in Parsers(F, V)
      /\ PutItem(p, "ii", x) \in Parsers(F, V)
      /\ PutItem(p, "issqn", x) \in Parsers(F, V)
      /\ PutItem(p, "imposto_devol", x) \in Parsers(F, V)
  BY PutItemIs DEF ItemSlots
<1>. QED BY <1>1, <1>2, IcmsRefs DEF read_icms_ipi

\* The lines of PIS.
LEMMA PisIs ==
    ASSUME NEW F, NEW V, NEW p \in Parsers(F, V), NEW x \in Std(F, V),
           NEW ref \in {"Q02", "Q03", "Q04", "Q05", "Q07", "Q10", "R", "R02", "R04"}
    PROVE  read_pis(p, ref, x) \in Parsers(F, V)
<1>1. /\ Assign(p, "pis", {"CST", "vBC", "pPIS", "vPIS"}, x) \in Parsers(F, V)
      /\ Assign(p, "pis", {"CST", "vPIS", "qBCProd", "vAliqProd"}, x) \in Parsers(F, V)
      /\ Assign(p, "pis", {"CST"}, x) \in Parsers(F, V)
      /\ Assign(p, "pis", {"CST", "vPIS"}, x) \in Parsers(F, V)
      /\ Assign(p, "pis", {"vBC", "pPIS"}, x) \in Parsers(F, V)
      /\ Assign(p, "pis", {"qBCProd", "vAliqProd"}, x) \in Parsers(F, V)
      /\ Assign(p, "pis_st", {"vBC", "pPIS"}, x) \in Parsers(F, V)
      /\ Assign(p, "pis_st", {"qBCProd", "vAliqProd"} \cup ({"vPIS"} \cap DOMAIN x), x) \in Parsers(F, V)
  BY AssignIs
<1>2. PutItem(p, "pis_st", x) \in Parsers(F, V)
  BY PutItemIs DEF ItemSlots
<1>3. Assign(PutItem(p, "pis_st", x), "pis_st", {"vPIS", "vBC", "pPIS", "qBCProd", "vAliqProd"}, x) \in Parsers(F, V)
  BY <1>2, AssignIs
<1>. QED BY <1>1, <1>2, <1>3 DEF read_pis

\* The lines of COFINS.
LEMMA CofinsIs ==
    ASSUME NEW F, NEW V, NEW p \in Parsers(F, V), NEW x \in Std(F, V),
           NEW ref \in {"S02", "S03", "S04", "S05", "S07", "S09", "T", "T02", "T04"}
    PROVE  read_cofins(p, ref, x) \in Parsers(F, V)
<1>1. /\ Assign(p, "cofins", {"CST", "vBC", "pCOFINS", "vCOFINS"}, x) \in Parsers(F, V)
      /\ Assign(p, "cofins", {"CST", "vCOFINS", "qBCProd", "vAliqProd"}, x) \in Parsers(F, V)
      /\ Assign(p, "cofins", {"CST"}, x) \in Parsers(F, V)
      /\ Assign(p, "cofins", {"CST", "vCOFINS"}, x) \in Parsers(F, V)
      /\ Assign(p, "cofins", {"vBC", "pCOFINS"}, x) \in Parsers(F, V)
      /\ Assign(p, "cofins", {"qBCProd", "vAliqProd"}, x) \in Parsers(F, V)
      /\ Assign(p, "cofins_st", {"vBC", "pCOFINS"}, x) \in Parsers(F, V)
      /\ Assign(p, "cofins_st", {"qBCProd", "vAliqProd"}, x) \in Parsers(F, V)
  BY AssignIs
<1>2. PutItem(p, "cofins_st", x) \in Parsers(F, V)
  BY PutItemIs DEF ItemSlots
<1>3. Assign(PutItem(p, "cofins_st", x), "cofins_st", {"vCOFINS", "vBC", "pCOFINS", "qBCProd", "vAliqProd"}, x) \in Parsers(F, V)
  BY <1>2, AssignIs
<1>. QED BY <1>1, <1>2, <1>3 DEF read_cofins

\* The lines of the transport.
LEMMA TransportIs ==
    ASSUME NEW F, NEW V, NEW p \in Parsers(F, V), NEW x \in Std(F, V),
           NEW ref \in {"X", "X03", "X04", "X05", "X11", "X18", "X22", "X25A", "X25B",
                       "X26", "X33"}
    PROVE  read_transport(p, ref, x) \in Parsers(F, V)
<1>1. /\ Put(p, "transp", x) \in Parsers(F, V)
      /\ Put(p, "transporta", x) \in Parsers(F, V)
      /\ Put(p, "ret_transp", x) \in Parsers(F, V)
      /\ Put(p, "veic_transp", x) \in Parsers(F, V)
  BY PutIs DEF Slots, OptionalSlots
<1>2. /\ Insert(p, "transporta", "CNPJ", x) \in Parsers(F, V)
      /\ Insert(p, "transporta", "CPF", x) \in Parsers(F, V)
  BY InsertIs DEF Slots, OptionalSlots
<1>3. Push(p, "reboque", x) \in Parsers(F, V)
  BY PushIs DEF Lists
<1>4. Put(p, "vagao", IF "vagao" \in DOMAIN x THEN x ELSE None) \in Parsers(F, V)
  BY PutOptional DEF OptionalSlots
<1>5. Put(p, "balsa", IF "balsa" \in DOMAIN x THEN x ELSE None) \in Parsers(F, V)
  BY PutOptional DEF OptionalSlots
<1>6. Push(flush_seals(p), "volumes", [own |-> x, lacres |-> <<>>]) \in Parsers(F, V)
  <2>1. <<>> \in Seq(Std(F, V)) OBVIOUS
  <2>2. [own |-> x, lacres |-> <<>>] \in Volumes(F, V) BY <2>1 DEF Volumes
  <2>. QED BY <2>2, FlushIs, PushVolume
<1>7. [p EXCEPT !.seals = Append(@, x)] \in Parsers(F, V)
  <2>1. p.seals \in Seq(Std(F, V)) BY DEF Parsers
  <2>2. Append(p.seals, x) \in Seq(Std(F, V)) BY <2>1
  <2>. QED BY <2>2 DEF Parsers
<1>. QED BY <1>1, <1>2, <1>3, <1>4, <1>5, <1>6, <1>7 DEF read_transport

\* The lines of the bill and the payments.
LEMMA PaymentIs ==
    ASSUME NEW F, NEW V, NEW p \in Parsers(F, V), NEW x \in Std(F, V),
           NEW ref \in {"Y", "Y02", "Y07", "YA", "YA01", "YA04", "YB"}
    PROVE  read_payment(p, ref, x) \in Parsers(F, V)
<1>1. /\ Put(p, "pag", x) \in Parsers(F, V)
      /\ Put(p, "fat", x) \in Parsers(F, V)
      /\ Put(p, "inf_intermed", x) \in Parsers(F, V)
  BY PutIs DEF Slots, OptionalSlots
<1>2. /\ Push(p, "dup", x) \in Parsers(F, V)
      /\ Push(p, "det_pag", x) \in Parsers(F, V)
  BY PushIs DEF Lists
<1>3. MergeIntoLast(p, "det_pag", x) \in Parsers(F, V)
  BY MergeIs DEF Lists
<1>. QED BY <1>1, <1>2, <1>3 DEF read_payment

\* The lines of the totals, the observations and the rest.
LEMMA RestIs ==
    ASSUME NEW F, NEW V, NEW p \in Parsers(F, V), NEW x \in Std(F, V),
           NEW ref \in {"W", "W02", "W03", "W17", "W23", "Z", "Z04", "Z07", "Z10", "ZA",
                       "ZB", "ZC", "ZC04", "ZC10", "ZD", "ZX01"}
    PROVE  read_totals_and_rest(p, ref, x) \in Parsers(F, V)
<1>1. finalize_current_item(p) \in Parsers(F, V)
  BY FinalizeIs
<1>2. /\ Put(p, "totals", x) \in Parsers(F, V)
      /\ Put(p, "ibs_cbs_tot", x) \in Parsers(F, V)
      /\ Put(p, "issqn_tot", x) \in Parsers(F, V)
      /\ Put(p, "ret_trib", x) \in Parsers(F, V)
      /\ Put(p, "inf_adic", x) \in Parsers(F, V)
      /\ Put(p, "exporta", x) \in Parsers(F, V)
      /\ Put(p, "compra", x) \in Parsers(F, V)
      /\ Put(p, "cana", x) \in Parsers(F, V)
      /\ Put(p, "inf_resp_tec", x) \in Parsers(F, V)
      /\ Put(p, "inf_nfe_supl", x) \in Parsers(F, V)
  BY PutIs DEF Slots, OptionalSlots
<1>3. /\ Push(p, "obs_cont", x) \in Parsers(F, V)
      /\ Push(p, "obs_fisco", x) \in Parsers(F, V)
      /\ Push(p, "proc_ref", x) \in Parsers(F, V)
      /\ Push(p, "for_dia", x) \in Parsers(F, V)
      /\ Push(p, "deduc", x) \in Parsers(F, V)
  BY PushIs DEF Lists
<1>. QED BY <1>1, <1>2, <1>3 DEF read_totals_and_rest
\* A line of any kind: what is not read leaves the parser as it is.
LEMMA HandleIs ==
    ASSUME NEW F, NEW V, NEW p \in Parsers(F, V), NEW x \in Std(F, V), NEW ref
    PROVE  handle(p, ref, x) \in Parsers(F, V)
<1>1. CASE Section(ref) = "header"
  <2>1. read_header(p, ref, x) \in Parsers(F, V) BY <1>1, HeaderIs DEF Section
  <2>. QED BY <1>1, <2>1 DEF handle
<1>2. CASE Section(ref) = "party"
  <2>1. read_party(p, ref, x) \in Parsers(F, V) BY <1>2, PartyIs DEF Section
  <2>. QED BY <1>2, <2>1 DEF handle
<1>3. CASE Section(ref) = "local"
  <2>1. read_local(p, ref, x) \in Parsers(F, V) BY <1>3, LocalIs DEF Section
  <2>. QED BY <1>3, <2>1 DEF handle
<1>4. CASE Section(ref) = "product"
  <2>1. read_product(p, ref, x) \in Parsers(F, V) BY <1>4, ProductIs DEF Section
  <2>. QED BY <1>4, <2>1 DEF handle
<1>5. CASE Section(ref) = "icms_ipi"
  <2>1. read_icms_ipi(p, ref, x) \in Parsers(F, V) BY <1>5, IcmsIpiIs DEF Section
  <2>. QED BY <1>5, <2>1 DEF handle
<1>6. CASE Section(ref) = "pis"
  <2>1. read_pis(p, ref, x) \in Parsers(F, V) BY <1>6, PisIs DEF Section
  <2>. QED BY <1>6, <2>1 DEF handle
<1>7. CASE Section(ref) = "cofins"
  <2>1. read_cofins(p, ref, x) \in Parsers(F, V) BY <1>7, CofinsIs DEF Section
  <2>. QED BY <1>7, <2>1 DEF handle
<1>8. CASE Section(ref) = "transport"
  <2>1. read_transport(p, ref, x) \in Parsers(F, V) BY <1>8, TransportIs DEF Section
  <2>. QED BY <1>8, <2>1 DEF handle
<1>9. CASE Section(ref) = "payment"
  <2>1. read_payment(p, ref, x) \in Parsers(F, V) BY <1>9, PaymentIs DEF Section
  <2>. QED BY <1>9, <2>1 DEF handle
<1>10. CASE Section(ref) = "rest"
  <2>1. read_totals_and_rest(p, ref, x) \in Parsers(F, V) BY <1>10, RestIs DEF Section
  <2>. QED BY <1>10, <2>1 DEF handle
<1>11. CASE Section(ref) \notin {"header", "party", "local", "product", "icms_ipi", "pis", "cofins",
                                "transport", "payment", "rest"}
  BY <1>11 DEF handle
<1>. QED BY <1>1, <1>2, <1>3, <1>4, <1>5, <1>6, <1>7, <1>8, <1>9, <1>10, <1>11

\* A new parser.
LEMMA NewIs ==
    ASSUME NEW F, NEW V, NEW layout \in Layouts
    PROVE  new(layout) \in Parsers(F, V)
<1>1. [s \in Slots \cup OptionalSlots |-> IF s \in Slots THEN Empty ELSE None] \in Slotted(F, V)
  <2>1. Empty \in Std(F, V) BY EmptyIs
  <2>. QED BY <2>1 DEF Slotted
<1>2. [l \in Lists |-> <<>>] \in Listed(F, V)
  <2>1. <<>> \in Seq(Std(F, V)) /\ <<>> \in Seq(Volumes(F, V)) OBVIOUS
  <2>. QED BY <2>1 DEF Listed
<1>3. <<>> \in Seq(Items(F, V)) /\ <<>> \in Seq(Std(F, V)) OBVIOUS
<1>4. ItemBuild \in Items(F, V) BY ItemBuildIs
<1>. QED BY <1>1, <1>2, <1>3, <1>4 DEF new, Parsers
-----------------------------------------------------------------------------
(***************************************************************************)
(* The whole of a parse.  parse is defined by a recursive function over    *)
(* the lines: there is one, and what holds of a new parser and stays so    *)
(* with each line holds of its result.                                     *)
(***************************************************************************)
\* The least element of a set of natural numbers.
First(T) == CHOOSE n \in T : \A m \in T : n <= m

\* Every set of natural numbers that is not empty has one.
LEMMA FirstIsLeast ==
    ASSUME NEW T \in SUBSET Nat, T # {}
    PROVE  First(T) \in T /\ \A m \in T : First(T) <= m
<1>1. PICK n \in T : \A m \in T : ~ (<<m, n>> \in OpToRel(<, Nat))
  BY NatLessThanWellFounded, WFMin, Zenon
<1>2. ASSUME NEW m \in T PROVE n <= m
  <2>1. n \in Nat /\ m \in Nat BY <1>1
  <2>2. ~(m < n) BY <1>1, <2>1 DEF OpToRel
  <2>. QED BY <2>1, <2>2
<1>. QED BY <1>2, Zenon DEF First

\* g holds the states of the parser from line to line.
Reads(g, layout, structure, lines, first, last) ==
    g = [i \in (first - 1)..last |->
            IF i < first THEN new(layout)
            ELSE IF lines[i].ref \notin DOMAIN structure THEN g[i - 1]
            ELSE handle(g[i - 1], lines[i].ref, fields_to_std(lines[i], i))]

\* There is such a function, however many the lines.
LEMMA ReadsExists ==
    ASSUME NEW layout, NEW structure, NEW lines, NEW first \in Nat, NEW k \in Nat
    PROVE  \E g : Reads(g, layout, structure, lines, first, (first - 1) + k)
<1> DEFINE Done(m) == \E g : Reads(g, layout, structure, lines, first, (first - 1) + m)
           T == {m \in Nat : ~Done(m)}
<1>1. SUFFICES ASSUME T # {} PROVE FALSE OBVIOUS
<1>2. First(T) \in T /\ \A j \in T : First(T) <= j BY <1>1, FirstIsLeast
<1> DEFINE m == First(T)
           last == (first - 1) + m
<1>3. m \in Nat /\ ~Done(m) BY <1>2
<1>4. CASE m = 0
  <2> DEFINE g == [i \in (first - 1)..(first - 1) |-> new(layout)]
  <2>1. last = first - 1 BY <1>4
  <2>2. \A i \in (first - 1)..(first - 1) : i < first OBVIOUS
  <2>3. Reads(g, layout, structure, lines, first, first - 1) BY <2>2 DEF Reads
  <2>. QED BY <1>3, <2>1, <2>3
<1>5. CASE m # 0
  <2> HIDE DEF Done
  <2>1. m - 1 \in Nat /\ m - 1 \notin T
    <3>1. m - 1 \in Nat /\ ~(m <= m - 1)
      <4> HIDE DEF m
      <4>. QED BY <1>3, <1>5
    <3>. QED BY <3>1, <1>2
  <2>2. PICK g : Reads(g, layout, structure, lines, first, (first - 1) + (m - 1)) BY <2>1 DEF Done
  <2> DEFINE Next1(f, i) == IF i < first THEN new(layout)
                            ELSE IF lines[i].ref \notin DOMAIN structure THEN f[i - 1]
                            ELSE handle(f[i - 1], lines[i].ref, fields_to_std(lines[i], i))
             h == [i \in (first - 1)..last |-> Next1(g, i)]
  <2>3. last \in Int /\ (first - 1) + (m - 1) = last - 1
    <3> HIDE DEF m
    <3>. QED BY <1>3
  <2> HIDE DEF m, last
  <2>4. \A i \in (first - 1)..(last - 1) : h[i] = g[i]
    <3>1. \A i \in (first - 1)..(last - 1) : g[i] = Next1(g, i) BY <2>2, <2>3 DEF Reads
    <3> HIDE DEF Next1
    <3>. QED BY <3>1, <2>3
  <2>5. \A i \in (first - 1)..last : ~(i < first) => h[i - 1] = g[i - 1]
    <3> HIDE DEF h
    <3>. QED BY <2>3, <2>4
  <2>6. \A i \in (first - 1)..last : Next1(h, i) = Next1(g, i)
    <3> HIDE DEF h
    <3>. QED BY <2>5
  <2>7. h = [i \in (first - 1)..last |-> Next1(h, i)]
    <3>1. h = [i \in (first - 1)..last |-> Next1(g, i)] OBVIOUS
    <3> HIDE DEF h, Next1
    <3>. QED BY <3>1, <2>6
  <2>8. Reads(h, layout, structure, lines, first, last)
    <3> HIDE DEF h
    <3>. QED BY <2>7 DEF Reads
  <2>9. Done(m) BY <2>8 DEF Done, last
  <2>. QED BY <2>9, <1>3
<1>. QED BY <1>4, <1>5

\* It goes from line to line, and its last state is the one that is finished.
Steps(g, layout, structure, lines, first, last) ==
    /\ g[first - 1] = new(layout)
    /\ \A i \in first..last :
         g[i] = IF lines[i].ref \notin DOMAIN structure THEN g[i - 1]
                ELSE handle(g[i - 1], lines[i].ref, fields_to_std(lines[i], i))
    /\ parse(layout, structure, lines, first, last) = finalize_current_item(g[last])

\* A parse reads the lines one after another.
LEMMA ParseSteps ==
    ASSUME NEW layout, NEW structure, NEW lines, NEW first \in Nat, NEW last \in Int, first - 1 <= last
    PROVE  \E g : Steps(g, layout, structure, lines, first, last)
<1> DEFINE step == CHOOSE g : Reads(g, layout, structure, lines, first, last)
<1>1. Reads(step, layout, structure, lines, first, last)
  <2>1. last - (first - 1) \in Nat /\ (first - 1) + (last - (first - 1)) = last OBVIOUS
  <2>. QED BY <2>1, ReadsExists
<1>2. parse(layout, structure, lines, first, last) = finalize_current_item(step[last])
  BY Zenon DEF parse, Reads
<1> HIDE DEF step
<1>3. step[first - 1] = new(layout) BY <1>1 DEF Reads
<1>4. \A i \in first..last :
        step[i] = IF lines[i].ref \notin DOMAIN structure THEN step[i - 1]
                  ELSE handle(step[i - 1], lines[i].ref, fields_to_std(lines[i], i))
  <2>1. \A i \in first..last : i \in (first - 1)..last /\ ~(i < first) OBVIOUS
  <2>. QED BY <1>1, <2>1 DEF Reads
<1>5. Steps(step, layout, structure, lines, first, last) BY <1>2, <1>3, <1>4 DEF Steps
<1>. QED BY <1>5

\* A parse makes a parser of the values that its lines have.
LEMMA ParseIs ==
    ASSUME NEW F, NEW V, NEW layout \in Layouts, NEW structure, NEW lines,
           NEW first \in Nat, NEW last \in Int, first - 1 <= last,
           \A i \in first..last : fields_to_std(lines[i], i) \in Std(F, V)
    PROVE  parse(layout, structure, lines, first, last) \in Parsers(F, V)
<1>1. PICK g : Steps(g, layout, structure, lines, first, last) BY ParseSteps
<1>2. /\ g[first - 1] = new(layout)
      /\ \A i \in first..last :
           g[i] = IF lines[i].ref \notin DOMAIN structure THEN g[i - 1]
                  ELSE handle(g[i - 1], lines[i].ref, fields_to_std(lines[i], i))
      /\ parse(layout, structure, lines, first, last) = finalize_current_item(g[last])
  BY <1>1 DEF Steps
<1> DEFINE T == {m \in Nat : (first - 1) + m <= last /\ g[(first - 1) + m] \notin Parsers(F, V)}
<1>3. ASSUME T # {} PROVE FALSE
  <2>1. First(T) \in T /\ \A j \in T : First(T) <= j BY <1>3, FirstIsLeast
  <2> DEFINE m == First(T)
  <2>2. m \in Nat /\ (first - 1) + m <= last /\ g[(first - 1) + m] \notin Parsers(F, V) BY <2>1
  <2>3. CASE m = 0
    <3>1. (first - 1) + m = first - 1 BY <2>3
    <3>. QED BY <1>2, <2>2, <3>1, NewIs
  <2>4. CASE m # 0
    <3> DEFINE i == (first - 1) + m
    <3>1. m - 1 \in Nat /\ ~(m <= m - 1) /\ (first - 1) + (m - 1) = i - 1 /\ i \in first..last
          /\ (first - 1) + (m - 1) <= last
      <4> HIDE DEF m
      <4>. QED BY <2>2, <2>4
    <3>2. m - 1 \notin T BY <2>1, <3>1
    <3>3. g[i - 1] \in Parsers(F, V) BY <3>1, <3>2
    <3> HIDE DEF m, i, T
    <3>4. g[i] = IF lines[i].ref \notin DOMAIN structure THEN g[i - 1]
                 ELSE handle(g[i - 1], lines[i].ref, fields_to_std(lines[i], i))
      BY <1>2, <3>1
    <3>5. fields_to_std(lines[i], i) \in Std(F, V) BY <3>1
    <3>6. handle(g[i - 1], lines[i].ref, fields_to_std(lines[i], i)) \in Parsers(F, V)
      BY <3>3, <3>5, HandleIs
    <3>7. g[i] \in Parsers(F, V) BY <3>3, <3>4, <3>6
    <3>. QED BY <3>7, <2>2 DEF i
  <2>. QED BY <2>3, <2>4
<1>4. g[last] \in Parsers(F, V)
  <2> DEFINE k == last - (first - 1)
  <2>1. k \in Nat /\ (first - 1) + k = last OBVIOUS
  <2>2. k \notin T BY <1>3
  <2> HIDE DEF k
  <2>. QED BY <2>1, <2>2
<1>. QED BY <1>2, <1>4, FinalizeIs
-----------------------------------------------------------------------------
(***************************************************************************)
(* The XML.  Every element is written from a value that the parser holds,  *)
(* so it was read from one of the lines that the values were read from.    *)
(***************************************************************************)
\* An element read from one of the lines L, at a numbered place.
IsLeaf(leaf, L) == leaf.from \in L /\ leaf.at.n \in Nat /\ leaf.at.m \in Nat
AreLeaves(leaves, L) == \A leaf \in leaves : IsLeaf(leaf, L)

\* Values that were all read from the lines L.
ReadFrom(V, L) == \A v \in V : v.from \in L

\* What is written from a record.
LEMMA WrittenIs ==
    ASSUME NEW F, NEW V, NEW L, ReadFrom(V, L), NEW x \in Std(F, V), NEW part, NEW n \in Nat, NEW m \in Nat
    PROVE  \A tags : AreLeaves(Written(At(part, n, m), tags, x), L)
<1>1. \A f \in DOMAIN x : x[f].from \in L BY StdIs DEF ReadFrom
<1>2. At(part, n, m).n \in Nat /\ At(part, n, m).m \in Nat BY DEF At
<1> DEFINE at == At(part, n, m)
<1> HIDE DEF at
<1>3. \A tags : \A leaf \in Written(at, tags, x) : \E f \in DOMAIN x : leaf.from = x[f].from /\ leaf.at = at
  BY DEF Written
<1>. QED BY <1>1, <1>2, <1>3 DEF AreLeaves, IsLeaf, at

\* From a record that may be absent.
LEMMA IfPresentIs ==
    ASSUME NEW F, NEW V, NEW L, ReadFrom(V, L), NEW x \in Std(F, V) \cup {None}, NEW part, NEW n \in Nat, NEW m \in Nat
    PROVE  \A tags : AreLeaves(IfPresent(At(part, n, m), tags, x), L)
<1>1. CASE x = None BY <1>1 DEF IfPresent, AreLeaves
<1>2. CASE x # None
  <2>1. x \in Std(F, V) BY <1>2
  <2>2. \A tags : IfPresent(At(part, n, m), tags, x) = Written(At(part, n, m), tags, x)
    BY <1>2 DEF IfPresent
  <2>3. \A tags : AreLeaves(Written(At(part, n, m), tags, x), L) BY <2>1, WrittenIs
  <2>. QED BY <2>2, <2>3
<1>. QED BY <1>1, <1>2

\* From the records of a list.
LEMMA OfEachIs ==
    ASSUME NEW F, NEW V, NEW L, ReadFrom(V, L), NEW list \in Seq(Std(F, V)), NEW part, NEW n \in Nat
    PROVE  \A tags : AreLeaves(OfEach(part, n, tags, list), L)
<1>1. \A m \in DOMAIN list : m \in Nat /\ list[m] \in Std(F, V) OBVIOUS
<1>2. \A m \in DOMAIN list : \A tags : AreLeaves(Written(At(part, n, m), tags, list[m]), L)
  BY <1>1, WrittenIs
<1>. QED BY <1>2 DEF OfEach, AreLeaves

\* From the records of a list that have a name.
LEMMA OfEachNamedIs ==
    ASSUME NEW F, NEW V, NEW L, ReadFrom(V, L), NEW list \in Seq(Std(F, V)), NEW part
    PROVE  AreLeaves(OfEachNamed(part, list), L)
<1> DEFINE named == {k \in DOMAIN list : "xCampo" \in DOMAIN list[k]}
           place(k) == Cardinality({j \in named : j <= k})
<1>1. \A m \in DOMAIN list : list[m] \in Std(F, V) OBVIOUS
<1>2. ASSUME NEW k \in named PROVE place(k) \in Nat
  <2>1. IsFiniteSet(1..Len(list)) BY FS_Interval
  <2>2. {j \in named : j <= k} \subseteq 1..Len(list) OBVIOUS
  <2>3. IsFiniteSet({j \in named : j <= k}) BY <2>1, <2>2, FS_Subset
  <2>. QED BY <2>3, FS_CardinalityType
<1>3. \A k \in named : \A tags : AreLeaves(Written(At(part, 0, place(k)), tags, list[k]), L)
  <2> HIDE DEF place
  <2>. QED BY <1>1, <1>2, WrittenIs
<1>. QED BY <1>3 DEF OfEachNamed, AreLeaves

\* From the single values of an item.
LEMMA OfTaxIs ==
    ASSUME NEW F, NEW V, NEW L, ReadFrom(V, L), NEW item \in Items(F, V), NEW part, NEW n \in Nat, NEW m \in Nat,
           NEW tax, NEW tags, \A f \in tags : <<tax, f>> \in Scalars
    PROVE  AreLeaves(OfTax(At(part, n, m), item, tax, tags), L)
<1>1. \A y \in Scalars : item.scalar[y] \in V \cup {None} BY DEF Items, Rates
<1>2. \A f \in tags : item.scalar[<<tax, f>>] # None => item.scalar[<<tax, f>>].from \in L
  BY <1>1 DEF ReadFrom
<1> DEFINE at == At(part, n, m)
<1>3. at.n \in Nat /\ at.m \in Nat BY DEF At
<1> HIDE DEF at
<1>4. \A leaf \in OfTax(at, item, tax, tags) :
        \E f \in tags : /\ item.scalar[<<tax, f>>] # None
                        /\ leaf.from = item.scalar[<<tax, f>>].from /\ leaf.at = at
  BY DEF OfTax
<1>. QED BY <1>2, <1>3, <1>4 DEF AreLeaves, IsLeaf, at

\* The values of an item that a builder writes are among the ones it keeps.
LEMMA ScalarsOfTaxes ==
    /\ \A f \in {"infAdProd", "vTotTrib"} : <<"item", f>> \in Scalars
    /\ \A f \in {"CST", "vIPI", "vBC", "pIPI", "qUnid", "vUnid"} : <<"ipi", f>> \in Scalars
    /\ \A f \in {"CST", "vBC", "pPIS", "vPIS", "qBCProd", "vAliqProd"} :
         <<"pis", f>> \in Scalars /\ <<"pis_st", f>> \in Scalars
    /\ \A f \in {"CST", "vBC", "pCOFINS", "vCOFINS", "qBCProd", "vAliqProd"} :
         <<"cofins", f>> \in Scalars /\ <<"cofins_st", f>> \in Scalars
BY DEF Scalars

\* What the slots and lists of a parser hold.
LEMMA HeldIs ==
    ASSUME NEW F, NEW V, NEW p \in Parsers(F, V)
    PROVE  /\ \A s \in Slots : p.slot[s] \in Std(F, V)
           /\ \A s \in OptionalSlots : p.slot[s] \in Std(F, V) \cup {None}
           /\ \A l \in Lists \ {"volumes"} : p.list[l] \in Seq(Std(F, V))
           /\ p.list["volumes"] \in Seq(Volumes(F, V))
<1>1. p.slot \in Slotted(F, V) /\ p.list \in Listed(F, V) BY DEF Parsers
<1>2. "volumes" \in Lists BY DEF Lists
<1>. QED BY <1>1, <1>2 DEF Slotted, Listed

\* The same of an item.
LEMMA ItemHoldsIs ==
    ASSUME NEW F, NEW V, NEW item \in Items(F, V)
    PROVE  /\ item.prod \in Std(F, V)
           /\ \A s \in ItemSlots : item.one[s] \in Std(F, V) \cup {None}
           /\ \A l \in ItemLists \ {"di"} : item.many[l] \in Seq(Std(F, V))
           /\ item.many["di"] \in Seq(Declarations(F, V))
<1>1. item.one \in Singles(F, V) /\ item.many \in Manifold(F, V) BY DEF Items
<1>2. "di" \in ItemLists BY DEF ItemLists
<1>. QED BY <1>1, <1>2 DEF Items, Singles, Manifold

\* The document and its references.
LEMMA BuildIdeIs ==
    ASSUME NEW F, NEW V, NEW L, ReadFrom(V, L), NEW p \in Parsers(F, V)
    PROVE  AreLeaves(build_ide(p), L)
<1> DEFINE nf == p.list["nf_ref_nf"]
<1>1. /\ p.slot["ide"] \in Std(F, V) /\ nf \in Seq(Std(F, V)) /\ p.list["nf_ref"] \in Seq(Std(F, V))
      /\ p.list["nf_ref_cte"] \in Seq(Std(F, V)) /\ p.list["nf_ref_ecf"] \in Seq(Std(F, V))
  BY HeldIs DEF Slots, Lists
<1>2. \A tags : AreLeaves(Written(The("ide"), tags, p.slot["ide"]), L) BY <1>1, WrittenIs DEF The
<1>3. \A tags : AreLeaves(OfEach("refNFe", 0, tags, p.list["nf_ref"]), L) BY <1>1, OfEachIs
<1>4. \A tags : AreLeaves(OfEach("refCTe", 0, tags, p.list["nf_ref_cte"]), L) BY <1>1, OfEachIs
<1>5. \A tags : AreLeaves(OfEach("refECF", 0, tags, p.list["nf_ref_ecf"]), L) BY <1>1, OfEachIs
<1>6. \A k \in DOMAIN nf : \A tags : AreLeaves(Written(At("refNF", 0, k), tags, nf[k]), L)
  <2>1. \A k \in DOMAIN nf : k \in Nat /\ nf[k] \in Std(F, V)
    <3> HIDE DEF nf
    <3>. QED BY <1>1
  <2>. QED BY <2>1, WrittenIs
<1>. QED BY <1>2, <1>3, <1>4, <1>5, <1>6 DEF build_ide, AreLeaves

\* The parties.
LEMMA BuildPartiesIs ==
    ASSUME NEW F, NEW V, NEW L, ReadFrom(V, L), NEW p \in Parsers(F, V)
    PROVE  AreLeaves(build_emit(p), L) /\ AreLeaves(build_dest(p), L)
<1>1. \A s \in {"emit", "ender_emit", "dest", "ender_dest"} : p.slot[s] \in Std(F, V)
  BY HeldIs DEF Slots
<1>2. \A part : \A s \in {"emit", "ender_emit", "dest", "ender_dest"} :
        \A tags : AreLeaves(Written(The(part), tags, p.slot[s]), L)
  BY <1>1, WrittenIs DEF The
<1>. QED BY <1>2 DEF build_emit, build_dest, AreLeaves

\* The places and the authorized persons.
LEMMA BuildLocalIs ==
    ASSUME NEW F, NEW V, NEW L, ReadFrom(V, L), NEW p \in Parsers(F, V)
    PROVE  /\ AreLeaves(build_local_section("retirada", p.slot["retirada"]), L)
           /\ AreLeaves(build_local_section("entrega", p.slot["entrega"]), L)
           /\ AreLeaves(build_aut_xml(p), L)
<1>1. /\ \A s \in {"retirada", "entrega"} : p.slot[s] \in Std(F, V) \cup {None}
      /\ p.list["aut_xml"] \in Seq(Std(F, V))
  BY HeldIs DEF OptionalSlots, Lists
<1>2. \A part : \A s \in {"retirada", "entrega"} : \A tags : AreLeaves(IfPresent(The(part), tags, p.slot[s]), L)
  BY <1>1, IfPresentIs DEF The
<1>3. \A tags : AreLeaves(OfEach("autXML", 0, tags, p.list["aut_xml"]), L) BY <1>1, OfEachIs
<1>. QED BY <1>2, <1>3 DEF build_local_section, build_aut_xml

\* A product.
LEMMA BuildProdIs ==
    ASSUME NEW F, NEW V, NEW L, ReadFrom(V, L), NEW item \in Items(F, V), NEW n \in Nat
    PROVE  AreLeaves(build_prod(item, n), L)
<1> DEFINE di == item.many["di"]
           exports == item.many["det_export"]
<1>1. item.prod \in Std(F, V) /\ di \in Seq(Declarations(F, V)) BY ItemHoldsIs
<1>2. \A s \in {"cest", "g_cred", "veic_prod", "med", "comb", "comb_cide", "encerrante", "recopi"} :
        item.one[s] \in Std(F, V) \cup {None}
  BY ItemHoldsIs DEF ItemSlots
<1>3. \A l \in {"det_export", "rastro", "arma", "nve"} : item.many[l] \in Seq(Std(F, V))
  BY ItemHoldsIs DEF ItemLists
<1>4. \A tags : AreLeaves(Written(At("prod", n, 0), tags, item.prod), L) BY <1>1, WrittenIs
<1>5. \A part : \A s \in {"cest", "g_cred", "veic_prod", "med", "comb", "comb_cide", "encerrante", "recopi"} :
        \A tags : AreLeaves(IfPresent(At(part, n, 0), tags, item.one[s]), L)
  BY <1>2, IfPresentIs
<1>6. \A part : \A l \in {"det_export", "rastro", "arma", "nve"} :
        \A tags : AreLeaves(OfEach(part, n, tags, item.many[l]), L)
  BY <1>3, OfEachIs
<1>7. \A m \in DOMAIN di : \A tags :
        /\ AreLeaves(Written(At("DI", n, m), tags, di[m].own), L)
        /\ \A a \in DOMAIN di[m].adi : AreLeaves(Written(At("adi", n, m), tags, di[m].adi[a]), L)
  <2>1. \A m \in DOMAIN di : m \in Nat /\ di[m] \in Declarations(F, V)
    <3> HIDE DEF di
    <3>. QED BY <1>1
  <2>2. \A m \in DOMAIN di : di[m].own \in Std(F, V) /\ di[m].adi \in Seq(Std(F, V))
    BY <2>1 DEF Declarations
  <2>3. \A m \in DOMAIN di : \A a \in DOMAIN di[m].adi : di[m].adi[a] \in Std(F, V) BY <2>2
  <2>. QED BY <2>1, <2>2, <2>3, WrittenIs
<1>8. \A e \in {exports[m] : m \in DOMAIN exports} :
        \A tags : AreLeaves(Written(At("detExport", n, 0), tags, e), L)
  <2>1. exports \in Seq(Std(F, V)) BY <1>3
  <2>2. \A e \in {exports[m] : m \in DOMAIN exports} : e \in Std(F, V)
    <3> HIDE DEF exports
    <3>. QED BY <2>1
  <2>. QED BY <2>2, WrittenIs
<1>9. item.one["comb"] # None =>
        \A tags : AreLeaves(Written(At("comb", n, 0), tags, item.one["comb"]), L)
  BY <1>2, WrittenIs
<1> DEFINE declarations == UNION {Written(At("DI", n, m), Local400["I18"], di[m].own)
                               \cup UNION {Written(At("adi", n, m), Local400["I25"], di[m].adi[a]) :
                                           a \in DOMAIN di[m].adi} : m \in DOMAIN di}
           quantities == UNION {IF {"nRE", "chNFe"} \cap DOMAIN e = {} THEN {}
                                ELSE Written(At("detExport", n, 0), {"qExport"}, e) :
                                e \in {exports[m] : m \in DOMAIN exports}}
           fuel == IF item.one["comb"] = None THEN {}
                   ELSE Written(At("comb", n, 0), Local400["LA"], item.one["comb"])
                        \cup IfPresent(At("CIDE", n, 0), structure_400["LA07"], item.one["comb_cide"])
                        \cup IfPresent(At("encerrante", n, 0), structure_400["LA11"], item.one["encerrante"])
<1>10. build_prod(item, n) =
         Written(At("prod", n, 0), Product \cup {"cBenef"}, item.prod)
         \cup IfPresent(At("prod", n, 0), {"CEST"}, item.one["cest"])
         \cup IfPresent(At("gCred", n, 0), {"cCredPresumido", "pCredPresumido", "vCredPresumido"},
                        item.one["g_cred"])
         \cup declarations
         \cup OfEach("detExport", n, {"nDraw", "nRE", "chNFe"}, item.many["det_export"])
         \cup quantities
         \cup OfEach("rastro", n, Local400["I80"], item.many["rastro"])
         \cup IfPresent(At("veicProd", n, 0), Local400["JA"], item.one["veic_prod"])
         \cup IfPresent(At("med", n, 0), Local400["K"], item.one["med"])
         \cup OfEach("arma", n, Local400["L"], item.many["arma"])
         \cup fuel
         \cup OfEach("NVE", n, {"NVE"}, item.many["nve"])
         \cup IfPresent(At("prod", n, 0), {"nRECOPI"}, item.one["recopi"])
  BY DEF build_prod
<1>11. AreLeaves(declarations, L)
  <2> DEFINE head(m) == Written(At("DI", n, m), Local400["I18"], di[m].own)
             addition(m, a) == Written(At("adi", n, m), Local400["I25"], di[m].adi[a])
  <2>1. \A m \in DOMAIN di : AreLeaves(head(m), L) /\ \A a \in DOMAIN di[m].adi : AreLeaves(addition(m, a), L)
    BY <1>7
  <2>2. \A leaf \in declarations : \E m \in DOMAIN di :
          leaf \in head(m) \/ \E a \in DOMAIN di[m].adi : leaf \in addition(m, a)
    <3> HIDE DEF head, addition, di
    <3>. QED BY DEF head, addition
  <2> HIDE DEF head, addition, declarations, di
  <2>. QED BY <2>1, <2>2 DEF AreLeaves
<1>12. AreLeaves(quantities, L) BY <1>8 DEF AreLeaves
<1>13. AreLeaves(fuel, L) BY <1>5, <1>9 DEF AreLeaves
<1> HIDE DEF declarations, quantities, fuel, di, exports
<1>. QED BY <1>4, <1>5, <1>6, <1>10, <1>11, <1>12, <1>13 DEF AreLeaves

\* The taxes of an item.
LEMMA BuildImpostoIs ==
    ASSUME NEW F, NEW V, NEW L, ReadFrom(V, L), NEW item \in Items(F, V), NEW n \in Nat
    PROVE  AreLeaves(build_imposto(item, n), L) /\ AreLeaves(build_imposto_devol(item, n), L)
<1>1. \A s \in {"icms", "icms_ufdest", "ipi_header", "ii", "issqn", "imposto_devol"} :
        item.one[s] \in Std(F, V) \cup {None}
  BY ItemHoldsIs DEF ItemSlots
<1>2. \A part : \A s \in {"icms", "icms_ufdest", "ipi_header", "ii", "issqn", "imposto_devol"} :
        \A tags : AreLeaves(IfPresent(At(part, n, 0), tags, item.one[s]), L)
  BY <1>1, IfPresentIs
<1>3. AreLeaves(OfTax(At("imposto", n, 0), item, "item", {"vTotTrib"}), L)
  <2>1. \A f \in {"vTotTrib"} : <<"item", f>> \in Scalars BY ScalarsOfTaxes
  <2>. QED BY <2>1, OfTaxIs
<1>4. AreLeaves(build_ipi(item, n), L)
  <2>1. \A f \in {"CST", "vBC", "pIPI", "qUnid", "vUnid", "vIPI"} : <<"ipi", f>> \in Scalars BY ScalarsOfTaxes
  <2>2. AreLeaves(OfTax(At("IPI", n, 0), item, "ipi", {"CST", "vBC", "pIPI", "qUnid", "vUnid", "vIPI"}), L)
    BY <2>1, OfTaxIs
  <2>3. AreLeaves(OfTax(At("IPI", n, 0), item, "ipi", {"CST"}), L) BY <2>1, OfTaxIs
  <2>. QED BY <1>2, <2>2, <2>3 DEF build_ipi, AreLeaves
<1>5. AreLeaves(build_pis(item, n), L) /\ AreLeaves(build_pis_st(item, n), L)
  <2>1. \A f \in {"CST", "vBC", "pPIS", "qBCProd", "vAliqProd", "vPIS"} :
          <<"pis", f>> \in Scalars /\ <<"pis_st", f>> \in Scalars
    BY ScalarsOfTaxes
  <2>2. AreLeaves(OfTax(At("PIS", n, 0), item, "pis", {"CST", "vBC", "pPIS", "qBCProd", "vAliqProd", "vPIS"}), L)
    BY <2>1, OfTaxIs
  <2>3. AreLeaves(OfTax(At("PIS", n, 0), item, "pis", {"CST"}), L) BY <2>1, OfTaxIs
  <2>4. AreLeaves(OfTax(At("PISST", n, 0), item, "pis_st", {"vBC", "pPIS", "qBCProd", "vAliqProd", "vPIS"}), L)
    BY <2>1, OfTaxIs
  <2>. QED BY <2>2, <2>3, <2>4 DEF build_pis, build_pis_st, AreLeaves
<1>6. AreLeaves(build_cofins(item, n), L) /\ AreLeaves(build_cofins_st(item, n), L)
  <2>1. \A f \in {"CST", "vBC", "pCOFINS", "qBCProd", "vAliqProd", "vCOFINS"} :
          <<"cofins", f>> \in Scalars /\ <<"cofins_st", f>> \in Scalars
    BY ScalarsOfTaxes
  <2>2. AreLeaves(OfTax(At("COFINS", n, 0), item, "cofins",
                        {"CST", "vBC", "pCOFINS", "qBCProd", "vAliqProd", "vCOFINS"}), L)
    BY <2>1, OfTaxIs
  <2>3. AreLeaves(OfTax(At("COFINS", n, 0), item, "cofins", {"CST"}), L) BY <2>1, OfTaxIs
  <2>4. AreLeaves(OfTax(At("COFINSST", n, 0), item, "cofins_st",
                        {"vBC", "pCOFINS", "qBCProd", "vAliqProd", "vCOFINS"}), L)
    BY <2>1, OfTaxIs
  <2>. QED BY <2>2, <2>3, <2>4 DEF build_cofins, build_cofins_st, AreLeaves
<1>7. /\ AreLeaves(build_icms(item, n), L) /\ AreLeaves(build_icms_ufdest(item, n), L)
      /\ AreLeaves(build_ii(item, n), L) /\ AreLeaves(build_issqn(item, n), L)
      /\ AreLeaves(build_imposto_devol(item, n), L)
  BY <1>2 DEF build_icms, build_icms_ufdest, build_ii, build_issqn, build_imposto_devol
<1>. QED BY <1>3, <1>4, <1>5, <1>6, <1>7 DEF build_imposto, AreLeaves

\* An item.
LEMMA BuildDetIs ==
    ASSUME NEW F, NEW V, NEW L, ReadFrom(V, L), NEW item \in Items(F, V), NEW n \in Nat
    PROVE  AreLeaves(build_det(item, n), L)
<1>1. AreLeaves(build_prod(item, n), L) BY BuildProdIs
<1>2. AreLeaves(build_imposto(item, n), L) /\ AreLeaves(build_imposto_devol(item, n), L) BY BuildImpostoIs
<1>3. AreLeaves(OfTax(At("det", n, 0), item, "item", {"infAdProd"}), L)
  <2>1. \A f \in {"infAdProd"} : <<"item", f>> \in Scalars BY ScalarsOfTaxes
  <2>. QED BY <2>1, OfTaxIs
<1>. QED BY <1>1, <1>2, <1>3 DEF build_det, AreLeaves

\* The transport.
LEMMA BuildTranspIs ==
    ASSUME NEW F, NEW V, NEW L, ReadFrom(V, L), NEW p \in Parsers(F, V)
    PROVE  AreLeaves(build_transp(p), L)
<1> DEFINE vol == p.list["volumes"]
<1>1. p.slot["transp"] \in Std(F, V) /\ p.list["reboque"] \in Seq(Std(F, V)) BY HeldIs DEF Slots, Lists
<1>2. \A s \in {"ret_transp", "transporta", "veic_transp", "vagao", "balsa"} : p.slot[s] \in Std(F, V) \cup {None}
  BY HeldIs DEF OptionalSlots
<1>3. \A tags : AreLeaves(Written(The("transp"), tags, p.slot["transp"]), L) BY <1>1, WrittenIs DEF The
<1>4. \A part : \A s \in {"ret_transp", "transporta", "veic_transp", "vagao", "balsa"} :
        \A tags : AreLeaves(IfPresent(The(part), tags, p.slot[s]), L)
  BY <1>2, IfPresentIs DEF The
<1>5. \A tags : AreLeaves(OfEach("reboque", 0, tags, p.list["reboque"]), L) BY <1>1, OfEachIs
<1>6. \A k \in DOMAIN vol : \A tags :
        /\ AreLeaves(Written(At("vol", 0, k), tags, vol[k].own), L)
        /\ \A j \in DOMAIN vol[k].lacres : AreLeaves(Written(At("vol", 0, k), tags, vol[k].lacres[j]), L)
  <2>1. vol \in Seq(Volumes(F, V)) BY HeldIs
  <2>2. \A k \in DOMAIN vol : k \in Nat /\ vol[k] \in Volumes(F, V)
    <3> HIDE DEF vol
    <3>. QED BY <2>1
  <2>3. \A k \in DOMAIN vol : vol[k].own \in Std(F, V) /\ vol[k].lacres \in Seq(Std(F, V))
    BY <2>2 DEF Volumes
  <2>4. \A k \in DOMAIN vol : \A j \in DOMAIN vol[k].lacres : vol[k].lacres[j] \in Std(F, V) BY <2>3
  <2>. QED BY <2>2, <2>3, <2>4, WrittenIs
<1> DEFINE volumes == UNION {Written(At("vol", 0, k), Common["X26"], vol[k].own)
                             \cup UNION {Written(At("vol", 0, k), {"nLacre"}, vol[k].lacres[s]) :
                                         s \in DOMAIN vol[k].lacres} : k \in DOMAIN vol}
<1>7. AreLeaves(volumes, L)
  <2> DEFINE own(k) == Written(At("vol", 0, k), Common["X26"], vol[k].own)
             seal(k, j) == Written(At("vol", 0, k), {"nLacre"}, vol[k].lacres[j])
  <2>1. \A k \in DOMAIN vol : AreLeaves(own(k), L) /\ \A j \in DOMAIN vol[k].lacres : AreLeaves(seal(k, j), L)
    BY <1>6
  <2>2. \A leaf \in volumes : \E k \in DOMAIN vol :
          leaf \in own(k) \/ \E j \in DOMAIN vol[k].lacres : leaf \in seal(k, j)
    <3> HIDE DEF own, seal, vol
    <3>. QED BY DEF own, seal
  <2> HIDE DEF own, seal, volumes, vol
  <2>. QED BY <2>1, <2>2 DEF AreLeaves
<1>8. build_transp(p) =
        Written(The("transp"), {"modFrete"}, p.slot["transp"])
        \cup IfPresent(The("retTransp"), Local400["X11"], p.slot["ret_transp"])
        \cup IfPresent(The("transporta"), {"CNPJ", "CPF", "xNome", "IE", "xEnder", "xMun", "UF"},
                       p.slot["transporta"])
        \cup IfPresent(The("veicTransp"), Vehicle, p.slot["veic_transp"])
        \cup OfEach("reboque", 0, Vehicle, p.list["reboque"])
        \cup IfPresent(The("transp"), {"vagao"}, p.slot["vagao"])
        \cup IfPresent(The("transp"), {"balsa"}, p.slot["balsa"])
        \cup volumes
  BY DEF build_transp
<1> HIDE DEF volumes, vol
<1>. QED BY <1>3, <1>4, <1>5, <1>7, <1>8 DEF AreLeaves

\* The totals, the bill and the payments.
LEMMA BuildPagIs ==
    ASSUME NEW F, NEW V, NEW L, ReadFrom(V, L), NEW p \in Parsers(F, V)
    PROVE  AreLeaves(build_total(p), L) /\ AreLeaves(build_cobr(p), L) /\ AreLeaves(build_pag(p), L)
<1> DEFINE pag == p.list["det_pag"]
<1>1. p.slot["totals"] \in Std(F, V) /\ p.list["dup"] \in Seq(Std(F, V)) /\ pag \in Seq(Std(F, V))
  BY HeldIs DEF Slots, Lists
<1>2. \A s \in {"issqn_tot", "ret_trib", "fat", "pag"} : p.slot[s] \in Std(F, V) \cup {None}
  BY HeldIs DEF OptionalSlots
<1>3. \A tags : AreLeaves(Written(The("ICMSTot"), tags, p.slot["totals"]), L) BY <1>1, WrittenIs DEF The
<1>4. \A part : \A s \in {"issqn_tot", "ret_trib", "fat", "pag"} :
        \A tags : AreLeaves(IfPresent(The(part), tags, p.slot[s]), L)
  BY <1>2, IfPresentIs DEF The
<1>5. p.slot["fat"] # None => \A tags : AreLeaves(Written(The("fat"), tags, p.slot["fat"]), L)
  BY <1>2, WrittenIs DEF The
<1>6. \A tags : AreLeaves(OfEach("dup", 0, tags, p.list["dup"]), L) BY <1>1, OfEachIs
<1>7. \A k \in DOMAIN pag : \A tags : AreLeaves(Written(At("detPag", 0, k), tags, pag[k]), L)
  <2>1. \A k \in DOMAIN pag : k \in Nat /\ pag[k] \in Std(F, V)
    <3> HIDE DEF pag
    <3>. QED BY <1>1
  <2>. QED BY <2>1, WrittenIs
<1>8. AreLeaves(build_total(p), L) BY <1>3, <1>4 DEF build_total, AreLeaves
<1>9. AreLeaves(build_cobr(p), L) BY <1>5, <1>6 DEF build_cobr, AreLeaves
<1>10. AreLeaves(build_pag(p), L) BY <1>4, <1>7 DEF build_pag, AreLeaves
<1>. QED BY <1>8, <1>9, <1>10

\* The observations, the sugar cane and the rest.
LEMMA BuildRestIs ==
    ASSUME NEW F, NEW V, NEW L, ReadFrom(V, L), NEW p \in Parsers(F, V)
    PROVE  AreLeaves(build_inf_adic(p), L) /\ AreLeaves(build_cana(p), L) /\ AreLeaves(build_rest(p), L)
<1>1. p.slot["inf_adic"] \in Std(F, V) BY HeldIs DEF Slots
<1>2. \A s \in {"cana", "inf_intermed", "exporta", "compra", "inf_resp_tec", "inf_nfe_supl"} :
        p.slot[s] \in Std(F, V) \cup {None}
  BY HeldIs DEF OptionalSlots
<1>3. \A l \in {"obs_cont", "obs_fisco", "proc_ref", "for_dia", "deduc"} : p.list[l] \in Seq(Std(F, V))
  BY HeldIs DEF Lists
<1>4. \A tags : AreLeaves(Written(The("infAdic"), tags, p.slot["inf_adic"]), L) BY <1>1, WrittenIs DEF The
<1>5. AreLeaves(OfEachNamed("obsCont", p.list["obs_cont"]), L) BY <1>3, OfEachNamedIs
<1>6. AreLeaves(OfEachNamed("obsFisco", p.list["obs_fisco"]), L) BY <1>3, OfEachNamedIs
<1>7. \A part : \A l \in {"proc_ref", "for_dia", "deduc"} : \A tags : AreLeaves(OfEach(part, 0, tags, p.list[l]), L)
  BY <1>3, OfEachIs
<1>8. \A part : \A s \in {"inf_intermed", "exporta", "compra", "inf_resp_tec", "inf_nfe_supl"} :
        \A tags : AreLeaves(IfPresent(The(part), tags, p.slot[s]), L)
  BY <1>2, IfPresentIs DEF The
<1>9. p.slot["cana"] # None => \A tags : AreLeaves(Written(The("cana"), tags, p.slot["cana"]), L)
  BY <1>2, WrittenIs DEF The
<1>10. AreLeaves(build_inf_adic(p), L) BY <1>4, <1>5, <1>6, <1>7 DEF build_inf_adic, AreLeaves
<1>11. AreLeaves(build_cana(p), L) BY <1>7, <1>9 DEF build_cana, AreLeaves
<1>12. AreLeaves(build_rest(p), L) BY <1>8 DEF build_rest, AreLeaves
<1>. QED BY <1>10, <1>11, <1>12

\* The whole XML.
LEMMA BuildXmlIs ==
    ASSUME NEW F, NEW V, NEW L, ReadFrom(V, L), NEW p \in Parsers(F, V)
    PROVE  AreLeaves(build_xml(p), L)
<1>1. \A tags : AreLeaves(IfPresent(The("infNFe"), tags, p.slot["hdr"]), L)
  <2>1. p.slot["hdr"] \in Std(F, V) \cup {None} BY HeldIs DEF OptionalSlots
  <2>. QED BY <2>1, IfPresentIs DEF The
<1>2. \A n \in DOMAIN p.items : AreLeaves(build_det(p.items[n], n), L)
  <2>1. p.items \in Seq(Items(F, V)) BY DEF Parsers
  <2>2. \A n \in DOMAIN p.items : n \in Nat /\ p.items[n] \in Items(F, V) BY <2>1
  <2>. QED BY <2>2, BuildDetIs
<1>3. AreLeaves(build_ide(p), L) BY BuildIdeIs
<1>4. AreLeaves(build_emit(p), L) /\ AreLeaves(build_dest(p), L) BY BuildPartiesIs
<1>5. /\ AreLeaves(build_local_section("retirada", p.slot["retirada"]), L)
      /\ AreLeaves(build_local_section("entrega", p.slot["entrega"]), L)
      /\ AreLeaves(build_aut_xml(p), L)
  BY BuildLocalIs
<1>6. AreLeaves(build_transp(p), L) BY BuildTranspIs
<1>7. AreLeaves(build_total(p), L) /\ AreLeaves(build_cobr(p), L) /\ AreLeaves(build_pag(p), L) BY BuildPagIs
<1>8. AreLeaves(build_inf_adic(p), L) /\ AreLeaves(build_cana(p), L) /\ AreLeaves(build_rest(p), L) BY BuildRestIs
<1>. QED BY <1>1, <1>2, <1>3, <1>4, <1>5, <1>6, <1>7, <1>8 DEF build_xml, AreLeaves
-----------------------------------------------------------------------------
(***************************************************************************)
(* The file.                                                               *)
(***************************************************************************)
\* The lines a file of a form begins with.
LeadOf(name) == {Leads[name][i] : i \in DOMAIN Leads[name]}

\* A file begins as its form says, and goes on with lines of the form.
FileInv ==
    /\ form \in DOMAIN Forms /\ declared \in 0..MaxDeclared
    /\ file \in Seq(LeadOf(form) \cup Lines[form])
    /\ Len(Leads[form]) <= Len(file)
    /\ \A i \in 1..Len(file) : IF i <= Len(Leads[form]) THEN file[i] = Leads[form][i] ELSE file[i] \in Lines[form]

\* What is assumed of a form.
LEMMA LeadIs ==
    ASSUME NEW name \in DOMAIN Forms
    PROVE  /\ Leads[name] \in Seq(LeadOf(name)) /\ Len(Leads[name]) > 0
           /\ \A line \in LeadOf(name) \cup Lines[name] : line.is # None
BY LinesAssumption DEF LeadOf

\* It does so from the first line on.
LEMMA FileInitially == Init => FileInv
<1> SUFFICES ASSUME Init PROVE FileInv OBVIOUS
<1>1. form \in DOMAIN Forms /\ declared \in 0..MaxDeclared /\ file = Leads[form] BY DEF Init
<1>2. Leads[form] \in Seq(LeadOf(form)) BY <1>1, LeadIs
<1>3. Leads[form] \in Seq(LeadOf(form) \cup Lines[form]) /\ Len(Leads[form]) \in Nat BY <1>2
<1>. QED BY <1>1, <1>3 DEF FileInv

\* And however it is gone on with.
LEMMA FileStep == FileInv /\ [Next]_vars => FileInv'
<1> SUFFICES ASSUME FileInv, [Next]_vars PROVE FileInv' OBVIOUS
<1>1. CASE UNCHANGED vars BY <1>1 DEF FileInv, vars
<1>2. CASE Write
  <2>1. PICK line \in Lines[form] : file' = Append(file, line) BY <1>2 DEF Write
  <2>2. form' = form /\ declared' = declared BY <1>2 DEF Write
  <2> DEFINE S == LeadOf(form) \cup Lines[form]
             n == Len(Leads[form])
  <2>3. /\ form \in DOMAIN Forms /\ declared \in 0..MaxDeclared /\ file \in Seq(S) /\ line \in S
        /\ n <= Len(file)
        /\ \A i \in 1..Len(file) : IF i <= n THEN file[i] = Leads[form][i] ELSE file[i] \in Lines[form]
    BY DEF FileInv
  <2>4. Leads[form] \in Seq(LeadOf(form)) BY <2>3, LeadIs
  <2>5. n \in Nat BY <2>4
  <2> HIDE DEF S, n
  <2>6. /\ file' \in Seq(S) /\ Len(file') = Len(file) + 1 /\ Len(file) \in Nat
        /\ file'[Len(file) + 1] = line /\ \A i \in 1..Len(file) : file'[i] = file[i]
    BY <2>1, <2>3
  <2>7. \A i \in 1..Len(file') : IF i <= n THEN file'[i] = Leads[form][i] ELSE file'[i] \in Lines[form]
    <3>1. \A i \in 1..Len(file') : i \in 1..Len(file) \/ i = Len(file) + 1 BY <2>6
    <3>. QED BY <2>1, <2>3, <2>5, <2>6, <3>1
  <2>8. n <= Len(file') BY <2>3, <2>5, <2>6
  <2>. QED BY <2>2, <2>3, <2>6, <2>7, <2>8 DEF FileInv, S, n
<1>. QED BY <1>1, <1>2 DEF Next

\* The file of every state.
LEMMA FileAlways == Spec => []FileInv
BY FileInitially, FileStep, PTL DEF Spec

\* What is needed of it.
LEMMA FileIs ==
    ASSUME FileInv
    PROVE  /\ Len(file) \in Nat \ {0} /\ DOMAIN file = 1..Len(file)
           /\ \A i \in DOMAIN file : file[i].is # None
<1>1. /\ Leads[form] \in Seq(LeadOf(form)) /\ Len(Leads[form]) > 0
      /\ \A line \in LeadOf(form) \cup Lines[form] : line.is # None
  BY LeadIs DEF FileInv
<1>2. Len(Leads[form]) \in Nat /\ Len(file) \in Nat /\ DOMAIN file = 1..Len(file) BY <1>1 DEF FileInv
<1>3. Len(file) # 0 BY <1>1, <1>2 DEF FileInv
<1>4. \A i \in 1..Len(file) : file[i] \in LeadOf(form) \cup Lines[form] BY DEF FileInv
<1>. QED BY <1>1, <1>2, <1>3, <1>4
-----------------------------------------------------------------------------
(***************************************************************************)
(* The invoices.  Each is a run of lines of the file; what is parsed of    *)
(* one is read from its lines.                                             *)
(***************************************************************************)
\* An invoice is a run of lines.
LEMMA SlicesAre ==
    ASSUME FileInv, NEW v \in slice_invoices
    PROVE  v.first \in Nat /\ v.last \in Int /\ v.first - 1 <= v.last
<1>1. Len(file) \in Nat \ {0} /\ DOMAIN file = 1..Len(file) BY FileIs
<1>2. CASE declared <= 1
  <2>1. v = Invoice(1, Len(file)) BY <1>2 DEF slice_invoices
  <2>. QED BY <1>1, <2>1 DEF Invoice
<1>3. CASE ~(declared <= 1)
  <2>1. PICK i \in Markers : v = Invoice(i, IF NextMarker(i) = {} THEN Len(file)
                                            ELSE (CHOOSE j \in NextMarker(i) : TRUE) - 1)
    BY <1>3 DEF slice_invoices
  <2>2. i \in 1..Len(file) /\ \A j \in NextMarker(i) : j \in 1..Len(file) /\ j > i
    BY <1>1 DEF Markers, ALines, NextMarker
  <2>3. CASE NextMarker(i) = {} BY <1>1, <2>1, <2>2, <2>3 DEF Invoice
  <2>4. CASE NextMarker(i) # {}
    <3> DEFINE j == CHOOSE k \in NextMarker(i) : TRUE
    <3>1. j \in NextMarker(i) BY <2>4
    <3>2. v = Invoice(i, j - 1) BY <2>1, <2>4
    <3> HIDE DEF j
    <3>. QED BY <2>2, <3>1, <3>2 DEF Invoice
  <2>. QED BY <2>3, <2>4
<1>. QED BY <1>2, <1>3

\* The XML of an invoice is made of its lines.
LEMMA XmlOfItsLines ==
    ASSUME FileInv, NEW v \in slice_invoices
    PROVE  AreLeaves(build_xml(Parsed(v)), LinesOf(v))
<1> DEFINE layout == normalize_layout(Forms[form].layout)
           F == UNION {file[i].given : i \in LinesOf(v)}
           V == {Value(i, file[i].is) : i \in LinesOf(v)}
<1>1. v.first \in Nat /\ v.last \in Int /\ v.first - 1 <= v.last /\ LinesOf(v) = v.first..v.last
  BY SlicesAre DEF LinesOf
<1>2. layout \in Layouts BY DEF normalize_layout, Layouts
<1>3. ReadFrom(V, LinesOf(v)) BY DEF ReadFrom, Value
<1>4. \A i \in v.first..v.last : fields_to_std(file[i], i) \in Std(F, V)
  <2> SUFFICES ASSUME NEW i \in v.first..v.last PROVE fields_to_std(file[i], i) \in Std(F, V) OBVIOUS
  <2>1. Value(i, file[i].is) \in V /\ file[i].given \in SUBSET F BY <1>1
  <2> HIDE DEF F, V
  <2>2. fields_to_std(file[i], i) \in [file[i].given -> V] BY <2>1 DEF fields_to_std
  <2>. QED BY <2>1, <2>2 DEF Std
<1> HIDE DEF F, V, layout
<1>5. parse(layout, get_structure(extract_layout_version(v), layout), file, v.first, v.last) \in Parsers(F, V)
  BY <1>1, <1>2, <1>4, ParseIs
<1>6. Parsed(v) \in Parsers(F, V) BY <1>5 DEF Parsed, layout
<1>. QED BY <1>3, <1>6, BuildXmlIs

\* The type holds of every file.
LEMMA TypeHolds == FileInv => TypeOK
<1> SUFFICES ASSUME FileInv PROVE TypeOK OBVIOUS
<1>1. form \in DOMAIN Forms /\ declared \in 0..MaxDeclared BY DEF FileInv
<1>2. \A i \in DOMAIN file : file[i] \in Lines[form] \/ i <= Len(Leads[form])
  BY FileIs DEF FileInv
<1>3. ASSUME NEW xml \in txt_to_xml_all.xml
      PROVE  \A leaf \in xml.leaves : leaf.from \in LinesOf(xml.of) /\ leaf.at.n \in Nat /\ leaf.at.m \in Nat
  <2>1. PICK v \in slice_invoices : xml = [of |-> v, leaves |-> build_xml(Parsed(v))]
    BY <1>3 DEF txt_to_xml_all, ConversionError
  <2>2. xml.of = v /\ xml.leaves = build_xml(Parsed(v)) BY <2>1
  <2>. QED BY <2>2, XmlOfItsLines DEF AreLeaves, IsLeaf
<1>. QED BY <1>1, <1>2, <1>3 DEF TypeOK

\* A file is what its form makes it, and every element of the XML of an
\* invoice was read from a line of that invoice, whatever lines the file has
\* and however many (mod.rs, txt_to_xml_all; parser.rs; build_*.rs).
THEOREM TypeCorrect == Spec => []TypeOK
BY FileAlways, TypeHolds, PTL
-----------------------------------------------------------------------------
(***************************************************************************)
(* The validator and the converter.  The invoices of a file that declares  *)
(* several partition its lines from its first capital A line on: each one  *)
(* begins at such a line, so the last A line before any of them, in either *)
(* case, is in its own invoice, and the layout that the validator is in at *)
(* a line is the same whether it reads the file or the invoice.            *)
(***************************************************************************)
\* The last line of the invoice that an A line starts.
End(i) == IF NextMarker(i) = {} THEN Len(file) ELSE (CHOOSE j \in NextMarker(i) : TRUE) - 1

\* The A lines are lines of the file, whatever case they are in.
LEMMA MarkersAre ==
    ASSUME FileInv
    PROVE  /\ Markers \subseteq ALines /\ ALines \subseteq 1..Len(file) /\ ALines \subseteq Nat
           /\ IsFiniteSet(Markers) /\ IsFiniteSet(ALines)
<1>1. Len(file) \in Nat \ {0} /\ DOMAIN file = 1..Len(file) BY FileIs
<1>2. Markers \subseteq ALines /\ ALines \subseteq 1..Len(file) BY <1>1 DEF Markers, ALines
<1>3. IsFiniteSet(1..Len(file)) BY <1>1, FS_Interval
<1>4. IsFiniteSet(ALines) BY <1>2, <1>3, FS_Subset
<1>5. IsFiniteSet(Markers) BY <1>2, <1>4, FS_Subset
<1>6. 1..Len(file) \subseteq Nat BY <1>1
<1>. QED BY <1>2, <1>4, <1>5, <1>6

\* An invoice ends before the next A line, or with the file.
LEMMA EndIs ==
    ASSUME FileInv, NEW i \in Markers
    PROVE  /\ End(i) \in i..Len(file)
           /\ \A k \in Markers : k > i => End(i) < k
           /\ End(i) = Len(file) \/ End(i) + 1 \in Markers
<1>1. Markers \subseteq 1..Len(file) /\ Len(file) \in Nat BY MarkersAre, FileIs
<1> DEFINE later == {k \in Markers : k > i}
<1>2. CASE later = {}
  <2>1. NextMarker(i) = {} BY <1>2 DEF NextMarker
  <2>. QED BY <1>1, <1>2, <2>1 DEF End
<1>3. CASE later # {}
  <2> DEFINE j == CHOOSE k \in NextMarker(i) : TRUE
  <2>1. later \in SUBSET Nat BY MarkersAre
  <2>2. First(later) \in later /\ \A k \in later : First(later) <= k BY <1>3, <2>1, FirstIsLeast
  <2>3. First(later) \in NextMarker(i) BY <2>2 DEF NextMarker
  <2>4. j \in NextMarker(i) BY <2>3
  <2>5. End(i) = j - 1 BY <2>3 DEF End
  <2> HIDE DEF j
  <2>6. j \in Markers /\ j > i /\ \A k \in Markers : k > i => j <= k BY <2>4 DEF NextMarker
  <2>7. \A k \in Markers : k \in Int /\ k <= Len(file) BY <1>1
  <2>. QED BY <1>1, <2>5, <2>6, <2>7
<1>. QED BY <1>2, <1>3

\* Every line from the first A line on is in one of the invoices.
LEMMA LinesAreCut ==
    ASSUME FileInv, NEW l \in 1..Len(file), NEW m \in Markers, m <= l
    PROVE  \E i \in Markers : l \in i..End(i)
<1>1. Markers \subseteq 1..Len(file) /\ Len(file) \in Nat BY MarkersAre, FileIs
<1> DEFINE T == {d \in Nat : l - d \in Markers}
           i == l - First(T)
<1>2. First(T) \in T /\ \A d \in T : First(T) <= d
  <2>1. l - m \in Nat /\ l - (l - m) = m BY <1>1
  <2>2. l - m \in T BY <2>1
  <2>. QED BY <2>2, FirstIsLeast
<1>3. i \in Markers /\ i <= l /\ i \in Int /\ l \in Int BY <1>1, <1>2
<1>4. \A k \in Markers : k <= l => k <= i
  <2> SUFFICES ASSUME NEW k \in Markers, k <= l PROVE k <= i OBVIOUS
  <2>1. k \in Int BY <1>1
  <2>2. l - k \in Nat /\ l - (l - k) = k BY <1>1, <2>1
  <2>3. First(T) <= l - k BY <1>2, <2>2
  <2>4. First(T) \in Nat BY <1>2
  <2> DEFINE d == First(T)
  <2> HIDE DEF d, T
  <2>. QED BY <1>1, <2>1, <2>3, <2>4 DEF d
<1> HIDE DEF i
<1>5. l <= End(i)
  <2>1. End(i) \in i..Len(file) /\ (End(i) = Len(file) \/ End(i) + 1 \in Markers) BY <1>3, EndIs
  <2>2. CASE End(i) = Len(file) BY <1>1, <2>2
  <2>3. CASE End(i) + 1 \in Markers
    <3>1. End(i) \in Int /\ i <= End(i) BY <1>1, <1>3, <2>1
    <3>2. ~(End(i) + 1 <= i) BY <1>3, <3>1
    <3>3. ~(End(i) + 1 <= l) BY <1>4, <2>3, <3>2
    <3>. QED BY <1>3, <3>1, <3>3
  <2>. QED BY <2>1, <2>2, <2>3
<1>6. End(i) \in Int BY <1>1, <1>3, EndIs
<1>. QED BY <1>3, <1>5, <1>6

\* The layout at a line of an invoice is the one it has in the file: the last A
\* line before it, in any case, is in the invoice.
LEMMA SameEntities ==
    ASSUME FileInv, NEW i \in Markers, NEW l \in i..End(i), NEW layout
    PROVE  EntitiesAt(l, i..End(i), layout) = EntitiesAt(l, DOMAIN file, layout)
<1>1. Markers \subseteq ALines /\ ALines \subseteq 1..Len(file) /\ DOMAIN file = 1..Len(file) /\ Len(file) \in Nat
  BY MarkersAre, FileIs
<1>2. End(i) \in i..Len(file) BY EndIs
<1>3. i \in Int /\ End(i) \in Int /\ l \in Int /\ i <= l /\ l <= End(i) BY <1>1, <1>2
<1> DEFINE here == {j \in (i..End(i)) \cap ALines : j <= l}
           there == {j \in (DOMAIN file) \cap ALines : j <= l}
<1>4. i \in here /\ i \in there BY <1>1, <1>3
<1>5. here \subseteq there /\ there \subseteq Int BY <1>1
<1>6. \A k \in there : k >= i => k \in here BY <1>1, <1>3
<1> HIDE DEF here, there
<1>7. PICK m \in there : \A k \in there : k <= m
  <2> DEFINE T == {d \in Nat : l - d \in there}
  <2>1. \A k \in there : k \in Int /\ k <= l BY <1>5 DEF there
  <2>2. l - i \in T BY <1>3, <1>4
  <2>3. First(T) \in T /\ \A d \in T : First(T) <= d BY <2>2, FirstIsLeast
  <2> DEFINE d == First(T)
  <2>4. d \in Nat /\ l - d \in there /\ \A k \in there : l - k \in Nat /\ l - (l - k) = k BY <1>3, <2>1, <2>3
  <2>5. \A k \in there : d <= l - k BY <2>3, <2>4
  <2> HIDE DEF d
  <2>6. \A k \in there : k <= l - d BY <1>3, <2>1, <2>4, <2>5
  <2>. QED BY <2>4, <2>6
<1>8. m >= i /\ m \in Int BY <1>4, <1>5, <1>7
<1>9. m \in here /\ \A k \in here : k <= m BY <1>5, <1>6, <1>7, <1>8
<1>10. ASSUME NEW S \in {here, there}, NEW j \in S, \A k \in S : k <= j PROVE j = m
  <2>1. j \in Int /\ m \in S /\ j <= m BY <1>5, <1>7, <1>9, <1>10
  <2>. QED BY <1>8, <1>10, <2>1
<1>11. (CHOOSE j \in here : \A k \in here : k <= j) = m BY <1>9, <1>10
<1>12. (CHOOSE j \in there : \A k \in there : k <= j) = m BY <1>7, <1>10
<1>13. here # {} /\ there # {} BY <1>4
<1>14. EntitiesAt(l, i..End(i), layout) = get_structure(file[m].is, layout)
  BY <1>11, <1>13 DEF EntitiesAt, here
<1>15. EntitiesAt(l, DOMAIN file, layout) = get_structure(file[m].is, layout)
  BY <1>12, <1>13 DEF EntitiesAt, there
<1>. QED BY <1>14, <1>15

\* A line that the converter does not refuse.
Good(l) ==
    /\ file[l].flaws \cap Refused = {}
    /\ file[l].ref \in DOMAIN EntitiesAt(l, DOMAIN file, normalize_layout(Forms[form].layout))

\* An invoice says its version if it has an A line, in capitals.
LEMMA VersionIs ==
    ASSUME FileInv, NEW v
    PROVE  extract_layout_version(v) # None <=> LinesOf(v) \cap Markers # {}
<1> DEFINE as == LinesOf(v) \cap Markers
           a == CHOOSE j \in as : \A k \in as : j <= k
<1>1. as \in SUBSET Nat BY MarkersAre
<1>2. CASE as = {} BY <1>2 DEF extract_layout_version
<1>3. CASE as # {}
  <2>1. First(as) = a BY DEF First
  <2>2. First(as) \in as BY <1>1, <1>3, FirstIsLeast
  <2>3. a \in DOMAIN file BY <2>1, <2>2, MarkersAre, FileIs
  <2>4. extract_layout_version(v) = file[a].is BY <1>3 DEF extract_layout_version
  <2> HIDE DEF a
  <2>. QED BY <1>3, <2>3, <2>4, FileIs
<1>. QED BY <1>2, <1>3

\* An invoice is converted if its lines are good and its key is accepted.
LEMMA SliceConverts ==
    ASSUME FileInv, NEW i \in Markers
    PROVE  LET v == Invoice(i, End(i))
           IN  Convertible(v) <=> KeyAccepted(v) /\ \A l \in i..End(i) : Good(l)
<1> DEFINE v == Invoice(i, End(i))
           layout == normalize_layout(Forms[form].layout)
<1>1. LinesOf(v) = i..End(i) BY DEF LinesOf, Invoice
<1>2. i \in LinesOf(v) \cap Markers
  <2>1. i \in 1..Len(file) /\ Len(file) \in Nat /\ End(i) \in i..Len(file) BY MarkersAre, FileIs, EndIs
  <2>. QED BY <1>1, <2>1
<1>3. extract_layout_version(v) # None BY <1>2, VersionIs
<1>4. validate_txt_lines(LinesOf(v), Refused, layout) <=> \A l \in i..End(i) : Good(l)
  BY <1>1, SameEntities DEF validate_txt_lines, Good
<1>. QED BY <1>3, <1>4 DEF Convertible

\* A file read as one invoice is converted if it says its version, its lines
\* are good and its key is accepted.
LEMMA FileConverts ==
    ASSUME FileInv
    PROVE  LET v == Invoice(1, Len(file))
           IN  Convertible(v) <=> Markers # {} /\ KeyAccepted(v) /\ \A l \in DOMAIN file : Good(l)
<1> DEFINE v == Invoice(1, Len(file))
<1>1. DOMAIN file = 1..Len(file) BY FileIs
<1>2. LinesOf(v) = DOMAIN file BY <1>1 DEF LinesOf, Invoice
<1>3. extract_layout_version(v) # None <=> Markers # {}
  <2>1. LinesOf(v) \cap Markers = Markers BY <1>1, <1>2, MarkersAre
  <2>. QED BY <2>1, VersionIs
<1>. QED BY <1>2, <1>3 DEF Convertible, Good, validate_txt_lines

\* There are as many invoices as A lines in capitals, when several are declared.
LEMMA AsManyAsMarkers ==
    ASSUME FileInv, ~(declared <= 1)
    PROVE  /\ slice_invoices = {Invoice(i, End(i)) : i \in Markers}
           /\ Cardinality(slice_invoices) = Cardinality(Markers)
<1>1. slice_invoices = {Invoice(i, End(i)) : i \in Markers} BY DEF slice_invoices, End
<1> DEFINE f == [i \in Markers |-> Invoice(i, End(i))]
<1>2. \A i, j \in Markers : f[i] = f[j] => i = j BY DEF Invoice
<1>3. f \in Bijection(Markers, slice_invoices)
  <2>1. f \in [Markers -> slice_invoices] BY <1>1
  <2>2. \A v \in slice_invoices : \E i \in Markers : f[i] = v BY <1>1
  <2> HIDE DEF f
  <2>. QED BY <1>2, <2>1, <2>2, Fun_IsBij
<1>4. ExistsBijection(Markers, slice_invoices) BY <1>3 DEF ExistsBijection
<1>. QED BY <1>1, <1>4, MarkersAre, FS_Bijection

\* The validator and the converter agree on every file.
LEMMA ValidatorAgrees == FileInv => ValidatedConverts
<1> DEFINE keys == \A v \in slice_invoices : KeyAccepted(v)
           tabs == \A i \in DOMAIN file : "tab" \notin file[i].flaws
           good == \A l \in DOMAIN file : Good(l)
<1> SUFFICES ASSUME FileInv
             PROVE  /\ good /\ AsDeclared /\ keys => txt_to_xml_all.ok
                    /\ txt_to_xml_all.ok /\ Dropped = {} => good /\ AsDeclared /\ keys
  <2>1. validate_txt /\ tabs <=> good BY DEF validate_txt, validate_txt_lines, Good, Refused
  <2> HIDE DEF keys, tabs, good
  <2>2. ValidatedConverts <=>
          /\ (validate_txt /\ AsDeclared /\ keys /\ tabs) => txt_to_xml_all.ok
          /\ (txt_to_xml_all.ok /\ Dropped = {}) => (validate_txt /\ AsDeclared /\ keys /\ tabs)
    BY DEF ValidatedConverts, keys, tabs
  <2>. QED BY <2>1, <2>2
<1>1. txt_to_xml_all.ok <=>
        Cardinality(slice_invoices) = declared /\ \A v \in slice_invoices : Convertible(v)
  BY DEF txt_to_xml_all, ConversionError
<1>2. CASE declared <= 1
  <2> DEFINE v == Invoice(1, Len(file))
  <2>1. slice_invoices = {v} BY <1>2 DEF slice_invoices
  <2>2. Cardinality(slice_invoices) = 1 BY <2>1, FS_Singleton
  <2>3. Convertible(v) <=> Markers # {} /\ KeyAccepted(v) /\ good BY FileConverts
  <2>4. AsDeclared <=> declared = 1 /\ Markers # {} BY <1>2 DEF AsDeclared
  <2> HIDE DEF v, good
  <2>. QED BY <1>1, <2>1, <2>2, <2>3, <2>4
<1>3. CASE ~(declared <= 1)
  <2>1. /\ slice_invoices = {Invoice(i, End(i)) : i \in Markers}
        /\ Cardinality(slice_invoices) = Cardinality(Markers)
    BY <1>3, AsManyAsMarkers
  <2>2. (\A v \in slice_invoices : Convertible(v)) <=> keys /\ \A i \in Markers : \A l \in i..End(i) : Good(l)
    BY <2>1, SliceConverts
  <2>3. good => \A i \in Markers : \A l \in i..End(i) : Good(l)
    <3> SUFFICES ASSUME NEW i \in Markers PROVE i..End(i) \subseteq DOMAIN file OBVIOUS
    <3>1. i \in 1..Len(file) /\ End(i) \in i..Len(file) BY MarkersAre, EndIs
    <3>. QED BY <3>1, FileIs
  <2>4. Dropped = {} /\ (\A i \in Markers : \A l \in i..End(i) : Good(l)) => good
    <3> SUFFICES ASSUME Dropped = {}, \A i \in Markers : \A l \in i..End(i) : Good(l), NEW l \in DOMAIN file
                 PROVE  Good(l)
      OBVIOUS
    <3>1. PICK m \in Markers : ~(l < m) BY <1>3 DEF Dropped
    <3>2. DOMAIN file = 1..Len(file) /\ l \in Int /\ m \in Int BY MarkersAre, FileIs
    <3>3. m <= l BY <3>1, <3>2
    <3>4. PICK i \in Markers : l \in i..End(i) BY <3>2, <3>3, LinesAreCut
    <3>. QED BY <3>4
  <2>5. AsDeclared <=> Cardinality(Markers) = declared BY <1>3 DEF AsDeclared
  <2> HIDE DEF good, keys
  <2>. QED BY <1>1, <2>1, <2>2, <2>3, <2>4, <2>5
<1>. QED BY <1>2, <1>3

\* A file that the validator accepts is converted, if it has the invoices it
\* declares, none of them is left with a wrong key and no field has a tab; and a file
\* that is converted is one of those, unless lines before its first invoice were dropped:
\* for any file, whatever it begins with, and any number of invoices
\* (helpers.rs, validate_txt_lines; mod.rs, slice_invoices).
THEOREM ValidatorAndConverterAgree == Spec => []ValidatedConverts
BY FileAlways, ValidatorAgrees, PTL

\* The entity that an entity of the layout stands under.
LEMMA ParentsAre ==
    /\ ParentOf("A") = "" /\ ParentOf("H") = "A" /\ ParentOf("W") = "A"
    /\ ParentOf("I") = "H" /\ ParentOf("X33") = "X26"
    /\ \A ref : (OfItem(ref) /\ ref # "H") => OfItem(ParentOf(ref)) /\ ParentOf(ref) # "A"
<1> DEFINE icms == DOMAIN Icms \cup DOMAIN IcmsSpecial
           ofI == {"I05A", "I05C", "I05G", "I18", "I50", "I80", "JA", "K", "L", "LA", "LB", "M", "NA", "O", "P",
                   "Q02", "Q03", "Q04", "Q05", "R", "S02", "S03", "S04", "S05", "T", "U", "UA"} \cup icms
           deeper == {"I25", "I52", "LA07", "LA11", "O07", "O08", "O10", "O11", "Q07", "Q10", "R02", "R04",
                      "S07", "S09", "T02", "T04"}
<1>1. \A ref : (OfItem(ref) /\ ref # "H") => ref = "I" \/ ref \in ofI \/ ref \in deeper
  <2> HIDE DEF icms
  <2>. QED BY DEF OfItem, Section, icms
<1>2. \A ref \in DOMAIN Under : ref # "A" => ParentOf(ref) = Under[ref] BY DEF ParentOf
<1>3. /\ "A" \notin DOMAIN Under /\ "H" \notin DOMAIN Under /\ "W" \notin DOMAIN Under
      /\ "I" \in DOMAIN Under /\ Under["I"] = "H" /\ "X33" \in DOMAIN Under /\ Under["X33"] = "X26"
  BY IcmsRefs DEF Under, Extend
<1>4. \A ref \in ofI : ref \in DOMAIN Under /\ Under[ref] = "I" /\ ref # "A"
  BY IcmsRefs DEF Under, Extend
<1>5. \A ref \in deeper : /\ ref \in DOMAIN Under /\ ref # "A"
                          /\ Under[ref] \in {"I18", "I50", "LA", "O", "O07", "Q05", "R", "S05", "T"}
  BY IcmsRefs DEF Under, Extend
<1>6. \A ref \in {"H", "I", "I18", "I50", "LA", "O", "O07", "Q05", "R", "S05", "T"} : OfItem(ref) /\ ref # "A"
  BY DEF OfItem, Section
<1> HIDE DEF icms, ofI, deeper
<1>7. \A ref : (OfItem(ref) /\ ref # "H") => OfItem(ParentOf(ref)) /\ ParentOf(ref) # "A"
  BY <1>1, <1>2, <1>3, <1>4, <1>5, <1>6
<1>8. ParentOf("A") = "" /\ ParentOf("H") = "A" /\ ParentOf("W") = "A" BY <1>3 DEF ParentOf
<1>9. ParentOf("I") = "H" /\ ParentOf("X33") = "X26" BY <1>2, <1>3
<1>. QED BY <1>7, <1>8, <1>9

\* What is assumed of the layout of a form.
LEMMA LayoutIs ==
    ASSUME FileInv
    PROVE  /\ \A i \in DOMAIN file : file[i].ref # ""
           /\ \A line \in Lines[form] : line.ref # ""
           /\ \A i \in DOMAIN file : file[i].ref # "A" =>
                Rank(file[i].ref) \in Nat /\ file[i].ref \in Forms[form].order[Rank(file[i].ref)]
           /\ \A line \in Lines[form] : line.ref # "A" =>
                Rank(line.ref) \in Nat /\ line.ref \in Forms[form].order[Rank(line.ref)]
           /\ \A r, s \in DOMAIN Forms[form].order :
                "H" \in Forms[form].order[r] /\ "W" \in Forms[form].order[s] => r < s
           /\ \A i \in DOMAIN file : file[i].ref # "A" => Rank(file[i].ref) \in DOMAIN Forms[form].order
           /\ \A line \in Lines[form] : line.ref # "A" => Rank(line.ref) \in DOMAIN Forms[form].order
<1> DEFINE refs == {line.ref : line \in LeadOf(form) \cup Lines[form]}
<1>1. form \in DOMAIN Forms BY DEF FileInv
<1>2. /\ DOMAIN Forms[form].order \subseteq Nat
      /\ \A ref \in refs : ref # "" /\ (ref # "A" => \E r \in DOMAIN Forms[form].order : ref \in Forms[form].order[r])
      /\ \A r, s \in DOMAIN Forms[form].order :
           "H" \in Forms[form].order[r] /\ "W" \in Forms[form].order[s] => r < s
  BY <1>1, LayoutAssumption DEF LeadOf
<1>3. \A line \in Lines[form] : line.ref \in refs OBVIOUS
<1>4. \A i \in DOMAIN file : file[i].ref \in refs
  <2>1. \A i \in DOMAIN file : file[i] \in LeadOf(form) \cup Lines[form] BY DEF FileInv
  <2>. QED BY <2>1
<1> HIDE DEF refs
<1>5. \A ref \in refs : ref # "A" =>
        Rank(ref) \in DOMAIN Forms[form].order /\ ref \in Forms[form].order[Rank(ref)]
  BY <1>2 DEF Rank
<1>. QED BY <1>2, <1>3, <1>4, <1>5

\* The largest of some natural numbers.
LEMMA LastOf ==
    ASSUME NEW n \in Nat, NEW S \in SUBSET (1..n), S # {}
    PROVE  \E j \in S : \A k \in S : k <= j
<1> DEFINE T == {d \in Nat : n - d \in S}
           d == First(T)
<1>1. PICK j \in S : TRUE OBVIOUS
<1>2. n - j \in Nat /\ n - (n - j) = j OBVIOUS
<1>3. T \in SUBSET Nat /\ T # {} BY <1>2
<1>4. d \in T /\ \A e \in T : d <= e BY <1>3, FirstIsLeast
<1>5. n - d \in S /\ d \in Nat BY <1>4
<1> HIDE DEF d
<1>6. ASSUME NEW k \in S PROVE k <= n - d
  <2>1. n - k \in Nat /\ n - (n - k) = k OBVIOUS
  <2>2. d <= n - k BY <1>4, <2>1
  <2>. QED BY <1>5, <2>2
<1>. QED BY <1>5, <1>6

\* The last line of an entity before another line.
LEMMA LastBeforeIs ==
    ASSUME FileInv, NEW i \in 1..(Len(file) + 1), NEW ref
    PROVE  \/ LastBefore(i, ref) = 0 /\ \A j \in DOMAIN file : j < i => file[j].ref # ref
           \/ /\ LastBefore(i, ref) \in 1..Len(file) /\ LastBefore(i, ref) < i /\ file[LastBefore(i, ref)].ref = ref
              /\ \A j \in DOMAIN file : (LastBefore(i, ref) < j /\ j < i) => file[j].ref # ref
<1> DEFINE js == {j \in DOMAIN file : j < i /\ file[j].ref = ref}
<1>1. Len(file) \in Nat /\ DOMAIN file = 1..Len(file) BY FileIs
<1>2. CASE js = {} BY <1>2 DEF LastBefore
<1>3. CASE js # {}
  <2>1. js \in SUBSET (1..Len(file)) BY <1>1
  <2>2. \E j \in js : \A k \in js : k <= j
    <3> HIDE DEF js
    <3>. QED BY <1>1, <1>3, <2>1, LastOf
  <2> DEFINE l == CHOOSE j \in js : \A k \in js : k <= j
  <2>3. l \in js /\ \A k \in js : k <= l BY <2>2
  <2>4. LastBefore(i, ref) = l BY <1>3 DEF LastBefore
  <2> HIDE DEF l
  <2>5. \A j \in DOMAIN file : (l < j /\ j < i) => j \notin js
    <3> SUFFICES ASSUME NEW j \in js, l < j PROVE FALSE OBVIOUS
    <3>1. j <= l /\ l \in Int /\ j \in Int BY <2>1, <2>3
    <3>. QED BY <3>1
  <2>. QED BY <1>1, <2>3, <2>4, <2>5
<1>. QED BY <1>2, <1>3

\* A line that fits stands under its parent, in the same invoice.
LEMMA FitsUnder ==
    ASSUME FileInv, NEW ref, Fits(ref), ref # "A"
    PROVE  \E p \in 1..Len(file) :
             /\ p = LastBefore(Len(file) + 1, ParentOf(ref)) /\ file[p].ref = ParentOf(ref)
             /\ \A k \in DOMAIN file : p < k => file[k].ref # "A" /\ file[k].ref # ParentOf(ref)
<1> DEFINE p == LastBefore(Len(file) + 1, ParentOf(ref))
<1>1. Len(file) \in Nat /\ DOMAIN file = 1..Len(file) BY FileIs
<1>2. p > 0 /\ \A k \in (p + 1)..Len(file) : Parent(k) >= p BY DEF Fits
<1>3. p \in 1..Len(file) /\ file[p].ref = ParentOf(ref) /\ \A k \in DOMAIN file : p < k => file[k].ref # ParentOf(ref)
  <2>1. Len(file) + 1 \in 1..(Len(file) + 1) BY <1>1
  <2>2. \A j \in DOMAIN file : j < Len(file) + 1 BY <1>1
  <2>. QED BY <1>1, <1>2, <2>1, <2>2, LastBeforeIs
<1> HIDE DEF p
<1>4. ASSUME NEW k \in DOMAIN file, p < k, file[k].ref = "A" PROVE FALSE
  <2>1. k \in (p + 1)..Len(file) /\ k \in 1..(Len(file) + 1) BY <1>1, <1>3, <1>4
  <2>2. Parent(k) = LastBefore(k, "") BY <1>4, ParentsAre DEF Parent
  <2>3. Parent(k) = 0
    <3>1. \A j \in DOMAIN file : file[j].ref # "" BY LayoutIs
    <3>. QED BY <1>1, <2>1, <2>2, <3>1, LastBeforeIs
  <2>4. Parent(k) >= p BY <1>2, <2>1
  <2>. QED BY <1>3, <2>3, <2>4
<1>. QED BY <1>3, <1>4 DEF p

\* Two entities of one parent come in their order.
LEMMA FitsAfter ==
    ASSUME FileInv, NEW ref, Fits(ref), ref # "A", NEW i \in DOMAIN file,
           LastBefore(Len(file) + 1, ParentOf(ref)) < i,
           Parent(i) = LastBefore(Len(file) + 1, ParentOf(ref))
    PROVE  \/ Rank(file[i].ref) < Rank(ref)
           \/ {ref, file[i].ref} \subseteq Repeatable
<1>1. Len(file) \in Nat /\ DOMAIN file = 1..Len(file) BY FileIs
<1> DEFINE p == LastBefore(Len(file) + 1, ParentOf(ref))
<1>2. p \in Nat BY <1>1, FitsUnder
<1>3. i \in (p + 1)..Len(file)
  <2> HIDE DEF p
  <2>. QED BY <1>1, <1>2 DEF p
<1>. QED BY <1>3 DEF Fits, Repeated

\* Invoices, volumes and totals are not of an item.
LEMMA NotOfItem ==
    \A ref \in {"A", "W", "X26", "X33"} : ~OfItem(ref)
<1> DEFINE icms == DOMAIN Icms \cup DOMAIN IcmsSpecial
<1>1. \A ref \in {"A", "W", "X26", "X33"} : ref \notin icms BY IcmsRefs
<1> HIDE DEF icms
<1>2. \A ref \in {"A", "W", "X26", "X33"} : Section(ref) \in {"header", "rest", "transport"}
  BY <1>1 DEF Section, icms
<1>. QED BY <1>2 DEF OfItem

\* What comes before the last line of a file that grew.
LEMMA BeforeLast ==
    ASSUME FileInv, NEW line, NEW ref
    PROVE  /\ \A i \in DOMAIN file : Before(Append(file, line), i, ref) <=> Before(file, i, ref)
           /\ Before(Append(file, line), Len(file) + 1, ref) <=>
                /\ line.ref # "A"
                /\ \E j \in DOMAIN file : /\ file[j].ref = ref
                                          /\ \A k \in DOMAIN file : j < k => file[k].ref # "A"
<1> DEFINE n == Len(file)
           now == Append(file, line)
<1>1. n \in Nat /\ DOMAIN file = 1..n BY FileIs
<1>2. /\ DOMAIN now = 1..(n + 1) /\ \A i \in 1..n : now[i] = file[i]
      /\ now[n + 1] = line
  BY <1>1 DEF FileInv
<1> HIDE DEF n, now
<1>3. \A i \in DOMAIN file : Before(now, i, ref) <=> Before(file, i, ref)
  <2> SUFFICES ASSUME NEW i \in 1..n PROVE Before(now, i, ref) <=> Before(file, i, ref) BY <1>1
  <2>1. \A j \in 1..(n + 1) : j <= i => j \in 1..n BY <1>1
  <2>. QED BY <1>1, <1>2, <2>1 DEF Before
<1>4. Before(now, n + 1, ref) <=>
        /\ line.ref # "A"
        /\ \E j \in DOMAIN file : file[j].ref = ref /\ \A k \in DOMAIN file : j < k => file[k].ref # "A"
  <2>1. ASSUME Before(now, n + 1, ref)
        PROVE  /\ line.ref # "A"
               /\ \E j \in DOMAIN file : file[j].ref = ref /\ \A k \in DOMAIN file : j < k => file[k].ref # "A"
    <3>1. PICK j \in 1..(n + 1) : /\ j < n + 1 /\ now[j].ref = ref
                                  /\ \A k \in 1..(n + 1) : j < k /\ k <= n + 1 => now[k].ref # "A"
      BY <1>2, <2>1 DEF Before
    <3>2. j \in 1..n /\ n + 1 \in 1..(n + 1) /\ \A k \in 1..n : k \in 1..(n + 1) /\ k <= n + 1 BY <1>1, <3>1
    <3>. QED BY <1>1, <1>2, <3>1, <3>2
  <2>2. ASSUME line.ref # "A",
               NEW j \in 1..n, file[j].ref = ref, \A k \in 1..n : j < k => file[k].ref # "A"
        PROVE  Before(now, n + 1, ref)
    <3>1. j \in 1..(n + 1) /\ j < n + 1 /\ \A k \in 1..(n + 1) : k \in 1..n \/ k = n + 1 BY <1>1
    <3>2. \A k \in 1..(n + 1) : j < k /\ k <= n + 1 => now[k].ref # "A" BY <1>1, <1>2, <2>2, <3>1
    <3>. QED BY <1>2, <2>2, <3>1, <3>2 DEF Before
  <2>. QED BY <1>1, <2>1, <2>2
<1>. QED BY <1>3, <1>4 DEF n, now

\* A product that fits follows its H line.
LEMMA ProductFits ==
    ASSUME FileInv, InOrder(file), NEW line \in Lines[form], Fits(line.ref), line.ref = "I"
    PROVE  file[Len(file)].ref = "H"
<1>1. Len(file) \in Nat /\ DOMAIN file = 1..Len(file) BY FileIs
<1>2. PICK p \in 1..Len(file) :
        /\ p = LastBefore(Len(file) + 1, ParentOf("I")) /\ file[p].ref = "H"
        /\ \A k \in DOMAIN file : p < k => file[k].ref # "A" /\ file[k].ref # "H"
  BY FitsUnder, ParentsAre
<1>3. CASE p = Len(file) BY <1>2, <1>3
<1>4. CASE p # Len(file)
  <2>1. p + 1 \in DOMAIN file /\ p < p + 1 BY <1>1, <1>2, <1>4
  <2>2. file[p + 1].ref = "I" BY <1>1, <1>2, <2>1 DEF InOrder, Needs
  <2>3. Parent(p + 1) = p
    <3>1. Parent(p + 1) = LastBefore(p + 1, "H") BY <2>2, ParentsAre DEF Parent
    <3>2. p + 1 \in 1..(Len(file) + 1) BY <1>1, <1>2
    <3>3. \A l \in 1..Len(file) : l < p + 1 => l = p \/ l < p BY <1>1, <1>2
    <3>. QED BY <1>1, <1>2, <2>1, <3>1, <3>2, <3>3, LastBeforeIs
  <2>4. Rank("I") < Rank("I") \/ "I" \in Repeatable BY <1>2, <2>1, <2>2, <2>3, FitsAfter
  <2>5. Rank("I") \in Nat BY LayoutIs
  <2>. QED BY <2>4, <2>5 DEF Repeatable
<1>. QED BY <1>3, <1>4

\* A line of an item that fits comes after an H line and before the totals.
LEMMA ItemFits ==
    ASSUME FileInv, InOrder(file), NEW line \in Lines[form], Fits(line.ref), OfItem(line.ref)
    PROVE  /\ line.ref # "H" => Before(Append(file, line), Len(file) + 1, "H")
           /\ ~Before(Append(file, line), Len(file) + 1, "W")
<1> DEFINE ref == line.ref
           parent == ParentOf(ref)
           p == LastBefore(Len(file) + 1, parent)
<1>1. Len(file) \in Nat /\ DOMAIN file = 1..Len(file) BY FileIs
<1>2. ref # "A"
  <2>. QED BY NotOfItem
<1>3. /\ p \in 1..Len(file) /\ file[p].ref = parent
      /\ \A k \in DOMAIN file : p < k => file[k].ref # "A" /\ file[k].ref # parent
  BY <1>2, FitsUnder
<1>4. \A i \in DOMAIN file : \A r : Before(file, i, r) =>
        \E j \in DOMAIN file : j < i /\ file[j].ref = r /\ \A k \in DOMAIN file : j < k /\ k <= i => file[k].ref # "A"
  BY DEF Before
<1>5. \A w \in DOMAIN file : w # p => w < p \/ p < w BY <1>1, <1>3
<1>6. \A k \in DOMAIN file : k <= p \/ p < k BY <1>1, <1>3
<1>7. ~OfItem("W") BY NotOfItem
<1>8. CASE ref = "H"
  <2>1. parent = "A" BY <1>8, ParentsAre
  <2>2. ASSUME NEW w \in DOMAIN file, file[w].ref = "W", \A k \in DOMAIN file : w < k => file[k].ref # "A"
        PROVE  FALSE
    <3>1. p \in DOMAIN file /\ ~(w < p) /\ w # p BY <1>1, <1>3, <2>1, <2>2
    <3>2. p < w BY <1>5, <3>1
    <3>3. Parent(w) = p
      <4>1. Parent(w) = LastBefore(w, "A") BY <2>2, ParentsAre DEF Parent
      <4> HIDE DEF p
      <4>2. w \in 1..(Len(file) + 1) BY <1>1
      <4>3. \A l \in 1..Len(file) : l = p \/ l < p \/ p < l BY <1>3
      <4>. QED BY <1>1, <1>3, <2>1, <3>1, <3>2, <4>1, <4>2, <4>3, LastBeforeIs
    <3>4. Rank("W") < Rank("H") \/ "W" \in Repeatable
      <4>1. LastBefore(Len(file) + 1, ParentOf("H")) = p BY <1>8
      <4>2. Fits("H") BY <1>8
      <4> HIDE DEF p
      <4>. QED BY <2>2, <3>2, <3>3, <4>1, <4>2, FitsAfter
    <3>5. Rank("H") < Rank("W") /\ Rank("H") \in Nat /\ Rank("W") \in Nat BY <1>8, <2>2, LayoutIs
    <3>. QED BY <3>4, <3>5 DEF Repeatable
  <2>3. ~Before(Append(file, line), Len(file) + 1, "W") BY <2>2, BeforeLast
  <2>. QED BY <1>8, <2>3
<1>9. CASE ref # "H"
  <2>1. OfItem(parent) /\ parent # "A" BY <1>9, ParentsAre
  <2>2. \E j \in DOMAIN file : file[j].ref = "H" /\ \A k \in DOMAIN file : j < k => file[k].ref # "A"
    <3>1. CASE parent = "H" BY <1>1, <1>3, <3>1
    <3>2. CASE parent # "H"
      <4>1. Before(file, p, "H") BY <1>1, <1>3, <2>1, <3>2 DEF InOrder
      <4> HIDE DEF p
      <4>. QED BY <1>1, <1>3, <1>4, <1>6, <4>1
    <3>. QED BY <3>1, <3>2
  <2>3. Before(Append(file, line), Len(file) + 1, "H") BY <1>2, <2>2, BeforeLast
  <2>4. ASSUME NEW w \in DOMAIN file, file[w].ref = "W", \A k \in DOMAIN file : w < k => file[k].ref # "A"
        PROVE  FALSE
    <3>1. w # p BY <1>3, <1>7, <2>1, <2>4
    <3>2. CASE w < p
      <4>1. Before(file, p, "W") BY <1>1, <1>3, <2>4, <3>2 DEF Before
      <4>. QED BY <1>1, <1>3, <2>1, <4>1 DEF InOrder
    <3>3. CASE p < w
      <4>1. Parent(w) = LastBefore(w, "A") BY <2>4, ParentsAre DEF Parent
      <4>2. Parent(w) >= p
        <5>1. w \in (p + 1)..Len(file)
          <6> HIDE DEF p
          <6>. QED BY <1>1, <1>3, <3>3
        <5>. QED BY <1>2, <5>1 DEF Fits
      <4>3. Parent(w) = 0 \/ (Parent(w) \in DOMAIN file /\ file[Parent(w)].ref = "A")
        <5>1. w \in 1..(Len(file) + 1) BY <1>1
        <5>. QED BY <1>1, <4>1, <5>1, LastBeforeIs
      <4> HIDE DEF p
      <4>4. Parent(w) \in DOMAIN file /\ file[Parent(w)].ref = "A" BY <1>3, <4>2, <4>3
      <4>5. Parent(w) # p BY <1>3, <2>1, <4>4
      <4>6. p < Parent(w) BY <1>5, <1>1, <1>3, <4>2, <4>4, <4>5
      <4>. QED BY <1>3, <4>4, <4>6
    <3>. QED BY <1>5, <2>4, <3>1, <3>2, <3>3
  <2>5. ~Before(Append(file, line), Len(file) + 1, "W") BY <2>4, BeforeLast
  <2>. QED BY <2>3, <2>5
<1>. QED BY <1>8, <1>9

\* A file that is in order stays so with a line that fits.
LEMMA StaysInOrder ==
    ASSUME FileInv, InOrder(file), NEW line \in Lines[form], Fits(line.ref)
    PROVE  InOrder(Append(file, line))
<1> DEFINE n == Len(file)
           now == Append(file, line)
<1>1. n \in Nat \ {0} /\ DOMAIN file = 1..n /\ file # <<>>
  <2>1. n \in Nat \ {0} /\ DOMAIN file = 1..n BY FileIs
  <2>2. file # <<>> BY <2>1
  <2>. QED BY <2>1, <2>2
<1>2. /\ DOMAIN now = 1..(n + 1) /\ \A i \in 1..n : now[i] = file[i]
      /\ now[n + 1] = line
  BY <1>1 DEF FileInv
<1>3. file[n].ref \in DOMAIN Needs => line.ref \in Needs[file[n].ref] BY <1>1 DEF Fits
<1>4. /\ \A i \in 1..n : \A ref : Before(now, i, ref) <=> Before(file, i, ref) BY <1>1, BeforeLast
<1>5. line.ref = "I" => file[n].ref = "H" BY ProductFits
<1>6. OfItem(line.ref) => /\ line.ref # "H" => Before(now, n + 1, "H")
                          /\ ~Before(now, n + 1, "W")
  BY ItemFits
<1>7. line.ref = "X33" => Before(now, n + 1, "X26")
  <2> SUFFICES ASSUME line.ref = "X33" PROVE Before(now, n + 1, "X26") OBVIOUS
  <2>1. PICK p \in 1..n : /\ file[p].ref = "X26"
                          /\ \A k \in DOMAIN file : p < k => file[k].ref # "A" /\ file[k].ref # "X26"
    BY FitsUnder, ParentsAre
  <2>. QED BY <1>1, <2>1, BeforeLast
<1> HIDE DEF n, now
<1>8. \A i \in 1..(n + 1) : i \in 1..n \/ i = n + 1 BY <1>1
<1> DEFINE ok(i) ==
        LET ref == now[i].ref IN
        /\ (ref \in DOMAIN Needs /\ i + 1 \in DOMAIN now) => now[i + 1].ref \in Needs[ref]
        /\ ref = "I" => i - 1 \in DOMAIN now /\ now[i - 1].ref = "H"
        /\ (OfItem(ref) /\ ref # "H") => Before(now, i, "H")
        /\ OfItem(ref) => ~Before(now, i, "W")
        /\ ref = "X33" => Before(now, i, "X26")
<1>9. ASSUME NEW i \in 1..n PROVE ok(i)
  <2>1. now[i] = file[i] BY <1>2
  <2>2. (now[i].ref \in DOMAIN Needs /\ i + 1 \in DOMAIN now) => now[i + 1].ref \in Needs[now[i].ref]
    <3>1. CASE i = n BY <1>1, <1>2, <1>3, <2>1, <3>1
    <3>2. CASE i # n
      <4>1. i + 1 \in 1..n BY <1>1, <3>2
      <4>. QED BY <1>1, <1>2, <2>1, <4>1 DEF InOrder
    <3>. QED BY <3>1, <3>2
  <2>3. now[i].ref = "I" => i - 1 \in DOMAIN now /\ now[i - 1].ref = "H"
    <3> SUFFICES ASSUME now[i].ref = "I" PROVE i - 1 \in DOMAIN now /\ now[i - 1].ref = "H" OBVIOUS
    <3>1. i - 1 \in 1..n /\ file[i - 1].ref = "H" BY <1>1, <2>1 DEF InOrder
    <3>2. i - 1 \in 1..(n + 1) BY <1>1, <3>1
    <3>. QED BY <1>2, <3>1, <3>2
  <2>. QED BY <1>1, <1>4, <2>1, <2>2, <2>3 DEF InOrder
<1>10. ok(n + 1)
  <2>1. n + 1 + 1 \notin DOMAIN now BY <1>1, <1>2
  <2>2. n + 1 - 1 = n /\ n \in DOMAIN now /\ now[n] = file[n] BY <1>1, <1>2
  <2>. QED BY <1>2, <1>5, <1>6, <1>7, <2>1, <2>2
<1>11. \A i \in DOMAIN now : ok(i) BY <1>2, <1>8, <1>9, <1>10
<1>. QED BY <1>11 DEF InOrder, now

\* Files are in order.
LEMMA OrderAlways == Spec => []InOrder(file)
<1>1. Init => InOrder(file)
  BY LayoutAssumption DEF Init
<1>2. FileInv /\ InOrder(file) /\ [Next]_vars => InOrder(file)'
  <2> SUFFICES ASSUME FileInv, InOrder(file), [Next]_vars PROVE InOrder(file)' OBVIOUS
  <2>1. CASE UNCHANGED vars BY <2>1 DEF vars
  <2>2. CASE Write
    <3>1. PICK line \in Lines[form] : Fits(line.ref) /\ file' = Append(file, line) BY <2>2 DEF Write
    <3>2. InOrder(Append(file, line)) BY <3>1, StaysInOrder
    <3>. QED BY <3>1, <3>2
  <2>. QED BY <2>1, <2>2 DEF Next
<1>. QED BY <1>1, <1>2, FileAlways, PTL DEF Spec
-----------------------------------------------------------------------------
(***************************************************************************)
(* What a line changes.                                                    *)
(***************************************************************************)
\* The lists a line is pushed onto as it is.
Plain == {"nf_ref", "nf_ref_cte", "nf_ref_ecf", "reboque", "dup", "proc_ref", "for_dia", "deduc",
          "obs_cont", "obs_fisco"}
Pushes(l, ref, x) ==
    \/ l = "nf_ref" /\ ref = "BA02" /\ "refNFe" \in DOMAIN x
    \/ l = "nf_ref_cte" /\ ref = "BA19" /\ "refCTe" \in DOMAIN x
    \/ l = "nf_ref_ecf" /\ ref = "BA20"
    \/ l = "reboque" /\ ref = "X22"
    \/ l = "dup" /\ ref = "Y07"
    \/ l = "proc_ref" /\ ref = "Z10"
    \/ l = "for_dia" /\ ref = "ZC04"
    \/ l = "deduc" /\ ref = "ZC10"
    \/ l = "obs_cont" /\ ref = "Z04"
    \/ l = "obs_fisco" /\ ref = "Z07"
PlainStep(p, q, ref, x) ==
    \A l \in Plain : q.list[l] = IF Pushes(l, ref, x) THEN Append(p.list[l], x) ELSE p.list[l]

\* A list whose records wait in a slot for the line that ends them.
WaitStep(p, q, s, l, ref, x, direct, opens, closes) ==
    /\ ref = opens => q.list[l] = p.list[l] /\ (q.slot[s] = x \/ q.slot[s] = Empty)
    /\ ref \in direct => q.list[l] = Append(p.list[l], x) /\ q.slot[s] = p.slot[s]
    /\ ref \in closes =>
         /\ q.slot[s] = None
         /\ IF p.slot[s] = None THEN q.list[l] = p.list[l]
            ELSE \E f : q.list[l] = Append(p.list[l], Insert(p, s, f, x).slot[s])
    /\ ref \notin direct \cup {opens} \cup closes => q.list[l] = p.list[l] /\ q.slot[s] = p.slot[s]
NotesStep(p, q, ref, x) ==
    WaitStep(p, q, "nfp_pending", "nf_ref_nf", ref, x, {"BA03"}, "BA10", {"BA13", "BA14"})
PersonsStep(p, q, ref, x) ==
    WaitStep(p, q, "aut_xml_pending", "aut_xml", ref, x, {}, "GA", {"GA02", "GA03"})

\* The payments.
PaymentStep(p, q, ref, x) ==
    q.list["det_pag"] = IF ref = "YA01" \/ (ref = "YA" /\ p.base_layout # "SEBRAE") THEN Append(p.list["det_pag"], x)
                        ELSE IF ref = "YA04" THEN MergeIntoLast(p, "det_pag", x).list["det_pag"]
                        ELSE p.list["det_pag"]

\* All of them.
ListStep(p, q, ref, x) ==
    /\ PlainStep(p, q, ref, x) /\ NotesStep(p, q, ref, x) /\ PersonsStep(p, q, ref, x) /\ PaymentStep(p, q, ref, x)
    /\ q.base_layout = p.base_layout

\* The items and the volumes are left alone.
SameItems(p, q) == q.cur = p.cur /\ q.items = p.items
SameVolumes(p, q) == q.seals = p.seals /\ q.list["volumes"] = p.list["volumes"]

\* The lists that are written and the records that wait are left alone.
SameLists(p, q) ==
    /\ \A l \in Lists \ {"volumes", "bb02_ref_nfe"} : q.list[l] = p.list[l]
    /\ \A s \in {"nfp_pending", "aut_xml_pending"} : q.slot[s] = p.slot[s]
    /\ q.base_layout = p.base_layout

\* Entities that no list is made of.
Listless(ref) ==
    ref \notin {"BA02", "BA03", "BA10", "BA13", "BA14", "BA19", "BA20", "GA", "GA02", "GA03", "X22", "Y07",
                "YA", "YA01", "YA04", "Z04", "Z07", "Z10", "ZC04", "ZC10"}

\* For them that is all.
LEMMA ListlessStep ==
    ASSUME NEW p, NEW q, NEW x, NEW ref, Listless(ref), SameLists(p, q)
    PROVE  ListStep(p, q, ref, x)
<1>1. PlainStep(p, q, ref, x) BY DEF Listless, SameLists, PlainStep, Plain, Pushes, Lists
<1>2. NotesStep(p, q, ref, x) BY DEF Listless, SameLists, NotesStep, WaitStep, Lists
<1>3. PersonsStep(p, q, ref, x) BY DEF Listless, SameLists, PersonsStep, WaitStep, Lists
<1>4. PaymentStep(p, q, ref, x) BY DEF Listless, SameLists, PaymentStep, Lists
<1>. QED BY <1>1, <1>2, <1>3, <1>4 DEF ListStep, SameLists

\* A record is put into a slot.
LEMMA PutDoes ==
    ASSUME NEW F, NEW V, NEW p \in Parsers(F, V), NEW s, NEW x
    PROVE  /\ SameItems(p, Put(p, s, x)) /\ SameVolumes(p, Put(p, s, x))
           /\ Put(p, s, x).list = p.list /\ Put(p, s, x).base_layout = p.base_layout
           /\ \A t \in Slots \cup OptionalSlots : Put(p, s, x).slot[t] = IF t = s THEN x ELSE p.slot[t]
<1>1. p.slot \in [Slots \cup OptionalSlots -> Std(F, V) \cup {None}] BY DEF Parsers, Slotted
<1>2. /\ Put(p, s, x).cur = p.cur /\ Put(p, s, x).items = p.items /\ Put(p, s, x).seals = p.seals
      /\ Put(p, s, x).list = p.list /\ Put(p, s, x).base_layout = p.base_layout
      /\ Put(p, s, x).slot = [p.slot EXCEPT ![s] = x]
  BY DEF Parsers, Put
<1>. QED BY <1>1, <1>2 DEF SameItems, SameVolumes

\* In a slot that no list waits in, that changes no list.
LEMMA PutAside ==
    ASSUME NEW F, NEW V, NEW p \in Parsers(F, V), NEW s \in (Slots \cup OptionalSlots) \ {"nfp_pending", "aut_xml_pending"},
           NEW x
    PROVE  SameLists(p, Put(p, s, x)) /\ SameItems(p, Put(p, s, x)) /\ SameVolumes(p, Put(p, s, x))
BY PutDoes DEF SameLists, OptionalSlots

\* A field is inserted into a slot.
LEMMA InsertDoes ==
    ASSUME NEW F, NEW V, NEW p \in Parsers(F, V), NEW s \in (Slots \cup OptionalSlots) \ {"nfp_pending", "aut_xml_pending"},
           NEW f, NEW x
    PROVE  /\ SameLists(p, Insert(p, s, f, x)) /\ SameItems(p, Insert(p, s, f, x))
           /\ SameVolumes(p, Insert(p, s, f, x))
<1>1. CASE p.slot[s] = None \/ f \notin DOMAIN x
  BY <1>1 DEF Insert, SameLists, SameItems, SameVolumes
<1>2. CASE ~(p.slot[s] = None \/ f \notin DOMAIN x)
  <2> DEFINE z == Extend(p.slot[s], [g \in {f} |-> x[g]])
  <2>1. Insert(p, s, f, x) = Put(p, s, z) BY <1>2 DEF Insert, Put
  <2> HIDE DEF z
  <2>. QED BY <2>1, PutAside
<1>. QED BY <1>1, <1>2

\* A record is pushed onto a list.
LEMMA PushDoes ==
    ASSUME NEW F, NEW V, NEW p \in Parsers(F, V), NEW l \in Lists, NEW x
    PROVE  /\ SameItems(p, Push(p, l, x)) /\ Push(p, l, x).slot = p.slot
           /\ Push(p, l, x).seals = p.seals /\ Push(p, l, x).base_layout = p.base_layout
           /\ \A k \in Lists : Push(p, l, x).list[k] = IF k = l THEN Append(p.list[l], x) ELSE p.list[k]
<1>1. DOMAIN p.list = Lists BY DEF Parsers, Listed
<1>2. /\ Push(p, l, x).cur = p.cur /\ Push(p, l, x).items = p.items /\ Push(p, l, x).seals = p.seals
      /\ Push(p, l, x).slot = p.slot /\ Push(p, l, x).base_layout = p.base_layout
      /\ Push(p, l, x).list = [p.list EXCEPT ![l] = Append(p.list[l], x)]
  BY DEF Parsers, Push
<1>. QED BY <1>1, <1>2 DEF SameItems

\* A list with a record merged into its last.
Merged(list, x) == IF list = <<>> THEN <<>> ELSE [list EXCEPT ![Len(list)] = Extend(list[Len(list)], x)]

\* A record is merged into the last of a list.
LEMMA MergeDoes ==
    ASSUME NEW F, NEW V, NEW p \in Parsers(F, V), NEW l \in Lists, NEW x
    PROVE  /\ SameItems(p, MergeIntoLast(p, l, x)) /\ MergeIntoLast(p, l, x).slot = p.slot
           /\ MergeIntoLast(p, l, x).seals = p.seals /\ MergeIntoLast(p, l, x).base_layout = p.base_layout
           /\ \A k \in Lists \ {l} : MergeIntoLast(p, l, x).list[k] = p.list[k]
           /\ MergeIntoLast(p, l, x).list[l] = Merged(p.list[l], x)
<1>1. CASE p.list[l] = <<>> BY <1>1 DEF MergeIntoLast, SameItems, Merged
<1>2. CASE p.list[l] # <<>>
  <2> DEFINE z == [p.list[l] EXCEPT ![Len(p.list[l])] = Extend(p.list[l][Len(p.list[l])], x)]
  <2>1. MergeIntoLast(p, l, x) = WithList(p, l, z) BY <1>2 DEF MergeIntoLast, WithList
  <2> HIDE DEF z
  <2>2. DOMAIN p.list = Lists BY DEF Parsers, Listed
  <2>3. /\ WithList(p, l, z).cur = p.cur /\ WithList(p, l, z).items = p.items /\ WithList(p, l, z).seals = p.seals
        /\ WithList(p, l, z).slot = p.slot /\ WithList(p, l, z).base_layout = p.base_layout
        /\ WithList(p, l, z).list = [p.list EXCEPT ![l] = z]
    BY DEF Parsers, WithList
  <2>. QED BY <1>2, <2>1, <2>2, <2>3 DEF SameItems, Merged, z
<1>. QED BY <1>1, <1>2

\* A record that waits is completed.
LEMMA CompleteDoes ==
    ASSUME NEW F, NEW V, NEW p \in Parsers(F, V), NEW s \in OptionalSlots, NEW l \in Lists \ {"volumes"}, NEW f, NEW x
    PROVE  /\ SameItems(p, Complete(p, s, l, f, x)) /\ SameVolumes(p, Complete(p, s, l, f, x))
           /\ Complete(p, s, l, f, x).base_layout = p.base_layout
           /\ \A t \in (Slots \cup OptionalSlots) \ {s} : Complete(p, s, l, f, x).slot[t] = p.slot[t]
           /\ \A k \in Lists \ {l} : Complete(p, s, l, f, x).list[k] = p.list[k]
           /\ Complete(p, s, l, f, x).slot[s] = None
           /\ IF p.slot[s] = None THEN Complete(p, s, l, f, x).list[l] = p.list[l]
              ELSE Complete(p, s, l, f, x).list[l] = Append(p.list[l], Insert(p, s, f, x).slot[s])
<1>1. CASE p.slot[s] = None BY <1>1 DEF Complete, SameItems, SameVolumes
<1>2. CASE p.slot[s] # None
  <2> DEFINE y == Insert(p, s, f, x).slot[s]
             q == [p EXCEPT !.list = [p.list EXCEPT ![l] = Append(p.list[l], y)],
                            !.slot = [p.slot EXCEPT ![s] = None]]
  <2>1. Complete(p, s, l, f, x) = q BY <1>2 DEF Complete, Put, Push
  <2>2. p.slot \in [Slots \cup OptionalSlots -> Std(F, V) \cup {None}] /\ DOMAIN p.list = Lists
    BY DEF Parsers, Slotted, Listed
  <2>3. /\ q.cur = p.cur /\ q.items = p.items /\ q.seals = p.seals /\ q.base_layout = p.base_layout
        /\ q.list = [p.list EXCEPT ![l] = Append(p.list[l], y)] /\ q.slot = [p.slot EXCEPT ![s] = None]
    <3> HIDE DEF y
    <3>. QED BY DEF Parsers
  <2>4. "volumes" \in Lists BY DEF Lists
  <2> HIDE DEF y, q
  <2>. QED BY <1>2, <2>1, <2>2, <2>3, <2>4 DEF SameItems, SameVolumes, y
<1>. QED BY <1>1, <1>2

\* A line that changes no item and no volume.
Aside(p, q, ref, x) == ListStep(p, q, ref, x) /\ SameItems(p, q) /\ SameVolumes(p, q)

\* A record is put into a slot that no list waits in.
LEMMA PutSteps ==
    ASSUME NEW F, NEW V, NEW p \in Parsers(F, V), NEW x, NEW ref, Listless(ref)
    PROVE  \A s \in (Slots \cup OptionalSlots) \ {"nfp_pending", "aut_xml_pending"} :
             \A y : Aside(p, Put(p, s, y), ref, x)
BY PutAside, ListlessStep DEF Aside

\* A field is inserted into it.
LEMMA InsertSteps ==
    ASSUME NEW F, NEW V, NEW p \in Parsers(F, V), NEW x, NEW ref, Listless(ref)
    PROVE  \A s \in (Slots \cup OptionalSlots) \ {"nfp_pending", "aut_xml_pending"} :
             \A f : Aside(p, Insert(p, s, f, x), ref, x)
BY InsertDoes, ListlessStep DEF Aside

\* The entities of the lists that others than Plain hold.
Others == {"BA03", "BA10", "BA13", "BA14", "GA", "GA02", "GA03", "YA", "YA01", "YA04"}

\* A record is pushed onto the list its line is for.
LEMMA PushSteps ==
    ASSUME NEW F, NEW V, NEW p \in Parsers(F, V), NEW x, NEW ref, ref \notin Others,
           NEW l \in Plain, \A k \in Plain : Pushes(k, ref, x) <=> k = l
    PROVE  Aside(p, Push(p, l, x), ref, x)
<1> DEFINE q == Push(p, l, x)
<1>1. /\ SameItems(p, q) /\ q.slot = p.slot /\ q.seals = p.seals /\ q.base_layout = p.base_layout
      /\ \A k \in Lists : q.list[k] = IF k = l THEN Append(p.list[l], x) ELSE p.list[k]
  <2>1. l \in Lists BY DEF Plain, Lists
  <2>. QED BY <2>1, PushDoes
<1> HIDE DEF q
<1>2. PlainStep(p, q, ref, x) BY <1>1 DEF PlainStep, Plain, Lists
<1>3. NotesStep(p, q, ref, x) BY <1>1 DEF NotesStep, WaitStep, Plain, Lists, Others
<1>4. PersonsStep(p, q, ref, x) BY <1>1 DEF PersonsStep, WaitStep, Plain, Lists, Others
<1>5. PaymentStep(p, q, ref, x) BY <1>1 DEF PaymentStep, Plain, Lists, Others
<1>6. SameVolumes(p, q) BY <1>1 DEF SameVolumes, Plain, Lists
<1>. QED BY <1>1, <1>2, <1>3, <1>4, <1>5, <1>6 DEF Aside, ListStep, q

\* A line without what its list needs is passed over.
LEMMA PassedOver ==
    ASSUME NEW p, NEW x, NEW ref, ref \notin Others, \A k \in Plain : ~Pushes(k, ref, x)
    PROVE  Aside(p, p, ref, x)
<1>1. PlainStep(p, p, ref, x) BY DEF PlainStep
<1>2. NotesStep(p, p, ref, x) BY DEF NotesStep, WaitStep, Others
<1>3. PersonsStep(p, p, ref, x) BY DEF PersonsStep, WaitStep, Others
<1>4. PaymentStep(p, p, ref, x) BY DEF PaymentStep, Others
<1>. QED BY <1>1, <1>2, <1>3, <1>4 DEF Aside, ListStep, SameItems, SameVolumes

\* The lines of the document and of what it refers to.
LEMMA HeaderDoes ==
    ASSUME NEW F, NEW V, NEW p \in Parsers(F, V), NEW x \in Std(F, V),
           NEW ref \in {"A", "B", "BA02", "BA03", "BA10", "BA13", "BA14", "BA19", "BA20", "BB01", "BB02"}
    PROVE  Aside(p, read_header(p, ref, x), ref, x)
<1> DEFINE q == read_header(p, ref, x)
<1>1. CASE ref \in {"A", "B"}
  <2>1. \A s \in {"hdr", "ide"} : Aside(p, Put(p, s, x), ref, x)
    BY <1>1, PutSteps DEF Listless, Slots, OptionalSlots
  <2>. QED BY <1>1, <2>1 DEF read_header
<1>2. CASE ref \in {"BB01", "BB02"}
  <2>1. q = p \/ q = Push(p, "bb02_ref_nfe", x) BY <1>2 DEF read_header, PushValue
  <2> HIDE DEF q
  <2>2. SameLists(p, q) /\ SameItems(p, q) /\ SameVolumes(p, q)
    <3>1. CASE q = p BY <3>1 DEF SameLists, SameItems, SameVolumes
    <3>2. CASE q = Push(p, "bb02_ref_nfe", x)
      <4>1. "bb02_ref_nfe" \in Lists /\ "volumes" \in Lists BY DEF Lists
      <4>. QED BY <3>2, <4>1, PushDoes DEF SameLists, SameVolumes
    <3>. QED BY <2>1, <3>1, <3>2
  <2>3. Listless(ref) BY <1>2 DEF Listless
  <2>. QED BY <2>2, <2>3, ListlessStep DEF Aside, q
<1>3. CASE ref \in {"BA02", "BA19"}
  <2> DEFINE l == IF ref = "BA02" THEN "nf_ref" ELSE "nf_ref_cte"
             f == IF ref = "BA02" THEN "refNFe" ELSE "refCTe"
  <2>1. q = IF f \in DOMAIN x THEN Push(p, l, x) ELSE p BY <1>3 DEF read_header, PushValue
  <2>2. ref \notin Others /\ l \in Plain BY <1>3 DEF Others, Plain
  <2>3. \A k \in Plain : Pushes(k, ref, x) <=> (k = l /\ f \in DOMAIN x) BY <1>3 DEF Pushes, Plain
  <2> HIDE DEF q, l, f
  <2>. QED BY <2>1, <2>2, <2>3, PushSteps, PassedOver DEF q
<1>4. CASE ref = "BA20"
  <2>1. ref \notin Others /\ "nf_ref_ecf" \in Plain BY <1>4 DEF Others, Plain
  <2>2. \A k \in Plain : Pushes(k, ref, x) <=> k = "nf_ref_ecf" BY <1>4 DEF Pushes, Plain
  <2>3. q = Push(p, "nf_ref_ecf", x) BY <1>4 DEF read_header
  <2>. QED BY <2>1, <2>2, <2>3, PushSteps
<1>5. CASE ref = "BA03"
  <2>1. q = Push(p, "nf_ref_nf", x) BY <1>5 DEF read_header
  <2>2. "nf_ref_nf" \in Lists BY DEF Lists
  <2>3. /\ SameItems(p, q) /\ q.slot = p.slot /\ q.seals = p.seals /\ q.base_layout = p.base_layout
        /\ \A k \in Lists : q.list[k] = IF k = "nf_ref_nf" THEN Append(p.list["nf_ref_nf"], x) ELSE p.list[k]
    BY <2>1, <2>2, PushDoes
  <2> HIDE DEF q
  <2>. QED BY <1>5, <2>3 DEF Aside, ListStep, PlainStep, NotesStep, PersonsStep, WaitStep, PaymentStep,
              SameVolumes, Pushes, Plain, Lists, q
<1>6. CASE ref = "BA10"
  <2>1. q = Put(p, "nfp_pending", x) BY <1>6 DEF read_header
  <2>2. "nfp_pending" \in Slots \cup OptionalSlots /\ "aut_xml_pending" \in Slots \cup OptionalSlots
    BY DEF OptionalSlots
  <2>3. /\ SameItems(p, q) /\ SameVolumes(p, q) /\ q.list = p.list /\ q.base_layout = p.base_layout
        /\ q.slot["nfp_pending"] = x /\ q.slot["aut_xml_pending"] = p.slot["aut_xml_pending"]
    BY <2>1, <2>2, PutDoes
  <2> HIDE DEF q
  <2>. QED BY <1>6, <2>3 DEF Aside, ListStep, PlainStep, NotesStep, PersonsStep, WaitStep, PaymentStep,
              Pushes, Plain, q
<1>7. CASE ref \in {"BA13", "BA14"}
  <2> DEFINE f == IF ref = "BA13" THEN "CNPJ" ELSE "CPF"
  <2>1. q = Complete(p, "nfp_pending", "nf_ref_nf", f, x) BY <1>7 DEF read_header
  <2>2. /\ "nfp_pending" \in OptionalSlots /\ "aut_xml_pending" \in OptionalSlots
        /\ "nf_ref_nf" \in Lists \ {"volumes"}
    BY DEF OptionalSlots, Lists
  <2> HIDE DEF f
  <2>3. /\ SameItems(p, q) /\ SameVolumes(p, q) /\ q.base_layout = p.base_layout
        /\ q.slot["aut_xml_pending"] = p.slot["aut_xml_pending"]
        /\ \A k \in Lists \ {"nf_ref_nf"} : q.list[k] = p.list[k]
        /\ q.slot["nfp_pending"] = None
        /\ IF p.slot["nfp_pending"] = None THEN q.list["nf_ref_nf"] = p.list["nf_ref_nf"]
           ELSE q.list["nf_ref_nf"] = Append(p.list["nf_ref_nf"], Insert(p, "nfp_pending", f, x).slot["nfp_pending"])
    BY <2>1, <2>2, CompleteDoes
  <2> HIDE DEF q
  <2>4. NotesStep(p, q, ref, x)
    <3>1. IF p.slot["nfp_pending"] = None THEN q.list["nf_ref_nf"] = p.list["nf_ref_nf"]
          ELSE \E g : q.list["nf_ref_nf"] = Append(p.list["nf_ref_nf"], Insert(p, "nfp_pending", g, x).slot["nfp_pending"])
      BY <2>3
    <3>. QED BY <1>7, <2>3, <3>1 DEF NotesStep, WaitStep
  <2>5. PersonsStep(p, q, ref, x) BY <1>7, <2>3 DEF PersonsStep, WaitStep, Lists
  <2>6. PlainStep(p, q, ref, x) BY <1>7, <2>3 DEF PlainStep, Pushes, Plain, Lists
  <2>7. PaymentStep(p, q, ref, x) BY <1>7, <2>3 DEF PaymentStep, Lists
  <2>. QED BY <2>3, <2>4, <2>5, <2>6, <2>7 DEF Aside, ListStep, q
<1>. QED BY <1>1, <1>2, <1>3, <1>4, <1>5, <1>6, <1>7

\* The lines of the parties.
LEMMA PartyDoes ==
    ASSUME NEW F, NEW V, NEW p \in Parsers(F, V), NEW x \in Std(F, V),
           NEW ref \in {"C", "C02", "C02A", "C05", "E", "E02", "E03", "E03A", "E05"}
    PROVE  Aside(p, read_party(p, ref, x), ref, x)
<1>1. Listless(ref) BY DEF Listless
<1>2. \A s \in {"emit", "ender_emit", "dest", "ender_dest"} :
        Aside(p, Put(p, s, x), ref, x) /\ \A f : Aside(p, Insert(p, s, f, x), ref, x)
  BY <1>1, PutSteps, InsertSteps DEF Slots
<1>. QED BY <1>2 DEF read_party

\* The lines of the places and the authorized persons.
LEMMA LocalDoes ==
    ASSUME NEW F, NEW V, NEW p \in Parsers(F, V), NEW x \in Std(F, V),
           NEW ref \in {"F", "F02", "F02A", "F02B", "G", "G02", "G02A", "G02B", "GA", "GA02", "GA03"}
    PROVE  Aside(p, read_local(p, ref, x), ref, x)
<1> DEFINE q == read_local(p, ref, x)
<1>1. CASE ref \notin {"GA", "GA02", "GA03"}
  <2>1. Listless(ref) BY <1>1 DEF Listless
  <2>2. \A s \in {"retirada", "entrega"} :
          Aside(p, Put(p, s, x), ref, x) /\ \A f : Aside(p, Insert(p, s, f, x), ref, x)
    BY <2>1, PutSteps, InsertSteps DEF OptionalSlots
  <2>. QED BY <1>1, <2>2 DEF read_local
<1>2. CASE ref = "GA"
  <2>1. q = Put(p, "aut_xml_pending", Empty) BY <1>2 DEF read_local
  <2>2. "nfp_pending" \in Slots \cup OptionalSlots /\ "aut_xml_pending" \in Slots \cup OptionalSlots
    BY DEF OptionalSlots
  <2>3. /\ SameItems(p, q) /\ SameVolumes(p, q) /\ q.list = p.list /\ q.base_layout = p.base_layout
        /\ q.slot["aut_xml_pending"] = Empty /\ q.slot["nfp_pending"] = p.slot["nfp_pending"]
    BY <2>1, <2>2, PutDoes
  <2> HIDE DEF q
  <2>. QED BY <1>2, <2>3 DEF Aside, ListStep, PlainStep, NotesStep, PersonsStep, WaitStep, PaymentStep,
              Pushes, Plain, q
<1>3. CASE ref \in {"GA02", "GA03"}
  <2> DEFINE f == IF ref = "GA02" THEN "CNPJ" ELSE "CPF"
  <2>1. q = Complete(p, "aut_xml_pending", "aut_xml", f, x) BY <1>3 DEF read_local
  <2>2. /\ "nfp_pending" \in OptionalSlots /\ "aut_xml_pending" \in OptionalSlots
        /\ "aut_xml" \in Lists \ {"volumes"}
    BY DEF OptionalSlots, Lists
  <2> HIDE DEF f
  <2>3. /\ SameItems(p, q) /\ SameVolumes(p, q) /\ q.base_layout = p.base_layout
        /\ q.slot["nfp_pending"] = p.slot["nfp_pending"]
        /\ \A k \in Lists \ {"aut_xml"} : q.list[k] = p.list[k]
        /\ q.slot["aut_xml_pending"] = None
        /\ IF p.slot["aut_xml_pending"] = None THEN q.list["aut_xml"] = p.list["aut_xml"]
           ELSE q.list["aut_xml"] = Append(p.list["aut_xml"], Insert(p, "aut_xml_pending", f, x).slot["aut_xml_pending"])
    BY <2>1, <2>2, CompleteDoes
  <2> HIDE DEF q
  <2>4. PersonsStep(p, q, ref, x)
    <3>1. IF p.slot["aut_xml_pending"] = None THEN q.list["aut_xml"] = p.list["aut_xml"]
          ELSE \E g : q.list["aut_xml"] = Append(p.list["aut_xml"], Insert(p, "aut_xml_pending", g, x).slot["aut_xml_pending"])
      BY <2>3
    <3>. QED BY <1>3, <2>3, <3>1 DEF PersonsStep, WaitStep
  <2>5. NotesStep(p, q, ref, x) BY <1>3, <2>3 DEF NotesStep, WaitStep, Lists
  <2>6. PlainStep(p, q, ref, x) BY <1>3, <2>3 DEF PlainStep, Pushes, Plain, Lists
  <2>7. PaymentStep(p, q, ref, x) BY <1>3, <2>3 DEF PaymentStep, Lists
  <2>. QED BY <2>3, <2>4, <2>5, <2>6, <2>7 DEF Aside, ListStep, q
<1>. QED BY <1>1, <1>2, <1>3

\* The lines of the transport, but for the volumes and their seals.
LEMMA TransportDoes ==
    ASSUME NEW F, NEW V, NEW p \in Parsers(F, V), NEW x \in Std(F, V),
           NEW ref \in {"X", "X03", "X04", "X05", "X11", "X18", "X22", "X25A", "X25B"}
    PROVE  Aside(p, read_transport(p, ref, x), ref, x)
<1>1. CASE ref # "X22"
  <2>1. Listless(ref) BY <1>1 DEF Listless
  <2>2. \A s \in {"transp", "transporta", "ret_transp", "veic_transp", "vagao", "balsa"} :
          (\A y : Aside(p, Put(p, s, y), ref, x)) /\ \A f : Aside(p, Insert(p, s, f, x), ref, x)
    BY <2>1, PutSteps, InsertSteps DEF Slots, OptionalSlots
  <2>. QED BY <1>1, <2>2 DEF read_transport
<1>2. CASE ref = "X22"
  <2>1. ref \notin Others /\ "reboque" \in Plain BY <1>2 DEF Others, Plain
  <2>2. \A k \in Plain : Pushes(k, ref, x) <=> k = "reboque" BY <1>2 DEF Pushes, Plain
  <2>3. read_transport(p, ref, x) = Push(p, "reboque", x) BY <1>2 DEF read_transport
  <2>. QED BY <2>1, <2>2, <2>3, PushSteps
<1>. QED BY <1>1, <1>2

\* The lines of the bill and the payments.
LEMMA PaymentDoes ==
    ASSUME NEW F, NEW V, NEW p \in Parsers(F, V), NEW x \in Std(F, V),
           NEW ref \in {"Y", "Y02", "Y07", "YA", "YA01", "YA04", "YB"}
    PROVE  Aside(p, read_payment(p, ref, x), ref, x)
<1> DEFINE q == read_payment(p, ref, x)
<1>0. "det_pag" \in Lists /\ "pag" \in (Slots \cup OptionalSlots) \ {"nfp_pending", "aut_xml_pending"}
  BY DEF Lists, OptionalSlots
<1>1. CASE ref \in {"Y", "Y02", "YB"}
  <2>1. Listless(ref) BY <1>1 DEF Listless
  <2>2. \A s \in {"pag", "fat", "inf_intermed"} : Aside(p, Put(p, s, x), ref, x)
    BY <2>1, PutSteps DEF OptionalSlots
  <2>. QED BY <1>1, <2>2 DEF read_payment
<1>2. CASE ref = "Y07"
  <2>1. ref \notin Others /\ "dup" \in Plain BY <1>2 DEF Others, Plain
  <2>2. \A k \in Plain : Pushes(k, ref, x) <=> k = "dup" BY <1>2 DEF Pushes, Plain
  <2>3. q = Push(p, "dup", x) BY <1>2 DEF read_payment
  <2>. QED BY <2>1, <2>2, <2>3, PushSteps
<1>3. CASE ref = "YA01" \/ (ref = "YA" /\ p.base_layout # "SEBRAE")
  <2>1. q = Push(p, "det_pag", x) BY <1>3 DEF read_payment
  <2>2. /\ SameItems(p, q) /\ q.slot = p.slot /\ q.seals = p.seals /\ q.base_layout = p.base_layout
        /\ \A k \in Lists : q.list[k] = IF k = "det_pag" THEN Append(p.list["det_pag"], x) ELSE p.list[k]
    BY <1>0, <2>1, PushDoes
  <2> HIDE DEF q
  <2>. QED BY <1>3, <2>2 DEF Aside, ListStep, PlainStep, NotesStep, PersonsStep, WaitStep, PaymentStep,
              SameVolumes, Pushes, Plain, Lists, q
<1>4. CASE ref = "YA" /\ p.base_layout = "SEBRAE"
  <2>1. q = Put(p, "pag", x) BY <1>4 DEF read_payment
  <2>2. SameLists(p, q) /\ SameItems(p, q) /\ SameVolumes(p, q) BY <1>0, <2>1, PutAside
  <2> HIDE DEF q
  <2>. QED BY <1>4, <2>2 DEF Aside, ListStep, PlainStep, NotesStep, PersonsStep, WaitStep, PaymentStep,
              SameLists, Pushes, Plain, Lists, q
<1>5. CASE ref = "YA04"
  <2>1. q = MergeIntoLast(p, "det_pag", x) BY <1>5 DEF read_payment
  <2>2. /\ SameItems(p, q) /\ q.slot = p.slot /\ q.seals = p.seals /\ q.base_layout = p.base_layout
        /\ \A k \in Lists \ {"det_pag"} : q.list[k] = p.list[k]
    <3> DEFINE r == MergeIntoLast(p, "det_pag", x)
    <3>1. /\ SameItems(p, r) /\ r.slot = p.slot /\ r.seals = p.seals /\ r.base_layout = p.base_layout
          /\ \A k \in Lists \ {"det_pag"} : r.list[k] = p.list[k]
      BY <1>0, MergeDoes
    <3> HIDE DEF q, r
    <3>. QED BY <2>1, <3>1 DEF r
  <2>3. PaymentStep(p, q, ref, x) BY <1>5, <2>1 DEF PaymentStep
  <2> HIDE DEF q
  <2>. QED BY <1>5, <2>2, <2>3 DEF Aside, ListStep, PlainStep, NotesStep, PersonsStep, WaitStep,
              SameVolumes, Pushes, Plain, Lists, q
<1>. QED BY <1>1, <1>2, <1>3, <1>4, <1>5

\* The lines of the totals, the observations and the rest, but for the first.
LEMMA RestDoes ==
    ASSUME NEW F, NEW V, NEW p \in Parsers(F, V), NEW x \in Std(F, V),
           NEW ref \in {"W02", "W03", "W17", "W23", "Z", "Z04", "Z07", "Z10", "ZA",
                       "ZB", "ZC", "ZC04", "ZC10", "ZD", "ZX01"}
    PROVE  Aside(p, read_totals_and_rest(p, ref, x), ref, x)
<1> DEFINE q == read_totals_and_rest(p, ref, x)
<1>1. CASE ref \notin {"Z04", "Z07", "Z10", "ZC04", "ZC10"}
  <2>1. Listless(ref) BY <1>1 DEF Listless
  <2>2. \A s \in {"totals", "ibs_cbs_tot", "issqn_tot", "ret_trib", "inf_adic", "exporta", "compra", "cana",
                  "inf_resp_tec", "inf_nfe_supl"} : Aside(p, Put(p, s, x), ref, x)
    BY <2>1, PutSteps DEF Slots, OptionalSlots
  <2>. QED BY <1>1, <2>2 DEF read_totals_and_rest
<1>2. CASE ref \in {"Z04", "Z07", "Z10", "ZC04", "ZC10"}
  <2>1. PICK l \in {"obs_cont", "obs_fisco", "proc_ref", "for_dia", "deduc"} :
          q = Push(p, l, x) /\ \A k \in Plain : Pushes(k, ref, x) <=> k = l
    <3>1. CASE ref = "Z04" BY <3>1 DEF read_totals_and_rest, Pushes, Plain
    <3>2. CASE ref = "Z07" BY <3>2 DEF read_totals_and_rest, Pushes, Plain
    <3>3. CASE ref = "Z10" BY <3>3 DEF read_totals_and_rest, Pushes, Plain
    <3>4. CASE ref = "ZC04" BY <3>4 DEF read_totals_and_rest, Pushes, Plain
    <3>5. CASE ref = "ZC10" BY <3>5 DEF read_totals_and_rest, Pushes, Plain
    <3>. QED BY <1>2, <3>1, <3>2, <3>3, <3>4, <3>5
  <2>2. l \in Plain /\ ref \notin Others BY <1>2 DEF Plain, Others
  <2> HIDE DEF q
  <2>. QED BY <2>1, <2>2, PushSteps DEF q
<1>. QED BY <1>1, <1>2

\* An item with a product is kept.
HasProduct(item) == {"cProd", "xProd"} \cap DOMAIN item.prod # {}

\* The volumes when the seals go to the last of them, and the seals that are left.
Sealed(volumes, seals) ==
    IF seals = <<>> \/ volumes = <<>> THEN volumes
    ELSE [volumes EXCEPT ![Len(volumes)] = [volumes[Len(volumes)] EXCEPT !.lacres = seals]]
Unsealed(volumes, seals) == IF seals = <<>> \/ volumes = <<>> THEN seals ELSE <<>>
Sealing(p, q) ==
    /\ q.list["volumes"] = Sealed(p.list["volumes"], p.seals)
    /\ q.seals = Unsealed(p.list["volumes"], p.seals)

\* The seals are handed over.
LEMMA FlushDoes ==
    ASSUME NEW F, NEW V, NEW p \in Parsers(F, V)
    PROVE  /\ SameLists(p, flush_seals(p)) /\ SameItems(p, flush_seals(p)) /\ Sealing(p, flush_seals(p))
<1> DEFINE list == p.list["volumes"]
           n == Len(list)
<1>1. CASE p.seals = <<>> \/ list = <<>>
  <2>1. flush_seals(p) = p BY <1>1 DEF flush_seals
  <2>. QED BY <1>1, <2>1 DEF SameLists, SameItems, Sealing, Sealed, Unsealed
<1>2. CASE ~(p.seals = <<>> \/ list = <<>>)
  <2> DEFINE z == [list EXCEPT ![n] = [list[n] EXCEPT !.lacres = p.seals]]
             q == WithList(p, "volumes", z)
  <2>1. flush_seals(p) = [q EXCEPT !.seals = <<>>] BY <1>2 DEF flush_seals, WithList
  <2>2. z = Sealed(list, p.seals) BY <1>2 DEF Sealed
  <2>3. Unsealed(list, p.seals) = <<>> BY <1>2 DEF Unsealed
  <2>4. DOMAIN p.list = Lists /\ "volumes" \in Lists BY DEF Parsers, Listed, Lists
  <2> HIDE DEF z, list
  <2>5. q = [p EXCEPT !.list = [p.list EXCEPT !["volumes"] = z]] BY DEF WithList
  <2> HIDE DEF q
  <2>6. /\ [q EXCEPT !.seals = <<>>].cur = p.cur /\ [q EXCEPT !.seals = <<>>].items = p.items
        /\ [q EXCEPT !.seals = <<>>].slot = p.slot /\ [q EXCEPT !.seals = <<>>].base_layout = p.base_layout
        /\ [q EXCEPT !.seals = <<>>].seals = <<>>
        /\ [q EXCEPT !.seals = <<>>].list = [p.list EXCEPT !["volumes"] = z]
    BY <2>5 DEF Parsers
  <2> DEFINE r == [q EXCEPT !.seals = <<>>]
  <2> HIDE DEF r
  <2>7. /\ r.cur = p.cur /\ r.items = p.items /\ r.slot = p.slot /\ r.base_layout = p.base_layout
        /\ r.seals = <<>> /\ r.list = [p.list EXCEPT !["volumes"] = z]
    BY <2>6 DEF r
  <2>8. SameLists(p, r) /\ SameItems(p, r) BY <2>4, <2>7 DEF SameLists, SameItems
  <2>9. Sealing(p, r) BY <2>2, <2>3, <2>4, <2>7 DEF Sealing, list
  <2>. QED BY <2>1, <2>8, <2>9 DEF r
<1>. QED BY <1>1, <1>2

\* The item read is finished.
Finished(p, q) ==
    IF HasProduct(p.cur) THEN q.items = Append(p.items, p.cur) /\ q.cur = ItemBuild /\ Sealing(p, q)
    ELSE SameItems(p, q) /\ SameVolumes(p, q)

\* An item with a product goes to the items, and the seals go with it.
LEMMA FinalizeDoes ==
    ASSUME NEW F, NEW V, NEW p \in Parsers(F, V)
    PROVE  SameLists(p, finalize_current_item(p)) /\ Finished(p, finalize_current_item(p))
<1> DEFINE q == flush_seals(p)
<1>1. CASE ~HasProduct(p.cur)
  <2>1. finalize_current_item(p) = p BY <1>1 DEF finalize_current_item, HasProduct
  <2>. QED BY <1>1, <2>1 DEF SameLists, Finished, SameItems, SameVolumes
<1>2. CASE HasProduct(p.cur)
  <2> DEFINE items == Append(q.items, p.cur)
             r == [q EXCEPT !.items = items, !.cur = ItemBuild]
  <2>1. finalize_current_item(p) = r BY <1>2 DEF finalize_current_item, HasProduct
  <2>2. SameLists(p, q) /\ SameItems(p, q) /\ Sealing(p, q) BY FlushDoes
  <2>3. q \in Parsers(F, V) BY FlushIs
  <2>4. items = Append(p.items, p.cur) BY <2>2 DEF SameItems
  <2> HIDE DEF q, items
  <2>5. /\ r.list = q.list /\ r.slot = q.slot /\ r.base_layout = q.base_layout /\ r.seals = q.seals
        /\ r.items = items /\ r.cur = ItemBuild
    BY <2>3 DEF Parsers
  <2> HIDE DEF r
  <2>6. SameLists(p, r) BY <2>2, <2>5 DEF SameLists
  <2>7. Finished(p, r) BY <1>2, <2>2, <2>4, <2>5 DEF Finished, Sealing
  <2>. QED BY <2>1, <2>6, <2>7
<1>. QED BY <1>1, <1>2

\* A new item begins: the one before it is finished, and what begins depends
\* on that one only.
LEMMA StartDoes ==
    ASSUME NEW F, NEW V, NEW p \in Parsers(F, V), NEW x
    PROVE  LET q == start_item(p, x)
               r == finalize_current_item(p)
           IN  /\ SameLists(p, q) /\ q.items = r.items /\ q.seals = r.seals
               /\ q.list = r.list /\ q.cur.prod = Empty /\ q.cur.many = r.cur.many
<1> DEFINE r == finalize_current_item(p)
           kept == {"qUnid", "vUnid", "qBCProd", "vAliqProd"}
           reset == {y \in Scalars : y[1] \in {"item", "ipi", "pis", "cofins"} /\ y[2] \notin kept}
           none == [s \in {"cest", "g_cred", "icms", "ipi_header"} |-> None]
           said == [y \in reset |-> IF y = <<"item", "infAdProd">> THEN Get(x, "infAdProd") ELSE None]
           one == Extend(r.cur.one, none)
           scalar == Extend(r.cur.scalar, said)
           item == [r.cur EXCEPT !.prod = Empty, !.one = one, !.scalar = scalar]
           q == [r EXCEPT !.cur = item]
<1>1. r \in Parsers(F, V) /\ SameLists(p, r) BY FinalizeIs, FinalizeDoes
<1>2. start_item(p, x) = q BY DEF start_item
<1> HIDE DEF r, one, scalar
<1>3. r.cur \in Items(F, V) BY <1>1 DEF Parsers
<1>4. item.prod = Empty /\ item.many = r.cur.many BY <1>3 DEF Items
<1> HIDE DEF item
<1>5. /\ q.items = r.items /\ q.seals = r.seals /\ q.list = r.list /\ q.slot = r.slot
      /\ q.base_layout = r.base_layout /\ q.cur = item
  BY <1>1 DEF Parsers
<1> HIDE DEF q
<1>6. SameLists(p, q) BY <1>1, <1>5 DEF SameLists
<1>. QED BY <1>2, <1>4, <1>5, <1>6 DEF r

\* What begins after the same item is the same.
LEMMA StartDepends ==
    ASSUME NEW F, NEW V, NEW p \in Parsers(F, V), NEW W, NEW o \in Parsers(F, W), NEW x,
           finalize_current_item(o).cur = finalize_current_item(p).cur
    PROVE  start_item(o, x).cur = start_item(p, x).cur
<1> DEFINE r == finalize_current_item(p)
           s == finalize_current_item(o)
<1>1. r \in Parsers(F, V) /\ s \in Parsers(F, W) BY FinalizeIs
<1> HIDE DEF r, s
<1>2. \E y : start_item(p, x) = [r EXCEPT !.cur = y] /\ start_item(o, x) = [s EXCEPT !.cur = y]
  <2> DEFINE kept == {"qUnid", "vUnid", "qBCProd", "vAliqProd"}
             reset == {y \in Scalars : y[1] \in {"item", "ipi", "pis", "cofins"} /\ y[2] \notin kept}
             none == [t \in {"cest", "g_cred", "icms", "ipi_header"} |-> None]
             said == [y \in reset |-> IF y = <<"item", "infAdProd">> THEN Get(x, "infAdProd") ELSE None]
             After(c) == [c EXCEPT !.prod = Empty, !.one = Extend(c.one, none), !.scalar = Extend(c.scalar, said)]
  <2>1. start_item(p, x) = [r EXCEPT !.cur = After(r.cur)] BY DEF start_item, r
  <2>2. start_item(o, x) = [s EXCEPT !.cur = After(s.cur)] BY DEF start_item, s
  <2>3. s.cur = r.cur BY DEF r, s
  <2> HIDE DEF After
  <2>. QED BY <2>1, <2>2, <2>3
<1>. QED BY <1>1, <1>2 DEF Parsers

\* A volume begins: the seals read so far are of the one before it.
LEMMA VolumeDoes ==
    ASSUME NEW F, NEW V, NEW p \in Parsers(F, V), NEW x \in Std(F, V)
    PROVE  LET q == read_transport(p, "X26", x) IN
           /\ SameLists(p, q) /\ SameItems(p, q) /\ q.seals = Unsealed(p.list["volumes"], p.seals)
           /\ q.list["volumes"] = Append(Sealed(p.list["volumes"], p.seals), [own |-> x, lacres |-> <<>>])
<1> DEFINE r == flush_seals(p)
           y == [own |-> x, lacres |-> <<>>]
           q == Push(r, "volumes", y)
<1>1. read_transport(p, "X26", x) = q BY DEF read_transport
<1>2. r \in Parsers(F, V) /\ SameLists(p, r) /\ SameItems(p, r) /\ Sealing(p, r) BY FlushIs, FlushDoes
<1>3. "volumes" \in Lists BY DEF Lists
<1> HIDE DEF r, y
<1>4. /\ SameItems(r, q) /\ q.slot = r.slot /\ q.seals = r.seals /\ q.base_layout = r.base_layout
      /\ \A k \in Lists : q.list[k] = IF k = "volumes" THEN Append(r.list["volumes"], y) ELSE r.list[k]
  BY <1>2, <1>3, PushDoes
<1> HIDE DEF q
<1>5. SameLists(p, q) /\ SameItems(p, q) BY <1>2, <1>4 DEF SameLists, SameItems
<1>. QED BY <1>1, <1>2, <1>3, <1>4, <1>5 DEF Sealing, y

\* A seal waits.
LEMMA SealDoes ==
    ASSUME NEW F, NEW V, NEW p \in Parsers(F, V), NEW x
    PROVE  LET q == read_transport(p, "X33", x) IN
           /\ SameLists(p, q) /\ SameItems(p, q)
           /\ q.seals = Append(p.seals, x) /\ q.list["volumes"] = p.list["volumes"]
<1> DEFINE y == Append(p.seals, x)
           q == [p EXCEPT !.seals = y]
<1>1. read_transport(p, "X33", x) = q BY DEF read_transport
<1> HIDE DEF y
<1>2. /\ q.cur = p.cur /\ q.items = p.items /\ q.slot = p.slot /\ q.list = p.list
      /\ q.base_layout = p.base_layout /\ q.seals = y
  BY DEF Parsers
<1> HIDE DEF q
<1>. QED BY <1>1, <1>2 DEF SameLists, SameItems, y

\* The invoice is left alone.
SameElse(p, q) ==
    /\ q.list = p.list /\ q.slot = p.slot /\ q.seals = p.seals /\ q.items = p.items
    /\ q.base_layout = p.base_layout

\* Declarations with an addition to the last of them.
Added(list, x) ==
    IF list = <<>> THEN <<>>
    ELSE [list EXCEPT ![Len(list)] = [list[Len(list)] EXCEPT !.adi = Append(list[Len(list)].adi, x)]]

\* What a line does to the lists of an item.
ManyStep(a, b, ref, x) ==
    /\ b["nve"] = IF ref = "I05A" /\ "NVE" \in DOMAIN x THEN Append(a["nve"], x) ELSE a["nve"]
    /\ b["rastro"] = IF ref = "I80" THEN Append(a["rastro"], x) ELSE a["rastro"]
    /\ b["arma"] = IF ref = "L" THEN Append(a["arma"], x) ELSE a["arma"]
    /\ b["det_export"] = IF ref = "I50" THEN Append(a["det_export"], x)
                         ELSE IF ref = "I52" THEN Merged(a["det_export"], x) ELSE a["det_export"]
    /\ b["di"] = IF ref = "I18" THEN Append(a["di"], [own |-> x, adi |-> <<>>])
                 ELSE IF ref = "I25" THEN Added(a["di"], x) ELSE a["di"]

\* What a line of an item does: nothing to the rest of the invoice, and what it
\* makes of the item (q), it makes of the same item elsewhere (r).
ItemStep(p, q, r, ref, x) ==
    /\ SameElse(p, q) /\ r.cur = q.cur
    /\ q.cur.prod = IF ref = "I" THEN x ELSE p.cur.prod
    /\ ManyStep(p.cur.many, q.cur.many, ref, x)

\* The lines that no list of an item is made of, nor its product.
Quiet(ref) == ref \notin {"I", "I05A", "I18", "I25", "I50", "I52", "I80", "L"}
QuietStep(p, q, r) == SameElse(p, q) /\ r.cur = q.cur /\ q.cur.prod = p.cur.prod /\ q.cur.many = p.cur.many

\* For them that is all.
LEMMA QuietIs ==
    ASSUME NEW p, NEW q, NEW r, NEW ref, Quiet(ref), NEW x, QuietStep(p, q, r)
    PROVE  ItemStep(p, q, r, ref, x)
BY DEF QuietStep, ItemStep, ManyStep, Quiet

\* A record of the item.
LEMMA PutItemDoes ==
    ASSUME NEW F, NEW V, NEW p \in Parsers(F, V), NEW W, NEW o \in Parsers(F, W), o.cur = p.cur,
           NEW s, NEW y
    PROVE  QuietStep(p, PutItem(p, s, y), PutItem(o, s, y))
<1> DEFINE c == [p.cur EXCEPT !.one = [p.cur.one EXCEPT ![s] = y]]
<1>1. PutItem(p, s, y) = [p EXCEPT !.cur = c] /\ PutItem(o, s, y) = [o EXCEPT !.cur = c] BY DEF PutItem
<1>2. p.cur \in Items(F, V) BY DEF Parsers
<1> DEFINE one == [p.cur.one EXCEPT ![s] = y]
<1> HIDE DEF one
<1>3. [p.cur EXCEPT !.one = one].prod = p.cur.prod /\ [p.cur EXCEPT !.one = one].many = p.cur.many
  BY <1>2 DEF Items
<1>4. c.prod = p.cur.prod /\ c.many = p.cur.many BY <1>3 DEF one
<1> HIDE DEF c
<1>. QED BY <1>1, <1>4 DEF Parsers, QuietStep, SameElse

\* Single values of the item.
LEMMA AssignDoes ==
    ASSUME NEW F, NEW V, NEW p \in Parsers(F, V), NEW W, NEW o \in Parsers(F, W), o.cur = p.cur,
           NEW tax, NEW fields, NEW x
    PROVE  QuietStep(p, Assign(p, tax, fields, x), Assign(o, tax, fields, x))
<1> DEFINE rates == [y \in Scalars |-> IF y[1] = tax /\ y[2] \in fields THEN Get(x, y[2])
                                       ELSE p.cur.scalar[y]]
           c == [p.cur EXCEPT !.scalar = rates]
<1>1. Assign(p, tax, fields, x) = [p EXCEPT !.cur = c] /\ Assign(o, tax, fields, x) = [o EXCEPT !.cur = c]
  BY DEF Assign
<1>2. p.cur \in Items(F, V) BY DEF Parsers
<1> HIDE DEF rates
<1>3. c.prod = p.cur.prod /\ c.many = p.cur.many BY <1>2 DEF Items
<1> HIDE DEF c
<1>. QED BY <1>1, <1>3 DEF Parsers, QuietStep, SameElse

\* A list of the item gets another value.
LEMMA ItemListDoes ==
    ASSUME NEW F, NEW V, NEW p \in Parsers(F, V), NEW W, NEW o \in Parsers(F, W), o.cur = p.cur,
           NEW l \in ItemLists, NEW list
    PROVE  LET q == WithItemList(p, l, list) IN
           /\ SameElse(p, q) /\ WithItemList(o, l, list).cur = q.cur /\ q.cur.prod = p.cur.prod
           /\ \A k \in ItemLists : q.cur.many[k] = IF k = l THEN list ELSE p.cur.many[k]
<1> DEFINE many == [p.cur.many EXCEPT ![l] = list]
           c == [p.cur EXCEPT !.many = many]
<1>1. WithItemList(p, l, list) = [p EXCEPT !.cur = c] /\ WithItemList(o, l, list) = [o EXCEPT !.cur = c]
  BY DEF WithItemList
<1>2. p.cur \in Items(F, V) BY DEF Parsers
<1>3. DOMAIN p.cur.many = ItemLists BY <1>2 DEF Items, Manifold
<1>4. \A k \in ItemLists : many[k] = IF k = l THEN list ELSE p.cur.many[k] BY <1>3
<1> HIDE DEF many
<1>5. c.prod = p.cur.prod /\ c.many = many BY <1>2 DEF Items
<1> HIDE DEF c
<1>6. /\ [p EXCEPT !.cur = c].cur = c /\ [o EXCEPT !.cur = c].cur = c /\ SameElse(p, [p EXCEPT !.cur = c])
  BY DEF Parsers, SameElse
<1>. QED BY <1>1, <1>4, <1>5, <1>6

\* Which line makes which list another, and how.
Makes(l, ref, x, a) ==
    CASE l = "nve" /\ ref = "I05A" /\ "NVE" \in DOMAIN x -> Append(a["nve"], x)
      [] l = "rastro" /\ ref = "I80" -> Append(a["rastro"], x)
      [] l = "arma" /\ ref = "L" -> Append(a["arma"], x)
      [] l = "det_export" /\ ref = "I50" -> Append(a["det_export"], x)
      [] l = "det_export" /\ ref = "I52" -> Merged(a["det_export"], x)
      [] l = "di" /\ ref = "I18" -> Append(a["di"], [own |-> x, adi |-> <<>>])
      [] l = "di" /\ ref = "I25" -> Added(a["di"], x)
      [] OTHER -> a[l]

\* A line that makes one list another.
LEMMA MakesIs ==
    ASSUME NEW F, NEW V, NEW p \in Parsers(F, V), NEW W, NEW o \in Parsers(F, W), o.cur = p.cur,
           NEW ref, ref # "I", NEW x, NEW l \in ItemLists,
           \A k \in ItemLists \ {l} : Makes(k, ref, x, p.cur.many) = p.cur.many[k]
    PROVE  LET list == Makes(l, ref, x, p.cur.many) IN
           ItemStep(p, WithItemList(p, l, list), WithItemList(o, l, list), ref, x)
<1> DEFINE list == Makes(l, ref, x, p.cur.many)
           q == WithItemList(p, l, list)
<1>1. /\ SameElse(p, q) /\ WithItemList(o, l, list).cur = q.cur /\ q.cur.prod = p.cur.prod
      /\ \A k \in ItemLists : q.cur.many[k] = IF k = l THEN list ELSE p.cur.many[k]
  <2> HIDE DEF list
  <2>. QED BY ItemListDoes
<1>2. \A k \in ItemLists : q.cur.many[k] = Makes(k, ref, x, p.cur.many) BY <1>1
<1> HIDE DEF q
<1> DEFINE a == p.cur.many
           b == q.cur.many
<1>3. ItemLists = {"nve", "di", "det_export", "rastro", "arma"} BY DEF ItemLists
<1> HIDE DEF a, b
<1>4. \A k \in ItemLists : b[k] = Makes(k, ref, x, a) BY <1>2 DEF a, b
<1>5. b["nve"] = IF ref = "I05A" /\ "NVE" \in DOMAIN x THEN Append(a["nve"], x) ELSE a["nve"]
  BY <1>3, <1>4 DEF Makes
<1>6. b["rastro"] = IF ref = "I80" THEN Append(a["rastro"], x) ELSE a["rastro"]
  BY <1>3, <1>4 DEF Makes
<1>7. b["arma"] = IF ref = "L" THEN Append(a["arma"], x) ELSE a["arma"] BY <1>3, <1>4 DEF Makes
<1>8. b["det_export"] = IF ref = "I50" THEN Append(a["det_export"], x)
                        ELSE IF ref = "I52" THEN Merged(a["det_export"], x) ELSE a["det_export"]
  BY <1>3, <1>4 DEF Makes
<1>9. b["di"] = IF ref = "I18" THEN Append(a["di"], [own |-> x, adi |-> <<>>])
                ELSE IF ref = "I25" THEN Added(a["di"], x) ELSE a["di"]
  BY <1>3, <1>4 DEF Makes
<1>10. ManyStep(a, b, ref, x) BY <1>5, <1>6, <1>7, <1>8, <1>9 DEF ManyStep
<1>. QED BY <1>1, <1>10 DEF ItemStep, a, b, q

\* A line that makes none another leaves the parser as it is.
LEMMA MakesNone ==
    ASSUME NEW p, NEW o, o.cur = p.cur, NEW ref, ref # "I", NEW x,
           \A k \in ItemLists : Makes(k, ref, x, p.cur.many) = p.cur.many[k]
    PROVE  ItemStep(p, p, o, ref, x)
<1> DEFINE a == p.cur.many
<1>3. ItemLists = {"nve", "di", "det_export", "rastro", "arma"} BY DEF ItemLists
<1> HIDE DEF a
<1>4. \A k \in ItemLists : a[k] = Makes(k, ref, x, a) BY DEF a
<1>5. a["nve"] = IF ref = "I05A" /\ "NVE" \in DOMAIN x THEN Append(a["nve"], x) ELSE a["nve"]
  BY <1>3, <1>4 DEF Makes
<1>6. a["rastro"] = IF ref = "I80" THEN Append(a["rastro"], x) ELSE a["rastro"]
  BY <1>3, <1>4 DEF Makes
<1>7. a["arma"] = IF ref = "L" THEN Append(a["arma"], x) ELSE a["arma"] BY <1>3, <1>4 DEF Makes
<1>8. a["det_export"] = IF ref = "I50" THEN Append(a["det_export"], x)
                        ELSE IF ref = "I52" THEN Merged(a["det_export"], x) ELSE a["det_export"]
  BY <1>3, <1>4 DEF Makes
<1>9. a["di"] = IF ref = "I18" THEN Append(a["di"], [own |-> x, adi |-> <<>>])
                ELSE IF ref = "I25" THEN Added(a["di"], x) ELSE a["di"]
  BY <1>3, <1>4 DEF Makes
<1>10. ManyStep(a, a, ref, x) BY <1>5, <1>6, <1>7, <1>8, <1>9 DEF ManyStep
<1>. QED BY <1>10 DEF ItemStep, SameElse, a

\* The lines of a product.
LEMMA ProductDoes ==
    ASSUME NEW F, NEW V, NEW p \in Parsers(F, V), NEW W, NEW o \in Parsers(F, W), o.cur = p.cur,
           NEW x,
           NEW ref \in {"I", "I05A", "I05C", "I05G", "I18", "I25", "I50", "I52", "I80", "JA", "K", "L",
                        "LA", "LA07", "LA11", "LB"}
    PROVE  ItemStep(p, read_product(p, ref, x), read_product(o, ref, x), ref, x)
<1> DEFINE a == p.cur.many
           list(l) == Makes(l, ref, x, a)
<1>0. ItemLists = {"nve", "di", "det_export", "rastro", "arma"} BY DEF ItemLists
<1>1. CASE ref \in {"I05C", "I05G", "JA", "K", "LA", "LA07", "LA11", "LB"}
  <2>1. Quiet(ref) BY <1>1 DEF Quiet
  <2>2. \A s, y : QuietStep(p, PutItem(p, s, y), PutItem(o, s, y)) BY PutItemDoes
  <2>3. \A s, y : ItemStep(p, PutItem(p, s, y), PutItem(o, s, y), ref, x) BY <2>1, <2>2, QuietIs
  <2>. QED BY <1>1, <2>3 DEF read_product
<1>2. CASE ref = "I"
  <2> DEFINE c == [p.cur EXCEPT !.prod = x]
  <2>1. read_product(p, ref, x) = [p EXCEPT !.cur = c] /\ read_product(o, ref, x) = [o EXCEPT !.cur = c]
    BY <1>2 DEF read_product
  <2>2. p.cur \in Items(F, V) BY DEF Parsers
  <2>3. c.prod = x /\ c.many = p.cur.many BY <2>2 DEF Items
  <2> HIDE DEF c
  <2>4. /\ [p EXCEPT !.cur = c].cur = c /\ [o EXCEPT !.cur = c].cur = c /\ SameElse(p, [p EXCEPT !.cur = c])
    BY DEF Parsers, SameElse
  <2>5. ManyStep(p.cur.many, c.many, ref, x) BY <1>2, <2>3 DEF ManyStep
  <2>. QED BY <1>2, <2>1, <2>3, <2>4, <2>5 DEF ItemStep
<1>3. CASE ref = "I05A" /\ "NVE" \notin DOMAIN x
  <2>1. read_product(p, ref, x) = p /\ read_product(o, ref, x) = o BY <1>3 DEF read_product
  <2>2. \A k \in ItemLists : Makes(k, ref, x, p.cur.many) = p.cur.many[k] BY <1>3 DEF Makes
  <2>. QED BY <1>3, <2>1, <2>2, MakesNone
<1>4. CASE (ref = "I05A" /\ "NVE" \in DOMAIN x) \/ ref \in {"I80", "L", "I50"}
  <2> DEFINE l == CASE ref = "I05A" -> "nve" [] ref = "I80" -> "rastro" [] ref = "L" -> "arma" [] OTHER -> "det_export"
  <2>1. l \in ItemLists BY <1>0
  <2>2. read_product(p, ref, x) = PushItem(p, l, x) /\ read_product(o, ref, x) = PushItem(o, l, x)
    BY <1>4 DEF read_product
  <2>3. Makes(l, ref, x, p.cur.many) = Append(p.cur.many[l], x) BY <1>4 DEF Makes
  <2>4. \A k \in ItemLists \ {l} : Makes(k, ref, x, p.cur.many) = p.cur.many[k] BY <1>0, <1>4 DEF Makes
  <2> HIDE DEF l
  <2>5. \A k : PushItem(p, k, x) = WithItemList(p, k, Append(p.cur.many[k], x))
    BY DEF PushItem, WithItemList
  <2>6. \A k : PushItem(o, k, x) = WithItemList(o, k, Append(o.cur.many[k], x))
    BY DEF PushItem, WithItemList
  <2>7. ref # "I" BY <1>4
  <2>8. ItemStep(p, WithItemList(p, l, Makes(l, ref, x, p.cur.many)), WithItemList(o, l, Makes(l, ref, x, p.cur.many)), ref, x)
    BY <2>1, <2>4, <2>7, MakesIs
  <2>. QED BY <2>2, <2>3, <2>5, <2>6, <2>8
<1>5. CASE ref = "I18"
  <2> DEFINE y == [own |-> x, adi |-> <<>>]
  <2>1. read_product(p, ref, x) = PushItem(p, "di", y) /\ read_product(o, ref, x) = PushItem(o, "di", y)
    BY <1>5 DEF read_product
  <2>2. Makes("di", ref, x, p.cur.many) = Append(p.cur.many["di"], y) BY <1>5 DEF Makes
  <2>3. \A k \in ItemLists \ {"di"} : Makes(k, ref, x, p.cur.many) = p.cur.many[k] BY <1>0, <1>5 DEF Makes
  <2> HIDE DEF y
  <2>4. PushItem(p, "di", y) = WithItemList(p, "di", Append(p.cur.many["di"], y))
    BY DEF PushItem, WithItemList
  <2>5. PushItem(o, "di", y) = WithItemList(o, "di", Append(o.cur.many["di"], y))
    BY DEF PushItem, WithItemList
  <2>6. ref # "I" /\ "di" \in ItemLists BY <1>0, <1>5
  <2>7. ItemStep(p, WithItemList(p, "di", Makes("di", ref, x, p.cur.many)),
                 WithItemList(o, "di", Makes("di", ref, x, p.cur.many)), ref, x)
    BY <2>3, <2>6, MakesIs
  <2>. QED BY <2>1, <2>2, <2>4, <2>5, <2>7
<1>6. CASE ref = "I25"
  <2> DEFINE seq == p.cur.many["di"]
  <2>1. read_product(p, ref, x) = AddToLast(p, "di", x) /\ read_product(o, ref, x) = AddToLast(o, "di", x)
    BY <1>6 DEF read_product
  <2>2. Makes("di", ref, x, p.cur.many) = Added(seq, x) BY <1>6 DEF Makes
  <2>3. \A k \in ItemLists \ {"di"} : Makes(k, ref, x, p.cur.many) = p.cur.many[k] BY <1>0, <1>6 DEF Makes
  <2>4. CASE seq = <<>>
    <3>1. AddToLast(p, "di", x) = p /\ AddToLast(o, "di", x) = o BY <2>4 DEF AddToLast
    <3>2. Makes("di", ref, x, p.cur.many) = p.cur.many["di"] BY <2>2, <2>4 DEF Added
    <3>3. ref # "I" BY <1>6
    <3>4. \A k \in ItemLists : Makes(k, ref, x, p.cur.many) = p.cur.many[k] BY <2>3, <3>2
    <3>. QED BY <2>1, <3>1, <3>3, <3>4, MakesNone
  <2>5. CASE seq # <<>>
    <3> DEFINE z == [seq EXCEPT ![Len(seq)] = [seq[Len(seq)] EXCEPT !.adi = Append(seq[Len(seq)].adi, x)]]
    <3>1. AddToLast(p, "di", x) = WithItemList(p, "di", z) /\ AddToLast(o, "di", x) = WithItemList(o, "di", z)
      BY <2>5 DEF AddToLast, WithItemList
    <3>2. Added(seq, x) = z BY <2>5 DEF Added
    <3> HIDE DEF z
    <3>3. ref # "I" /\ "di" \in ItemLists BY <1>0, <1>6
    <3>4. ItemStep(p, WithItemList(p, "di", Makes("di", ref, x, p.cur.many)),
                   WithItemList(o, "di", Makes("di", ref, x, p.cur.many)), ref, x)
      BY <2>3, <3>3, MakesIs
    <3>. QED BY <2>1, <2>2, <3>1, <3>2, <3>4
  <2>. QED BY <2>4, <2>5
<1>7. CASE ref = "I52"
  <2> DEFINE seq == p.cur.many["det_export"]
  <2>1. /\ read_product(p, ref, x) = AddToLast(p, "det_export", x)
        /\ read_product(o, ref, x) = AddToLast(o, "det_export", x)
    BY <1>7 DEF read_product
  <2>2. Makes("det_export", ref, x, p.cur.many) = Merged(seq, x) BY <1>7 DEF Makes
  <2>3. \A k \in ItemLists \ {"det_export"} : Makes(k, ref, x, p.cur.many) = p.cur.many[k]
    BY <1>0, <1>7 DEF Makes
  <2>4. CASE seq = <<>>
    <3>1. AddToLast(p, "det_export", x) = p /\ AddToLast(o, "det_export", x) = o BY <2>4 DEF AddToLast
    <3>2. Makes("det_export", ref, x, p.cur.many) = p.cur.many["det_export"] BY <2>2, <2>4 DEF Merged
    <3>3. ref # "I" BY <1>7
    <3>4. \A k \in ItemLists : Makes(k, ref, x, p.cur.many) = p.cur.many[k] BY <2>3, <3>2
    <3>. QED BY <2>1, <3>1, <3>3, <3>4, MakesNone
  <2>5. CASE seq # <<>>
    <3> DEFINE z == [seq EXCEPT ![Len(seq)] = Extend(seq[Len(seq)], x)]
    <3>1. /\ AddToLast(p, "det_export", x) = WithItemList(p, "det_export", z)
          /\ AddToLast(o, "det_export", x) = WithItemList(o, "det_export", z)
      BY <2>5 DEF AddToLast, WithItemList
    <3>2. Merged(seq, x) = z BY <2>5 DEF Merged
    <3> HIDE DEF z
    <3>3. ref # "I" /\ "det_export" \in ItemLists BY <1>0, <1>7
    <3>4. ItemStep(p, WithItemList(p, "det_export", Makes("det_export", ref, x, p.cur.many)),
                   WithItemList(o, "det_export", Makes("det_export", ref, x, p.cur.many)), ref, x)
      BY <2>3, <3>3, MakesIs
    <3>. QED BY <2>1, <2>2, <3>1, <3>2, <3>4
  <2>. QED BY <2>4, <2>5
<1>. QED BY <1>1, <1>2, <1>3, <1>4, <1>5, <1>6, <1>7

\* The lines of ICMS, IPI and the lesser taxes.
LEMMA IcmsIpiDoes ==
    ASSUME NEW F, NEW V, NEW p \in Parsers(F, V), NEW W, NEW o \in Parsers(F, W), o.cur = p.cur,
           NEW x,
           NEW ref \in {"M", "NA", "O", "O07", "O08", "O10", "O11", "P", "U", "UA"}
                       \cup DOMAIN Icms \cup DOMAIN IcmsSpecial
    PROVE  ItemStep(p, read_icms_ipi(p, ref, x), read_icms_ipi(o, ref, x), ref, x)
<1>1. Quiet(ref) BY IcmsRefs DEF Quiet
<1>2. \A s, y : QuietStep(p, PutItem(p, s, y), PutItem(o, s, y)) BY PutItemDoes
<1>3. \A s, y : ItemStep(p, PutItem(p, s, y), PutItem(o, s, y), ref, x) BY <1>1, <1>2, QuietIs
<1>4. \A tax, fields : QuietStep(p, Assign(p, tax, fields, x), Assign(o, tax, fields, x)) BY AssignDoes
<1>5. \A tax, fields : ItemStep(p, Assign(p, tax, fields, x), Assign(o, tax, fields, x), ref, x)
  BY <1>1, <1>4, QuietIs
<1> DEFINE icms == DOMAIN Icms \cup DOMAIN IcmsSpecial
<1>6. icms \cap {"M", "NA", "O", "O07", "O08", "O10", "O11", "P", "U", "UA"} = {} BY IcmsRefs
<1>7. CASE ref \in icms
  <2>1. read_icms_ipi(p, ref, x) = PutItem(p, "icms", x) /\ read_icms_ipi(o, ref, x) = PutItem(o, "icms", x)
    <3>1. ref \in DOMAIN Icms \cup DOMAIN IcmsSpecial /\ ref # "M" BY <1>6, <1>7
    <3> HIDE DEF icms
    <3>2. ref \notin {"NA", "O", "O07", "O08", "O10", "O11", "P", "U", "UA"} BY <1>6, <1>7
    <3>. QED BY <3>1, <3>2 DEF read_icms_ipi
  <2>. QED BY <1>3, <2>1
<1>8. CASE ref \notin icms
  <2>1. ref \in {"M", "NA", "O", "O07", "O08", "O10", "O11", "P", "U", "UA"}
        /\ ref \notin DOMAIN Icms \cup DOMAIN IcmsSpecial BY <1>8
  <2> HIDE DEF icms
  <2>. QED BY <1>3, <1>5, <2>1 DEF read_icms_ipi
<1>. QED BY <1>7, <1>8

\* A record of the item and its values.
LEMMA AssignPutDoes ==
    ASSUME NEW F, NEW V, NEW p \in Parsers(F, V), NEW W, NEW o \in Parsers(F, W), o.cur = p.cur,
           NEW s \in ItemSlots, NEW x \in Std(F, V) \cap Std(F, W), NEW tax, NEW fields
    PROVE  QuietStep(p, Assign(PutItem(p, s, x), tax, fields, x), Assign(PutItem(o, s, x), tax, fields, x))
<1> DEFINE q == PutItem(p, s, x)
           r == PutItem(o, s, x)
<1>1. q \in Parsers(F, V) /\ r \in Parsers(F, W) BY PutItemIs
<1>2. QuietStep(p, q, r) BY PutItemDoes
<1>3. r.cur = q.cur BY <1>2 DEF QuietStep
<1> HIDE DEF q, r
<1>4. QuietStep(q, Assign(q, tax, fields, x), Assign(r, tax, fields, x)) BY <1>1, <1>3, AssignDoes
<1>. QED BY <1>2, <1>4 DEF QuietStep, SameElse, q, r

\* The lines of PIS.
LEMMA PisDoes ==
    ASSUME NEW F, NEW V, NEW p \in Parsers(F, V), NEW W, NEW o \in Parsers(F, W), o.cur = p.cur,
           NEW x \in Std(F, V) \cap Std(F, W),
           NEW ref \in {"Q02", "Q03", "Q04", "Q05", "Q07", "Q10", "R", "R02", "R04"}
    PROVE  ItemStep(p, read_pis(p, ref, x), read_pis(o, ref, x), ref, x)
<1>1. Quiet(ref) BY DEF Quiet
<1>2. \A tax, fields : QuietStep(p, Assign(p, tax, fields, x), Assign(o, tax, fields, x)) BY AssignDoes
<1>3. \A tax, fields : ItemStep(p, Assign(p, tax, fields, x), Assign(o, tax, fields, x), ref, x)
  BY <1>1, <1>2, QuietIs
<1>4. \A tax, fields : QuietStep(p, Assign(PutItem(p, "pis_st", x), tax, fields, x),
                                 Assign(PutItem(o, "pis_st", x), tax, fields, x))
  BY AssignPutDoes DEF ItemSlots
<1>5. \A tax, fields : ItemStep(p, Assign(PutItem(p, "pis_st", x), tax, fields, x),
                                Assign(PutItem(o, "pis_st", x), tax, fields, x), ref, x)
  BY <1>1, <1>4, QuietIs
<1>. QED BY <1>3, <1>5 DEF read_pis

\* The lines of COFINS.
LEMMA CofinsDoes ==
    ASSUME NEW F, NEW V, NEW p \in Parsers(F, V), NEW W, NEW o \in Parsers(F, W), o.cur = p.cur,
           NEW x \in Std(F, V) \cap Std(F, W),
           NEW ref \in {"S02", "S03", "S04", "S05", "S07", "S09", "T", "T02", "T04"}
    PROVE  ItemStep(p, read_cofins(p, ref, x), read_cofins(o, ref, x), ref, x)
<1>1. Quiet(ref) BY DEF Quiet
<1>2. \A tax, fields : QuietStep(p, Assign(p, tax, fields, x), Assign(o, tax, fields, x)) BY AssignDoes
<1>3. \A tax, fields : ItemStep(p, Assign(p, tax, fields, x), Assign(o, tax, fields, x), ref, x)
  BY <1>1, <1>2, QuietIs
<1>4. \A tax, fields : QuietStep(p, Assign(PutItem(p, "cofins_st", x), tax, fields, x),
                                 Assign(PutItem(o, "cofins_st", x), tax, fields, x))
  BY AssignPutDoes DEF ItemSlots
<1>5. \A tax, fields : ItemStep(p, Assign(PutItem(p, "cofins_st", x), tax, fields, x),
                                Assign(PutItem(o, "cofins_st", x), tax, fields, x), ref, x)
  BY <1>1, <1>4, QuietIs
<1>. QED BY <1>3, <1>5 DEF read_cofins

\* A line of an item.
LEMMA ItemLineDoes ==
    ASSUME NEW F, NEW V, NEW p \in Parsers(F, V), NEW W, NEW o \in Parsers(F, W), o.cur = p.cur,
           NEW x \in Std(F, V) \cap Std(F, W), NEW ref, OfItem(ref), ref # "H"
    PROVE  ItemStep(p, handle(p, ref, x), handle(o, ref, x), ref, x)
<1>1. CASE Section(ref) = "product"
  <2>1. ref \in {"I", "I05A", "I05C", "I05G", "I18", "I25", "I50", "I52", "I80", "JA", "K", "L",
                 "LA", "LA07", "LA11", "LB"}
    BY <1>1 DEF Section
  <2>2. handle(p, ref, x) = read_product(p, ref, x) /\ handle(o, ref, x) = read_product(o, ref, x)
    BY <1>1 DEF handle
  <2>. QED BY <2>1, <2>2, ProductDoes
<1>2. CASE Section(ref) = "icms_ipi"
  <2>1. ref \in {"M", "NA", "O", "O07", "O08", "O10", "O11", "P", "U", "UA"}
                \cup DOMAIN Icms \cup DOMAIN IcmsSpecial
    BY <1>2 DEF Section
  <2>2. handle(p, ref, x) = read_icms_ipi(p, ref, x) /\ handle(o, ref, x) = read_icms_ipi(o, ref, x)
    BY <1>2 DEF handle
  <2>. QED BY <2>1, <2>2, IcmsIpiDoes
<1>3. CASE Section(ref) = "pis"
  <2>1. ref \in {"Q02", "Q03", "Q04", "Q05", "Q07", "Q10", "R", "R02", "R04"} BY <1>3 DEF Section
  <2>2. handle(p, ref, x) = read_pis(p, ref, x) /\ handle(o, ref, x) = read_pis(o, ref, x)
    BY <1>3 DEF handle
  <2>. QED BY <2>1, <2>2, PisDoes
<1>4. CASE Section(ref) = "cofins"
  <2>1. ref \in {"S02", "S03", "S04", "S05", "S07", "S09", "T", "T02", "T04"} BY <1>4 DEF Section
  <2>2. handle(p, ref, x) = read_cofins(p, ref, x) /\ handle(o, ref, x) = read_cofins(o, ref, x)
    BY <1>4 DEF handle
  <2>. QED BY <2>1, <2>2, CofinsDoes
<1>. QED BY <1>1, <1>2, <1>3, <1>4 DEF OfItem

\* An entity that a list is made of is one that is read.
LEMMA ListedAreRead ==
    \A ref \in Others \cup {"BA02", "BA19", "BA20", "X22", "Y07", "Z04", "Z07", "Z10", "ZC04", "ZC10"} :
        Section(ref) \in {"header", "local", "transport", "payment", "rest"}
<1> DEFINE icms == DOMAIN Icms \cup DOMAIN IcmsSpecial
           refs == Others \cup {"BA02", "BA19", "BA20", "X22", "Y07", "Z04", "Z07", "Z10", "ZC04", "ZC10"}
<1>1. \A ref \in refs : ref \notin icms BY IcmsRefs DEF Others
<1>2. refs = {"BA03", "BA10", "BA13", "BA14", "GA", "GA02", "GA03", "YA", "YA01", "YA04", "BA02", "BA19",
              "BA20", "X22", "Y07", "Z04", "Z07", "Z10", "ZC04", "ZC10"}
  BY DEF Others
<1> HIDE DEF icms, refs
<1>3. \A ref \in refs : Section(ref) \in {"header", "local", "transport", "payment", "rest"}
  BY <1>1, <1>2 DEF Section, icms
<1>. QED BY <1>3 DEF refs

\* Any other line, but for volumes, seals and the end of the items.
LEMMA OtherLineDoes ==
    ASSUME NEW F, NEW V, NEW p \in Parsers(F, V), NEW x \in Std(F, V),
           NEW ref, ~OfItem(ref), ref \notin {"W", "X26", "X33"}
    PROVE  Aside(p, handle(p, ref, x), ref, x)
<1>1. CASE Section(ref) = "header"
  <2>1. Aside(p, read_header(p, ref, x), ref, x) BY <1>1, HeaderDoes DEF Section
  <2>. QED BY <1>1, <2>1 DEF handle
<1>2. CASE Section(ref) = "party"
  <2>1. Aside(p, read_party(p, ref, x), ref, x) BY <1>2, PartyDoes DEF Section
  <2>. QED BY <1>2, <2>1 DEF handle
<1>3. CASE Section(ref) = "local"
  <2>1. Aside(p, read_local(p, ref, x), ref, x) BY <1>3, LocalDoes DEF Section
  <2>. QED BY <1>3, <2>1 DEF handle
<1>4. CASE Section(ref) = "transport"
  <2>1. ref \in {"X", "X03", "X04", "X05", "X11", "X18", "X22", "X25A", "X25B"} BY <1>4 DEF Section
  <2>2. Aside(p, read_transport(p, ref, x), ref, x) BY <2>1, TransportDoes
  <2>. QED BY <1>4, <2>2 DEF handle
<1>5. CASE Section(ref) = "payment"
  <2>1. Aside(p, read_payment(p, ref, x), ref, x) BY <1>5, PaymentDoes DEF Section
  <2>. QED BY <1>5, <2>1 DEF handle
<1>6. CASE Section(ref) = "rest"
  <2>1. ref \in {"W02", "W03", "W17", "W23", "Z", "Z04", "Z07", "Z10", "ZA", "ZB", "ZC", "ZC04", "ZC10",
                 "ZD", "ZX01"}
    BY <1>6 DEF Section
  <2>2. Aside(p, read_totals_and_rest(p, ref, x), ref, x) BY <2>1, RestDoes
  <2>. QED BY <1>6, <2>2 DEF handle
<1>7. CASE Section(ref) \notin {"header", "party", "local", "product", "icms_ipi", "pis", "cofins",
                                "transport", "payment", "rest"}
  <2>1. handle(p, ref, x) = p BY <1>7 DEF handle
  <2>2. ref \notin Others \cup {"BA02", "BA19", "BA20", "X22", "Y07", "Z04", "Z07", "Z10", "ZC04", "ZC10"}
    BY <1>7, ListedAreRead
  <2>3. \A k \in Plain : ~Pushes(k, ref, x) BY <2>2 DEF Pushes
  <2>. QED BY <2>1, <2>2, <2>3, PassedOver
<1>. QED BY <1>1, <1>2, <1>3, <1>4, <1>5, <1>6, <1>7 DEF OfItem

\* The lines that are left.
LEMMA SectionsAre ==
    /\ Section("H") = "product" /\ Section("W") = "rest"
    /\ Section("X26") = "transport" /\ Section("X33") = "transport"
<1> DEFINE icms == DOMAIN Icms \cup DOMAIN IcmsSpecial
<1>1. \A ref \in {"H", "W", "X26", "X33"} : ref \notin icms BY IcmsRefs
<1> HIDE DEF icms
<1>. QED BY <1>1 DEF Section, icms

\* They begin and end an item, and make the volumes.
LEMMA HandlesAre ==
    ASSUME NEW p, NEW x
    PROVE  /\ handle(p, "H", x) = start_item(p, x) /\ handle(p, "W", x) = finalize_current_item(p)
           /\ handle(p, "X26", x) = read_transport(p, "X26", x)
           /\ handle(p, "X33", x) = read_transport(p, "X33", x)
<1>1. handle(p, "H", x) = read_product(p, "H", x) BY SectionsAre DEF handle
<1>2. handle(p, "W", x) = read_totals_and_rest(p, "W", x) BY SectionsAre DEF handle
<1>3. read_product(p, "H", x) = start_item(p, x) BY DEF read_product
<1>4. read_totals_and_rest(p, "W", x) = finalize_current_item(p) BY DEF read_totals_and_rest
<1>5. handle(p, "X26", x) = read_transport(p, "X26", x) /\ handle(p, "X33", x) = read_transport(p, "X33", x)
  BY SectionsAre DEF handle
<1>. QED BY <1>1, <1>2, <1>3, <1>4, <1>5
-----------------------------------------------------------------------------
(***************************************************************************)
(* The parts of an invoice.  The lines that start a part are counted: the  *)
(* k-th part of a kind is made of the lines up to which k were started.    *)
(***************************************************************************)
\* Records with values of some lines.
Fields == UNION {file[i].given : i \in DOMAIN file}
ReadOf(L) == {Value(i, file[i].is) : i \in L}
Records(L) == Std(Fields, ReadOf(L))

\* A line is read into a record of itself, which is not the absent one.
LEMMA RecordOf ==
    ASSUME FileInv, NEW i \in DOMAIN file
    PROVE  /\ \A L : i \in L => fields_to_std(file[i], i) \in Records(L)
           /\ DOMAIN fields_to_std(file[i], i) = file[i].given
           /\ fields_to_std(file[i], i) # None /\ Empty # None
<1>1. ASSUME NEW L, i \in L PROVE fields_to_std(file[i], i) \in Records(L)
  <2>1. Value(i, file[i].is) \in ReadOf(L) BY <1>1 DEF ReadOf
  <2>2. file[i].given \in SUBSET Fields BY DEF Fields
  <2>3. fields_to_std(file[i], i) \in [file[i].given -> ReadOf(L)] BY <2>1 DEF fields_to_std
  <2>. QED BY <2>2, <2>3 DEF Records, Std
<1>2. DOMAIN fields_to_std(file[i], i) = file[i].given BY DEF fields_to_std
<1>3. fields_to_std(file[i], i) # None
  <2>1. file[i] \in LeadOf(form) \cup Lines[form] /\ form \in DOMAIN Forms
        /\ Len(file) \in Nat /\ DOMAIN file = 1..Len(file)
    BY FileIs DEF FileInv
  <2>2. None \notin [file[i].given -> [from : Nat, is : {file[i].is}]]
    BY <2>1, RecordsAssumption DEF LeadOf
  <2>3. i \in Nat BY <2>1
  <2>4. Value(i, file[i].is) \in [from : Nat, is : {file[i].is}] BY <2>3 DEF Value
  <2>5. fields_to_std(file[i], i) \in [file[i].given -> [from : Nat, is : {file[i].is}]]
    BY <2>4 DEF fields_to_std
  <2>. QED BY <2>2, <2>5
<1>. QED BY <1>1, <1>2, <1>3, RecordsAssumption

\* A record of lines is one of more lines.
LEMMA RecordsGrow ==
    ASSUME NEW L, NEW M, L \subseteq M
    PROVE  Records(L) \subseteq Records(M)
<1>1. ReadOf(L) \subseteq ReadOf(M) BY DEF ReadOf
<1>2. \A D : [D -> ReadOf(L)] \subseteq [D -> ReadOf(M)] BY <1>1
<1>. QED BY <1>2 DEF Records, Std

\* How many of H there are up to i.
Upto(H, i) == Cardinality({h \in H : h <= i})

\* Counting up.
LEMMA CountIs ==
    ASSUME NEW a \in Int, NEW b \in Int, NEW H \in SUBSET (a..b), NEW i \in Int
    PROVE  /\ Upto(H, i) \in Nat
           /\ Upto(H, i) = IF i \in H THEN Upto(H, i - 1) + 1 ELSE Upto(H, i - 1)
           /\ (\A h \in H : i < h) => Upto(H, i) = 0
           /\ (\E h \in H : h <= i) => Upto(H, i) # 0
<1> DEFINE A == {h \in H : h <= i}
           B == {h \in H : h <= i - 1}
<1>1. \A h \in H : h \in Int OBVIOUS
<1>2. IsFiniteSet(A) /\ IsFiniteSet(B) /\ Cardinality(A) \in Nat /\ Cardinality(B) \in Nat
  <2>1. IsFiniteSet(a..b) BY FS_Interval
  <2>2. IsFiniteSet(H) BY <2>1, FS_Subset
  <2>3. A \in SUBSET H /\ B \in SUBSET H OBVIOUS
  <2> HIDE DEF A, B
  <2>4. IsFiniteSet(A) /\ IsFiniteSet(B) BY <2>2, <2>3, FS_Subset
  <2>. QED BY <2>4, FS_CardinalityType
<1> DEFINE up == Upto(H, i)
           before == Upto(H, i - 1)
<1>3. up = Cardinality(A) /\ before = Cardinality(B) BY DEF Upto
<1> HIDE DEF up, before
<1>4. ASSUME i \in H PROVE up = before + 1
  <2>1. \A h : h \in A <=> h \in B \/ h = i
    <3>1. \A h \in Int : h <= i <=> (h <= i - 1 \/ h = i) OBVIOUS
    <3>. QED BY <1>1, <1>4, <3>1
  <2>2. i \notin B OBVIOUS
  <2> HIDE DEF A, B
  <2>3. A = B \cup {i} BY <2>1
  <2>4. Cardinality(A) = Cardinality(B) + 1 BY <1>2, <2>2, <2>3, FS_AddElement
  <2>. QED BY <1>3, <2>4
<1>5. ASSUME i \notin H PROVE up = before
  <2>1. \A h : h \in A <=> h \in B
    <3>1. \A h \in Int : h <= i <=> (h <= i - 1 \/ h = i) OBVIOUS
    <3>. QED BY <1>1, <1>5, <3>1
  <2> HIDE DEF A, B
  <2>2. A = B BY <2>1
  <2>. QED BY <1>3, <2>2
<1>6. ASSUME \A h \in H : i < h PROVE Cardinality(A) = 0
  <2>1. \A h : h \notin A
    <3>1. \A h \in Int : i < h => ~(h <= i) OBVIOUS
    <3>. QED BY <1>1, <1>6, <3>1
  <2> HIDE DEF A
  <2>2. A = {} BY <2>1
  <2>. QED BY <2>2, FS_EmptySet
<1>7. ASSUME NEW h \in H, h <= i PROVE Cardinality(A) # 0
  <2>1. h \in A BY <1>7
  <2> HIDE DEF A
  <2>2. A # {} BY <2>1
  <2>. QED BY <1>2, <2>2, FS_EmptySet
<1> HIDE DEF A, B
<1>8. up \in Nat /\ before \in Nat BY <1>2, <1>3
<1>9. /\ up \in Nat /\ up = IF i \in H THEN before + 1 ELSE before
      /\ (\A h \in H : i < h) => up = 0
      /\ (\E h \in H : h <= i) => up # 0
  BY <1>3, <1>4, <1>5, <1>6, <1>7, <1>8
<1>. QED BY <1>9 DEF up, before

\* The lines that start the parts of a kind.
HeadLines(L, part) == {j \in L : Starts(j, part)}

\* The parts, by the lines that start them.
LEMMA GroupIs ==
    ASSUME NEW L, NEW part, NEW k
    PROVE  Group(L, part, k) = {i \in L : Upto(HeadLines(L, part), i) = k}
<1>1. \A i : {j \in L : j <= i /\ Starts(j, part)} = {h \in HeadLines(L, part) : h <= i} BY DEF HeadLines
<1>. QED BY <1>1 DEF Group, Upto

\* A list has a record for each part started, made of the lines of that part.
Counted(list, L, part, i) == Len(list) = Upto(HeadLines(L, part), i)
Placed(list, L, part) == \A m \in DOMAIN list : list[m] \in Records(Group(L, part, m))

\* At first there is none.
LEMMA NoneYet ==
    ASSUME NEW a \in Int, NEW b \in Int, NEW L \in SUBSET (a..b), NEW part, NEW i \in Int, \A j \in L : i < j
    PROVE  Counted(<<>>, L, part, i) /\ Placed(<<>>, L, part)
<1> DEFINE H == HeadLines(L, part)
<1>1. H \in SUBSET (a..b) /\ \A h \in H : i < h BY DEF HeadLines
<1> HIDE DEF H
<1>2. Upto(H, i) = 0 BY <1>1, CountIs
<1>. QED BY <1>2 DEF Counted, Placed, H

\* A line that starts a part adds its record.
LEMMA Grows ==
    ASSUME NEW a \in Int, NEW b \in Int, NEW L \in SUBSET (a..b), NEW part, NEW i \in L, Starts(i, part),
           NEW S, NEW list \in Seq(S), Counted(list, L, part, i - 1), Placed(list, L, part),
           NEW x, \A M : i \in M => x \in Records(M)
    PROVE  Counted(Append(list, x), L, part, i) /\ Placed(Append(list, x), L, part)
<1> DEFINE H == HeadLines(L, part)
           n == Len(list)
<1>1. H \in SUBSET (a..b) /\ i \in H /\ i \in Int
  <2>1. i \in a..b OBVIOUS
  <2>2. i \in Int BY <2>1
  <2>3. \A j \in H : j \in L BY DEF HeadLines
  <2>4. i \in H BY DEF HeadLines
  <2> HIDE DEF H
  <2>. QED BY <2>2, <2>3, <2>4
<1>2. Upto(H, i) = n + 1 /\ n \in Nat
  <2>1. Upto(H, i) = Upto(H, i - 1) + 1
    <3> HIDE DEF H
    <3>. QED BY <1>1, CountIs
  <2>. QED BY <2>1 DEF Counted
<1>3. i \in Group(L, part, n + 1) BY <1>2, GroupIs
<1>4. x \in Records(Group(L, part, n + 1)) BY <1>3
<1> DEFINE G(m) == Records(Group(L, part, m))
<1>5. \A m \in 1..n : list[m] \in G(m) /\ x \in G(n + 1) BY <1>4 DEF Placed
<1> HIDE DEF G, H
<1>6. DOMAIN Append(list, x) = 1..(n + 1) /\ Len(Append(list, x)) = n + 1
      /\ \A m \in 1..(n + 1) : Append(list, x)[m] = IF m = n + 1 THEN x ELSE list[m]
  OBVIOUS
<1>7. \A m \in DOMAIN Append(list, x) : Append(list, x)[m] \in G(m)
  <2> HIDE DEF n
  <2>. QED BY <1>2, <1>4, <1>5, <1>6 DEF G
<1>. QED BY <1>2, <1>6, <1>7 DEF Counted, Placed, G, H

\* Another line starts none.
LEMMA Stays ==
    ASSUME NEW a \in Int, NEW b \in Int, NEW L \in SUBSET (a..b), NEW part, NEW i \in Int, ~(i \in L /\ Starts(i, part)),
           NEW list, Counted(list, L, part, i - 1)
    PROVE  Counted(list, L, part, i)
<1>1. HeadLines(L, part) \in SUBSET (a..b) /\ i \notin HeadLines(L, part) BY DEF HeadLines
<1>. QED BY <1>1, CountIs DEF Counted

\* A line that starts none is of the last part started.
LEMMA InLast ==
    ASSUME NEW L, NEW part, NEW i \in L, NEW list, Counted(list, L, part, i)
    PROVE  i \in Group(L, part, Len(list))
BY GroupIs DEF Counted

\* What is merged into the last record is of the last part.
LEMMA Merges ==
    ASSUME NEW L, NEW part, NEW i \in L, NEW S, NEW list \in Seq(S),
           Counted(list, L, part, i), Placed(list, L, part), NEW x, \A M : i \in M => x \in Records(M)
    PROVE  Len(Merged(list, x)) = Len(list) /\ Placed(Merged(list, x), L, part)
<1>1. CASE list = <<>> BY <1>1 DEF Merged, Placed
<1>2. CASE list # <<>>
  <2> DEFINE n == Len(list)
             z == Extend(list[n], x)
  <2>1. n \in 1..n /\ DOMAIN list = 1..n BY <1>2
  <2>2. x \in Records(Group(L, part, n)) BY InLast
  <2>3. z \in Records(Group(L, part, n))
    <3>1. list[n] \in Records(Group(L, part, n)) BY <2>1 DEF Placed
    <3>. QED BY <2>2, <3>1, ExtendIs DEF Records
  <2>4. Merged(list, x) = [list EXCEPT ![n] = z] BY <1>2 DEF Merged
  <2> HIDE DEF z
  <2>5. \A m \in DOMAIN [list EXCEPT ![n] = z] : m \in 1..n /\ [list EXCEPT ![n] = z][m] = IF m = n THEN z ELSE list[m]
    BY <2>1
  <2>6. \A m \in DOMAIN [list EXCEPT ![n] = z] : [list EXCEPT ![n] = z][m] \in Records(Group(L, part, m))
    BY <2>1, <2>3, <2>5 DEF Placed
  <2>7. Len([list EXCEPT ![n] = z]) = n BY <2>1
  <2>. QED BY <2>4, <2>6, <2>7 DEF Placed
<1>. QED BY <1>1, <1>2

\* The part that each plain list is of.
PartOf == [nf_ref |-> "refNFe", nf_ref_cte |-> "refCTe", nf_ref_ecf |-> "refECF", reboque |-> "reboque",
           dup |-> "dup", proc_ref |-> "procRef", for_dia |-> "forDia", deduc |-> "deduc"]
PlainAt(p, L, i) ==
    \A l \in DOMAIN PartOf : Counted(p.list[l], L, PartOf[l], i) /\ Placed(p.list[l], L, PartOf[l])

\* A line is pushed onto the list of the part it starts.
LEMMA PushesStart ==
    ASSUME NEW i \in DOMAIN file, NEW l \in DOMAIN PartOf
    PROVE  Pushes(l, file[i].ref, fields_to_std(file[i], i)) <=> Starts(i, PartOf[l])
<1>1. DOMAIN fields_to_std(file[i], i) = file[i].given BY DEF fields_to_std
<1> DEFINE x == fields_to_std(file[i], i)
           ref == file[i].ref
           given == file[i].given
<1>2. DOMAIN x = given BY <1>1
<1>3. Starts(i, PartOf[l]) <=> ref \in HeadsOf(PartOf[l]) /\ Said(PartOf[l]) \subseteq given BY DEF Starts
<1> HIDE DEF x, ref, given
<1>4. CASE l = "nf_ref"
  <2>1. PartOf[l] = "refNFe" /\ HeadsOf("refNFe") = {"BA02"} /\ Said("refNFe") = {"refNFe"}
    BY <1>4 DEF PartOf, HeadsOf, Said
  <2>2. Pushes(l, ref, x) <=> ref = "BA02" /\ "refNFe" \in DOMAIN x BY <1>4 DEF Pushes
  <2>. QED BY <1>2, <1>3, <2>1, <2>2 DEF x, ref
<1>5. CASE l = "nf_ref_cte"
  <2>1. PartOf[l] = "refCTe" /\ HeadsOf("refCTe") = {"BA19"} /\ Said("refCTe") = {"refCTe"}
    BY <1>5 DEF PartOf, HeadsOf, Said
  <2>2. Pushes(l, ref, x) <=> ref = "BA19" /\ "refCTe" \in DOMAIN x BY <1>5 DEF Pushes
  <2>. QED BY <1>2, <1>3, <2>1, <2>2 DEF x, ref
<1>6. CASE l \notin {"nf_ref", "nf_ref_cte"}
  <2>1. Said(PartOf[l]) = {} /\ \E r : HeadsOf(PartOf[l]) = {r} /\ (Pushes(l, ref, x) <=> ref = r)
    <3>1. CASE l = "nf_ref_ecf" BY <3>1 DEF PartOf, HeadsOf, Said, Pushes
    <3>2. CASE l = "reboque" BY <3>2 DEF PartOf, HeadsOf, Said, Pushes
    <3>3. CASE l = "dup" BY <3>3 DEF PartOf, HeadsOf, Said, Pushes
    <3>4. CASE l = "proc_ref" BY <3>4 DEF PartOf, HeadsOf, Said, Pushes
    <3>5. CASE l = "for_dia" BY <3>5 DEF PartOf, HeadsOf, Said, Pushes
    <3>6. CASE l = "deduc" BY <3>6 DEF PartOf, HeadsOf, Said, Pushes
    <3>. QED BY <1>6, <3>1, <3>2, <3>3, <3>4, <3>5, <3>6 DEF PartOf
  <2>. QED BY <1>3, <2>1 DEF x, ref
<1>. QED BY <1>4, <1>5, <1>6

\* The plain lists have the parts they are for.
LEMMA PlainStays ==
    ASSUME FileInv, NEW a \in Int, NEW b \in Int, NEW L \in SUBSET (a..b), NEW i \in L, i \in DOMAIN file,
           NEW F, NEW V, NEW p \in Parsers(F, V), NEW q,
           PlainStep(p, q, file[i].ref, fields_to_std(file[i], i)), PlainAt(p, L, i - 1)
    PROVE  PlainAt(q, L, i)
<1> DEFINE x == fields_to_std(file[i], i)
<1>1. \A M : i \in M => x \in Records(M) BY RecordOf
<1>2. i \in Int
  <2>1. i \in a..b OBVIOUS
  <2>. QED BY <2>1
<1> HIDE DEF x
<1> SUFFICES ASSUME NEW l \in DOMAIN PartOf
             PROVE  Counted(q.list[l], L, PartOf[l], i) /\ Placed(q.list[l], L, PartOf[l])
  BY DEF PlainAt
<1>3. l \in Plain /\ l \in Lists \ {"volumes"} BY DEF PartOf, Plain, Lists
<1>4. p.list[l] \in Seq(Std(F, V)) BY <1>3, HeldIs
<1>5. Counted(p.list[l], L, PartOf[l], i - 1) /\ Placed(p.list[l], L, PartOf[l]) BY DEF PlainAt
<1>6. q.list[l] = IF Starts(i, PartOf[l]) THEN Append(p.list[l], x) ELSE p.list[l]
  BY <1>3, PushesStart DEF PlainStep, x
<1>7. CASE Starts(i, PartOf[l])
  <2>1. Counted(Append(p.list[l], x), L, PartOf[l], i) /\ Placed(Append(p.list[l], x), L, PartOf[l])
    BY <1>1, <1>4, <1>5, <1>7, Grows
  <2>. QED BY <1>6, <1>7, <2>1
<1>8. CASE ~Starts(i, PartOf[l])
  <2>1. Counted(p.list[l], L, PartOf[l], i) BY <1>2, <1>5, <1>8, Stays
  <2>. QED BY <1>5, <1>6, <1>8, <2>1
<1>. QED BY <1>7, <1>8

\* Observations are counted by their names.
Names(list) == {k \in DOMAIN list : "xCampo" \in DOMAIN list[k]}
NamedAt(list, L, part, i) ==
    /\ Upto(Names(list), Len(list)) = Upto(HeadLines(L, part), i)
    /\ \A k \in Names(list) : list[k] \in Records(Group(L, part, Upto(Names(list), k)))

\* The names of a list that an observation is pushed onto.
LEMMA NamesOf ==
    ASSUME NEW S, NEW list \in Seq(S), NEW x
    PROVE  LET n == Len(list)
               now == Append(list, x)
           IN  /\ Names(list) \in SUBSET (1..n) /\ n \in Nat
               /\ Names(now) = IF "xCampo" \in DOMAIN x THEN Names(list) \cup {n + 1} ELSE Names(list)
               /\ Len(now) = n + 1 /\ \A k \in 1..n : now[k] = list[k] /\ Upto(Names(now), k) = Upto(Names(list), k)
               /\ now[n + 1] = x
               /\ Upto(Names(now), n + 1) =
                    Upto(Names(list), n) + IF "xCampo" \in DOMAIN x THEN 1 ELSE 0
<1> DEFINE n == Len(list)
           now == Append(list, x)
           named == "xCampo" \in DOMAIN x
<1>1. /\ n \in Nat /\ DOMAIN list = 1..n /\ DOMAIN now = 1..(n + 1) /\ Len(now) = n + 1
      /\ (\A k \in 1..n : now[k] = list[k]) /\ now[n + 1] = x
  OBVIOUS
<1>2. Names(list) \in SUBSET (1..n) BY <1>1 DEF Names
<1> HIDE DEF n, now
<1>3. \A k : k \in Names(now) <=> k \in Names(list) \/ (named /\ k = n + 1)
  <2>1. \A k : k \in 1..(n + 1) <=> k \in 1..n \/ k = n + 1 BY <1>1
  <2>2. n + 1 \notin 1..n BY <1>1
  <2>. QED BY <1>1, <2>1, <2>2 DEF Names
<1> DEFINE old == Names(list)
           all == Names(now)
<1>4. all = IF named THEN old \cup {n + 1} ELSE old
  <2> HIDE DEF old, all, named
  <2>. QED BY <1>3 DEF old, all
<1>5. \A k \in 1..n : Upto(all, k) = Upto(old, k)
  <2> SUFFICES ASSUME NEW k \in 1..n PROVE Upto(all, k) = Upto(old, k) OBVIOUS
  <2>1. ~(n + 1 <= k) BY <1>1
  <2>2. \A h : (h \in all /\ h <= k) <=> (h \in old /\ h <= k) BY <1>3, <2>1
  <2> HIDE DEF old, all
  <2>3. {h \in all : h <= k} = {h \in old : h <= k} BY <2>2
  <2>. QED BY <2>3 DEF Upto
<1>6. Upto(all, n + 1) = Upto(old, n) + IF named THEN 1 ELSE 0
  <2>1. all \in SUBSET (1..(n + 1))
    <3>1. 1..n \subseteq 1..(n + 1) /\ n + 1 \in 1..(n + 1) BY <1>1
    <3> HIDE DEF old, all, named
    <3>. QED BY <1>2, <1>4, <3>1 DEF old
  <2>2. n + 1 \in all <=> named
    <3>1. n + 1 \notin old BY <1>1, <1>2
    <3> HIDE DEF old, all, named
    <3>. QED BY <1>4, <3>1
  <2>3. Upto(all, n) = Upto(old, n)
    <3>1. \A h : (h \in all /\ h <= n) <=> (h \in old /\ h <= n)
      <4>1. ~(n + 1 <= n) BY <1>1
      <4>. QED BY <1>3, <4>1
    <3> HIDE DEF old, all
    <3>2. {h \in all : h <= n} = {h \in old : h <= n} BY <3>1
    <3>. QED BY <3>2 DEF Upto
  <2> HIDE DEF old, all, named
  <2>4. (n + 1) - 1 = n /\ 1 \in Int /\ n + 1 \in Int BY <1>1
  <2> DEFINE u == Upto(all, n + 1)
             w == Upto(all, n)
  <2>5. w \in Nat /\ u = IF n + 1 \in all THEN w + 1 ELSE w
    <3>1. w \in Nat
      <4>1. n \in Int BY <1>1
      <4>. QED BY <2>1, <2>4, <4>1, CountIs
    <3>2. u = IF n + 1 \in all THEN Upto(all, (n + 1) - 1) + 1 ELSE Upto(all, (n + 1) - 1)
      BY <2>1, <2>4, CountIs
    <3> HIDE DEF u
    <3>. QED BY <2>4, <3>1, <3>2
  <2> HIDE DEF u, w
  <2>6. u = w + IF named THEN 1 ELSE 0 BY <2>2, <2>5
  <2>. QED BY <2>3, <2>6 DEF u, w
<1>. QED BY <1>1, <1>2, <1>4, <1>5, <1>6 DEF n, now

\* The observations have the names that they are for.
LEMMA NamesStay ==
    ASSUME FileInv, NEW a \in Int, NEW b \in Int, NEW L \in SUBSET (a..b), NEW i \in L, i \in DOMAIN file,
           NEW S, NEW list \in Seq(S), NEW now, NEW part, NEW head,
           HeadsOf(part) = {head}, Said(part) = {"xCampo"},
           now = IF file[i].ref = head THEN Append(list, fields_to_std(file[i], i)) ELSE list,
           NamedAt(list, L, part, i - 1)
    PROVE  NamedAt(now, L, part, i)
<1> DEFINE x == fields_to_std(file[i], i)
           H == HeadLines(L, part)
           n == Len(list)
           old == Names(list)
           all == Names(now)
<1>1. (\A M : i \in M => x \in Records(M)) /\ DOMAIN x = file[i].given BY RecordOf
<1>2. i \in Int
  <2>1. i \in a..b OBVIOUS
  <2>. QED BY <2>1
<1>3. Starts(i, part) <=> file[i].ref = head /\ "xCampo" \in DOMAIN x BY <1>1 DEF Starts
<1>4. i \in H <=> file[i].ref = head /\ "xCampo" \in DOMAIN x BY <1>3 DEF HeadLines
<1>5. H \in SUBSET (a..b) BY DEF HeadLines
<1> DEFINE u == Upto(H, i)
           w == Upto(H, i - 1)
<1>6. w \in Nat /\ u = IF i \in H THEN w + 1 ELSE w
  <2>1. u = IF i \in H THEN w + 1 ELSE w
    <3> HIDE DEF H
    <3>. QED BY <1>2, <1>5, CountIs
  <2>2. w \in Nat
    <3>1. i - 1 \in Int BY <1>2
    <3> HIDE DEF H
    <3>. QED BY <1>5, <3>1, CountIs
  <2>. QED BY <2>1, <2>2
<1>7. Upto(old, n) = w /\ \A k \in old : list[k] \in Records(Group(L, part, Upto(old, k))) BY DEF NamedAt
<1>8. CASE file[i].ref # head
  <2>1. u = w BY <1>4, <1>6, <1>8
  <2>. QED BY <1>7, <1>8, <2>1 DEF NamedAt
<1>9. CASE file[i].ref = head
  <2>1. now = Append(list, x) BY <1>9
  <2> DEFINE named == "xCampo" \in DOMAIN x
  <2>2. i \in H <=> named BY <1>4, <1>9
  <2>3. /\ old \in SUBSET (1..n) /\ n \in Nat
        /\ all = IF named THEN old \cup {n + 1} ELSE old
        /\ Len(now) = n + 1 /\ (\A k \in 1..n : now[k] = list[k] /\ Upto(all, k) = Upto(old, k))
        /\ now[n + 1] = x
        /\ Upto(all, n + 1) = Upto(old, n) + IF named THEN 1 ELSE 0
    <3> HIDE DEF x
    <3> DEFINE m == Len(list)
               y == Append(list, x)
    <3>1. /\ Names(list) \in SUBSET (1..m) /\ m \in Nat
          /\ Names(y) = IF "xCampo" \in DOMAIN x THEN Names(list) \cup {m + 1} ELSE Names(list)
          /\ Len(y) = m + 1 /\ (\A k \in 1..m : y[k] = list[k] /\ Upto(Names(y), k) = Upto(Names(list), k))
          /\ y[m + 1] = x
          /\ Upto(Names(y), m + 1) = Upto(Names(list), m) + IF "xCampo" \in DOMAIN x THEN 1 ELSE 0
      BY NamesOf
    <3>2. y = now BY <2>1
    <3> HIDE DEF y, m
    <3>. QED BY <3>1, <3>2 DEF m
  <2> HIDE DEF x
  <2>4. Upto(all, n + 1) = u
    <3> HIDE DEF all, old, u, w, H, named, n
    <3>1. Upto(old, n) = w BY <1>7
    <3>2. Upto(all, n + 1) = w + IF named THEN 1 ELSE 0 BY <2>3, <3>1
    <3>3. CASE named
      <4>1. w + (IF named THEN 1 ELSE 0) = w + 1 BY <3>3
      <4>2. u = w + 1 BY <1>6, <2>2, <3>3
      <4>. QED BY <3>2, <4>1, <4>2
    <3>4. CASE ~named
      <4>1. w + (IF named THEN 1 ELSE 0) = w BY <1>6, <3>4
      <4>2. u = w BY <1>6, <2>2, <3>4
      <4>. QED BY <3>2, <4>1, <4>2
    <3>. QED BY <3>3, <3>4
  <2>5. \A k \in old : now[k] \in Records(Group(L, part, Upto(all, k)))
    <3> HIDE DEF all, old, u, w, H, named, n
    <3>. QED BY <1>7, <2>3
  <2>6. ASSUME named PROVE now[n + 1] \in Records(Group(L, part, Upto(all, n + 1)))
    <3>1. i \in Group(L, part, u) BY GroupIs
    <3> HIDE DEF all, old, u, w, H, named, n
    <3>. QED BY <1>1, <2>3, <2>4, <3>1
  <2>7. \A k \in all : now[k] \in Records(Group(L, part, Upto(all, k)))
    <3> HIDE DEF all, old, u, w, H, named, n
    <3>. QED BY <2>3, <2>5, <2>6
  <2>8. Upto(all, Len(now)) = u BY <2>3, <2>4
  <2>. QED BY <2>7, <2>8 DEF NamedAt
<1>. QED BY <1>8, <1>9

\* A field is inserted into a record of the same lines.
LEMMA InsertedIs ==
    ASSUME NEW F, NEW V, NEW p \in Parsers(F, V), NEW s \in Slots \cup OptionalSlots, NEW f,
           NEW L, p.slot[s] \in Records(L), NEW x \in Records(L)
    PROVE  Insert(p, s, f, x).slot[s] \in Records(L)
<1>1. CASE p.slot[s] = None \/ f \notin DOMAIN x BY <1>1 DEF Insert
<1>2. CASE ~(p.slot[s] = None \/ f \notin DOMAIN x)
  <2> DEFINE y == [g \in {f} |-> x[g]]
             z == Extend(p.slot[s], y)
  <2>1. y \in Records(L) BY <1>2, FieldIs DEF Records
  <2> HIDE DEF y
  <2>2. z \in Records(L) BY <2>1, ExtendIs DEF Records
  <2>3. Insert(p, s, f, x) = Put(p, s, z) BY <1>2 DEF Insert, Put, y
  <2> HIDE DEF z
  <2>4. Put(p, s, z).slot[s] = z BY PutDoes
  <2>. QED BY <2>2, <2>3, <2>4
<1>. QED BY <1>1, <1>2

\* A list whose records wait for the next line.
Waits(L, i, opens) == i \in L /\ file[i].ref = opens
WaitAt(p, s, l, part, opens, L, i) ==
    /\ Placed(p.list[l], L, part)
    /\ IF Waits(L, i, opens)
         THEN /\ Upto(HeadLines(L, part), i) = Len(p.list[l]) + 1
              /\ p.slot[s] # None /\ p.slot[s] \in Records(Group(L, part, Len(p.list[l]) + 1))
         ELSE p.slot[s] = None /\ Counted(p.list[l], L, part, i)

\* It has the parts it is for.
LEMMA WaitStays ==
    ASSUME FileInv, NEW a \in Int, NEW b \in Int, NEW L \in SUBSET (a..b), NEW i \in L, i \in DOMAIN file,
           NEW F, NEW V, NEW p \in Parsers(F, V), NEW q,
           NEW s \in OptionalSlots, NEW l \in Lists \ {"volumes"}, NEW part, NEW direct, NEW opens, NEW closes,
           HeadsOf(part) = direct \cup {opens}, Said(part) = {}, opens \notin direct,
           closes \cap (direct \cup {opens}) = {},
           Waits(L, i - 1, opens) => file[i].ref \in closes,
           WaitStep(p, q, s, l, file[i].ref, fields_to_std(file[i], i), direct, opens, closes),
           WaitAt(p, s, l, part, opens, L, i - 1)
    PROVE  WaitAt(q, s, l, part, opens, L, i)
<1> DEFINE x == fields_to_std(file[i], i)
           ref == file[i].ref
           H == HeadLines(L, part)
           list == p.list[l]
           n == Len(list)
           u == Upto(H, i)
           w == Upto(H, i - 1)
<1>1. (\A M : i \in M => x \in Records(M)) /\ x # None /\ Empty # None BY RecordOf
<1>2. i \in Int
  <2>1. i \in a..b OBVIOUS
  <2>. QED BY <2>1
<1>3. Starts(i, part) <=> ref \in direct \cup {opens} BY DEF Starts
<1>4. i \in H <=> ref \in direct \cup {opens} BY <1>3 DEF HeadLines
<1>5. w \in Nat /\ u = IF i \in H THEN w + 1 ELSE w
  <2>1. H \in SUBSET (a..b) BY DEF HeadLines
  <2>2. i - 1 \in Int BY <1>2
  <2> HIDE DEF H
  <2>. QED BY <1>2, <2>1, <2>2, CountIs
<1>6. list \in Seq(Std(F, V)) /\ n \in Nat BY HeldIs
<1>7. Placed(list, L, part) BY DEF WaitAt
<1>8. i \in Group(L, part, u) BY GroupIs
<1>9. CASE Waits(L, i - 1, opens)
  <2>1. ref \in closes /\ ref # opens /\ ref \notin direct BY <1>9
  <2>2. w = n + 1 /\ u = n + 1 /\ p.slot[s] # None /\ p.slot[s] \in Records(Group(L, part, n + 1))
    <3>1. w = n + 1 /\ p.slot[s] # None /\ p.slot[s] \in Records(Group(L, part, n + 1))
      BY <1>9 DEF WaitAt
    <3>. QED BY <1>4, <1>5, <2>1, <3>1
  <2>3. q.slot[s] = None /\ \E f : q.list[l] = Append(list, Insert(p, s, f, x).slot[s])
    BY <2>1, <2>2 DEF WaitStep
  <2>4. PICK f : q.list[l] = Append(list, Insert(p, s, f, x).slot[s]) BY <2>3
  <2> DEFINE y == Insert(p, s, f, x).slot[s]
  <2>5. y \in Records(Group(L, part, n + 1)) BY <1>1, <1>8, <2>2, InsertedIs
  <2> HIDE DEF y
  <2>6. /\ DOMAIN Append(list, y) = 1..(n + 1) /\ Len(Append(list, y)) = n + 1
        /\ \A m \in 1..(n + 1) : Append(list, y)[m] = IF m = n + 1 THEN y ELSE list[m]
    <3> HIDE DEF list
    <3>. QED BY <1>6
  <2>7. \A m \in 1..(n + 1) : m # n + 1 => m \in DOMAIN list
    <3> HIDE DEF list
    <3>. QED BY <1>6
  <2>8. Placed(Append(list, y), L, part) BY <1>7, <2>5, <2>6, <2>7 DEF Placed
  <2>9. ~Waits(L, i, opens) BY <2>1 DEF Waits
  <2>10. Counted(q.list[l], L, part, i) /\ Placed(q.list[l], L, part)
    BY <2>2, <2>4, <2>6, <2>8 DEF Counted, y
  <2>. QED BY <2>3, <2>9, <2>10 DEF WaitAt
<1>10. CASE ~Waits(L, i - 1, opens)
  <2>1. p.slot[s] = None /\ Counted(list, L, part, i - 1) BY <1>10 DEF WaitAt
  <2>2. CASE ref = opens
    <3>1. q.list[l] = list /\ (q.slot[s] = x \/ q.slot[s] = Empty) BY <2>2 DEF WaitStep
    <3>2. u = n + 1 BY <1>4, <1>5, <2>1, <2>2 DEF Counted
    <3>3. x \in Records(Group(L, part, u)) /\ Empty \in Records(Group(L, part, u))
      BY <1>1, <1>8, EmptyIs DEF Records
    <3>4. Waits(L, i, opens) BY <2>2 DEF Waits
    <3>. QED BY <1>1, <1>7, <3>1, <3>2, <3>3, <3>4 DEF WaitAt
  <2>3. CASE ref \in direct
    <3>1. q.list[l] = Append(list, x) /\ q.slot[s] = p.slot[s] BY <2>3 DEF WaitStep
    <3>2. Counted(Append(list, x), L, part, i) /\ Placed(Append(list, x), L, part)
      <4>1. Starts(i, part) BY <1>3, <2>3
      <4> HIDE DEF list, x
      <4>. QED BY <1>1, <1>6, <1>7, <2>1, <4>1, Grows
    <3>3. ~Waits(L, i, opens) BY <2>3 DEF Waits
    <3>. QED BY <2>1, <3>1, <3>2, <3>3 DEF WaitAt
  <2>4. CASE ref \notin direct \cup {opens}
    <3>1. q.list[l] = list /\ q.slot[s] = None BY <2>1, <2>4 DEF WaitStep
    <3>2. Counted(list, L, part, i)
      <4>1. ~Starts(i, part) BY <1>3, <2>4
      <4> HIDE DEF list
      <4>. QED BY <1>2, <2>1, <4>1, Stays
    <3>3. ~Waits(L, i, opens) BY <2>4 DEF Waits
    <3>. QED BY <1>7, <3>1, <3>2, <3>3 DEF WaitAt
  <2>. QED BY <2>2, <2>3, <2>4
<1>. QED BY <1>9, <1>10

\* The payments.
PaymentAt(p, L, i) ==
    /\ Counted(p.list["det_pag"], L, "detPag", i) /\ Placed(p.list["det_pag"], L, "detPag")
    /\ p.base_layout = normalize_layout(Forms[form].layout)

\* They are as many as the lines that start one.
LEMMA PaymentStays ==
    ASSUME FileInv, NEW a \in Int, NEW b \in Int, NEW L \in SUBSET (a..b), NEW i \in L, i \in DOMAIN file,
           NEW F, NEW V, NEW p \in Parsers(F, V), NEW q, q.base_layout = p.base_layout,
           PaymentStep(p, q, file[i].ref, fields_to_std(file[i], i)), PaymentAt(p, L, i - 1)
    PROVE  PaymentAt(q, L, i)
<1> DEFINE x == fields_to_std(file[i], i)
           ref == file[i].ref
           list == p.list["det_pag"]
<1>1. \A M : i \in M => x \in Records(M) BY RecordOf
<1>2. i \in Int
  <2>1. i \in a..b OBVIOUS
  <2>. QED BY <2>1
<1>3. "det_pag" \in Lists \ {"volumes"} BY DEF Lists
<1>4. list \in Seq(Std(F, V)) BY <1>3, HeldIs
<1>5. /\ Counted(list, L, "detPag", i - 1) /\ Placed(list, L, "detPag")
      /\ p.base_layout = normalize_layout(Forms[form].layout)
  BY DEF PaymentAt
<1>6. Starts(i, "detPag") <=> ref = "YA01" \/ (ref = "YA" /\ p.base_layout # "SEBRAE")
  <2>1. HeadsOf("detPag") = {"YA", "YA01"} \cap Repeated /\ Said("detPag") = {} BY DEF HeadsOf, Said
  <2>2. p.base_layout = "SEBRAE" <=> Forms[form].layout = "SEBRAE" BY <1>5 DEF normalize_layout
  <2>3. "YA01" \in Repeated /\ ("YA" \in Repeated <=> Forms[form].layout # "SEBRAE") BY DEF Repeated, Repeatable
  <2>. QED BY <2>1, <2>2, <2>3 DEF Starts
<1>7. CASE Starts(i, "detPag")
  <2>1. q.list["det_pag"] = Append(list, x) BY <1>6, <1>7 DEF PaymentStep
  <2>2. Counted(Append(list, x), L, "detPag", i) /\ Placed(Append(list, x), L, "detPag")
    <3> HIDE DEF list, x
    <3>. QED BY <1>1, <1>4, <1>5, <1>7, Grows
  <2>. QED BY <1>5, <2>1, <2>2 DEF PaymentAt
<1>8. CASE ~Starts(i, "detPag")
  <2>1. Counted(list, L, "detPag", i)
    <3> HIDE DEF list
    <3>. QED BY <1>2, <1>5, <1>8, Stays
  <2>2. CASE ref = "YA04"
    <3>1. q.list["det_pag"] = Merged(list, x)
      <4>1. q.list["det_pag"] = MergeIntoLast(p, "det_pag", x).list["det_pag"] BY <1>6, <1>8, <2>2 DEF PaymentStep
      <4>2. MergeIntoLast(p, "det_pag", x).list["det_pag"] = Merged(list, x) BY <1>3, MergeDoes
      <4>. QED BY <4>1, <4>2
    <3>2. Len(Merged(list, x)) = Len(list) /\ Placed(Merged(list, x), L, "detPag")
      <4> HIDE DEF list, x
      <4>. QED BY <1>1, <1>4, <1>5, <2>1, Merges
    <3>. QED BY <1>5, <2>1, <3>1, <3>2 DEF PaymentAt, Counted
  <2>3. CASE ref # "YA04"
    <3>1. q.list["det_pag"] = list BY <1>6, <1>8, <2>3 DEF PaymentStep
    <3>. QED BY <1>5, <2>1, <3>1 DEF PaymentAt
  <2>. QED BY <2>2, <2>3
<1>. QED BY <1>7, <1>8

\* The volumes, with the seals read so far.
VolumesAt(list, seals, L, i) ==
    /\ Counted(list, L, "vol", i)
    /\ \A k \in DOMAIN list : list[k] \in Volumes(Fields, ReadOf(Group(L, "vol", k)))
    /\ seals \in Seq(Records(Group(L, "vol", Len(list))))
    /\ list = <<>> => seals = <<>>

\* The seals read so far are of the last volume.
LEMMA SealedAre ==
    ASSUME NEW L, NEW i, NEW S, NEW list \in Seq(S), NEW seals, VolumesAt(list, seals, L, i)
    PROVE  /\ VolumesAt(Sealed(list, seals), Unsealed(list, seals), L, i)
           /\ Unsealed(list, seals) = <<>> /\ Len(Sealed(list, seals)) = Len(list)
           /\ DOMAIN Sealed(list, seals) = DOMAIN list
<1>1. CASE seals = <<>> \/ list = <<>>
  BY <1>1 DEF Sealed, Unsealed, VolumesAt
<1>2. CASE ~(seals = <<>> \/ list = <<>>)
  <2> DEFINE n == Len(list)
             G(k) == ReadOf(Group(L, "vol", k))
             v == [list[n] EXCEPT !.lacres = seals]
             now == [list EXCEPT ![n] = v]
  <2>1. Sealed(list, seals) = now /\ Unsealed(list, seals) = <<>> BY <1>2 DEF Sealed, Unsealed
  <2>2. n \in 1..n /\ DOMAIN list = 1..n BY <1>2
  <2>3. list[n] \in Volumes(Fields, G(n)) /\ seals \in Seq(Std(Fields, G(n)))
    BY <2>2 DEF VolumesAt, Records
  <2>4. v \in Volumes(Fields, G(n))
    <3> HIDE DEF G
    <3>. QED BY <2>3 DEF Volumes
  <2> HIDE DEF v
  <2>5. DOMAIN now = 1..n /\ Len(now) = n /\ \A k \in 1..n : now[k] = IF k = n THEN v ELSE list[k] BY <2>2
  <2>6. \A k \in DOMAIN list : list[k] \in Volumes(Fields, G(k)) BY DEF VolumesAt
  <2>7. \A k \in DOMAIN now : now[k] \in Volumes(Fields, G(k))
    <3> HIDE DEF now, G, n
    <3>. QED BY <2>2, <2>4, <2>5, <2>6
  <2>8. Counted(now, L, "vol", i) BY <2>5 DEF VolumesAt, Counted
  <2>9. <<>> \in Seq(Records(Group(L, "vol", Len(now)))) OBVIOUS
  <2>10. VolumesAt(now, <<>>, L, i) BY <2>7, <2>8, <2>9 DEF VolumesAt
  <2>. QED BY <2>1, <2>2, <2>5, <2>10
<1>. QED BY <1>1, <1>2

\* Lines that start no volume.
LEMMA VolumesStay ==
    ASSUME NEW a \in Int, NEW b \in Int, NEW L \in SUBSET (a..b), NEW i \in L, file[i].ref # "X26",
           NEW list, NEW seals, VolumesAt(list, seals, L, i - 1)
    PROVE  VolumesAt(list, seals, L, i)
<1>1. i \in Int
  <2>1. i \in a..b OBVIOUS
  <2>. QED BY <2>1
<1>2. ~Starts(i, "vol") BY DEF Starts, HeadsOf
<1>3. Counted(list, L, "vol", i - 1) BY DEF VolumesAt
<1>4. Counted(list, L, "vol", i) BY <1>1, <1>2, <1>3, Stays
<1>. QED BY <1>4 DEF VolumesAt

\* A line that starts one.
LEMMA VolumeStarts ==
    ASSUME FileInv, NEW a \in Int, NEW b \in Int, NEW L \in SUBSET (a..b), NEW i \in L, i \in DOMAIN file,
           file[i].ref = "X26", NEW S, NEW list \in Seq(S), VolumesAt(list, <<>>, L, i - 1)
    PROVE  VolumesAt(Append(list, [own |-> fields_to_std(file[i], i), lacres |-> <<>>]), <<>>, L, i)
<1> DEFINE x == fields_to_std(file[i], i)
           H == HeadLines(L, "vol")
           n == Len(list)
           v == [own |-> x, lacres |-> <<>>]
           now == Append(list, v)
<1>1. \A M : i \in M => x \in Records(M) BY RecordOf
<1> HIDE DEF x
<1>2. Starts(i, "vol") BY DEF Starts, HeadsOf, Said
<1>3. H \in SUBSET (a..b) /\ i \in H /\ i \in Int
  <2>1. i \in a..b OBVIOUS
  <2>2. i \in Int BY <2>1
  <2>3. \A j \in H : j \in L BY DEF HeadLines
  <2>4. i \in H BY <1>2 DEF HeadLines
  <2> HIDE DEF H
  <2>. QED BY <2>2, <2>3, <2>4
<1>4. Upto(H, i) = n + 1 /\ n \in Nat
  <2>1. Upto(H, i) = Upto(H, i - 1) + 1
    <3> HIDE DEF H
    <3>. QED BY <1>3, CountIs
  <2>. QED BY <2>1 DEF Counted, VolumesAt
<1>5. i \in Group(L, "vol", n + 1) BY <1>4, GroupIs
<1> DEFINE G(k) == ReadOf(Group(L, "vol", k))
<1>6. v \in Volumes(Fields, G(n + 1))
  <2>1. x \in Std(Fields, G(n + 1)) BY <1>1, <1>5 DEF Records
  <2> HIDE DEF G
  <2>2. <<>> \in Seq(Std(Fields, G(n + 1))) OBVIOUS
  <2>. QED BY <2>1, <2>2 DEF Volumes
<1>7. \A k \in DOMAIN list : list[k] \in Volumes(Fields, G(k)) BY DEF VolumesAt
<1> HIDE DEF v, G
<1>8. DOMAIN list = 1..n /\ DOMAIN now = 1..(n + 1) /\ Len(now) = n + 1
      /\ \A k \in 1..(n + 1) : now[k] = IF k = n + 1 THEN v ELSE list[k]
  OBVIOUS
<1>9. \A k \in DOMAIN now : now[k] \in Volumes(Fields, G(k))
  <2>1. \A k \in 1..(n + 1) : k # n + 1 => k \in 1..n BY <1>4
  <2> HIDE DEF n, now
  <2>. QED BY <1>6, <1>7, <1>8, <2>1
<1>10. Counted(now, L, "vol", i) BY <1>4, <1>8 DEF Counted, H
<1>11. <<>> \in Seq(Records(Group(L, "vol", Len(now)))) OBVIOUS
<1>. QED BY <1>9, <1>10, <1>11 DEF VolumesAt, G, v, x

\* A seal is of the last volume: there is one.
LEMMA SealStays ==
    ASSUME FileInv, NEW a \in Int, NEW b \in Int, NEW L \in SUBSET (a..b), NEW i \in L, i \in DOMAIN file,
           file[i].ref = "X33", NEW j \in L, j < i, file[j].ref = "X26",
           NEW S, NEW list \in Seq(S), NEW seals, VolumesAt(list, seals, L, i - 1)
    PROVE  VolumesAt(list, Append(seals, fields_to_std(file[i], i)), L, i)
<1> DEFINE x == fields_to_std(file[i], i)
           H == HeadLines(L, "vol")
           R == Records(Group(L, "vol", Len(list)))
<1>1. \A M : i \in M => x \in Records(M) BY RecordOf
<1> HIDE DEF x
<1>2. VolumesAt(list, seals, L, i) BY VolumesStay
<1>3. i \in Int /\ j \in Int
  <2>1. i \in a..b /\ j \in a..b OBVIOUS
  <2>. QED BY <2>1
<1>4. H \in SUBSET (a..b) /\ j \in H
  <2>1. Starts(j, "vol") BY DEF Starts, HeadsOf, Said
  <2>. QED BY <2>1 DEF HeadLines
<1>5. Upto(H, i) # 0
  <2> HIDE DEF H
  <2>1. \E h \in H : h <= i BY <1>3, <1>4
  <2>. QED BY <1>3, <1>4, <2>1, CountIs
<1>6. list # <<>>
  <2>1. Len(list) = Upto(H, i) BY <1>2 DEF VolumesAt, Counted
  <2>2. Len(<<>>) = 0 OBVIOUS
  <2>. QED BY <1>5, <2>1, <2>2
<1>7. x \in R
  <2>1. Counted(list, L, "vol", i) BY <1>2 DEF VolumesAt
  <2>. QED BY <1>1, <2>1, InLast
<1>8. seals \in Seq(R) BY <1>2 DEF VolumesAt
<1> HIDE DEF R
<1>9. Append(seals, x) \in Seq(R) BY <1>7, <1>8
<1>. QED BY <1>2, <1>6, <1>9 DEF VolumesAt, R, x

\* The part of an item that each of its lists is of.
ItemPart == [nve |-> "NVE", det_export |-> "detExport", rastro |-> "rastro", arma |-> "arma"]
ManyPlaced(many, M) ==
    /\ \A l \in DOMAIN ItemPart : Placed(many[l], M, ItemPart[l])
    /\ \A m \in DOMAIN many["di"] : many["di"][m] \in Declarations(Fields, ReadOf(Group(M, "DI", m)))
ManyCounted(many, M, i) ==
    /\ \A l \in DOMAIN ItemPart : Counted(many[l], M, ItemPart[l], i)
    /\ Counted(many["di"], M, "DI", i)

\* A line adds to a list if it starts a part, and may say more of the last one.
LEMMA ListStays ==
    ASSUME FileInv, NEW a \in Int, NEW b \in Int, NEW M \in SUBSET (a..b), NEW i \in M, i \in DOMAIN file,
           NEW part, NEW S, NEW list \in Seq(S), NEW now,
           Counted(list, M, part, i - 1), Placed(list, M, part),
           \/ now = IF Starts(i, part) THEN Append(list, fields_to_std(file[i], i)) ELSE list
           \/ ~Starts(i, part) /\ now = Merged(list, fields_to_std(file[i], i))
    PROVE  Counted(now, M, part, i) /\ Placed(now, M, part)
<1> DEFINE x == fields_to_std(file[i], i)
<1>1. \A K : i \in K => x \in Records(K) BY RecordOf
<1>2. i \in Int
  <2>1. i \in a..b OBVIOUS
  <2>. QED BY <2>1
<1> HIDE DEF x
<1>3. CASE Starts(i, part)
  <2>1. Counted(Append(list, x), M, part, i) /\ Placed(Append(list, x), M, part) BY <1>1, <1>3, Grows
  <2>. QED BY <1>3, <2>1 DEF x
<1>4. CASE ~Starts(i, part)
  <2>1. Counted(list, M, part, i) BY <1>2, <1>4, Stays
  <2>2. Len(Merged(list, x)) = Len(list) /\ Placed(Merged(list, x), M, part) BY <1>1, <2>1, Merges
  <2>3. now = list \/ now = Merged(list, x) BY <1>4 DEF x
  <2>. QED BY <2>1, <2>2, <2>3 DEF Counted
<1>. QED BY <1>3, <1>4

\* The import declarations and their additions, after line i.
DeclarationsAt(list, M, i) ==
    /\ Counted(list, M, "DI", i)
    /\ \A m \in DOMAIN list : list[m] \in Declarations(Fields, ReadOf(Group(M, "DI", m)))
Declared(list, ref, x) ==
    IF ref = "I18" THEN Append(list, [own |-> x, adi |-> <<>>])
    ELSE IF ref = "I25" THEN Added(list, x) ELSE list

\* The same of the import declarations, which have additions.
LEMMA DeclarationsStay ==
    ASSUME FileInv, NEW a \in Int, NEW b \in Int, NEW M \in SUBSET (a..b), NEW i \in M, i \in DOMAIN file,
           NEW F, NEW V, NEW list \in Seq(Declarations(F, V)), DeclarationsAt(list, M, i - 1)
    PROVE  DeclarationsAt(Declared(list, file[i].ref, fields_to_std(file[i], i)), M, i)
<1> SUFFICES ASSUME Counted(list, M, "DI", i - 1),
                    \A m \in DOMAIN list : list[m] \in Declarations(Fields, ReadOf(Group(M, "DI", m))),
                    NEW now,
                    now = IF file[i].ref = "I18" THEN Append(list, [own |-> fields_to_std(file[i], i), adi |-> <<>>])
                          ELSE IF file[i].ref = "I25" THEN Added(list, fields_to_std(file[i], i)) ELSE list
             PROVE  /\ Counted(now, M, "DI", i)
                    /\ \A m \in DOMAIN now : now[m] \in Declarations(Fields, ReadOf(Group(M, "DI", m)))
  BY DEF DeclarationsAt, Declared
<1> DEFINE x == fields_to_std(file[i], i)
           n == Len(list)
           H == HeadLines(M, "DI")
           G(k) == ReadOf(Group(M, "DI", k))
<1>1. \A K : i \in K => x \in Records(K) BY RecordOf
<1>2. i \in Int
  <2>1. i \in a..b OBVIOUS
  <2>. QED BY <2>1
<1>3. Starts(i, "DI") <=> file[i].ref = "I18" BY DEF Starts, HeadsOf, Said
<1> HIDE DEF x
<1>4. CASE file[i].ref = "I18"
  <2> DEFINE v == [own |-> x, adi |-> <<>>]
             longer == Append(list, v)
  <2>1. now = longer BY <1>4 DEF x
  <2>2. H \in SUBSET (a..b) /\ i \in H BY <1>3, <1>4 DEF HeadLines
  <2>3. Upto(H, i) = n + 1 /\ n \in Nat
    <3>1. Upto(H, i) = Upto(H, i - 1) + 1
      <4> HIDE DEF H
      <4>. QED BY <1>2, <2>2, CountIs
    <3>. QED BY <3>1 DEF Counted
  <2>4. i \in Group(M, "DI", n + 1) BY <2>3, GroupIs
  <2>5. v \in Declarations(Fields, G(n + 1))
    <3>1. x \in Std(Fields, G(n + 1)) BY <1>1, <2>4 DEF Records
    <3> HIDE DEF G
    <3>2. <<>> \in Seq(Std(Fields, G(n + 1))) OBVIOUS
    <3>. QED BY <3>1, <3>2 DEF Declarations
  <2>6. \A m \in DOMAIN list : list[m] \in Declarations(Fields, G(m)) OBVIOUS
  <2> HIDE DEF v, G
  <2>7. DOMAIN list = 1..n /\ DOMAIN longer = 1..(n + 1) /\ Len(longer) = n + 1
        /\ \A k \in 1..(n + 1) : longer[k] = IF k = n + 1 THEN v ELSE list[k]
    OBVIOUS
  <2>8. \A m \in DOMAIN longer : longer[m] \in Declarations(Fields, G(m))
    <3>1. \A k \in 1..(n + 1) : k # n + 1 => k \in 1..n BY <2>3
    <3> HIDE DEF n, longer
    <3>. QED BY <2>5, <2>6, <2>7, <3>1
  <2>9. Counted(longer, M, "DI", i) BY <2>3, <2>7 DEF Counted, H
  <2>. QED BY <2>1, <2>8, <2>9 DEF G
<1>5. CASE file[i].ref # "I18"
  <2>1. Counted(list, M, "DI", i) BY <1>2, <1>3, <1>5, Stays
  <2>2. CASE file[i].ref = "I25" /\ list # <<>>
    <3> DEFINE v == [list[n] EXCEPT !.adi = Append(list[n].adi, x)]
               changed == [list EXCEPT ![n] = v]
    <3>1. now = changed BY <2>2 DEF Added, x
    <3>2. n \in 1..n /\ DOMAIN list = 1..n BY <2>2
    <3>3. x \in Std(Fields, G(n))
      <4>1. i \in Group(M, "DI", n) BY <2>1, InLast
      <4>. QED BY <1>1, <4>1 DEF Records
    <3>4. v \in Declarations(Fields, G(n))
      <4>1. list[n] \in Declarations(Fields, G(n)) BY <3>2
      <4> HIDE DEF G
      <4>2. list[n].adi \in Seq(Std(Fields, G(n))) BY <4>1 DEF Declarations
      <4>3. Append(list[n].adi, x) \in Seq(Std(Fields, G(n))) BY <3>3, <4>2
      <4>. QED BY <4>1, <4>3 DEF Declarations
    <3> HIDE DEF v
    <3>5. DOMAIN changed = 1..n /\ Len(changed) = n
          /\ \A k \in 1..n : changed[k] = IF k = n THEN v ELSE list[k]
      BY <3>2
    <3>6. \A m \in DOMAIN list : list[m] \in Declarations(Fields, G(m)) OBVIOUS
    <3>7. \A m \in DOMAIN changed : changed[m] \in Declarations(Fields, G(m))
      <4> HIDE DEF changed, G, n
      <4>. QED BY <3>2, <3>4, <3>5, <3>6
    <3>8. Counted(changed, M, "DI", i) BY <2>1, <3>5 DEF Counted
    <3>. QED BY <3>1, <3>7, <3>8 DEF G
  <2>3. CASE ~(file[i].ref = "I25" /\ list # <<>>)
    <3>1. now = list BY <1>5, <2>3 DEF Added
    <3>. QED BY <2>1, <3>1
  <2>. QED BY <2>2, <2>3
<1>. QED BY <1>4, <1>5

\* All the lists of an item.
LEMMA ManyStays ==
    ASSUME FileInv, NEW a \in Int, NEW b \in Int, NEW M \in SUBSET (a..b), NEW i \in M, i \in DOMAIN file,
           NEW F, NEW V, NEW many \in Manifold(F, V), NEW now,
           ManyStep(many, now, file[i].ref, fields_to_std(file[i], i)),
           ManyPlaced(many, M), ManyCounted(many, M, i - 1)
    PROVE  ManyPlaced(now, M) /\ ManyCounted(now, M, i)
<1> DEFINE x == fields_to_std(file[i], i)
<1>1. DOMAIN ItemPart = {"nve", "det_export", "rastro", "arma"} BY DEF ItemPart
<1>2. DOMAIN x = file[i].given BY DEF fields_to_std
<1>3. ASSUME NEW l \in DOMAIN ItemPart
      PROVE  Counted(now[l], M, ItemPart[l], i) /\ Placed(now[l], M, ItemPart[l])
  <2>1. \/ now[l] = IF Starts(i, ItemPart[l]) THEN Append(many[l], x) ELSE many[l]
        \/ ~Starts(i, ItemPart[l]) /\ now[l] = Merged(many[l], x)
    <3>1. CASE l = "nve"
      <4>1. ItemPart[l] = "NVE" /\ (Starts(i, "NVE") <=> file[i].ref = "I05A" /\ "NVE" \in file[i].given)
        BY <3>1 DEF ItemPart, Starts, HeadsOf, Said
      <4> HIDE DEF x
      <4>2. now["nve"] = IF file[i].ref = "I05A" /\ "NVE" \in DOMAIN x THEN Append(many["nve"], x) ELSE many["nve"]
        BY DEF ManyStep, x
      <4>. QED BY <1>2, <3>1, <4>1, <4>2
    <3>2. CASE l = "rastro"
      <4>1. ItemPart[l] = "rastro" /\ (Starts(i, "rastro") <=> file[i].ref = "I80")
        BY <3>2 DEF ItemPart, Starts, HeadsOf, Said
      <4> HIDE DEF x
      <4>2. now["rastro"] = IF file[i].ref = "I80" THEN Append(many["rastro"], x) ELSE many["rastro"]
        BY DEF ManyStep, x
      <4>. QED BY <3>2, <4>1, <4>2
    <3>3. CASE l = "arma"
      <4>1. ItemPart[l] = "arma" /\ (Starts(i, "arma") <=> file[i].ref = "L")
        BY <3>3 DEF ItemPart, Starts, HeadsOf, Said
      <4> HIDE DEF x
      <4>2. now["arma"] = IF file[i].ref = "L" THEN Append(many["arma"], x) ELSE many["arma"]
        BY DEF ManyStep, x
      <4>. QED BY <3>3, <4>1, <4>2
    <3>4. CASE l = "det_export"
      <4>1. ItemPart[l] = "detExport" /\ (Starts(i, "detExport") <=> file[i].ref = "I50")
        BY <3>4 DEF ItemPart, Starts, HeadsOf, Said
      <4> HIDE DEF x
      <4>2. now["det_export"] = IF file[i].ref = "I50" THEN Append(many["det_export"], x)
                         ELSE IF file[i].ref = "I52" THEN Merged(many["det_export"], x) ELSE many["det_export"]
        BY DEF ManyStep, x
      <4>. QED BY <3>4, <4>1, <4>2
    <3>. QED BY <1>1, <3>1, <3>2, <3>3, <3>4
  <2>2. many[l] \in Seq(Std(F, V)) BY <1>1 DEF Manifold, ItemLists
  <2>3. Counted(many[l], M, ItemPart[l], i - 1) /\ Placed(many[l], M, ItemPart[l])
    BY DEF ManyPlaced, ManyCounted
  <2> DEFINE list == many[l]
             longer == now[l]
             part == ItemPart[l]
  <2> HIDE DEF list, longer, part
  <2>4. \/ longer = IF Starts(i, part) THEN Append(list, x) ELSE list
        \/ ~Starts(i, part) /\ longer = Merged(list, x)
    BY <2>1 DEF list, longer, part
  <2>5. list \in Seq(Std(F, V)) /\ Counted(list, M, part, i - 1) /\ Placed(list, M, part)
    BY <2>2, <2>3 DEF list, part
  <2>6. Counted(longer, M, part, i) /\ Placed(longer, M, part) BY <2>4, <2>5, ListStays
  <2>. QED BY <2>6 DEF longer, part
<1>4. DeclarationsAt(now["di"], M, i)
  <2>1. many["di"] \in Seq(Declarations(F, V)) BY DEF Manifold, ItemLists
  <2>2. DeclarationsAt(many["di"], M, i - 1) BY DEF ManyPlaced, ManyCounted, DeclarationsAt
  <2>3. now["di"] = Declared(many["di"], file[i].ref, x)
    <3> HIDE DEF x
    <3>. QED BY DEF ManyStep, Declared, x
  <2>. QED BY <2>1, <2>2, <2>3, DeclarationsStay
<1>. QED BY <1>3, <1>4 DEF ManyPlaced, ManyCounted, DeclarationsAt

\* A line that makes none of them leaves them as they are.
LEMMA ManyRests ==
    ASSUME NEW a \in Int, NEW b \in Int, NEW M \in SUBSET (a..b), NEW i \in Int,
           i \in M => Quiet(file[i].ref), NEW many, ManyCounted(many, M, i - 1)
    PROVE  ManyCounted(many, M, i)
<1>1. \A l \in DOMAIN ItemPart : ~(i \in M /\ Starts(i, ItemPart[l]))
  <2>1. DOMAIN ItemPart = {"nve", "det_export", "rastro", "arma"} BY DEF ItemPart
  <2>2. \A part \in {"NVE", "detExport", "rastro", "arma"} : Starts(i, part) => ~Quiet(file[i].ref)
    BY DEF Starts, HeadsOf, Quiet
  <2>3. \A l \in DOMAIN ItemPart : ItemPart[l] \in {"NVE", "detExport", "rastro", "arma"} BY DEF ItemPart
  <2>. QED BY <2>2, <2>3
<1>2. ~(i \in M /\ Starts(i, "DI")) BY DEF Starts, HeadsOf, Quiet
<1>3. Counted(many["di"], M, "DI", i)
  <2>1. Counted(many["di"], M, "DI", i - 1) BY DEF ManyCounted
  <2>. QED BY <1>2, <2>1, Stays
<1>4. ASSUME NEW l \in DOMAIN ItemPart PROVE Counted(many[l], M, ItemPart[l], i)
  <2>1. Counted(many[l], M, ItemPart[l], i - 1) BY DEF ManyCounted
  <2>2. ~(i \in M /\ Starts(i, ItemPart[l])) BY <1>1
  <2>. QED BY <2>1, <2>2, Stays
<1>. QED BY <1>3, <1>4 DEF ManyCounted

\* A new item has none.
LEMMA NoneAtFirst ==
    ASSUME NEW a \in Int, NEW b \in Int, NEW M \in SUBSET (a..b), NEW i \in Int, \A j \in M : i < j
    PROVE  ManyPlaced(ItemBuild.many, M) /\ ManyCounted(ItemBuild.many, M, i)
<1>1. \A l \in ItemLists : ItemBuild.many[l] = <<>> BY DEF ItemBuild
<1>2. \A part : Counted(<<>>, M, part, i) /\ Placed(<<>>, M, part) BY NoneYet
<1>3. DOMAIN ItemPart \subseteq ItemLists /\ "di" \in ItemLists BY DEF ItemPart, ItemLists
<1>4. DOMAIN <<>> = {} OBVIOUS
<1>5. \A l \in DOMAIN ItemPart : ItemBuild.many[l] = <<>> /\ ItemBuild.many["di"] = <<>> BY <1>1, <1>3
<1>6. \A l \in DOMAIN ItemPart : Counted(ItemBuild.many[l], M, ItemPart[l], i) /\ Placed(ItemBuild.many[l], M, ItemPart[l])
  BY <1>2, <1>5
<1>7. ItemBuild.many["di"] = <<>> BY <1>1, <1>3
<1>. QED BY <1>2, <1>4, <1>6, <1>7 DEF ManyPlaced, ManyCounted
-----------------------------------------------------------------------------
(***************************************************************************)
(* The items of an invoice.  Line i is of the item ItemNo(L, i): the last  *)
(* one with a product that was started, or the one after it when the last  *)
(* item started has none.                                                  *)
(***************************************************************************)
Begun(L, i) == {h \in L : h <= i /\ file[h].ref = "H"}
Products(L) == {h \in L : file[h].ref = "H" /\ Named(h)}
Number(L, i) == Upto(Products(L), i)
InNamed(L, i) == \E h \in Begun(L, i) : Named(h) /\ \A k \in Begun(L, i) : k <= h
ItemNo(L, i) == IF InNamed(L, i) THEN Number(L, i) ELSE Number(L, i) + 1

\* The lines of an item are the ones of its number.
LEMMA ItemLinesAre ==
    ASSUME NEW a \in Int, NEW b \in Int, NEW L \in SUBSET (a..b), NEW n \in Nat
    PROVE  /\ ItemLines(L, n) \in SUBSET (a..b)
           /\ \A i : i \in ItemLines(L, n) <=>
                i \in L /\ i \notin Ended(L) /\ Begun(L, i) # {} /\ ItemNo(L, i) = n
<1> DEFINE heads(i) == {h \in L : h <= i /\ file[h].ref = "H"}
           number(i) == Cardinality({h \in heads(i) : Named(h)})
           named(i) == \E h \in heads(i) : Named(h) /\ \A k \in heads(i) : k <= h
<1>1. ItemLines(L, n) = {i \in L \ Ended(L) : heads(i) # {} /\ number(i) = IF named(i) THEN n ELSE n - 1}
  BY DEF ItemLines
<1>2. \A i : heads(i) = Begun(L, i) BY DEF Begun
<1>3. \A i : named(i) <=> InNamed(L, i) BY <1>2 DEF InNamed
<1>4. \A i : number(i) = Number(L, i)
  <2>1. \A i : {h \in heads(i) : Named(h)} = {h \in Products(L) : h <= i} BY DEF Products
  <2>. QED BY <2>1 DEF Number, Upto
<1>5. \A i \in L : Number(L, i) \in Nat
  <2>1. Products(L) \in SUBSET (a..b) BY DEF Products
  <2>2. \A i \in L : i \in Int
    <3>1. \A i \in L : i \in a..b OBVIOUS
    <3>. QED BY <3>1
  <2>. QED BY <2>1, <2>2, CountIs DEF Number
<1> HIDE DEF heads, number, named
<1>6. \A i \in L : (number(i) = IF named(i) THEN n ELSE n - 1) <=> ItemNo(L, i) = n
  <2> SUFFICES ASSUME NEW i \in L PROVE (number(i) = IF named(i) THEN n ELSE n - 1) <=> ItemNo(L, i) = n
    OBVIOUS
  <2>1. Number(L, i) \in Nat /\ number(i) = Number(L, i) /\ (named(i) <=> InNamed(L, i)) BY <1>3, <1>4, <1>5
  <2> HIDE DEF Number
  <2>2. CASE InNamed(L, i) BY <2>1, <2>2 DEF ItemNo
  <2>3. CASE ~InNamed(L, i)
    <3>1. ItemNo(L, i) = Number(L, i) + 1 BY <2>3 DEF ItemNo
    <3> DEFINE m == Number(L, i)
    <3> HIDE DEF m
    <3>2. m \in Nat /\ (m = n - 1 <=> m + 1 = n) BY <2>1 DEF m
    <3>. QED BY <2>1, <2>3, <3>1, <3>2 DEF m
  <2>. QED BY <2>2, <2>3
<1>7. ASSUME NEW i
      PROVE  i \in ItemLines(L, n) <=>
               i \in L /\ i \notin Ended(L) /\ Begun(L, i) # {} /\ ItemNo(L, i) = n
  <2>1. i \in ItemLines(L, n) <=>
          i \in L /\ i \notin Ended(L) /\ heads(i) # {} /\ (number(i) = IF named(i) THEN n ELSE n - 1)
    BY <1>1
  <2>. QED BY <1>2, <1>6, <2>1
<1>8. ItemLines(L, n) \in SUBSET (a..b) BY <1>7
<1>. QED BY <1>7, <1>8

\* Before the first item.
LEMMA FirstItem ==
    ASSUME NEW a \in Int, NEW b \in Int, NEW L \in SUBSET (a..b), NEW i \in Int, \A j \in L : i < j
    PROVE  ~InNamed(L, i) /\ ItemNo(L, i) = 1 /\ Begun(L, i) = {}
<1>1. \A j \in L : j \in Int
  <2>1. \A j \in L : j \in a..b OBVIOUS
  <2>. QED BY <2>1
<1>2. Begun(L, i) = {}
  <2>1. \A h \in L : ~(h <= i)
    <3>1. \A h \in Int : i < h => ~(h <= i) OBVIOUS
    <3>. QED BY <1>1, <3>1
  <2>. QED BY <2>1 DEF Begun
<1>3. ~InNamed(L, i) BY <1>2 DEF InNamed
<1>4. Products(L) \in SUBSET (a..b) /\ \A h \in Products(L) : i < h BY DEF Products
<1>5. Number(L, i) = 0 BY <1>4, CountIs DEF Number
<1>. QED BY <1>2, <1>3, <1>5 DEF ItemNo

\* A line that starts no item is of the same one.
LEMMA SameItem ==
    ASSUME NEW a \in Int, NEW b \in Int, NEW L \in SUBSET (a..b), NEW i \in L, file[i].ref # "H"
    PROVE  /\ InNamed(L, i) <=> InNamed(L, i - 1)
           /\ ItemNo(L, i) = ItemNo(L, i - 1) /\ Begun(L, i) = Begun(L, i - 1)
<1>1. (\A j \in L : j \in Int) /\ i \in Int
  <2>1. \A j \in L : j \in a..b OBVIOUS
  <2>. QED BY <2>1
<1>2. Begun(L, i) = Begun(L, i - 1)
  <2>1. \A h \in L : file[h].ref = "H" => (h <= i <=> h <= i - 1)
    <3>1. \A h \in Int : h # i => (h <= i <=> h <= i - 1) BY <1>1
    <3>. QED BY <1>1, <3>1
  <2>. QED BY <2>1 DEF Begun
<1>3. InNamed(L, i) <=> InNamed(L, i - 1) BY <1>2 DEF InNamed
<1>4. Products(L) \in SUBSET (a..b) /\ i \notin Products(L) BY DEF Products
<1>5. Number(L, i) = Number(L, i - 1) BY <1>1, <1>4, CountIs DEF Number
<1>. QED BY <1>2, <1>3, <1>5 DEF ItemNo

\* A line that starts one.
LEMMA NextItem ==
    ASSUME NEW a \in Int, NEW b \in Int, NEW L \in SUBSET (a..b), NEW i \in L, file[i].ref = "H"
    PROVE  /\ InNamed(L, i) <=> Named(i)
           /\ ItemNo(L, i) = IF InNamed(L, i - 1) THEN ItemNo(L, i - 1) + 1 ELSE ItemNo(L, i - 1)
           /\ i \in Begun(L, i) /\ ItemNo(L, i) \in Nat /\ ItemNo(L, i - 1) \in Nat
<1>1. (\A j \in L : j \in Int) /\ i \in Int
  <2>1. \A j \in L : j \in a..b OBVIOUS
  <2>. QED BY <2>1
<1>2. i \in Begun(L, i) /\ \A k \in Begun(L, i) : k <= i /\ k \in Int
  <2>1. i <= i BY <1>1
  <2>2. i \in Begun(L, i) BY <2>1 DEF Begun
  <2>3. \A k \in Begun(L, i) : k \in L /\ k <= i BY DEF Begun
  <2>. QED BY <1>1, <2>2, <2>3
<1>3. InNamed(L, i) <=> Named(i)
  <2>1. ASSUME NEW h \in Begun(L, i), \A k \in Begun(L, i) : k <= h PROVE h = i
    <3>1. i <= h /\ h <= i /\ h \in Int BY <1>2, <2>1
    <3>. QED BY <1>1, <3>1
  <2>. QED BY <1>2, <2>1 DEF InNamed
<1>4. Products(L) \in SUBSET (a..b) /\ (i \in Products(L) <=> Named(i)) BY DEF Products
<1> DEFINE m == Number(L, i)
           n == Number(L, i - 1)
<1>5. n \in Nat /\ m = IF Named(i) THEN n + 1 ELSE n
  <2>1. m = IF Named(i) THEN n + 1 ELSE n BY <1>1, <1>4, CountIs DEF Number
  <2>2. n \in Nat
    <3>1. i - 1 \in Int BY <1>1
    <3>. QED BY <1>4, <3>1, CountIs DEF Number
  <2>. QED BY <2>1, <2>2
<1>6. ItemNo(L, i) = n + 1
  <2>1. CASE Named(i) BY <1>3, <1>5, <2>1 DEF ItemNo
  <2>2. CASE ~Named(i) BY <1>3, <1>5, <2>2 DEF ItemNo
  <2>. QED BY <2>1, <2>2
<1>7. ItemNo(L, i - 1) = IF InNamed(L, i - 1) THEN n ELSE n + 1 BY DEF ItemNo
<1> HIDE DEF m, n
<1>. QED BY <1>2, <1>3, <1>5, <1>6, <1>7
-----------------------------------------------------------------------------
(***************************************************************************)
(* The parser of an invoice, after each of its lines.                      *)
(***************************************************************************)
\* The lines of one invoice.
Single(a, b) ==
    /\ a \in 1..Len(file) /\ b \in a..Len(file)
    /\ file[a].ref = "A" /\ \A j \in a..b : file[j].ref = "A" => j = a

\* The order of the layout is an order of the lines of the invoice.
LEMMA OrderWithin ==
    ASSUME FileInv, InOrder(file), NEW a, NEW b, Single(a, b), NEW i \in a..b
    PROVE  /\ a \in Int /\ b \in Int /\ i \in DOMAIN file /\ i \in Int
           /\ (i - 1 \in a..b /\ file[i - 1].ref \in DOMAIN Needs) => file[i].ref \in Needs[file[i - 1].ref]
           /\ file[i].ref = "I" => i - 1 \in a..b /\ file[i - 1].ref = "H"
           /\ (OfItem(file[i].ref) /\ file[i].ref # "H") => \E h \in a..b : h <= i /\ file[h].ref = "H"
           /\ OfItem(file[i].ref) => \A j \in a..b : j <= i => file[j].ref # "W"
           /\ file[i].ref = "X33" => \E j \in a..b : j < i /\ file[j].ref = "X26"
<1>1. a \in 1..Len(file) /\ b \in a..Len(file) /\ Len(file) \in Nat /\ DOMAIN file = 1..Len(file)
      /\ file[a].ref = "A" /\ \A j \in a..b : file[j].ref = "A" => j = a
  BY FileIs DEF Single
<1>2. a \in Int /\ b \in Int /\ i \in Int /\ i \in DOMAIN file /\ (i - 1 \in DOMAIN file \/ i = 1) BY <1>1
<1>3. \A ref : Before(file, i, ref) => \E j \in a..b : j < i /\ file[j].ref = ref
  <2> SUFFICES ASSUME NEW ref, NEW j \in DOMAIN file, j < i, file[j].ref = ref,
                      \A k \in DOMAIN file : j < k /\ k <= i => file[k].ref # "A"
               PROVE  j \in a..b
    BY DEF Before
  <2>1. a \in DOMAIN file /\ a <= i /\ j \in Int BY <1>1
  <2>2. ~(j < a) BY <1>1, <2>1
  <2>. QED BY <1>1, <1>2, <2>1, <2>2
<1>4. \A ref, j : (j \in a..b /\ j < i /\ file[j].ref = ref) => Before(file, i, ref)
  <2> SUFFICES ASSUME NEW ref, NEW j \in a..b, j < i, file[j].ref = ref PROVE Before(file, i, ref) OBVIOUS
  <2>1. j \in DOMAIN file BY <1>1
  <2>2. ASSUME NEW k \in DOMAIN file, j < k, k <= i PROVE file[k].ref # "A"
    <3>1. k \in a..b /\ k # a BY <1>1, <2>2
    <3>. QED BY <1>1, <3>1
  <2>. QED BY <2>1, <2>2 DEF Before
<1>5. LET ref == file[i].ref IN
      /\ (ref \in DOMAIN Needs /\ i + 1 \in DOMAIN file) => file[i + 1].ref \in Needs[ref]
      /\ ref = "I" => i - 1 \in DOMAIN file /\ file[i - 1].ref = "H"
      /\ (OfItem(ref) /\ ref # "H") => Before(file, i, "H")
      /\ OfItem(ref) => ~Before(file, i, "W")
      /\ ref = "X33" => Before(file, i, "X26")
  BY <1>2 DEF InOrder
<1>6. (i - 1 \in a..b /\ file[i - 1].ref \in DOMAIN Needs) => file[i].ref \in Needs[file[i - 1].ref]
  <2> SUFFICES ASSUME i - 1 \in a..b, file[i - 1].ref \in DOMAIN Needs PROVE file[i].ref \in Needs[file[i - 1].ref]
    OBVIOUS
  <2> DEFINE k == i - 1
  <2>1. k \in DOMAIN file /\ k + 1 = i BY <1>1, <1>2
  <2> HIDE DEF k
  <2>2. (file[k].ref \in DOMAIN Needs /\ k + 1 \in DOMAIN file) => file[k + 1].ref \in Needs[file[k].ref]
    BY <2>1 DEF InOrder
  <2>. QED BY <1>2, <2>1, <2>2 DEF k
<1>7. file[i].ref = "I" => i - 1 \in a..b /\ file[i - 1].ref = "H"
  <2>1. "I" # "A" OBVIOUS
  <2>2. file[i].ref = "I" => i # a BY <1>1, <2>1
  <2>. QED BY <1>1, <1>2, <1>5, <2>2
<1>8. (OfItem(file[i].ref) /\ file[i].ref # "H") => \E h \in a..b : h <= i /\ file[h].ref = "H"
  <2>1. \A j \in a..b : j < i => j <= i BY <1>2
  <2>. QED BY <1>3, <1>5, <2>1
<1>9. OfItem(file[i].ref) => \A j \in a..b : j <= i => file[j].ref # "W"
  <2> SUFFICES ASSUME OfItem(file[i].ref), NEW j \in a..b, j <= i PROVE file[j].ref # "W" OBVIOUS
  <2>1. j = i \/ j < i BY <1>2
  <2>2. file[i].ref # "W" BY NotOfItem
  <2>. QED BY <1>4, <1>5, <2>1, <2>2
<1>. QED BY <1>2, <1>3, <1>5, <1>6, <1>7, <1>8, <1>9

\* The lists of the invoice.
ListsAt(p, L, i) ==
    /\ PlainAt(p, L, i)
    /\ WaitAt(p, "nfp_pending", "nf_ref_nf", "refNF", "BA10", L, i)
    /\ WaitAt(p, "aut_xml_pending", "aut_xml", "autXML", "GA", L, i)
    /\ PaymentAt(p, L, i)
    /\ NamedAt(p.list["obs_cont"], L, "obsCont", i)
    /\ NamedAt(p.list["obs_fisco"], L, "obsFisco", i)

\* They have the parts they are for.
LEMMA ListsStay ==
    ASSUME FileInv, InOrder(file), NEW a, NEW b, Single(a, b), NEW L, L = a..b, NEW i \in L,
           NEW F, NEW V, NEW p \in Parsers(F, V), NEW q,
           ListStep(p, q, file[i].ref, fields_to_std(file[i], i)), ListsAt(p, L, i - 1)
    PROVE  ListsAt(q, L, i)
<1> DEFINE x == fields_to_std(file[i], i)
           ref == file[i].ref
<1>1. a \in Int /\ b \in Int /\ i \in DOMAIN file /\ i \in Int
      /\ ((i - 1 \in L /\ file[i - 1].ref \in DOMAIN Needs) => ref \in Needs[file[i - 1].ref])
  BY OrderWithin
<1>2. PlainStep(p, q, ref, x) /\ NotesStep(p, q, ref, x) /\ PersonsStep(p, q, ref, x) /\ PaymentStep(p, q, ref, x)
      /\ q.base_layout = p.base_layout
  BY DEF ListStep
<1>10. L \in SUBSET (a..b) /\ i \in L /\ ListsAt(p, L, i - 1) OBVIOUS
<1>11. /\ "BA10" \in DOMAIN Needs /\ Needs["BA10"] = {"BA13", "BA14"}
       /\ "GA" \in DOMAIN Needs /\ Needs["GA"] = {"GA02", "GA03"}
  BY DEF Needs
<1> HIDE DEF x
<1>3. PlainAt(q, L, i)
  <2>1. PlainAt(p, L, i - 1) BY <1>10 DEF ListsAt
  <2>. QED BY <1>1, <1>2, <1>10, <2>1, PlainStays DEF x
<1>4. PaymentAt(q, L, i)
  <2>1. PaymentAt(p, L, i - 1) BY <1>10 DEF ListsAt
  <2>. QED BY <1>1, <1>2, <1>10, <2>1, PaymentStays DEF x
<1>5. WaitAt(q, "nfp_pending", "nf_ref_nf", "refNF", "BA10", L, i)
  <2>1. WaitAt(p, "nfp_pending", "nf_ref_nf", "refNF", "BA10", L, i - 1) BY <1>10 DEF ListsAt
  <2>2. HeadsOf("refNF") = {"BA03"} \cup {"BA10"} /\ Said("refNF") = {} BY DEF HeadsOf, Said
  <2>3. "nfp_pending" \in OptionalSlots /\ "nf_ref_nf" \in Lists \ {"volumes"} BY DEF OptionalSlots, Lists
  <2>4. Waits(L, i - 1, "BA10") => ref \in {"BA13", "BA14"} BY <1>1, <1>11 DEF Waits
  <2>5. WaitStep(p, q, "nfp_pending", "nf_ref_nf", ref, x, {"BA03"}, "BA10", {"BA13", "BA14"})
    BY <1>2 DEF NotesStep, x
  <2>6. "BA10" \notin {"BA03"} /\ {"BA13", "BA14"} \cap ({"BA03"} \cup {"BA10"}) = {} OBVIOUS
  <2>. QED BY <1>1, <1>10, <2>1, <2>2, <2>3, <2>4, <2>5, <2>6, WaitStays DEF x
<1>6. WaitAt(q, "aut_xml_pending", "aut_xml", "autXML", "GA", L, i)
  <2>1. WaitAt(p, "aut_xml_pending", "aut_xml", "autXML", "GA", L, i - 1) BY <1>10 DEF ListsAt
  <2>2. HeadsOf("autXML") = {} \cup {"GA"} /\ Said("autXML") = {} BY DEF HeadsOf, Said
  <2>3. "aut_xml_pending" \in OptionalSlots /\ "aut_xml" \in Lists \ {"volumes"} BY DEF OptionalSlots, Lists
  <2>4. Waits(L, i - 1, "GA") => ref \in {"GA02", "GA03"} BY <1>1, <1>11 DEF Waits
  <2>5. WaitStep(p, q, "aut_xml_pending", "aut_xml", ref, x, {}, "GA", {"GA02", "GA03"})
    BY <1>2 DEF PersonsStep, x
  <2>6. "GA" \notin {} /\ {"GA02", "GA03"} \cap ({} \cup {"GA"}) = {} OBVIOUS
  <2>. QED BY <1>1, <1>10, <2>1, <2>2, <2>3, <2>4, <2>5, <2>6, WaitStays DEF x
<1>7. ASSUME NEW l \in {"obs_cont", "obs_fisco"}, NEW part, NEW head, HeadsOf(part) = {head}, Said(part) = {"xCampo"},
             Pushes(l, ref, x) <=> ref = head, NamedAt(p.list[l], L, part, i - 1)
      PROVE  NamedAt(q.list[l], L, part, i)
  <2>1. q.list[l] = IF ref = head THEN Append(p.list[l], x) ELSE p.list[l]
    BY <1>2, <1>7 DEF PlainStep, Plain
  <2>2. p.list[l] \in Seq(Std(F, V))
    <3>1. l \in Lists \ {"volumes"} BY DEF Lists
    <3>. QED BY <3>1, HeldIs
  <2> DEFINE list == p.list[l]
             longer == q.list[l]
  <2> HIDE DEF list, longer
  <2>3. /\ list \in Seq(Std(F, V)) /\ NamedAt(list, L, part, i - 1)
        /\ longer = IF ref = head THEN Append(list, x) ELSE list
    BY <1>7, <2>1, <2>2 DEF list, longer
  <2>4. NamedAt(longer, L, part, i) BY <1>1, <1>7, <1>10, <2>3, NamesStay DEF x
  <2>. QED BY <2>4 DEF longer
<1>8. NamedAt(q.list["obs_cont"], L, "obsCont", i)
  <2>1. HeadsOf("obsCont") = {"Z04"} /\ Said("obsCont") = {"xCampo"} BY DEF HeadsOf, Said
  <2>2. Pushes("obs_cont", ref, x) <=> ref = "Z04" BY DEF Pushes
  <2>3. NamedAt(p.list["obs_cont"], L, "obsCont", i - 1) BY <1>10 DEF ListsAt
  <2>. QED BY <1>7, <2>1, <2>2, <2>3
<1>9. NamedAt(q.list["obs_fisco"], L, "obsFisco", i)
  <2>1. HeadsOf("obsFisco") = {"Z07"} /\ Said("obsFisco") = {"xCampo"} BY DEF HeadsOf, Said
  <2>2. Pushes("obs_fisco", ref, x) <=> ref = "Z07" BY DEF Pushes
  <2>3. NamedAt(p.list["obs_fisco"], L, "obsFisco", i - 1) BY <1>10 DEF ListsAt
  <2>. QED BY <1>7, <2>1, <2>2, <2>3
<1>. QED BY <1>3, <1>4, <1>5, <1>6, <1>8, <1>9 DEF ListsAt

\* They do of a new parser.
LEMMA ListsAtFirst ==
    ASSUME NEW a \in Int, NEW b \in Int
    PROVE  ListsAt(new(normalize_layout(Forms[form].layout)), a..b, a - 1)
<1> DEFINE L == a..b
           i == a - 1
           layout == normalize_layout(Forms[form].layout)
           p == new(layout)
<1>1. i \in Int /\ (\A j \in L : i < j) /\ i \notin L OBVIOUS
<1>2. \A part : Counted(<<>>, L, part, i) /\ Placed(<<>>, L, part)
  <2> HIDE DEF i
  <2>1. L \in SUBSET (a..b) OBVIOUS
  <2> HIDE DEF L
  <2>. QED BY <1>1, <2>1, NoneYet
<1>3. p.base_layout = layout /\ (\A l \in Lists : p.list[l] = <<>>)
      /\ \A s \in OptionalSlots \ Slots : p.slot[s] = None
  BY DEF new
<1>4. {"nfp_pending", "aut_xml_pending"} \subseteq OptionalSlots \ Slots
      /\ DOMAIN PartOf \cup {"nf_ref_nf", "aut_xml", "det_pag", "obs_cont", "obs_fisco"} \subseteq Lists
  BY DEF OptionalSlots, Slots, Lists, PartOf
<1> HIDE DEF p
<1>5. PlainAt(p, L, i) BY <1>2, <1>3, <1>4 DEF PlainAt
<1>6. \A s \in {"nfp_pending", "aut_xml_pending"} : p.slot[s] = None BY <1>3, <1>4
<1>7. p.list["nf_ref_nf"] = <<>> /\ p.list["aut_xml"] = <<>> /\ p.list["det_pag"] = <<>>
      /\ p.list["obs_cont"] = <<>> /\ p.list["obs_fisco"] = <<>>
  BY <1>3, <1>4
<1> HIDE DEF i
<1>8. \A opens : ~Waits(L, i, opens) BY <1>1 DEF Waits
<1>9. /\ WaitAt(p, "nfp_pending", "nf_ref_nf", "refNF", "BA10", L, i)
      /\ WaitAt(p, "aut_xml_pending", "aut_xml", "autXML", "GA", L, i)
  BY <1>2, <1>6, <1>7, <1>8 DEF WaitAt
<1>10. PaymentAt(p, L, i) BY <1>2, <1>3, <1>7 DEF PaymentAt
<1>11. \A part : NamedAt(<<>>, L, part, i)
  <2>1. Names(<<>>) = {} /\ Len(<<>>) = 0 BY DEF Names
  <2>2. Upto({}, 0) = 0
    <3>1. {h \in {} : h <= 0} = {} OBVIOUS
    <3>. QED BY <3>1, FS_EmptySet DEF Upto
  <2>3. \A part : 0 = Upto(HeadLines(L, part), i) BY <1>2, <2>1 DEF Counted
  <2>. QED BY <2>1, <2>2, <2>3 DEF NamedAt
<1>. QED BY <1>5, <1>7, <1>9, <1>10, <1>11 DEF ListsAt, p, i

\* An item made of some lines, and the ones that are finished.
Kept(item, M) == item \in Items(Fields, ReadOf(M)) /\ ManyPlaced(item.many, M)
AllKept(items, L) == \A k \in DOMAIN items : Kept(items[k], ItemLines(L, k))

\* The items are over.
Closed(L, i) == \E w \in L : w <= i /\ file[w].ref = "W"

\* The item being read is the n-th.  After an H line it waits for its product.
OpenItem(item, n, L, i) ==
    /\ ItemNo(L, i) = n /\ \A j \in L : j <= i => ItemNo(L, j) <= n
    /\ Kept(item, ItemLines(L, n)) /\ ManyCounted(item.many, ItemLines(L, n), i)
    /\ IF i \in L /\ file[i].ref = "H" THEN item.prod = Empty ELSE HasProduct(item) <=> InNamed(L, i)

ItemsAt(p, L, i) ==
    /\ AllKept(p.items, L)
    /\ IF Closed(L, i) THEN ~HasProduct(p.cur) ELSE OpenItem(p.cur, Len(p.items) + 1, L, i)

\* The lines of an item, and the line it is read from.
LEMMA LineOfItem ==
    ASSUME FileInv, InOrder(file), NEW a, NEW b, Single(a, b), NEW L, L = a..b, NEW i \in L,
           OfItem(file[i].ref), NEW n \in Nat, ItemNo(L, i) = n
    PROVE  i \in ItemLines(L, n) /\ ~Closed(L, i) /\ ~Closed(L, i - 1)
<1>1. /\ a \in Int /\ b \in Int /\ i \in Int
      /\ (OfItem(file[i].ref) /\ file[i].ref # "H") => \E h \in a..b : h <= i /\ file[h].ref = "H"
      /\ OfItem(file[i].ref) => \A j \in a..b : j <= i => file[j].ref # "W"
  BY OrderWithin
<1>2. i \notin Ended(L) /\ ~Closed(L, i) BY <1>1 DEF Ended, Closed
<1>3. ~Closed(L, i - 1)
  <2>1. \A w \in L : w <= i - 1 => w <= i
    <3>1. \A w \in L : w \in Int BY <1>1
    <3>. QED BY <1>1, <3>1
  <2>. QED BY <1>2, <2>1 DEF Closed
<1>4. Begun(L, i) # {}
  <2>1. i <= i BY <1>1
  <2>. QED BY <1>1, <2>1 DEF Begun
<1>5. L \in SUBSET (a..b) OBVIOUS
<1>6. i \in ItemLines(L, n) <=> i \in L /\ i \notin Ended(L) /\ Begun(L, i) # {} /\ ItemNo(L, i) = n
  BY <1>1, <1>5, ItemLinesAre
<1>. QED BY <1>2, <1>3, <1>4, <1>6

\* What follows an H line is its product, and numbers only grow.
LEMMA ItemsAscend ==
    ASSUME FileInv, InOrder(file), NEW a, NEW b, Single(a, b), NEW L, L = a..b, NEW i \in L,
           NEW item, NEW n \in Nat, OpenItem(item, n, L, i - 1)
    PROVE  /\ file[i].ref # "I" => (HasProduct(item) <=> InNamed(L, i - 1)) /\ ~(i - 1 \in L /\ file[i - 1].ref = "H")
           /\ \A j \in L : j <= i - 1 => ItemNo(L, j) <= n
           /\ \A m \in Nat : (n <= m /\ ItemNo(L, i) = m) => \A j \in L : j <= i => ItemNo(L, j) <= m
<1>1. /\ a \in Int /\ b \in Int /\ i \in Int
      /\ (i - 1 \in L /\ file[i - 1].ref \in DOMAIN Needs) => file[i].ref \in Needs[file[i - 1].ref]
  BY OrderWithin
<1>2. "H" \in DOMAIN Needs /\ Needs["H"] = {"I"} BY DEF Needs
<1>3. \A j \in L : j <= i - 1 => ItemNo(L, j) <= n BY DEF OpenItem
<1>4. ASSUME file[i].ref # "I"
      PROVE (HasProduct(item) <=> InNamed(L, i - 1)) /\ ~(i - 1 \in L /\ file[i - 1].ref = "H")
  <2>1. ~(i - 1 \in L /\ file[i - 1].ref = "H") BY <1>1, <1>2, <1>4
  <2>. QED BY <2>1 DEF OpenItem
<1>5. ASSUME NEW m \in Nat, n <= m, ItemNo(L, i) = m, NEW j \in L, j <= i PROVE ItemNo(L, j) <= m
  <2>1. j \in Int BY <1>1
  <2>2. CASE j = i BY <1>5, <2>2
  <2>3. CASE j # i
    <3>1. j <= i - 1 BY <1>1, <1>5, <2>1, <2>3
    <3>2. ItemNo(L, j) <= n BY <1>3, <3>1
    <3>3. ItemNo(L, j) \in Int
      <4>1. L \in SUBSET (a..b) /\ Products(L) \in SUBSET (a..b) BY DEF Products
      <4>2. Number(L, j) \in Nat BY <1>1, <2>1, <4>1, CountIs DEF Number
      <4>. QED BY <4>2 DEF ItemNo
    <3>. QED BY <1>5, <3>2, <3>3
  <2>. QED BY <2>2, <2>3
<1>. QED BY <1>3, <1>4, <1>5

\* A line of no item leaves it as it is.
LEMMA OpenRests ==
    ASSUME FileInv, InOrder(file), NEW a, NEW b, Single(a, b), NEW L, L = a..b, NEW i \in L,
           ~OfItem(file[i].ref), NEW item, NEW n \in Nat, OpenItem(item, n, L, i - 1)
    PROVE  OpenItem(item, n, L, i)
<1>1. a \in Int /\ b \in Int /\ i \in Int /\ L \in SUBSET (a..b) BY OrderWithin
<1>2. OfItem("H") /\ OfItem("I") /\ \A ref : ~Quiet(ref) => OfItem(ref)
  <2>1. \A ref \in {"H", "I", "I05A", "I18", "I25", "I50", "I52", "I80", "L"} : OfItem(ref) BY DEF OfItem, Section
  <2>. QED BY <2>1 DEF Quiet
<1>3. file[i].ref # "H" /\ file[i].ref # "I" /\ Quiet(file[i].ref) BY <1>2
<1>4. (InNamed(L, i) <=> InNamed(L, i - 1)) /\ ItemNo(L, i) = ItemNo(L, i - 1) BY <1>1, <1>3, SameItem
<1>5. /\ HasProduct(item) <=> InNamed(L, i - 1)
      /\ (n <= n /\ ItemNo(L, i) = n) => \A j \in L : j <= i => ItemNo(L, j) <= n
  BY <1>3, ItemsAscend
<1>6. n <= n /\ ItemNo(L, i) = n BY <1>4 DEF OpenItem
<1>7. ManyCounted(item.many, ItemLines(L, n), i)
  <2>1. ItemLines(L, n) \in SUBSET (a..b) BY <1>1, ItemLinesAre
  <2>2. ManyCounted(item.many, ItemLines(L, n), i - 1) BY DEF OpenItem
  <2> HIDE DEF ManyCounted
  <2>. QED BY <1>1, <1>3, <2>1, <2>2, ManyRests
<1>. QED BY <1>3, <1>4, <1>5, <1>6, <1>7 DEF OpenItem

\* A parser of the lines M that reads the same item.
LEMMA Elsewhere ==
    ASSUME NEW item, NEW M, item \in Items(Fields, ReadOf(M))
    PROVE  \E o \in Parsers(Fields, ReadOf(M)) : o.cur = item
<1> DEFINE V == ReadOf(M)
           o == [new("LOCAL") EXCEPT !.cur = item]
<1>1. new("LOCAL") \in Parsers(Fields, V) BY NewIs DEF Layouts
<1> HIDE DEF V
<1>2. o \in Parsers(Fields, V) /\ o.cur = item
  <2>1. item \in Items(Fields, V) BY DEF V
  <2>. QED BY <1>1, <2>1 DEF Parsers
<1>. QED BY <1>2 DEF V

\* A line of the item goes to it.
LEMMA OpenReads ==
    ASSUME FileInv, InOrder(file), NEW a, NEW b, Single(a, b), NEW L, L = a..b, NEW i \in L,
           OfItem(file[i].ref), file[i].ref # "H", NEW p \in Parsers(Fields, ReadOf(L)),
           NEW n \in Nat, OpenItem(p.cur, n, L, i - 1)
    PROVE  LET q == handle(p, file[i].ref, fields_to_std(file[i], i)) IN
           SameElse(p, q) /\ OpenItem(q.cur, n, L, i)
<1> DEFINE x == fields_to_std(file[i], i)
           ref == file[i].ref
           q == handle(p, ref, x)
           M == ItemLines(L, n)
<1>1. a \in Int /\ b \in Int /\ i \in Int /\ i \in DOMAIN file /\ L \in SUBSET (a..b) BY OrderWithin
<1>2. /\ InNamed(L, i) <=> InNamed(L, i - 1)
      /\ ItemNo(L, i) = ItemNo(L, i - 1)
  BY <1>1, SameItem
<1>3. ItemNo(L, i) = n BY <1>2 DEF OpenItem
<1>4. i \in M /\ M \in SUBSET (a..b) BY <1>1, <1>3, LineOfItem, ItemLinesAre
<1>5. \A j \in L : j <= i => ItemNo(L, j) <= n
  <2>1. n <= n OBVIOUS
  <2>. QED BY <1>3, <2>1, ItemsAscend
<1>6. (\A K : i \in K => x \in Records(K)) /\ DOMAIN x = file[i].given BY <1>1, RecordOf
<1>7. Kept(p.cur, M) /\ ManyCounted(p.cur.many, M, i - 1) BY DEF OpenItem
<1>8. p.cur \in Items(Fields, ReadOf(M)) BY <1>7 DEF Kept
<1>9. PICK o \in Parsers(Fields, ReadOf(M)) : o.cur = p.cur BY <1>8, Elsewhere
<1>10. x \in Std(Fields, ReadOf(L)) \cap Std(Fields, ReadOf(M)) BY <1>4, <1>6 DEF Records
<1> HIDE DEF x, M
<1>11. ItemStep(p, q, handle(o, ref, x), ref, x) BY <1>9, <1>10, ItemLineDoes
<1>12. handle(o, ref, x) \in Parsers(Fields, ReadOf(M)) BY <1>9, <1>10, HandleIs
<1> HIDE DEF q
<1>13. /\ SameElse(p, q) /\ handle(o, ref, x).cur = q.cur
       /\ q.cur.prod = IF ref = "I" THEN x ELSE p.cur.prod
       /\ ManyStep(p.cur.many, q.cur.many, ref, x)
  BY <1>11 DEF ItemStep
<1>14. q.cur \in Items(Fields, ReadOf(M)) BY <1>12, <1>13 DEF Parsers
<1>15. ManyPlaced(q.cur.many, M) /\ ManyCounted(q.cur.many, M, i)
  <2>1. p.cur.many \in Manifold(Fields, ReadOf(M)) BY <1>8 DEF Items
  <2>2. ManyPlaced(p.cur.many, M) BY <1>7 DEF Kept
  <2> DEFINE many == p.cur.many
             longer == q.cur.many
  <2> HIDE DEF many, longer
  <2>3. /\ many \in Manifold(Fields, ReadOf(M)) /\ ManyPlaced(many, M) /\ ManyCounted(many, M, i - 1)
        /\ ManyStep(many, longer, ref, x)
    BY <1>7, <1>13, <2>1, <2>2 DEF many, longer
  <2>4. ManyPlaced(longer, M) /\ ManyCounted(longer, M, i) BY <1>1, <1>4, <2>3, ManyStays DEF x
  <2>. QED BY <2>4 DEF longer
<1>16. HasProduct(q.cur) <=> InNamed(L, i)
  <2>1. CASE ref # "I"
    <3>1. HasProduct(p.cur) <=> InNamed(L, i - 1) BY <2>1, ItemsAscend
    <3>. QED BY <1>2, <1>13, <2>1, <3>1 DEF HasProduct
  <2>2. CASE ref = "I"
    <3> DEFINE h == i - 1
    <3>1. h \in L /\ file[h].ref = "H" BY <2>2, OrderWithin
    <3>2. h + 1 = i /\ h < Len(file) BY <1>1, FileIs
    <3> HIDE DEF h
    <3>3. InNamed(L, h) <=> Named(h) BY <1>1, <3>1, NextItem
    <3>4. Named(h) <=> {"cProd", "xProd"} \cap file[i].given # {} BY <2>2, <3>2 DEF Named
    <3>5. HasProduct(q.cur) <=> {"cProd", "xProd"} \cap DOMAIN x # {} BY <1>13, <2>2 DEF HasProduct
    <3>6. InNamed(L, i) <=> InNamed(L, h) BY <1>2 DEF h
    <3>. QED BY <1>6, <3>3, <3>4, <3>5, <3>6
  <2>. QED BY <2>1, <2>2
<1>17. OpenItem(q.cur, n, L, i) BY <1>3, <1>5, <1>14, <1>15, <1>16 DEF OpenItem, Kept, M
<1>. QED BY <1>13, <1>17 DEF q, x

\* A new item has no product.
LEMMA NewItemHasNone == ~HasProduct(ItemBuild)
<1>1. ItemBuild.prod = Empty BY DEF ItemBuild
<1>2. DOMAIN Empty = {} BY DEF Empty
<1>. QED BY <1>1, <1>2 DEF HasProduct

\* A finished item with a product is kept, as the one that was read.
LEMMA ItemKept ==
    ASSUME NEW L, NEW S, NEW items \in Seq(S), AllKept(items, L), NEW item, Kept(item, ItemLines(L, Len(items) + 1))
    PROVE  AllKept(Append(items, item), L)
<1> DEFINE n == Len(items)
           K(y, k) == Kept(y, ItemLines(L, k))
<1>1. \A k \in DOMAIN items : K(items[k], k) BY DEF AllKept
<1>2. K(item, n + 1) OBVIOUS
<1> HIDE DEF K
<1>3. /\ DOMAIN items = 1..n /\ DOMAIN Append(items, item) = 1..(n + 1) /\ n \in Nat
      /\ \A k \in 1..(n + 1) : Append(items, item)[k] = IF k = n + 1 THEN item ELSE items[k]
  OBVIOUS
<1>4. \A k \in 1..(n + 1) : k # n + 1 => k \in 1..n BY <1>3
<1> HIDE DEF n
<1>5. \A k \in DOMAIN Append(items, item) : K(Append(items, item)[k], k) BY <1>1, <1>2, <1>3, <1>4
<1>. QED BY <1>5 DEF AllKept, K

\* A line that starts an item finishes the one before it.
LEMMA OpenStarts ==
    ASSUME FileInv, InOrder(file), NEW a, NEW b, Single(a, b), NEW L, L = a..b, NEW i \in L,
           file[i].ref = "H", NEW p \in Parsers(Fields, ReadOf(L)), ItemsAt(p, L, i - 1)
    PROVE  LET q == start_item(p, fields_to_std(file[i], i)) IN
           AllKept(q.items, L) /\ OpenItem(q.cur, Len(q.items) + 1, L, i) /\ ~Closed(L, i)
<1> DEFINE x == fields_to_std(file[i], i)
           q == start_item(p, x)
           r == finalize_current_item(p)
           n == Len(p.items) + 1
           m == IF HasProduct(p.cur) THEN n + 1 ELSE n
           M == ItemLines(L, m)
<1>1. a \in Int /\ b \in Int /\ i \in Int /\ i \in DOMAIN file /\ L \in SUBSET (a..b) BY OrderWithin
<1>2. OfItem("H") BY DEF OfItem, Section
<1>3. p.items \in Seq(Items(Fields, ReadOf(L))) /\ n \in Nat /\ m \in Nat /\ n <= m
  <2>1. p.items \in Seq(Items(Fields, ReadOf(L))) BY DEF Parsers
  <2>2. n \in Nat BY <2>1
  <2> HIDE DEF n
  <2>. QED BY <2>1, <2>2
<1>4. ~Closed(L, i) /\ ~Closed(L, i - 1)
  <2>1. ItemNo(L, i) \in Nat BY <1>1, NextItem
  <2>. QED BY <1>2, <2>1, LineOfItem
<1>5. OpenItem(p.cur, n, L, i - 1) /\ AllKept(p.items, L) BY <1>4 DEF ItemsAt
<1>6. HasProduct(p.cur) <=> InNamed(L, i - 1)
  <2>1. file[i].ref # "I" OBVIOUS
  <2> HIDE DEF n, m
  <2>. QED BY <1>3, <1>5, <2>1, ItemsAscend
<1>7. ItemNo(L, i) = m
  <2>1. ItemNo(L, i) = IF InNamed(L, i - 1) THEN ItemNo(L, i - 1) + 1 ELSE ItemNo(L, i - 1) BY <1>1, NextItem
  <2>2. ItemNo(L, i - 1) = n BY <1>5 DEF OpenItem
  <2>. QED BY <1>6, <2>1, <2>2
<1>8. i \in M /\ M \in SUBSET (a..b) /\ \A j \in M : j \in L /\ ItemNo(L, j) = m
  <2> HIDE DEF m
  <2>1. i \in M BY <1>1, <1>2, <1>3, <1>7, LineOfItem
  <2>2. M \in SUBSET (a..b) /\ \A j : j \in M => j \in L /\ ItemNo(L, j) = m BY <1>1, <1>3, ItemLinesAre
  <2>. QED BY <2>1, <2>2
<1>9. \A j \in L : j <= i => ItemNo(L, j) <= m
  <2> HIDE DEF n, m
  <2>. QED BY <1>3, <1>5, <1>7, ItemsAscend
<1>10. \A K : i \in K => x \in Records(K) BY <1>1, RecordOf
<1>11. q.items = r.items /\ q.cur.prod = Empty /\ q.cur.many = r.cur.many BY StartDoes
<1>12. Finished(p, r) BY FinalizeDoes
<1>13. x \in Std(Fields, ReadOf(M)) BY <1>8, <1>10 DEF Records
<1>14. DOMAIN q.cur.prod = {} BY <1>11 DEF Empty
<1> HIDE DEF x, q, r
<1>15. CASE HasProduct(p.cur)
  <2>1. q.items = Append(p.items, p.cur) /\ r.cur = ItemBuild BY <1>11, <1>12, <1>15 DEF Finished
  <2>2. m = n + 1 /\ Len(q.items) + 1 = m BY <1>3, <1>15, <2>1
  <2>3. AllKept(q.items, L)
    <3>1. Kept(p.cur, ItemLines(L, n)) BY <1>5 DEF OpenItem
    <3>. QED BY <1>3, <1>5, <2>1, <3>1, ItemKept
  <2>4. \A j \in M : i - 1 < j
    <3> HIDE DEF n, m, M
    <3>1. \A j \in M : j \in L /\ ItemNo(L, j) = m BY <1>8
    <3>2. \A j \in L : j <= i - 1 => ItemNo(L, j) <= n BY <1>3, <1>5, ItemsAscend
    <3>3. ~(m <= n) BY <1>3, <2>2
    <3>4. \A j \in M : ~(j <= i - 1) /\ j \in Int BY <1>1, <1>8, <3>1, <3>2, <3>3
    <3>. QED BY <1>1, <3>4
  <2>5. i - 1 \in Int BY <1>1
  <2>6. ManyPlaced(ItemBuild.many, M) /\ ManyCounted(ItemBuild.many, M, i - 1)
    BY <1>1, <1>8, <2>4, <2>5, NoneAtFirst
  <2>7. ManyCounted(ItemBuild.many, M, i)
    <3>1. Quiet(file[i].ref) BY DEF Quiet
    <3> HIDE DEF M
    <3>. QED BY <1>1, <1>8, <2>6, <3>1, ManyRests
  <2>8. q.cur \in Items(Fields, ReadOf(M))
    <3>1. ItemBuild \in Items(Fields, ReadOf(M)) BY ItemBuildIs
    <3>2. PICK o \in Parsers(Fields, ReadOf(M)) : o.cur = ItemBuild BY <3>1, Elsewhere
    <3>3. finalize_current_item(o).cur = ItemBuild
      <4>1. Finished(o, finalize_current_item(o)) BY <3>2, FinalizeDoes
      <4>. QED BY <3>2, <4>1, NewItemHasNone DEF Finished, SameItems
    <3>4. start_item(o, x).cur = q.cur BY <2>1, <3>2, <3>3, StartDepends DEF q, r
    <3>5. start_item(o, x) \in Parsers(Fields, ReadOf(M)) BY <1>13, <3>2, StartItemIs
    <3> HIDE DEF M
    <3>. QED BY <3>4, <3>5 DEF Parsers
  <2>9. OpenItem(q.cur, m, L, i)
    <3>1. q.cur.many = ItemBuild.many BY <1>11, <2>1
    <3>. QED BY <1>7, <1>9, <1>11, <2>6, <2>7, <2>8, <3>1 DEF OpenItem, Kept
  <2>. QED BY <1>4, <2>2, <2>3, <2>9 DEF q, x
<1>16. CASE ~HasProduct(p.cur)
  <2>1. q.items = p.items /\ r.cur = p.cur BY <1>11, <1>12, <1>16 DEF Finished, SameItems
  <2>2. m = n /\ Len(q.items) + 1 = m BY <1>16, <2>1
  <2>3. AllKept(q.items, L) BY <1>5, <2>1
  <2>4. Kept(p.cur, M) /\ ManyCounted(p.cur.many, M, i - 1) BY <1>5, <2>2 DEF OpenItem
  <2>5. ManyCounted(p.cur.many, M, i)
    <3>1. Quiet(file[i].ref) BY DEF Quiet
    <3> HIDE DEF M
    <3>. QED BY <1>1, <1>8, <2>4, <3>1, ManyRests
  <2>6. q.cur \in Items(Fields, ReadOf(M))
    <3>1. p.cur \in Items(Fields, ReadOf(M)) BY <2>4 DEF Kept
    <3>2. PICK o \in Parsers(Fields, ReadOf(M)) : o.cur = p.cur BY <3>1, Elsewhere
    <3>3. finalize_current_item(o).cur = p.cur
      <4>1. Finished(o, finalize_current_item(o)) BY <3>2, FinalizeDoes
      <4>. QED BY <1>16, <3>2, <4>1 DEF Finished, SameItems
    <3>4. start_item(o, x).cur = q.cur BY <2>1, <3>2, <3>3, StartDepends DEF q, r
    <3>5. start_item(o, x) \in Parsers(Fields, ReadOf(M)) BY <1>13, <3>2, StartItemIs
    <3> HIDE DEF M
    <3>. QED BY <3>4, <3>5 DEF Parsers
  <2>7. OpenItem(q.cur, m, L, i)
    <3>1. q.cur.many = p.cur.many BY <1>11, <2>1
    <3>. QED BY <1>7, <1>9, <1>11, <2>4, <2>5, <2>6, <3>1 DEF OpenItem, Kept
  <2>. QED BY <1>4, <2>2, <2>3, <2>7 DEF q, x
<1>. QED BY <1>15, <1>16

\* What is read last is finished, and then no item is left.
LEMMA ItemsEnd ==
    ASSUME NEW L, NEW i, NEW F, NEW V, NEW p \in Parsers(F, V), ItemsAt(p, L, i), NEW q, Finished(p, q)
    PROVE  AllKept(q.items, L) /\ ~HasProduct(q.cur)
<1>1. AllKept(p.items, L) /\ p.items \in Seq(Items(F, V)) BY DEF ItemsAt, Parsers
<1>2. CASE HasProduct(p.cur)
  <2>1. q.items = Append(p.items, p.cur) /\ q.cur = ItemBuild BY <1>2 DEF Finished
  <2>2. Kept(p.cur, ItemLines(L, Len(p.items) + 1)) BY <1>2 DEF ItemsAt, OpenItem
  <2>. QED BY <1>1, <2>1, <2>2, ItemKept, NewItemHasNone
<1>3. CASE ~HasProduct(p.cur)
  <2>1. q.items = p.items /\ q.cur = p.cur BY <1>3 DEF Finished, SameItems
  <2>. QED BY <1>1, <1>3, <2>1
<1>. QED BY <1>2, <1>3

\* Everything that is read of an invoice.
InvoiceAt(p, L, i) == ListsAt(p, L, i) /\ VolumesAt(p.list["volumes"], p.seals, L, i) /\ ItemsAt(p, L, i)

\* Before its first line.
LEMMA InvoiceAtFirst ==
    ASSUME NEW a \in Int, NEW b \in Int
    PROVE  InvoiceAt(new(normalize_layout(Forms[form].layout)), a..b, a - 1)
<1> DEFINE p == new(normalize_layout(Forms[form].layout))
<1> SUFFICES ASSUME NEW L, L = a..b, NEW i, i = a - 1 PROVE InvoiceAt(p, L, i) OBVIOUS
<1>1. L \in SUBSET (a..b) /\ i \in Int /\ (\A j \in L : i < j) /\ i \notin L OBVIOUS
<1>2. ListsAt(p, L, i) BY ListsAtFirst
<1>3. p.list["volumes"] = <<>> /\ p.seals = <<>> /\ p.cur = ItemBuild /\ p.items = <<>> BY DEF new, Lists
<1> HIDE DEF p
<1>4. VolumesAt(<<>>, <<>>, L, i)
  <2>1. Counted(<<>>, L, "vol", i) BY <1>1, NoneYet
  <2>2. DOMAIN <<>> = {} /\ <<>> \in Seq(Records(Group(L, "vol", Len(<<>>)))) OBVIOUS
  <2>. QED BY <2>1, <2>2 DEF VolumesAt
<1>5. ItemsAt(p, L, i)
  <2>1. ~InNamed(L, i) /\ ItemNo(L, i) = 1 BY <1>1, FirstItem
  <2>2. \A j \in L : ~(j <= i)
    <3>1. \A j \in L : j \in Int BY <1>1
    <3>. QED BY <1>1, <3>1
  <2>3. ~Closed(L, i) BY <2>2 DEF Closed
  <2>4. ItemLines(L, 1) \in SUBSET (a..b) /\ \A j \in ItemLines(L, 1) : j \in L BY <1>1, ItemLinesAre
  <2>5. ManyPlaced(ItemBuild.many, ItemLines(L, 1)) /\ ManyCounted(ItemBuild.many, ItemLines(L, 1), i)
    <3>1. \A j \in ItemLines(L, 1) : i < j BY <1>1, <2>4
    <3>. QED BY <1>1, <2>4, <3>1, NoneAtFirst
  <2>6. Kept(ItemBuild, ItemLines(L, 1)) BY <2>5, ItemBuildIs DEF Kept
  <2>7. OpenItem(ItemBuild, 1, L, i) BY <1>1, <2>1, <2>2, <2>5, <2>6, NewItemHasNone DEF OpenItem
  <2>8. AllKept(p.items, L) /\ Len(p.items) + 1 = 1
    <3>1. DOMAIN <<>> = {} /\ Len(<<>>) = 0 OBVIOUS
    <3>. QED BY <1>3, <3>1 DEF AllKept
  <2>. QED BY <1>3, <2>3, <2>7, <2>8 DEF ItemsAt
<1>. QED BY <1>2, <1>3, <1>4, <1>5 DEF InvoiceAt

\* The items are over with the W line.
LEMMA ClosedIs ==
    ASSUME FileInv, InOrder(file), NEW a, NEW b, Single(a, b), NEW L, L = a..b, NEW i \in L
    PROVE  /\ file[i].ref = "W" => Closed(L, i)
           /\ file[i].ref # "W" => (Closed(L, i) <=> Closed(L, i - 1))
           /\ OfItem(file[i].ref) => ~Closed(L, i) /\ ~Closed(L, i - 1)
<1>1. a \in Int /\ b \in Int /\ i \in Int
      /\ (OfItem(file[i].ref) => \A j \in a..b : j <= i => file[j].ref # "W")
  BY OrderWithin
<1>2. \A w \in L : (w <= i /\ w # i) <=> w <= i - 1
  <2>1. \A w \in L : w \in Int BY <1>1
  <2>. QED BY <1>1, <2>1
<1>3. file[i].ref = "W" => Closed(L, i)
  <2>1. i <= i BY <1>1
  <2>. QED BY <2>1 DEF Closed
<1>4. file[i].ref # "W" => (Closed(L, i) <=> Closed(L, i - 1)) BY <1>2 DEF Closed
<1>5. OfItem(file[i].ref) => ~Closed(L, i) BY <1>1 DEF Closed
<1>. QED BY <1>3, <1>4, <1>5, NotOfItem

\* A line of no item leaves the items alone.
LEMMA ItemsRest ==
    ASSUME FileInv, InOrder(file), NEW a, NEW b, Single(a, b), NEW L, L = a..b, NEW i \in L,
           ~OfItem(file[i].ref), file[i].ref # "W", NEW F, NEW V, NEW p \in Parsers(F, V), NEW q,
           SameItems(p, q), ItemsAt(p, L, i - 1)
    PROVE  ItemsAt(q, L, i)
<1> DEFINE n == Len(p.items) + 1
<1>1. Closed(L, i) <=> Closed(L, i - 1) BY ClosedIs
<1>2. q.items = p.items /\ q.cur = p.cur BY DEF SameItems
<1>3. n \in Nat
  <2>1. p.items \in Seq(Items(F, V)) BY DEF Parsers
  <2>. QED BY <2>1
<1>4. CASE Closed(L, i) BY <1>1, <1>2, <1>4 DEF ItemsAt
<1>5. CASE ~Closed(L, i)
  <2>1. OpenItem(p.cur, n, L, i - 1) BY <1>1, <1>5 DEF ItemsAt
  <2>2. OpenItem(p.cur, n, L, i)
    <3> HIDE DEF n
    <3>. QED BY <1>3, <2>1, OpenRests
  <2>. QED BY <1>2, <1>5, <2>2 DEF ItemsAt
<1>. QED BY <1>4, <1>5

\* The seals that are handed over when an item is finished are of the last volume.
LEMMA VolumesAtEnd ==
    ASSUME NEW L, NEW i, NEW F, NEW V, NEW p \in Parsers(F, V), VolumesAt(p.list["volumes"], p.seals, L, i),
           NEW q, Finished(p, q)
    PROVE  VolumesAt(q.list["volumes"], q.seals, L, i)
<1>1. p.list["volumes"] \in Seq(Volumes(F, V)) BY DEF Parsers, Listed, Lists
<1>2. CASE HasProduct(p.cur)
  <2> DEFINE list == p.list["volumes"]
             seals == p.seals
  <2>1. q.list["volumes"] = Sealed(list, seals) /\ q.seals = Unsealed(list, seals)
    BY <1>2 DEF Finished, Sealing
  <2> HIDE DEF list, seals
  <2>2. list \in Seq(Volumes(F, V)) /\ VolumesAt(list, seals, L, i) BY <1>1 DEF list, seals
  <2>3. VolumesAt(Sealed(list, seals), Unsealed(list, seals), L, i) BY <2>2, SealedAre
  <2>. QED BY <2>1, <2>3
<1>3. CASE ~HasProduct(p.cur) BY <1>3 DEF Finished, SameVolumes
<1>. QED BY <1>2, <1>3

\* A line of an item is of no list of the invoice.
LEMMA ItemIsListless ==
    ASSUME NEW ref, OfItem(ref)
    PROVE  Listless(ref)
<1>1. ref \notin Others \cup {"BA02", "BA19", "BA20", "X22", "Y07", "Z04", "Z07", "Z10", "ZC04", "ZC10"}
  BY ListedAreRead DEF OfItem
<1>. QED BY <1>1 DEF Listless, Others

\* After a line the invoice is read as far as that line.
LEMMA InvoiceStays ==
    ASSUME FileInv, InOrder(file), NEW a, NEW b, Single(a, b), NEW L, L = a..b, NEW i \in L,
           NEW p \in Parsers(Fields, ReadOf(L)), InvoiceAt(p, L, i - 1)
    PROVE  LET q == handle(p, file[i].ref, fields_to_std(file[i], i)) IN
           q \in Parsers(Fields, ReadOf(L)) /\ InvoiceAt(q, L, i)
<1> DEFINE x == fields_to_std(file[i], i)
           ref == file[i].ref
           q == handle(p, ref, x)
           V == ReadOf(L)
<1>1. a \in Int /\ b \in Int /\ i \in Int /\ i \in DOMAIN file /\ L \in SUBSET (a..b) /\ i - 1 \in Int BY OrderWithin
<1>2. x \in Std(Fields, V) BY <1>1, RecordOf DEF Records
<1>3. q \in Parsers(Fields, V) BY <1>2, HandleIs
<1>4. ListsAt(p, L, i - 1) /\ VolumesAt(p.list["volumes"], p.seals, L, i - 1) /\ ItemsAt(p, L, i - 1)
  BY DEF InvoiceAt
<1>5. ASSUME ref # "X26", NEW r, SameVolumes(p, r) PROVE VolumesAt(r.list["volumes"], r.seals, L, i)
  <2>1. VolumesAt(p.list["volumes"], p.seals, L, i) BY <1>1, <1>4, <1>5, VolumesStay
  <2>. QED BY <1>5, <2>1 DEF SameVolumes
<1>6. ASSUME ref # "X26", NEW r, Finished(p, r) PROVE VolumesAt(r.list["volumes"], r.seals, L, i)
  <2>1. VolumesAt(p.list["volumes"], p.seals, L, i) BY <1>1, <1>4, <1>6, VolumesStay
  <2>. QED BY <1>6, <2>1, VolumesAtEnd
<1>7. ASSUME Listless(ref), NEW r, SameLists(p, r) PROVE ListsAt(r, L, i)
  <2>1. ListStep(p, r, ref, x) BY <1>7, ListlessStep
  <2>. QED BY <1>4, <2>1, ListsStay
<1>8. p.list["volumes"] \in Seq(Volumes(Fields, V)) BY HeldIs
<1>9. \A s \in {"H", "W", "X26", "X33"} : Listless(s) BY DEF Listless
<1>10. CASE OfItem(ref) /\ ref # "H"
  <2>1. ~Closed(L, i) /\ ~Closed(L, i - 1) BY <1>10, ClosedIs
  <2> DEFINE n == Len(p.items) + 1
  <2>2. OpenItem(p.cur, n, L, i - 1) /\ AllKept(p.items, L) BY <1>4, <2>1 DEF ItemsAt
  <2>3. n \in Nat
    <3>1. p.items \in Seq(Items(Fields, V)) BY DEF Parsers
    <3>. QED BY <3>1
  <2> HIDE DEF n
  <2>4. SameElse(p, q) /\ OpenItem(q.cur, n, L, i) BY <1>10, <2>2, <2>3, OpenReads
  <2> HIDE DEF q
  <2>5. SameLists(p, q) /\ SameVolumes(p, q) /\ q.items = p.items BY <2>4 DEF SameElse, SameLists, SameVolumes
  <2>6. Listless(ref) BY <1>10, ItemIsListless
  <2>7. ListsAt(q, L, i) BY <1>7, <2>5, <2>6
  <2>8. ref # "X26" BY <1>10, NotOfItem
  <2>9. VolumesAt(q.list["volumes"], q.seals, L, i) BY <1>5, <2>5, <2>8
  <2>10. ItemsAt(q, L, i) BY <2>1, <2>2, <2>4, <2>5 DEF ItemsAt, n
  <2>. QED BY <1>3, <2>7, <2>9, <2>10 DEF InvoiceAt, q
<1>11. CASE ref = "H"
  <2> DEFINE r == finalize_current_item(p)
  <2>1. q = start_item(p, x) BY <1>11, HandlesAre
  <2>2. SameLists(p, q) /\ q.seals = r.seals /\ q.list = r.list BY <2>1, StartDoes
  <2>3. Finished(p, r) BY FinalizeDoes
  <2>4. ListsAt(q, L, i) BY <1>7, <1>9, <1>11, <2>2
  <2>5. VolumesAt(q.list["volumes"], q.seals, L, i) BY <1>6, <1>11, <2>2, <2>3
  <2>6. AllKept(q.items, L) /\ OpenItem(q.cur, Len(q.items) + 1, L, i) /\ ~Closed(L, i)
    BY <1>4, <1>11, <2>1, OpenStarts
  <2> HIDE DEF q
  <2>7. ItemsAt(q, L, i) BY <2>6 DEF ItemsAt
  <2>. QED BY <1>3, <2>4, <2>5, <2>7 DEF InvoiceAt, q
<1>12. CASE ref = "W"
  <2>1. q = finalize_current_item(p) BY <1>12, HandlesAre
  <2>2. SameLists(p, q) /\ Finished(p, q) BY <2>1, FinalizeDoes
  <2> HIDE DEF q
  <2>3. ListsAt(q, L, i) BY <1>7, <1>9, <1>12, <2>2
  <2>4. VolumesAt(q.list["volumes"], q.seals, L, i) BY <1>6, <1>12, <2>2
  <2>5. AllKept(q.items, L) /\ ~HasProduct(q.cur) BY <1>4, <2>2, ItemsEnd
  <2>6. Closed(L, i) BY <1>12, ClosedIs
  <2>7. ItemsAt(q, L, i) BY <2>5, <2>6 DEF ItemsAt
  <2>. QED BY <1>3, <2>3, <2>4, <2>7 DEF InvoiceAt, q
<1>13. ASSUME ~OfItem(ref), ref # "W", NEW r, SameItems(p, r) PROVE ItemsAt(r, L, i)
  BY <1>4, <1>13, ItemsRest
<1>14. CASE ref = "X26"
  <2> DEFINE list == p.list["volumes"]
             v == [own |-> x, lacres |-> <<>>]
  <2>1. q = read_transport(p, "X26", x) BY <1>14, HandlesAre
  <2>2. SameLists(p, q) /\ SameItems(p, q) /\ q.seals = Unsealed(list, p.seals)
        /\ q.list["volumes"] = Append(Sealed(list, p.seals), v)
    BY <1>2, <2>1, VolumeDoes
  <2> HIDE DEF q
  <2>3. ListsAt(q, L, i) BY <1>7, <1>9, <1>14, <2>2
  <2>4. ItemsAt(q, L, i) BY <1>13, <1>14, <2>2, NotOfItem
  <2> DEFINE sealed == Sealed(list, p.seals)
             S == Volumes(Fields, V)
  <2>5. VolumesAt(sealed, Unsealed(list, p.seals), L, i - 1) /\ Unsealed(list, p.seals) = <<>>
    <3> DEFINE seals == p.seals
    <3>1. list \in Seq(S) /\ VolumesAt(list, seals, L, i - 1) BY <1>4, <1>8
    <3> HIDE DEF list, seals, S
    <3>2. VolumesAt(Sealed(list, seals), Unsealed(list, seals), L, i - 1) /\ Unsealed(list, seals) = <<>>
      BY <3>1, SealedAre
    <3>. QED BY <3>2 DEF seals
  <2>6. sealed \in Seq(S)
    <3> DEFINE r == flush_seals(p)
    <3>1. r \in Parsers(Fields, V) /\ Sealing(p, r) BY FlushIs, FlushDoes
    <3> HIDE DEF r, V
    <3>2. r.list["volumes"] \in Seq(Volumes(Fields, V)) BY <3>1, HeldIs
    <3>. QED BY <3>1, <3>2 DEF Sealing
  <2> HIDE DEF sealed, S
  <2>7. VolumesAt(Append(sealed, v), <<>>, L, i) BY <1>1, <1>14, <2>5, <2>6, VolumeStarts
  <2>8. VolumesAt(q.list["volumes"], q.seals, L, i) BY <2>2, <2>5, <2>7 DEF sealed
  <2>. QED BY <1>3, <2>3, <2>4, <2>8 DEF InvoiceAt, q
<1>15. CASE ref = "X33"
  <2> DEFINE list == p.list["volumes"]
             seals == p.seals
  <2>1. q = read_transport(p, "X33", x) BY <1>15, HandlesAre
  <2>2. SameLists(p, q) /\ SameItems(p, q) /\ q.seals = Append(seals, x) /\ q.list["volumes"] = list
    BY <2>1, SealDoes
  <2> HIDE DEF q
  <2>3. ListsAt(q, L, i) BY <1>7, <1>9, <1>15, <2>2
  <2>4. ItemsAt(q, L, i) BY <1>13, <1>15, <2>2, NotOfItem
  <2>5. PICK j \in L : j < i /\ file[j].ref = "X26" BY <1>15, OrderWithin
  <2>6. list \in Seq(Volumes(Fields, V)) /\ VolumesAt(list, seals, L, i - 1) BY <1>4, <1>8
  <2> HIDE DEF list, seals, V
  <2>7. VolumesAt(list, Append(seals, x), L, i) BY <1>1, <1>15, <2>5, <2>6, SealStays
  <2>8. VolumesAt(q.list["volumes"], q.seals, L, i) BY <2>2, <2>7
  <2>. QED BY <1>3, <2>3, <2>4, <2>8 DEF InvoiceAt, q, V
<1>16. CASE ~OfItem(ref) /\ ref \notin {"W", "X26", "X33"}
  <2>1. Aside(p, q, ref, x) BY <1>2, <1>16, OtherLineDoes
  <2> HIDE DEF q
  <2>2. ListStep(p, q, ref, x) /\ SameItems(p, q) /\ SameVolumes(p, q) BY <2>1 DEF Aside
  <2>3. ListsAt(q, L, i) BY <1>4, <2>2, ListsStay
  <2>4. ItemsAt(q, L, i) BY <1>13, <1>16, <2>2
  <2>5. VolumesAt(q.list["volumes"], q.seals, L, i) BY <1>5, <1>16, <2>2
  <2>. QED BY <1>3, <2>3, <2>4, <2>5 DEF InvoiceAt, q
<1>. QED BY <1>10, <1>11, <1>12, <1>14, <1>15, <1>16

\* What is read of an invoice when all its lines are: the parser as build_xml
\* is given it.
ReadAll(r, L, i) ==
    /\ r \in Parsers(Fields, ReadOf(L))
    /\ ListsAt(r, L, i) /\ VolumesAt(r.list["volumes"], r.seals, L, i) /\ AllKept(r.items, L)

\* An invoice with one A line that is converted begins with it: the validator has no
\* layout for a line before it.
LEMMA OneIsSingle ==
    ASSUME FileInv, NEW v \in slice_invoices, OneInvoice(v), Convertible(v)
    PROVE  Single(v.first, v.last) /\ LinesOf(v) = v.first..v.last
<1>1. /\ Markers \subseteq ALines /\ ALines \subseteq 1..Len(file)
      /\ Len(file) \in Nat \ {0} /\ DOMAIN file = 1..Len(file)
  BY MarkersAre, FileIs
<1>2. LinesOf(v) = v.first..v.last BY DEF LinesOf
<1>3. v.first \in 1..Len(file) /\ v.last \in v.first..Len(file)
  <2>1. CASE declared <= 1
    <3>1. v = Invoice(1, Len(file)) BY <2>1 DEF slice_invoices
    <3>. QED BY <1>1, <3>1 DEF Invoice
  <2>2. CASE ~(declared <= 1)
    <3>1. PICK i \in Markers : v = Invoice(i, End(i)) BY <2>2, AsManyAsMarkers
    <3>2. v.first = i /\ v.last = End(i) BY <3>1 DEF Invoice
    <3>3. End(i) \in i..Len(file) BY EndIs
    <3>. QED BY <1>1, <3>2, <3>3
  <2>. QED BY <2>1, <2>2
<1>4. v.first \in LinesOf(v) /\ \A j \in LinesOf(v) : j \in 1..Len(file) /\ v.first <= j BY <1>1, <1>2, <1>3
<1> DEFINE S == LinesOf(v) \cap ALines
           before == {j \in S : j <= v.first}
<1>5. v.first \in S
  <2>1. file[v.first].ref \in DOMAIN EntitiesAt(v.first, LinesOf(v), normalize_layout(Forms[form].layout))
    BY <1>4 DEF Convertible, validate_txt_lines
  <2>2. before = {} => EntitiesAt(v.first, LinesOf(v), normalize_layout(Forms[form].layout)) = Unsupported
    BY DEF EntitiesAt
  <2>3. DOMAIN Unsupported = {} BY DEF Unsupported
  <2>4. PICK j \in S : j <= v.first BY <2>1, <2>2, <2>3
  <2>5. v.first <= j /\ j \in Int /\ v.first \in Int BY <1>1, <1>3, <1>4
  <2>6. j = v.first BY <2>4, <2>5
  <2>. QED BY <2>4, <2>6
<1>6. \A j \in S : j = v.first
  <2>1. Cardinality(S) = 1 BY DEF OneInvoice
  <2>2. IsFiniteSet(S)
    <3>1. IsFiniteSet(ALines) BY MarkersAre
    <3>. QED BY <3>1, FS_Subset
  <2> HIDE DEF S
  <2>3. PICK m : S = {m} BY <2>1, <2>2, FS_Singleton
  <2>. QED BY <1>5, <2>3
<1>7. file[v.first].ref = "A" BY <1>5 DEF ALines
<1>8. \A j \in v.first..v.last : file[j].ref = "A" => j = v.first
  <2>1. \A j \in v.first..v.last : file[j].ref = "A" => j \in S BY <1>1, <1>2, <1>4 DEF ALines
  <2>. QED BY <1>6, <2>1
<1>. QED BY <1>2, <1>3, <1>7, <1>8 DEF Single

\* Its version is the one its A line says, and that is the layout of all its lines.
LEMMA OneStructure ==
    ASSUME FileInv, NEW v \in slice_invoices, OneInvoice(v), Convertible(v)
    PROVE  \A i \in LinesOf(v) :
             file[i].ref \in DOMAIN get_structure(extract_layout_version(v), normalize_layout(Forms[form].layout))
<1> DEFINE layout == normalize_layout(Forms[form].layout)
           a == v.first
           b == v.last
           L == LinesOf(v)
<1>1. Single(a, b) /\ L = a..b BY OneIsSingle
<1>2. L \cap Markers # {} BY VersionIs DEF Convertible
<1> HIDE DEF a, b, L, layout
<1>3. Len(file) \in Nat /\ DOMAIN file = 1..Len(file) BY FileIs
<1>4. /\ a \in 1..Len(file) /\ b \in a..Len(file) /\ file[a].ref = "A" /\ \A j \in L : file[j].ref = "A" => j = a
  BY <1>1 DEF Single
<1>5. a \in L /\ a \in Int /\ \A j \in L : j \in Int /\ a <= j BY <1>1, <1>3, <1>4
<1>6. L \cap ALines = {a} BY <1>1, <1>3, <1>4, <1>5 DEF ALines
<1>7. L \cap Markers = {a} BY <1>2, <1>6 DEF Markers
<1>8. extract_layout_version(v) = file[a].is
  <2>1. (CHOOSE i \in {a} : \A j \in {a} : i <= j) = a BY <1>5
  <2>. QED BY <1>2, <1>7, <2>1 DEF extract_layout_version, L
<1>9. ASSUME NEW i \in L PROVE EntitiesAt(i, L, layout) = get_structure(file[a].is, layout)
  <2> DEFINE as == {j \in L \cap ALines : j <= i}
  <2>1. as = {a} BY <1>5, <1>6
  <2>2. (CHOOSE j \in {a} : \A k \in {a} : k <= j) = a BY <1>5
  <2>3. EntitiesAt(i, L, layout) = IF as = {} THEN Unsupported
          ELSE get_structure(file[CHOOSE j \in as : \A k \in as : k <= j].is, layout)
    BY DEF EntitiesAt
  <2> HIDE DEF as
  <2>. QED BY <2>1, <2>2, <2>3
<1>10. \A i \in L : file[i].ref \in DOMAIN EntitiesAt(i, L, layout)
  BY DEF Convertible, validate_txt_lines, L, layout
<1>. QED BY <1>8, <1>9, <1>10 DEF L, layout

\* The lists are left alone by what leaves them alone.
LEMMA ListsRest ==
    ASSUME NEW p, NEW q, SameLists(p, q), NEW L, NEW i, ListsAt(p, L, i)
    PROVE  ListsAt(q, L, i)
<1>1. \A l \in DOMAIN PartOf : l \in Lists \ {"volumes", "bb02_ref_nfe"} BY DEF PartOf, Lists
<1>2. {"nf_ref_nf", "aut_xml", "det_pag", "obs_cont", "obs_fisco"} \subseteq Lists \ {"volumes", "bb02_ref_nfe"}
  BY DEF Lists
<1>3. PlainAt(q, L, i) BY <1>1 DEF SameLists, ListsAt, PlainAt
<1>4. WaitAt(q, "nfp_pending", "nf_ref_nf", "refNF", "BA10", L, i) BY <1>2 DEF SameLists, ListsAt, WaitAt
<1>5. WaitAt(q, "aut_xml_pending", "aut_xml", "autXML", "GA", L, i) BY <1>2 DEF SameLists, ListsAt, WaitAt
<1>6. PaymentAt(q, L, i) BY <1>2 DEF SameLists, ListsAt, PaymentAt
<1>. QED BY <1>2, <1>3, <1>4, <1>5, <1>6 DEF SameLists, ListsAt

\* A convertible invoice is read from its first line to its last.
LEMMA AllIsRead ==
    ASSUME FileInv, InOrder(file), NEW v \in slice_invoices, OneInvoice(v), Convertible(v)
    PROVE  ReadAll(Parsed(v), LinesOf(v), v.last)
<1> DEFINE layout == normalize_layout(Forms[form].layout)
           structure == get_structure(extract_layout_version(v), layout)
           a == v.first
           b == v.last
           L == LinesOf(v)
           V == ReadOf(L)
           r == Parsed(v)
<1>1. Single(a, b) /\ L = a..b BY OneIsSingle
<1>2. a \in Nat /\ b \in Int /\ a - 1 <= b /\ a <= b
  <2>1. a \in 1..Len(file) /\ b \in a..Len(file) /\ Len(file) \in Nat BY <1>1, FileIs DEF Single
  <2> HIDE DEF a, b
  <2>. QED BY <2>1
<1>3. \A i \in L : file[i].ref \in DOMAIN structure BY OneStructure
<1>4. r = parse(layout, structure, file, a, b) BY DEF Parsed
<1>5. layout \in Layouts BY DEF normalize_layout, Layouts
<1> HIDE DEF structure, a, b, L, r
<1>6. PICK g : Steps(g, layout, structure, file, a, b) BY <1>2, ParseSteps
<1>7. /\ g[a - 1] = new(layout) /\ r = finalize_current_item(g[b])
      /\ \A i \in a..b : g[i] = handle(g[i - 1], file[i].ref, fields_to_std(file[i], i))
  BY <1>1, <1>3, <1>4, <1>6 DEF Steps
<1> DEFINE Read(i) == g[i] \in Parsers(Fields, V) /\ InvoiceAt(g[i], L, i)
<1>8. Read(a - 1)
  <2>1. new(layout) \in Parsers(Fields, V) BY <1>5, NewIs
  <2>2. InvoiceAt(new(layout), L, a - 1) BY <1>1, <1>2, InvoiceAtFirst
  <2>. QED BY <1>7, <2>1, <2>2
<1>9. ASSUME NEW i \in L, Read(i - 1) PROVE Read(i)
  <2> DEFINE p == g[i - 1]
  <2>1. g[i] = handle(p, file[i].ref, fields_to_std(file[i], i)) BY <1>1, <1>7
  <2>2. p \in Parsers(Fields, V) /\ InvoiceAt(p, L, i - 1) BY <1>9
  <2> HIDE DEF p, layout
  <2>. QED BY <1>1, <2>1, <2>2, InvoiceStays
<1> HIDE DEF Read
<1> DEFINE T == {m \in Nat : (a - 1) + m <= b /\ ~Read((a - 1) + m)}
<1>10. ASSUME T # {} PROVE FALSE
  <2>1. First(T) \in T /\ \A j \in T : First(T) <= j BY <1>10, FirstIsLeast
  <2> DEFINE m == First(T)
  <2>2. m \in Nat /\ (a - 1) + m <= b /\ ~Read((a - 1) + m) BY <2>1
  <2>3. CASE m = 0
    <3>1. (a - 1) + m = a - 1 BY <1>2, <2>3
    <3>. QED BY <1>8, <2>2, <3>1
  <2>4. CASE m # 0
    <3> DEFINE i == (a - 1) + m
    <3>1. m - 1 \in Nat /\ ~(m <= m - 1) /\ (a - 1) + (m - 1) = i - 1 /\ i \in a..b /\ (a - 1) + (m - 1) <= b
      <4> HIDE DEF m
      <4>. QED BY <1>2, <2>2, <2>4
    <3>2. m - 1 \notin T BY <2>1, <3>1
    <3>3. Read(i - 1) BY <3>1, <3>2
    <3> HIDE DEF m, i, T
    <3>4. Read(i) BY <1>1, <1>9, <3>1, <3>3
    <3>. QED BY <2>2, <3>4 DEF i
  <2>. QED BY <2>3, <2>4
<1>11. Read(b)
  <2> DEFINE k == b - (a - 1)
  <2>1. k \in Nat /\ (a - 1) + k = b BY <1>2
  <2>2. k \notin T BY <1>10
  <2> HIDE DEF k
  <2>. QED BY <1>2, <2>1, <2>2
<1> DEFINE p == g[b]
<1>12. p \in Parsers(Fields, V) /\ InvoiceAt(p, L, b) /\ r = finalize_current_item(p) BY <1>7, <1>11 DEF Read
<1> HIDE DEF p, V
<1>13. ListsAt(p, L, b) /\ VolumesAt(p.list["volumes"], p.seals, L, b) /\ ItemsAt(p, L, b) BY <1>12 DEF InvoiceAt
<1>14. r \in Parsers(Fields, V) /\ SameLists(p, r) /\ Finished(p, r) BY <1>12, FinalizeIs, FinalizeDoes
<1>15. ListsAt(r, L, b) BY <1>13, <1>14, ListsRest
<1>16. VolumesAt(r.list["volumes"], r.seals, L, b) BY <1>12, <1>13, <1>14, VolumesAtEnd
<1>17. AllKept(r.items, L) BY <1>12, <1>13, <1>14, ItemsEnd
<1>. QED BY <1>14, <1>15, <1>16, <1>17 DEF ReadAll, V, L, r, b
-----------------------------------------------------------------------------
(***************************************************************************)
(* The elements of the XML, where they belong.                             *)
(***************************************************************************)
\* The lines of the n-th item, or of the invoice.
Item(L, n) == IF n = 0 THEN L ELSE ItemLines(L, n)

\* The lines that a place of the XML is for.
Place(L, part, n, m) ==
    IF HeadsOf(part) # {} /\ m > 0 THEN Group(Item(L, n), part, m) ELSE Item(L, n)
AllBelong(leaves, L) == \A leaf \in leaves : leaf.from \in Place(L, leaf.at.part, leaf.at.n, leaf.at.m)

\* The lines of a part are lines of its item.
LEMMA PlaceIs ==
    ASSUME NEW L, NEW part, NEW n, NEW m
    PROVE  /\ Group(Item(L, n), part, m) \subseteq Place(L, part, n, m)
           /\ Place(L, part, n, m) \subseteq Item(L, n)
           /\ Place(L, part, n, 0) = Item(L, n)
<1>1. Group(Item(L, n), part, m) \subseteq Item(L, n) BY DEF Group
<1>2. ~(0 > 0) OBVIOUS
<1>. QED BY <1>1, <1>2 DEF Place

\* What is written from a record.
LEMMA WrittenThere ==
    ASSUME NEW L, NEW part, NEW n, NEW m, NEW M, M \subseteq Place(L, part, n, m), NEW x \in Records(M)
    PROVE  \A tags : AllBelong(Written(At(part, n, m), tags, x), L)
<1>1. \A f \in DOMAIN x : x[f].from \in M
  <2>1. \A f \in DOMAIN x : x[f] \in ReadOf(M) BY StdIs DEF Records
  <2>. QED BY <2>1 DEF ReadOf, Value
<1> DEFINE at == At(part, n, m)
<1>2. at.part = part /\ at.n = n /\ at.m = m BY DEF At
<1> HIDE DEF at
<1>3. \A tags : \A leaf \in Written(at, tags, x) : \E f \in DOMAIN x : leaf.from = x[f].from /\ leaf.at = at
  BY DEF Written
<1>. QED BY <1>1, <1>2, <1>3 DEF AllBelong, at

\* From a record that may be absent.
LEMMA IfPresentThere ==
    ASSUME NEW L, NEW part, NEW n, NEW m, NEW M, M \subseteq Place(L, part, n, m), NEW x \in Records(M) \cup {None}
    PROVE  \A tags : AllBelong(IfPresent(At(part, n, m), tags, x), L)
<1>1. CASE x = None BY <1>1 DEF IfPresent, AllBelong
<1>2. CASE x # None
  <2>1. x \in Records(M) BY <1>2
  <2>2. \A tags : IfPresent(At(part, n, m), tags, x) = Written(At(part, n, m), tags, x)
    BY <1>2 DEF IfPresent
  <2>. QED BY <2>1, <2>2, WrittenThere
<1>. QED BY <1>1, <1>2

\* From the records of a list, the m-th of which is of the m-th part.
LEMMA OfEachThere ==
    ASSUME NEW L, NEW part, NEW n, NEW list, Placed(list, Item(L, n), part)
    PROVE  /\ \A m \in DOMAIN list : \A tags : AllBelong(Written(At(part, n, m), tags, list[m]), L)
           /\ \A tags : AllBelong(OfEach(part, n, tags, list), L)
<1>1. ASSUME NEW m \in DOMAIN list PROVE \A tags : AllBelong(Written(At(part, n, m), tags, list[m]), L)
  <2> DEFINE M == Group(Item(L, n), part, m)
             x == list[m]
  <2>1. x \in Records(M) /\ M \subseteq Place(L, part, n, m) BY PlaceIs DEF Placed
  <2> HIDE DEF M, x
  <2>2. \A tags : AllBelong(Written(At(part, n, m), tags, x), L) BY <2>1, WrittenThere
  <2>. QED BY <2>2 DEF x
<1>. QED BY <1>1 DEF OfEach, AllBelong

\* From the records of a list that have a name.
LEMMA OfEachNamedThere ==
    ASSUME NEW L, NEW part, NEW list, NEW i, NamedAt(list, L, part, i)
    PROVE  AllBelong(OfEachNamed(part, list), L)
<1> DEFINE named == {k \in DOMAIN list : "xCampo" \in DOMAIN list[k]}
           place(k) == Cardinality({j \in named : j <= k})
<1>1. \A k \in named : place(k) = Upto(Names(list), k) /\ list[k] \in Records(Group(L, part, place(k)))
  BY DEF NamedAt, Names, Upto
<1>2. ASSUME NEW k \in named
      PROVE  AllBelong(Written(At(part, 0, place(k)), {"xCampo", "xTexto"}, list[k]), L)
  <2> DEFINE m == place(k)
             x == list[k]
             M == Group(L, part, m)
  <2>1. Item(L, 0) = L BY DEF Item
  <2>2. M \subseteq Place(L, part, 0, m)
    <3> HIDE DEF m
    <3>. QED BY <2>1, PlaceIs
  <2>3. x \in Records(M) BY <1>1
  <2> HIDE DEF m, x, M
  <2>4. AllBelong(Written(At(part, 0, m), {"xCampo", "xTexto"}, x), L) BY <2>2, <2>3, WrittenThere
  <2>. QED BY <2>4 DEF m, x
<1>. QED BY <1>2 DEF OfEachNamed, AllBelong

\* From the single values of an item.
LEMMA OfTaxThere ==
    ASSUME NEW L, NEW part, NEW n, NEW M, M \subseteq Place(L, part, n, 0), NEW item \in Items(Fields, ReadOf(M)),
           NEW tax, NEW tags, \A f \in tags : <<tax, f>> \in Scalars
    PROVE  AllBelong(OfTax(At(part, n, 0), item, tax, tags), L)
<1>1. \A y \in Scalars : item.scalar[y] \in ReadOf(M) \cup {None} BY DEF Items, Rates
<1>2. \A f \in tags : item.scalar[<<tax, f>>] # None => item.scalar[<<tax, f>>].from \in M
  BY <1>1 DEF ReadOf, Value
<1> DEFINE at == At(part, n, 0)
<1>3. at.part = part /\ at.n = n /\ at.m = 0 BY DEF At
<1> HIDE DEF at
<1>4. \A leaf \in OfTax(at, item, tax, tags) :
        \E f \in tags : /\ item.scalar[<<tax, f>>] # None
                        /\ leaf.from = item.scalar[<<tax, f>>].from /\ leaf.at = at
  <2>1. \A it : \A leaf \in OfTax(at, it, tax, tags) :
          \E f \in tags : /\ it.scalar[<<tax, f>>] # None
                          /\ leaf.from = it.scalar[<<tax, f>>].from /\ leaf.at = at
    BY DEF OfTax
  <2>. QED BY <2>1
<1>. QED BY <1>2, <1>3, <1>4 DEF AllBelong, at

\* What an invoice has once is written of its lines.
LEMMA SlotsThere ==
    ASSUME NEW L, NEW r \in Parsers(Fields, ReadOf(L))
    PROVE  /\ \A part : \A s \in Slots : \A tags : AllBelong(Written(The(part), tags, r.slot[s]), L)
           /\ \A part : \A s \in OptionalSlots : \A tags :
                /\ AllBelong(IfPresent(The(part), tags, r.slot[s]), L)
                /\ r.slot[s] # None => AllBelong(Written(The(part), tags, r.slot[s]), L)
<1>1. (\A s \in Slots : r.slot[s] \in Records(L)) /\ \A s \in OptionalSlots : r.slot[s] \in Records(L) \cup {None}
  BY HeldIs DEF Records
<1>2. \A part : L \subseteq Place(L, part, 0, 0) BY PlaceIs DEF Item
<1>3. ASSUME NEW part, NEW x \in Records(L) PROVE \A tags : AllBelong(Written(The(part), tags, x), L)
  BY <1>2, WrittenThere DEF The
<1>4. ASSUME NEW part, NEW x \in Records(L) \cup {None}
      PROVE  \A tags : AllBelong(IfPresent(The(part), tags, x), L)
  BY <1>2, IfPresentThere DEF The
<1>5. ASSUME NEW part, NEW s \in OptionalSlots, NEW tags
      PROVE  /\ AllBelong(IfPresent(The(part), tags, r.slot[s]), L)
             /\ r.slot[s] # None => AllBelong(Written(The(part), tags, r.slot[s]), L)
  <2> DEFINE x == r.slot[s]
  <2>1. x \in Records(L) \cup {None} BY <1>1
  <2> HIDE DEF x
  <2>2. AllBelong(IfPresent(The(part), tags, x), L) BY <1>4, <2>1
  <2>3. x # None => AllBelong(Written(The(part), tags, x), L) BY <1>3, <2>1
  <2>. QED BY <2>2, <2>3 DEF x
<1>6. ASSUME NEW part, NEW s \in Slots, NEW tags PROVE AllBelong(Written(The(part), tags, r.slot[s]), L)
  <2> DEFINE x == r.slot[s]
  <2>1. x \in Records(L) BY <1>1
  <2> HIDE DEF x
  <2>2. AllBelong(Written(The(part), tags, x), L) BY <1>3, <2>1
  <2>. QED BY <2>2 DEF x
<1>. QED BY <1>5, <1>6

\* What it has several times is written of the lines of the parts.
LEMMA ListsThere ==
    ASSUME NEW L, NEW i, NEW r, ListsAt(r, L, i)
    PROVE  /\ \A l \in DOMAIN PartOf : \A tags : AllBelong(OfEach(PartOf[l], 0, tags, r.list[l]), L)
           /\ \A tags : AllBelong(OfEach("autXML", 0, tags, r.list["aut_xml"]), L)
           /\ \A k \in DOMAIN r.list["nf_ref_nf"] : \A tags :
                AllBelong(Written(At("refNF", 0, k), tags, r.list["nf_ref_nf"][k]), L)
           /\ \A k \in DOMAIN r.list["det_pag"] : \A tags :
                AllBelong(Written(At("detPag", 0, k), tags, r.list["det_pag"][k]), L)
           /\ AllBelong(OfEachNamed("obsCont", r.list["obs_cont"]), L)
           /\ AllBelong(OfEachNamed("obsFisco", r.list["obs_fisco"]), L)
<1>1. Item(L, 0) = L BY DEF Item
<1>2. /\ \A l \in DOMAIN PartOf : Placed(r.list[l], L, PartOf[l])
      /\ Placed(r.list["aut_xml"], L, "autXML") /\ Placed(r.list["nf_ref_nf"], L, "refNF")
      /\ Placed(r.list["det_pag"], L, "detPag")
  BY DEF ListsAt, PlainAt, WaitAt, PaymentAt
<1>3. ASSUME NEW part, NEW list, Placed(list, L, part)
      PROVE  /\ \A m \in DOMAIN list : \A tags : AllBelong(Written(At(part, 0, m), tags, list[m]), L)
             /\ \A tags : AllBelong(OfEach(part, 0, tags, list), L)
  BY <1>1, <1>3, OfEachThere
<1>4. ASSUME NEW l \in DOMAIN PartOf PROVE \A tags : AllBelong(OfEach(PartOf[l], 0, tags, r.list[l]), L)
  <2> DEFINE part == PartOf[l]
             list == r.list[l]
  <2>1. Placed(list, L, part) BY <1>2
  <2> HIDE DEF part, list
  <2>2. \A tags : AllBelong(OfEach(part, 0, tags, list), L) BY <1>3, <2>1
  <2>. QED BY <2>2 DEF part, list
<1>5. ASSUME NEW l, NEW part, Placed(r.list[l], L, part)
      PROVE  /\ \A m \in DOMAIN r.list[l] : \A tags : AllBelong(Written(At(part, 0, m), tags, r.list[l][m]), L)
             /\ \A tags : AllBelong(OfEach(part, 0, tags, r.list[l]), L)
  <2> DEFINE list == r.list[l]
  <2>1. Placed(list, L, part) BY <1>5
  <2> HIDE DEF list
  <2>2. /\ \A m \in DOMAIN list : \A tags : AllBelong(Written(At(part, 0, m), tags, list[m]), L)
        /\ \A tags : AllBelong(OfEach(part, 0, tags, list), L)
    BY <1>3, <2>1
  <2>. QED BY <2>2 DEF list
<1>6. \A tags : AllBelong(OfEach("autXML", 0, tags, r.list["aut_xml"]), L) BY <1>2, <1>5
<1>7. \A k \in DOMAIN r.list["nf_ref_nf"] : \A tags :
        AllBelong(Written(At("refNF", 0, k), tags, r.list["nf_ref_nf"][k]), L)
  BY <1>2, <1>5
<1>8. \A k \in DOMAIN r.list["det_pag"] : \A tags :
        AllBelong(Written(At("detPag", 0, k), tags, r.list["det_pag"][k]), L)
  BY <1>2, <1>5
<1>9. AllBelong(OfEachNamed("obsCont", r.list["obs_cont"]), L)
      /\ AllBelong(OfEachNamed("obsFisco", r.list["obs_fisco"]), L)
  BY OfEachNamedThere DEF ListsAt
<1>. QED BY <1>4, <1>6, <1>7, <1>8, <1>9

\* The document and its references.
LEMMA IdeThere ==
    ASSUME NEW L, NEW i, NEW r \in Parsers(Fields, ReadOf(L)), ListsAt(r, L, i)
    PROVE  AllBelong(build_ide(r), L)
<1> DEFINE nf == r.list["nf_ref_nf"]
<1>1. \A tags : AllBelong(Written(The("ide"), tags, r.slot["ide"]), L) BY SlotsThere DEF Slots
<1>2. \A l \in DOMAIN PartOf : \A tags : AllBelong(OfEach(PartOf[l], 0, tags, r.list[l]), L) BY ListsThere
<1>3. \A tags : /\ AllBelong(OfEach("refNFe", 0, tags, r.list["nf_ref"]), L)
                /\ AllBelong(OfEach("refCTe", 0, tags, r.list["nf_ref_cte"]), L)
                /\ AllBelong(OfEach("refECF", 0, tags, r.list["nf_ref_ecf"]), L)
  <2>1. /\ {"nf_ref", "nf_ref_cte", "nf_ref_ecf"} \subseteq DOMAIN PartOf
        /\ PartOf["nf_ref"] = "refNFe" /\ PartOf["nf_ref_cte"] = "refCTe" /\ PartOf["nf_ref_ecf"] = "refECF"
    BY DEF PartOf
  <2>. QED BY <1>2, <2>1
<1>4. \A k \in DOMAIN nf : \A tags : AllBelong(Written(At("refNF", 0, k), tags, nf[k]), L) BY ListsThere
<1>. QED BY <1>1, <1>3, <1>4 DEF build_ide, AllBelong

\* The parties, the places and the authorized persons.
LEMMA PartiesThere ==
    ASSUME NEW L, NEW i, NEW r \in Parsers(Fields, ReadOf(L)), ListsAt(r, L, i)
    PROVE  /\ AllBelong(build_emit(r), L) /\ AllBelong(build_dest(r), L)
           /\ AllBelong(build_local_section("retirada", r.slot["retirada"]), L)
           /\ AllBelong(build_local_section("entrega", r.slot["entrega"]), L)
           /\ AllBelong(build_aut_xml(r), L)
<1>1. \A part : \A s \in {"emit", "ender_emit", "dest", "ender_dest"} :
        \A tags : AllBelong(Written(The(part), tags, r.slot[s]), L)
  BY SlotsThere DEF Slots
<1>2. \A part : \A s \in {"retirada", "entrega"} : \A tags : AllBelong(IfPresent(The(part), tags, r.slot[s]), L)
  BY SlotsThere DEF OptionalSlots
<1>3. \A tags : AllBelong(OfEach("autXML", 0, tags, r.list["aut_xml"]), L) BY ListsThere
<1>4. AllBelong(build_emit(r), L) /\ AllBelong(build_dest(r), L) BY <1>1 DEF build_emit, build_dest, AllBelong
<1>. QED BY <1>2, <1>3, <1>4 DEF build_local_section, build_aut_xml

\* The transport: a seal is written with its volume.
LEMMA TranspThere ==
    ASSUME NEW L, NEW i, NEW r \in Parsers(Fields, ReadOf(L)), ListsAt(r, L, i),
           VolumesAt(r.list["volumes"], r.seals, L, i)
    PROVE  AllBelong(build_transp(r), L)
<1> DEFINE vol == r.list["volumes"]
<1>1. \A tags : AllBelong(Written(The("transp"), tags, r.slot["transp"]), L) BY SlotsThere DEF Slots
<1>2. \A part : \A s \in {"ret_transp", "transporta", "veic_transp", "vagao", "balsa"} :
        \A tags : AllBelong(IfPresent(The(part), tags, r.slot[s]), L)
  BY SlotsThere DEF OptionalSlots
<1>3. \A tags : AllBelong(OfEach("reboque", 0, tags, r.list["reboque"]), L)
  <2>1. "reboque" \in DOMAIN PartOf /\ PartOf["reboque"] = "reboque" BY DEF PartOf
  <2>2. \A l \in DOMAIN PartOf : \A tags : AllBelong(OfEach(PartOf[l], 0, tags, r.list[l]), L) BY ListsThere
  <2>. QED BY <2>1, <2>2
<1> DEFINE own(k) == Written(At("vol", 0, k), Common["X26"], vol[k].own)
           seal(k, j) == Written(At("vol", 0, k), {"nLacre"}, vol[k].lacres[j])
           volumes == UNION {Written(At("vol", 0, k), Common["X26"], vol[k].own)
                             \cup UNION {Written(At("vol", 0, k), {"nLacre"}, vol[k].lacres[s]) :
                                         s \in DOMAIN vol[k].lacres} : k \in DOMAIN vol}
<1>4. ASSUME NEW k \in DOMAIN vol
      PROVE  AllBelong(own(k), L) /\ \A j \in DOMAIN vol[k].lacres : AllBelong(seal(k, j), L)
  <2> DEFINE M == Group(L, "vol", k)
             v == vol[k]
  <2>1. v \in Volumes(Fields, ReadOf(M)) BY DEF VolumesAt
  <2>2. M \subseteq Place(L, "vol", 0, k)
    <3>1. Item(L, 0) = L BY DEF Item
    <3>. QED BY <3>1, PlaceIs
  <2> HIDE DEF v, M
  <2>3. v.own \in Records(M) /\ \A j \in DOMAIN v.lacres : v.lacres[j] \in Records(M)
    <3>1. v.own \in Records(M) /\ v.lacres \in Seq(Records(M)) BY <2>1 DEF Volumes, Records
    <3>. QED BY <3>1
  <2>4. \A x \in Records(M) : \A tags : AllBelong(Written(At("vol", 0, k), tags, x), L) BY <2>2, WrittenThere
  <2>5. AllBelong(Written(At("vol", 0, k), Common["X26"], v.own), L)
        /\ \A j \in DOMAIN v.lacres : AllBelong(Written(At("vol", 0, k), {"nLacre"}, v.lacres[j]), L)
    BY <2>3, <2>4
  <2>. QED BY <2>5 DEF v
<1>5. AllBelong(volumes, L)
  <2>1. \A leaf \in volumes : \E k \in DOMAIN vol :
          leaf \in own(k) \/ \E j \in DOMAIN vol[k].lacres : leaf \in seal(k, j)
    <3> HIDE DEF own, seal, vol
    <3>. QED BY DEF own, seal
  <2> HIDE DEF own, seal, volumes, vol
  <2>. QED BY <1>4, <2>1 DEF AllBelong
<1>6. build_transp(r) =
        Written(The("transp"), {"modFrete"}, r.slot["transp"])
        \cup IfPresent(The("retTransp"), Local400["X11"], r.slot["ret_transp"])
        \cup IfPresent(The("transporta"), {"CNPJ", "CPF", "xNome", "IE", "xEnder", "xMun", "UF"},
                       r.slot["transporta"])
        \cup IfPresent(The("veicTransp"), Vehicle, r.slot["veic_transp"])
        \cup OfEach("reboque", 0, Vehicle, r.list["reboque"])
        \cup IfPresent(The("transp"), {"vagao"}, r.slot["vagao"])
        \cup IfPresent(The("transp"), {"balsa"}, r.slot["balsa"])
        \cup volumes
  BY DEF build_transp
<1> HIDE DEF volumes, vol, own, seal
<1>. QED BY <1>1, <1>2, <1>3, <1>5, <1>6 DEF AllBelong

\* The totals, the bill and the payments.
LEMMA PagThere ==
    ASSUME NEW L, NEW i, NEW r \in Parsers(Fields, ReadOf(L)), ListsAt(r, L, i)
    PROVE  AllBelong(build_total(r), L) /\ AllBelong(build_cobr(r), L) /\ AllBelong(build_pag(r), L)
<1> DEFINE pag == r.list["det_pag"]
<1>1. \A tags : AllBelong(Written(The("ICMSTot"), tags, r.slot["totals"]), L) BY SlotsThere DEF Slots
<1>2. \A part : \A s \in {"issqn_tot", "ret_trib", "fat", "pag"} : \A tags :
        /\ AllBelong(IfPresent(The(part), tags, r.slot[s]), L)
        /\ r.slot[s] # None => AllBelong(Written(The(part), tags, r.slot[s]), L)
  BY SlotsThere DEF OptionalSlots
<1>3. \A tags : AllBelong(OfEach("dup", 0, tags, r.list["dup"]), L)
  <2>1. "dup" \in DOMAIN PartOf /\ PartOf["dup"] = "dup" BY DEF PartOf
  <2>2. \A l \in DOMAIN PartOf : \A tags : AllBelong(OfEach(PartOf[l], 0, tags, r.list[l]), L) BY ListsThere
  <2>. QED BY <2>1, <2>2
<1>4. \A k \in DOMAIN pag : \A tags : AllBelong(Written(At("detPag", 0, k), tags, pag[k]), L) BY ListsThere
<1>5. AllBelong(build_total(r), L) BY <1>1, <1>2 DEF build_total, AllBelong
<1>6. AllBelong(build_cobr(r), L) BY <1>2, <1>3 DEF build_cobr, AllBelong
<1>7. AllBelong(build_pag(r), L) BY <1>2, <1>4 DEF build_pag, AllBelong
<1>. QED BY <1>5, <1>6, <1>7

\* The observations, the sugar cane and the rest.
LEMMA RestThere ==
    ASSUME NEW L, NEW i, NEW r \in Parsers(Fields, ReadOf(L)), ListsAt(r, L, i)
    PROVE  AllBelong(build_inf_adic(r), L) /\ AllBelong(build_cana(r), L) /\ AllBelong(build_rest(r), L)
<1>1. \A tags : AllBelong(Written(The("infAdic"), tags, r.slot["inf_adic"]), L) BY SlotsThere DEF Slots
<1>2. \A part : \A s \in {"cana", "inf_intermed", "exporta", "compra", "inf_resp_tec", "inf_nfe_supl"} : \A tags :
        /\ AllBelong(IfPresent(The(part), tags, r.slot[s]), L)
        /\ r.slot[s] # None => AllBelong(Written(The(part), tags, r.slot[s]), L)
  BY SlotsThere DEF OptionalSlots
<1>3. \A tags : /\ AllBelong(OfEach("procRef", 0, tags, r.list["proc_ref"]), L)
                /\ AllBelong(OfEach("forDia", 0, tags, r.list["for_dia"]), L)
                /\ AllBelong(OfEach("deduc", 0, tags, r.list["deduc"]), L)
  <2>1. /\ {"proc_ref", "for_dia", "deduc"} \subseteq DOMAIN PartOf
        /\ PartOf["proc_ref"] = "procRef" /\ PartOf["for_dia"] = "forDia" /\ PartOf["deduc"] = "deduc"
    BY DEF PartOf
  <2>2. \A l \in DOMAIN PartOf : \A tags : AllBelong(OfEach(PartOf[l], 0, tags, r.list[l]), L) BY ListsThere
  <2>. QED BY <2>1, <2>2
<1>4. AllBelong(OfEachNamed("obsCont", r.list["obs_cont"]), L)
      /\ AllBelong(OfEachNamed("obsFisco", r.list["obs_fisco"]), L)
  BY ListsThere
<1>5. AllBelong(build_inf_adic(r), L) BY <1>1, <1>3, <1>4 DEF build_inf_adic, AllBelong
<1>6. AllBelong(build_cana(r), L) BY <1>2, <1>3 DEF build_cana, AllBelong
<1>7. AllBelong(build_rest(r), L) BY <1>2 DEF build_rest, AllBelong
<1>. QED BY <1>5, <1>6, <1>7

\* What an item has once is written of its lines.
LEMMA SinglesThere ==
    ASSUME NEW L, NEW n, NEW M, M = Item(L, n), NEW item \in Items(Fields, ReadOf(M))
    PROVE  /\ \A part : \A tags : AllBelong(Written(At(part, n, 0), tags, item.prod), L)
           /\ \A part : \A s \in ItemSlots : \A tags :
                /\ AllBelong(IfPresent(At(part, n, 0), tags, item.one[s]), L)
                /\ item.one[s] # None => AllBelong(Written(At(part, n, 0), tags, item.one[s]), L)
           /\ \A part : \A tax : \A tags :
                (\A f \in tags : <<tax, f>> \in Scalars) => AllBelong(OfTax(At(part, n, 0), item, tax, tags), L)
<1>1. item.prod \in Records(M) /\ \A s \in ItemSlots : item.one[s] \in Records(M) \cup {None}
  BY ItemHoldsIs DEF Records
<1>2. \A part : M \subseteq Place(L, part, n, 0) BY PlaceIs
<1>3. ASSUME NEW part, NEW x \in Records(M) PROVE \A tags : AllBelong(Written(At(part, n, 0), tags, x), L)
  BY <1>2, WrittenThere
<1>4. ASSUME NEW part, NEW x \in Records(M) \cup {None}
      PROVE  \A tags : AllBelong(IfPresent(At(part, n, 0), tags, x), L)
  BY <1>2, IfPresentThere
<1>5. ASSUME NEW part, NEW s \in ItemSlots, NEW tags
      PROVE  /\ AllBelong(IfPresent(At(part, n, 0), tags, item.one[s]), L)
             /\ item.one[s] # None => AllBelong(Written(At(part, n, 0), tags, item.one[s]), L)
  <2> DEFINE x == item.one[s]
  <2>1. x \in Records(M) \cup {None} BY <1>1
  <2> HIDE DEF x
  <2>2. AllBelong(IfPresent(At(part, n, 0), tags, x), L) BY <1>4, <2>1
  <2>3. x # None => AllBelong(Written(At(part, n, 0), tags, x), L) BY <1>3, <2>1
  <2>. QED BY <2>2, <2>3 DEF x
<1>6. ASSUME NEW part, NEW tags PROVE AllBelong(Written(At(part, n, 0), tags, item.prod), L)
  <2> DEFINE x == item.prod
  <2>1. x \in Records(M) BY <1>1
  <2> HIDE DEF x
  <2>2. AllBelong(Written(At(part, n, 0), tags, x), L) BY <1>3, <2>1
  <2>. QED BY <2>2 DEF x
<1>7. ASSUME NEW part, NEW tax, NEW tags, \A f \in tags : <<tax, f>> \in Scalars
      PROVE  AllBelong(OfTax(At(part, n, 0), item, tax, tags), L)
  BY <1>2, <1>7, OfTaxThere
<1>. QED BY <1>5, <1>6, <1>7

\* What it has several times is written of the lines of its parts: an addition
\* with its import declaration.
LEMMA ManyThere ==
    ASSUME NEW L, NEW n, NEW M, M = Item(L, n), NEW item, ManyPlaced(item.many, M)
    PROVE  /\ \A l \in DOMAIN ItemPart : \A tags : AllBelong(OfEach(ItemPart[l], n, tags, item.many[l]), L)
           /\ \A m \in DOMAIN item.many["di"] : \A tags :
                /\ AllBelong(Written(At("DI", n, m), tags, item.many["di"][m].own), L)
                /\ \A a \in DOMAIN item.many["di"][m].adi :
                     AllBelong(Written(At("adi", n, m), tags, item.many["di"][m].adi[a]), L)
<1>1. ASSUME NEW l \in DOMAIN ItemPart
      PROVE  \A tags : AllBelong(OfEach(ItemPart[l], n, tags, item.many[l]), L)
  <2> DEFINE part == ItemPart[l]
             list == item.many[l]
  <2>1. Placed(list, Item(L, n), part) BY DEF ManyPlaced
  <2> HIDE DEF part, list
  <2>2. \A tags : AllBelong(OfEach(part, n, tags, list), L) BY <2>1, OfEachThere
  <2>. QED BY <2>2 DEF part, list
<1> DEFINE di == item.many["di"]
<1>2. ASSUME NEW m \in DOMAIN di
      PROVE  \A tags : /\ AllBelong(Written(At("DI", n, m), tags, di[m].own), L)
                       /\ \A a \in DOMAIN di[m].adi : AllBelong(Written(At("adi", n, m), tags, di[m].adi[a]), L)
  <2> DEFINE G == Group(M, "DI", m)
             d == di[m]
  <2>1. d \in Declarations(Fields, ReadOf(G)) BY DEF ManyPlaced
  <2>2. G \subseteq Place(L, "DI", n, m) BY PlaceIs
  <2>3. G \subseteq Place(L, "adi", n, m)
    <3>1. HeadsOf("adi") = HeadsOf("DI") /\ Said("adi") = Said("DI") BY DEF HeadsOf, Said
    <3>2. \A j : Starts(j, "adi") <=> Starts(j, "DI") BY <3>1 DEF Starts
    <3>3. Group(M, "adi", m) = G BY <3>2 DEF Group
    <3> HIDE DEF G
    <3>. QED BY <3>3, PlaceIs
  <2> HIDE DEF d, G
  <2>4. d.own \in Records(G) /\ \A a \in DOMAIN d.adi : d.adi[a] \in Records(G)
    <3>1. d.own \in Records(G) /\ d.adi \in Seq(Records(G)) BY <2>1 DEF Declarations, Records
    <3>. QED BY <3>1
  <2>5. \A x \in Records(G) : \A tags :
          AllBelong(Written(At("DI", n, m), tags, x), L) /\ AllBelong(Written(At("adi", n, m), tags, x), L)
    BY <2>2, <2>3, WrittenThere
  <2>6. \A tags : /\ AllBelong(Written(At("DI", n, m), tags, d.own), L)
                  /\ \A a \in DOMAIN d.adi : AllBelong(Written(At("adi", n, m), tags, d.adi[a]), L)
    BY <2>4, <2>5
  <2>. QED BY <2>6 DEF d
<1>. QED BY <1>1, <1>2

\* A product.
LEMMA ProdThere ==
    ASSUME NEW L, NEW n, NEW M, M = Item(L, n), NEW item, Kept(item, M)
    PROVE  AllBelong(build_prod(item, n), L)
<1> DEFINE di == item.many["di"]
           exports == item.many["det_export"]
           once == {"cest", "g_cred", "veic_prod", "med", "comb", "comb_cide", "encerrante", "recopi"}
<1>1. item \in Items(Fields, ReadOf(M)) /\ ManyPlaced(item.many, M) BY DEF Kept
<1>2. \A tags : AllBelong(Written(At("prod", n, 0), tags, item.prod), L) BY <1>1, SinglesThere
<1>3. \A part : \A s \in once : \A tags :
        /\ AllBelong(IfPresent(At(part, n, 0), tags, item.one[s]), L)
        /\ item.one[s] # None => AllBelong(Written(At(part, n, 0), tags, item.one[s]), L)
  <2>1. once \subseteq ItemSlots BY DEF ItemSlots
  <2> HIDE DEF once
  <2>2. \A part : \A s \in ItemSlots : \A tags :
          /\ AllBelong(IfPresent(At(part, n, 0), tags, item.one[s]), L)
          /\ item.one[s] # None => AllBelong(Written(At(part, n, 0), tags, item.one[s]), L)
    BY <1>1, SinglesThere
  <2>. QED BY <2>1, <2>2
<1>4. \A tags : /\ AllBelong(OfEach("detExport", n, tags, item.many["det_export"]), L)
                /\ AllBelong(OfEach("rastro", n, tags, item.many["rastro"]), L)
                /\ AllBelong(OfEach("arma", n, tags, item.many["arma"]), L)
                /\ AllBelong(OfEach("NVE", n, tags, item.many["nve"]), L)
  <2>1. /\ {"det_export", "rastro", "arma", "nve"} \subseteq DOMAIN ItemPart
        /\ ItemPart["det_export"] = "detExport" /\ ItemPart["rastro"] = "rastro" /\ ItemPart["arma"] = "arma"
        /\ ItemPart["nve"] = "NVE"
    BY DEF ItemPart
  <2>2. \A l \in DOMAIN ItemPart : \A tags : AllBelong(OfEach(ItemPart[l], n, tags, item.many[l]), L)
    BY <1>1, ManyThere
  <2>. QED BY <2>1, <2>2
<1>5. \A m \in DOMAIN di : \A tags :
        /\ AllBelong(Written(At("DI", n, m), tags, di[m].own), L)
        /\ \A a \in DOMAIN di[m].adi : AllBelong(Written(At("adi", n, m), tags, di[m].adi[a]), L)
  BY <1>1, ManyThere
<1>6. \A e \in {exports[m] : m \in DOMAIN exports} :
        \A tags : AllBelong(Written(At("detExport", n, 0), tags, e), L)
  <2>1. exports \in Seq(Records(M)) BY <1>1, ItemHoldsIs DEF ItemLists, Records
  <2> HIDE DEF exports
  <2>2. \A e \in {exports[m] : m \in DOMAIN exports} : e \in Records(M) BY <2>1
  <2>3. M \subseteq Place(L, "detExport", n, 0) BY PlaceIs
  <2>. QED BY <2>2, <2>3, WrittenThere
<1> DEFINE declarations == UNION {Written(At("DI", n, m), Local400["I18"], di[m].own)
                               \cup UNION {Written(At("adi", n, m), Local400["I25"], di[m].adi[a]) :
                                           a \in DOMAIN di[m].adi} : m \in DOMAIN di}
           quantities == UNION {IF {"nRE", "chNFe"} \cap DOMAIN e = {} THEN {}
                                ELSE Written(At("detExport", n, 0), {"qExport"}, e) :
                                e \in {exports[m] : m \in DOMAIN exports}}
           fuel == IF item.one["comb"] = None THEN {}
                   ELSE Written(At("comb", n, 0), Local400["LA"], item.one["comb"])
                        \cup IfPresent(At("CIDE", n, 0), structure_400["LA07"], item.one["comb_cide"])
                        \cup IfPresent(At("encerrante", n, 0), structure_400["LA11"], item.one["encerrante"])
<1>7. build_prod(item, n) =
         Written(At("prod", n, 0), Product \cup {"cBenef"}, item.prod)
         \cup IfPresent(At("prod", n, 0), {"CEST"}, item.one["cest"])
         \cup IfPresent(At("gCred", n, 0), {"cCredPresumido", "pCredPresumido", "vCredPresumido"},
                        item.one["g_cred"])
         \cup declarations
         \cup OfEach("detExport", n, {"nDraw", "nRE", "chNFe"}, item.many["det_export"])
         \cup quantities
         \cup OfEach("rastro", n, Local400["I80"], item.many["rastro"])
         \cup IfPresent(At("veicProd", n, 0), Local400["JA"], item.one["veic_prod"])
         \cup IfPresent(At("med", n, 0), Local400["K"], item.one["med"])
         \cup OfEach("arma", n, Local400["L"], item.many["arma"])
         \cup fuel
         \cup OfEach("NVE", n, {"NVE"}, item.many["nve"])
         \cup IfPresent(At("prod", n, 0), {"nRECOPI"}, item.one["recopi"])
  BY DEF build_prod
<1>8. AllBelong(declarations, L)
  <2> DEFINE head(m) == Written(At("DI", n, m), Local400["I18"], di[m].own)
             addition(m, a) == Written(At("adi", n, m), Local400["I25"], di[m].adi[a])
  <2>1. \A m \in DOMAIN di : AllBelong(head(m), L) /\ \A a \in DOMAIN di[m].adi : AllBelong(addition(m, a), L)
    BY <1>5
  <2>2. \A leaf \in declarations : \E m \in DOMAIN di :
          leaf \in head(m) \/ \E a \in DOMAIN di[m].adi : leaf \in addition(m, a)
    <3> HIDE DEF head, addition, di
    <3>. QED BY DEF head, addition
  <2> HIDE DEF head, addition, declarations, di
  <2>. QED BY <2>1, <2>2 DEF AllBelong
<1>9. AllBelong(quantities, L) BY <1>6 DEF AllBelong
<1>10. AllBelong(fuel, L) BY <1>3 DEF AllBelong
<1> HIDE DEF declarations, quantities, fuel, di, exports
<1>. QED BY <1>2, <1>3, <1>4, <1>7, <1>8, <1>9, <1>10 DEF AllBelong

\* The taxes of an item.
LEMMA ImpostoThere ==
    ASSUME NEW L, NEW n, NEW M, M = Item(L, n), NEW item, Kept(item, M)
    PROVE  AllBelong(build_imposto(item, n), L) /\ AllBelong(build_imposto_devol(item, n), L)
<1> DEFINE once == {"icms", "icms_ufdest", "ipi_header", "ii", "issqn", "imposto_devol"}
<1>1. item \in Items(Fields, ReadOf(M)) BY DEF Kept
<1>2. \A part : \A s \in once : \A tags : AllBelong(IfPresent(At(part, n, 0), tags, item.one[s]), L)
  <2>1. once \subseteq ItemSlots BY DEF ItemSlots
  <2> HIDE DEF once
  <2>2. \A part : \A s \in ItemSlots : \A tags : AllBelong(IfPresent(At(part, n, 0), tags, item.one[s]), L)
    BY <1>1, SinglesThere
  <2>. QED BY <2>1, <2>2
<1>3. \A part : \A tax : \A tags :
        (\A f \in tags : <<tax, f>> \in Scalars) => AllBelong(OfTax(At(part, n, 0), item, tax, tags), L)
  BY <1>1, SinglesThere
<1> HIDE DEF Kept
<1>4. AllBelong(OfTax(At("imposto", n, 0), item, "item", {"vTotTrib"}), L)
  <2>1. \A f \in {"vTotTrib"} : <<"item", f>> \in Scalars BY ScalarsOfTaxes
  <2>. QED BY <1>3, <2>1
<1>5. AllBelong(build_ipi(item, n), L)
  <2>1. \A f \in {"CST", "vBC", "pIPI", "qUnid", "vUnid", "vIPI"} : <<"ipi", f>> \in Scalars BY ScalarsOfTaxes
  <2>2. AllBelong(OfTax(At("IPI", n, 0), item, "ipi", {"CST", "vBC", "pIPI", "qUnid", "vUnid", "vIPI"}), L)
    BY <1>3, <2>1
  <2>3. AllBelong(OfTax(At("IPI", n, 0), item, "ipi", {"CST"}), L) BY <1>3, <2>1
  <2>. QED BY <1>2, <2>2, <2>3 DEF build_ipi, AllBelong
<1>6. AllBelong(build_pis(item, n), L) /\ AllBelong(build_pis_st(item, n), L)
  <2>1. \A f \in {"CST", "vBC", "pPIS", "qBCProd", "vAliqProd", "vPIS"} :
          <<"pis", f>> \in Scalars /\ <<"pis_st", f>> \in Scalars
    BY ScalarsOfTaxes
  <2>2. AllBelong(OfTax(At("PIS", n, 0), item, "pis", {"CST", "vBC", "pPIS", "qBCProd", "vAliqProd", "vPIS"}), L)
    BY <1>3, <2>1
  <2>3. AllBelong(OfTax(At("PIS", n, 0), item, "pis", {"CST"}), L) BY <1>3, <2>1
  <2>4. AllBelong(OfTax(At("PISST", n, 0), item, "pis_st", {"vBC", "pPIS", "qBCProd", "vAliqProd", "vPIS"}), L)
    BY <1>3, <2>1
  <2>. QED BY <2>2, <2>3, <2>4 DEF build_pis, build_pis_st, AllBelong
<1>7. AllBelong(build_cofins(item, n), L) /\ AllBelong(build_cofins_st(item, n), L)
  <2>1. \A f \in {"CST", "vBC", "pCOFINS", "qBCProd", "vAliqProd", "vCOFINS"} :
          <<"cofins", f>> \in Scalars /\ <<"cofins_st", f>> \in Scalars
    BY ScalarsOfTaxes
  <2>2. AllBelong(OfTax(At("COFINS", n, 0), item, "cofins",
                        {"CST", "vBC", "pCOFINS", "qBCProd", "vAliqProd", "vCOFINS"}), L)
    BY <1>3, <2>1
  <2>3. AllBelong(OfTax(At("COFINS", n, 0), item, "cofins", {"CST"}), L) BY <1>3, <2>1
  <2>4. AllBelong(OfTax(At("COFINSST", n, 0), item, "cofins_st",
                        {"vBC", "pCOFINS", "qBCProd", "vAliqProd", "vCOFINS"}), L)
    BY <1>3, <2>1
  <2>. QED BY <2>2, <2>3, <2>4 DEF build_cofins, build_cofins_st, AllBelong
<1>8. /\ AllBelong(build_icms(item, n), L) /\ AllBelong(build_icms_ufdest(item, n), L)
      /\ AllBelong(build_ii(item, n), L) /\ AllBelong(build_issqn(item, n), L)
      /\ AllBelong(build_imposto_devol(item, n), L)
  BY <1>2 DEF build_icms, build_icms_ufdest, build_ii, build_issqn, build_imposto_devol
<1>. QED BY <1>4, <1>5, <1>6, <1>7, <1>8 DEF build_imposto, AllBelong

\* An item.
LEMMA DetThere ==
    ASSUME NEW L, NEW n, NEW M, M = Item(L, n), NEW item, Kept(item, M)
    PROVE  AllBelong(build_det(item, n), L)
<1>1. AllBelong(build_prod(item, n), L) BY ProdThere
<1>2. AllBelong(build_imposto(item, n), L) /\ AllBelong(build_imposto_devol(item, n), L) BY ImpostoThere
<1>3. AllBelong(OfTax(At("det", n, 0), item, "item", {"infAdProd"}), L)
  <2>1. \A f \in {"infAdProd"} : <<"item", f>> \in Scalars BY ScalarsOfTaxes
  <2>2. item \in Items(Fields, ReadOf(M)) BY DEF Kept
  <2>. QED BY <2>1, <2>2, SinglesThere
<1>. QED BY <1>1, <1>2, <1>3 DEF build_det, AllBelong

\* The whole XML.
LEMMA XmlThere ==
    ASSUME NEW L, NEW i, NEW r, ReadAll(r, L, i)
    PROVE  AllBelong(build_xml(r), L)
<1>1. /\ r \in Parsers(Fields, ReadOf(L)) /\ ListsAt(r, L, i)
      /\ VolumesAt(r.list["volumes"], r.seals, L, i) /\ AllKept(r.items, L)
  BY DEF ReadAll
<1>2. \A tags : AllBelong(IfPresent(The("infNFe"), tags, r.slot["hdr"]), L) BY <1>1, SlotsThere DEF OptionalSlots
<1>3. \A n \in DOMAIN r.items : AllBelong(build_det(r.items[n], n), L)
  <2> SUFFICES ASSUME NEW n \in DOMAIN r.items PROVE AllBelong(build_det(r.items[n], n), L) OBVIOUS
  <2> DEFINE item == r.items[n]
             M == ItemLines(L, n)
  <2>1. n # 0
    <3>1. r.items \in Seq(Items(Fields, ReadOf(L))) BY <1>1 DEF Parsers
    <3>. QED BY <3>1
  <2>2. Kept(item, M) BY <1>1 DEF AllKept
  <2>3. M = Item(L, n) BY <2>1 DEF Item
  <2> HIDE DEF item, M
  <2>4. AllBelong(build_det(item, n), L) BY <2>2, <2>3, DetThere
  <2>. QED BY <2>4 DEF item
<1>4. AllBelong(build_ide(r), L) BY <1>1, IdeThere
<1>5. /\ AllBelong(build_emit(r), L) /\ AllBelong(build_dest(r), L)
      /\ AllBelong(build_local_section("retirada", r.slot["retirada"]), L)
      /\ AllBelong(build_local_section("entrega", r.slot["entrega"]), L)
      /\ AllBelong(build_aut_xml(r), L)
  BY <1>1, PartiesThere
<1>6. AllBelong(build_transp(r), L) BY <1>1, TranspThere
<1>7. AllBelong(build_total(r), L) /\ AllBelong(build_cobr(r), L) /\ AllBelong(build_pag(r), L) BY <1>1, PagThere
<1>8. AllBelong(build_inf_adic(r), L) /\ AllBelong(build_cana(r), L) /\ AllBelong(build_rest(r), L)
  BY <1>1, RestThere
<1>. QED BY <1>2, <1>3, <1>4, <1>5, <1>6, <1>7, <1>8 DEF build_xml, AllBelong

\* The parts of every XML have the lines of their own.
LEMMA GroupsHold == FileInv /\ InOrder(file) => InItsGroup
<1> SUFFICES ASSUME FileInv, InOrder(file), NEW xml \in txt_to_xml_all.xml, OneInvoice(xml.of), NEW leaf \in xml.leaves
             PROVE  LET lines == LinesOf(xml.of)
                        item == IF leaf.at.n = 0 THEN lines ELSE ItemLines(lines, leaf.at.n)
                    IN  /\ leaf.from \in item
                        /\ (HeadsOf(leaf.at.part) # {} /\ leaf.at.m > 0) =>
                             leaf.from \in Group(item, leaf.at.part, leaf.at.m)
  BY DEF InItsGroup
<1>1. PICK v \in slice_invoices : Convertible(v) /\ xml.of = v /\ xml.leaves = build_xml(Parsed(v))
  <2>1. (\A v \in slice_invoices : Convertible(v))
        /\ txt_to_xml_all.xml = {[of |-> v, leaves |-> build_xml(Parsed(v))] : v \in slice_invoices}
    BY DEF txt_to_xml_all, ConversionError
  <2>. QED BY <2>1
<1> DEFINE L == LinesOf(v)
           part == leaf.at.part
           n == leaf.at.n
           m == leaf.at.m
<1>2. ReadAll(Parsed(v), L, v.last) BY <1>1, AllIsRead
<1> HIDE DEF L
<1>3. AllBelong(build_xml(Parsed(v)), L) BY <1>2, XmlThere
<1>4. leaf.from \in Place(L, part, n, m) BY <1>1, <1>3 DEF AllBelong
<1> HIDE DEF part, n, m
<1>5. leaf.from \in Item(L, n) BY <1>4, PlaceIs
<1>6. (HeadsOf(part) # {} /\ m > 0) => leaf.from \in Group(Item(L, n), part, m) BY <1>4 DEF Place
<1>7. LinesOf(xml.of) = L BY <1>1 DEF L
<1>. QED BY <1>5, <1>6, <1>7 DEF Item, part, n, m

\* Every part of the XML is made of the lines of one part of the file: what
\* stands in the n-th item, volume, payment, import declaration, referenced
\* document or authorized person was read from the lines of that one, in the
\* same invoice, whatever lines the file has in the order of the layout, and
\* however many (parser.rs; build_*.rs).
THEOREM PartsAreOfTheirLines == Spec => []InItsGroup
BY FileAlways, OrderAlways, GroupsHold, PTL
=============================================================================
