---------------------------- MODULE ValueProofs -----------------------------
(***************************************************************************)
(* Theorems about the serializer and the value pool, for every set of      *)
(* texts, every nesting, all data and all networks: what to_value returns, *)
(* what is stored of it, and what a merge makes of two values.             *)
(***************************************************************************)
EXTENDS ValueInsert, SequenceTheorems, FiniteSetTheorems, InductionLemmas

-----------------------------------------------------------------------------
(***************************************************************************)
(* The recursive functions, one level at a time.                           *)
(***************************************************************************)
ValuesOver(n, inner) ==
    [type : Plain, atom : Int, items : {<< >>}]
        \cup [type : {"String"}, atom : Texts, items : {<< >>}]
        \cup [type : {"Map"}, atom : {0}, items : [Texts -> inner \cup {None}]]
        \cup [type : {"Array"}, atom : {0}, items : Seq(inner)]

LEMMA ValuesUnfold ==
    \A n \in 0 .. Nesting : ValuesWithin[n] = ValuesOver(n, IF n = 0 THEN {} ELSE ValuesWithin[n - 1])
<1> DEFINE Turn(h, k) == ValuesOver(k, IF k = 0 THEN {} ELSE h[k - 1])
           To(h, m) == h = [k \in 0 .. m |-> Turn(h, k)]
           T == {m \in Nat : \E h : To(h, m)}
<1>1. 0 \in T
  <2>1. To([k \in 0 .. 0 |-> ValuesOver(0, {})], 0)
    OBVIOUS
  <2> QED
    BY <2>1
<1>2. ASSUME NEW m \in Nat, m \in T PROVE m + 1 \in T
  <2>1. PICK e : To(e, m)
    BY <1>2
  <2>2. PICK g : g = [k \in 0 .. m + 1 |-> IF k = m + 1 THEN ValuesOver(m + 1, e[m]) ELSE e[k]]
    OBVIOUS
  <2>3. \A k \in 0 .. m : g[k] = e[k] /\ e[k] = Turn(e, k)
    BY <2>1, <2>2
  <2>4. ASSUME NEW k \in 0 .. m + 1 PROVE g[k] = Turn(g, k)
    <3>1. k - 1 \in 0 .. m => g[k - 1] = e[k - 1]
      BY <2>3
    <3>2. k # 0 => k - 1 \in 0 .. m
      OBVIOUS
    <3>3. CASE k \in 0 .. m
      <4>1. (IF k = 0 THEN {} ELSE g[k - 1]) = (IF k = 0 THEN {} ELSE e[k - 1])
        BY <3>1, <3>2
      <4> QED
        BY <2>3, <3>3, <4>1
    <3>4. CASE k = m + 1
      <4>1. k # 0 /\ k - 1 = m /\ m \in 0 .. m
        BY <3>4
      <4>2. (IF k = 0 THEN {} ELSE g[k - 1]) = e[m]
        BY <3>1, <4>1
      <4> QED
        BY <2>2, <3>4, <4>2
    <3> QED
      BY <3>3, <3>4
  <2>5. To(g, m + 1)
    BY <2>2, <2>4
  <2> QED
    BY <2>5
<1>3. Nesting \in T
  <2> HIDE DEF T
  <2> QED
    BY <1>1, <1>2, Induction, ValuesAssumption
<1>4. ValuesWithin = CHOOSE h : To(h, Nesting)
  BY DEF ValuesWithin, ValuesOver
<1>5. To(ValuesWithin, Nesting)
  <2>1. \E h : To(h, Nesting)
    BY <1>3
  <2> HIDE DEF To
  <2> QED
    BY Zenon, <1>4, <2>1
<1>6. PICK W : W = ValuesWithin /\ To(W, Nesting)
  BY <1>5
<1> QED
  BY <1>6

SameOver(n, below) ==
    LET same(x, y) == IF None \in {x, y} THEN x = y ELSE below[x][y]
    IN  [v \in ValuesWithin[n] |-> [w \in ValuesWithin[n] |->
            /\ v.type = w.type
            /\ SameAtom(v.type, v.atom, w.atom)
            /\ DOMAIN v.items = DOMAIN w.items
            /\ \A k \in DOMAIN v.items : same(v.items[k], w.items[k])]]

LEMMA SameUnfold ==
    \A n \in 0 .. Nesting : SameWithin[n] = SameOver(n, IF n = 0 THEN << >> ELSE SameWithin[n - 1])
<1> DEFINE Turn(h, k) == SameOver(k, IF k = 0 THEN << >> ELSE h[k - 1])
           To(h, m) == h = [k \in 0 .. m |-> Turn(h, k)]
           T == {m \in Nat : \E h : To(h, m)}
<1>1. 0 \in T
  <2>1. To([k \in 0 .. 0 |-> SameOver(0, << >>)], 0)
    OBVIOUS
  <2> QED
    BY <2>1
<1>2. ASSUME NEW m \in Nat, m \in T PROVE m + 1 \in T
  <2>1. PICK e : To(e, m)
    BY <1>2
  <2>2. PICK g : g = [k \in 0 .. m + 1 |-> IF k = m + 1 THEN SameOver(m + 1, e[m]) ELSE e[k]]
    OBVIOUS
  <2>3. \A k \in 0 .. m : g[k] = e[k] /\ e[k] = Turn(e, k)
    BY <2>1, <2>2
  <2>4. ASSUME NEW k \in 0 .. m + 1 PROVE g[k] = Turn(g, k)
    <3>1. k - 1 \in 0 .. m => g[k - 1] = e[k - 1]
      BY <2>3
    <3>2. k # 0 => k - 1 \in 0 .. m
      OBVIOUS
    <3>3. CASE k \in 0 .. m
      <4>1. (IF k = 0 THEN << >> ELSE g[k - 1]) = (IF k = 0 THEN << >> ELSE e[k - 1])
        BY <3>1, <3>2
      <4> QED
        BY <2>3, <3>3, <4>1
    <3>4. CASE k = m + 1
      <4>1. k # 0 /\ k - 1 = m /\ m \in 0 .. m
        BY <3>4
      <4>2. (IF k = 0 THEN << >> ELSE g[k - 1]) = e[m]
        BY <3>1, <4>1
      <4> QED
        BY <2>2, <3>4, <4>2
    <3> QED
      BY <3>3, <3>4
  <2>5. To(g, m + 1)
    BY <2>2, <2>4
  <2> QED
    BY <2>5
<1>3. Nesting \in T
  <2> HIDE DEF T
  <2> QED
    BY <1>1, <1>2, Induction, ValuesAssumption
<1>4. SameWithin = CHOOSE h : To(h, Nesting)
  BY DEF SameWithin, SameOver
<1>5. To(SameWithin, Nesting)
  <2>1. \E h : To(h, Nesting)
    BY <1>3
  <2> HIDE DEF To
  <2> QED
    BY Zenon, <1>4, <2>1
<1>6. PICK W : W = SameWithin /\ To(W, Nesting)
  BY <1>5
<1> QED
  BY <1>6

MergeOver(n, below) ==
    LET both(x, y) == IF None \in {x, y} THEN y ELSE below[x][y]
    IN  [existing \in ValuesWithin[n] |-> [new \in ValuesWithin[n] |->
            CASE existing.type = "Map" /\ new.type = "Map" ->
                     MapOf(Over([k \in Texts |-> both(existing.items[k], new.items[k])],
                                existing.items))
              [] existing.type = "Array" /\ new.type = "Array" ->
                     ArrayOf(existing.items \o new.items)
              [] OTHER -> new]]

LEMMA MergeUnfold ==
    \A n \in 0 .. Nesting : MergeWithin[n] = MergeOver(n, IF n = 0 THEN << >> ELSE MergeWithin[n - 1])
<1> DEFINE Turn(h, k) == MergeOver(k, IF k = 0 THEN << >> ELSE h[k - 1])
           To(h, m) == h = [k \in 0 .. m |-> Turn(h, k)]
           T == {m \in Nat : \E h : To(h, m)}
<1>1. 0 \in T
  <2>1. To([k \in 0 .. 0 |-> MergeOver(0, << >>)], 0)
    OBVIOUS
  <2> QED
    BY <2>1
<1>2. ASSUME NEW m \in Nat, m \in T PROVE m + 1 \in T
  <2>1. PICK e : To(e, m)
    BY <1>2
  <2>2. PICK g : g = [k \in 0 .. m + 1 |-> IF k = m + 1 THEN MergeOver(m + 1, e[m]) ELSE e[k]]
    OBVIOUS
  <2>3. \A k \in 0 .. m : g[k] = e[k] /\ e[k] = Turn(e, k)
    BY <2>1, <2>2
  <2>4. ASSUME NEW k \in 0 .. m + 1 PROVE g[k] = Turn(g, k)
    <3>1. k - 1 \in 0 .. m => g[k - 1] = e[k - 1]
      BY <2>3
    <3>2. k # 0 => k - 1 \in 0 .. m
      OBVIOUS
    <3>3. CASE k \in 0 .. m
      <4>1. (IF k = 0 THEN << >> ELSE g[k - 1]) = (IF k = 0 THEN << >> ELSE e[k - 1])
        BY <3>1, <3>2
      <4> QED
        BY <2>3, <3>3, <4>1
    <3>4. CASE k = m + 1
      <4>1. k # 0 /\ k - 1 = m /\ m \in 0 .. m
        BY <3>4
      <4>2. (IF k = 0 THEN << >> ELSE g[k - 1]) = e[m]
        BY <3>1, <4>1
      <4> QED
        BY <2>2, <3>4, <4>2
    <3> QED
      BY <3>3, <3>4
  <2>5. To(g, m + 1)
    BY <2>2, <2>4
  <2> QED
    BY <2>5
<1>3. Nesting \in T
  <2> HIDE DEF T
  <2> QED
    BY <1>1, <1>2, Induction, ValuesAssumption
<1>4. MergeWithin = CHOOSE h : To(h, Nesting)
  BY DEF MergeWithin, MergeOver
<1>5. To(MergeWithin, Nesting)
  <2>1. \E h : To(h, Nesting)
    BY <1>3
  <2> HIDE DEF To
  <2> QED
    BY Zenon, <1>4, <2>1
<1>6. PICK W : W = MergeWithin /\ To(W, Nesting)
  BY <1>5
<1> QED
  BY <1>6

CallsOver(n, inner) ==
    LET parts(ops, keys) == [op : ops, key : keys, of : inner]
        calls(names, atoms, sequences) == [call : names, atom : atoms, parts : sequences]
        textual  == {"char", "str", "unit_variant"}
        elements == Seq(parts({"element"}, {None}))
        fields   == Seq(parts({"field"}, Texts))
    IN  calls(textual, Texts, {<< >>})
            \cup calls(((DOMAIN ScalarType) \ textual) \cup DOMAIN Refusal \cup Units, Int, {<< >>})
            \cup calls(Wrappers, {0}, [1 .. 1 -> parts({"inner"}, {None})])
            \cup calls(Lists, {0}, elements) \cup calls({"tuple_variant"}, Texts, elements)
            \cup calls({"map"}, {0}, Seq(parts({"key", "value"}, {None})))
            \cup calls({"struct"}, {0}, fields)
            \cup calls({"struct_variant"}, Texts, fields)
            \cup calls({"newtype_variant"}, Texts, [1 .. 1 -> parts({"field"}, Texts)])

LEMMA CallsUnfold ==
    \A n \in 0 .. Nesting : CallsWithin[n] = CallsOver(n, IF n = 0 THEN {} ELSE CallsWithin[n - 1])
<1> DEFINE Turn(h, k) == CallsOver(k, IF k = 0 THEN {} ELSE h[k - 1])
           To(h, m) == h = [k \in 0 .. m |-> Turn(h, k)]
           T == {m \in Nat : \E h : To(h, m)}
<1>1. 0 \in T
  <2>1. To([k \in 0 .. 0 |-> CallsOver(0, {})], 0)
    OBVIOUS
  <2> QED
    BY <2>1
<1>2. ASSUME NEW m \in Nat, m \in T PROVE m + 1 \in T
  <2>1. PICK e : To(e, m)
    BY <1>2
  <2>2. PICK g : g = [k \in 0 .. m + 1 |-> IF k = m + 1 THEN CallsOver(m + 1, e[m]) ELSE e[k]]
    OBVIOUS
  <2>3. \A k \in 0 .. m : g[k] = e[k] /\ e[k] = Turn(e, k)
    BY <2>1, <2>2
  <2>4. ASSUME NEW k \in 0 .. m + 1 PROVE g[k] = Turn(g, k)
    <3>1. k - 1 \in 0 .. m => g[k - 1] = e[k - 1]
      BY <2>3
    <3>2. k # 0 => k - 1 \in 0 .. m
      OBVIOUS
    <3>3. CASE k \in 0 .. m
      <4>1. (IF k = 0 THEN {} ELSE g[k - 1]) = (IF k = 0 THEN {} ELSE e[k - 1])
        BY <3>1, <3>2
      <4> QED
        BY <2>3, <3>3, <4>1
    <3>4. CASE k = m + 1
      <4>1. k # 0 /\ k - 1 = m /\ m \in 0 .. m
        BY <3>4
      <4>2. (IF k = 0 THEN {} ELSE g[k - 1]) = e[m]
        BY <3>1, <4>1
      <4> QED
        BY <2>2, <3>4, <4>2
    <3> QED
      BY <3>3, <3>4
  <2>5. To(g, m + 1)
    BY <2>2, <2>4
  <2> QED
    BY <2>5
<1>3. Nesting \in T
  <2> HIDE DEF T
  <2> QED
    BY <1>1, <1>2, Induction, ValuesAssumption
<1>4. CallsWithin = CHOOSE h : To(h, Nesting)
  BY DEF CallsWithin, CallsOver
<1>5. To(CallsWithin, Nesting)
  <2>1. \E h : To(h, Nesting)
    BY <1>3
  <2> HIDE DEF To
  <2> QED
    BY Zenon, <1>4, <2>1
<1>6. PICK W : W = CallsWithin /\ To(W, Nesting)
  BY <1>5
<1> QED
  BY <1>6

DataOver(n, below) ==
    LET key(k)    == Part("key", None, Datum("str", k, << >>))
        value(v, k) == Part("value", None, below[v.items[k]])
        entries(v, keys) == [i \in 1 .. 2 * Len(keys) |->
                                IF i % 2 = 1 THEN key(keys[(i + 1) \div 2]) ELSE value(v, keys[i \div 2])]
    IN  [v \in ValuesWithin[n] |->
            CASE v.type = "Map"   -> Datum("map", 0, entries(v, SetToSeq(KeysOf(v))))
              [] v.type = "Array" ->
                     Datum("seq", 0, [i \in DOMAIN v.items |-> Part("element", None, below[v.items[i]])])
              [] OTHER -> Datum(SerializedAs[v.type], v.atom, << >>)]

LEMMA DataUnfold ==
    \A n \in 0 .. Nesting : DataWithin[n] = DataOver(n, IF n = 0 THEN << >> ELSE DataWithin[n - 1])
<1> DEFINE Turn(h, k) == DataOver(k, IF k = 0 THEN << >> ELSE h[k - 1])
           To(h, m) == h = [k \in 0 .. m |-> Turn(h, k)]
           T == {m \in Nat : \E h : To(h, m)}
<1>1. 0 \in T
  <2>1. To([k \in 0 .. 0 |-> DataOver(0, << >>)], 0)
    OBVIOUS
  <2> QED
    BY <2>1
<1>2. ASSUME NEW m \in Nat, m \in T PROVE m + 1 \in T
  <2>1. PICK e : To(e, m)
    BY <1>2
  <2>2. PICK g : g = [k \in 0 .. m + 1 |-> IF k = m + 1 THEN DataOver(m + 1, e[m]) ELSE e[k]]
    OBVIOUS
  <2>3. \A k \in 0 .. m : g[k] = e[k] /\ e[k] = Turn(e, k)
    BY <2>1, <2>2
  <2>4. ASSUME NEW k \in 0 .. m + 1 PROVE g[k] = Turn(g, k)
    <3>1. k - 1 \in 0 .. m => g[k - 1] = e[k - 1]
      BY <2>3
    <3>2. k # 0 => k - 1 \in 0 .. m
      OBVIOUS
    <3>3. CASE k \in 0 .. m
      <4>1. (IF k = 0 THEN << >> ELSE g[k - 1]) = (IF k = 0 THEN << >> ELSE e[k - 1])
        BY <3>1, <3>2
      <4> QED
        BY <2>3, <3>3, <4>1
    <3>4. CASE k = m + 1
      <4>1. k # 0 /\ k - 1 = m /\ m \in 0 .. m
        BY <3>4
      <4>2. (IF k = 0 THEN << >> ELSE g[k - 1]) = e[m]
        BY <3>1, <4>1
      <4> QED
        BY <2>2, <3>4, <4>2
    <3> QED
      BY <3>3, <3>4
  <2>5. To(g, m + 1)
    BY <2>2, <2>4
  <2> QED
    BY <2>5
<1>3. Nesting \in T
  <2> HIDE DEF T
  <2> QED
    BY <1>1, <1>2, Induction, ValuesAssumption
<1>4. DataWithin = CHOOSE h : To(h, Nesting)
  BY DEF DataWithin, DataOver
<1>5. To(DataWithin, Nesting)
  <2>1. \E h : To(h, Nesting)
    BY <1>3
  <2> HIDE DEF To
  <2> QED
    BY Zenon, <1>4, <2>1
<1>6. PICK W : W = DataWithin /\ To(W, Nesting)
  BY <1>5
<1> QED
  BY <1>6

VisitedOver(n, below) ==
    LET results(t) == [i \in DOMAIN t.parts |-> VisitedPart(t.parts[i], below[t.parts[i].of])]
        pair(t, i) == [key |-> t.parts[2 * i - 1].of.atom, value |-> results(t)[2 * i].value]
    IN  [t \in CallsWithin[n] |->
            CASE t.call \in DOMAIN VisitType -> Some(Leaf(VisitType[t.call], t.atom))
              [] t.call = "i64" -> IF t.atom \in (0 - I32Max) - 1 .. I32Max
                                   THEN Some(Leaf("I32", t.atom)) ELSE Err("custom")
              [] t.call \in {"seq", "map"} /\ Failures(results(t)) # {} -> FirstError(results(t))
              [] t.call = "seq" /\ Failures(results(t)) = {} ->
                     Some(ArrayOf([i \in DOMAIN t.parts |-> results(t)[i].value]))
              [] t.call = "map" /\ Failures(results(t)) = {} ->
                     Some(ValueMap([i \in 1 .. Len(t.parts) \div 2 |-> pair(t, i)]))
              [] OTHER -> Err("custom")]

LEMMA VisitedUnfold ==
    \A n \in 0 .. Nesting : VisitedWithin[n] = VisitedOver(n, IF n = 0 THEN << >> ELSE VisitedWithin[n - 1])
<1> DEFINE Turn(h, k) == VisitedOver(k, IF k = 0 THEN << >> ELSE h[k - 1])
           To(h, m) == h = [k \in 0 .. m |-> Turn(h, k)]
           T == {m \in Nat : \E h : To(h, m)}
<1>1. 0 \in T
  <2>1. To([k \in 0 .. 0 |-> VisitedOver(0, << >>)], 0)
    OBVIOUS
  <2> QED
    BY <2>1
<1>2. ASSUME NEW m \in Nat, m \in T PROVE m + 1 \in T
  <2>1. PICK e : To(e, m)
    BY <1>2
  <2>2. PICK g : g = [k \in 0 .. m + 1 |-> IF k = m + 1 THEN VisitedOver(m + 1, e[m]) ELSE e[k]]
    OBVIOUS
  <2>3. \A k \in 0 .. m : g[k] = e[k] /\ e[k] = Turn(e, k)
    BY <2>1, <2>2
  <2>4. ASSUME NEW k \in 0 .. m + 1 PROVE g[k] = Turn(g, k)
    <3>1. k - 1 \in 0 .. m => g[k - 1] = e[k - 1]
      BY <2>3
    <3>2. k # 0 => k - 1 \in 0 .. m
      OBVIOUS
    <3>3. CASE k \in 0 .. m
      <4>1. (IF k = 0 THEN << >> ELSE g[k - 1]) = (IF k = 0 THEN << >> ELSE e[k - 1])
        BY <3>1, <3>2
      <4> QED
        BY <2>3, <3>3, <4>1
    <3>4. CASE k = m + 1
      <4>1. k # 0 /\ k - 1 = m /\ m \in 0 .. m
        BY <3>4
      <4>2. (IF k = 0 THEN << >> ELSE g[k - 1]) = e[m]
        BY <3>1, <4>1
      <4> QED
        BY <2>2, <3>4, <4>2
    <3> QED
      BY <3>3, <3>4
  <2>5. To(g, m + 1)
    BY <2>2, <2>4
  <2> QED
    BY <2>5
<1>3. Nesting \in T
  <2> HIDE DEF T
  <2> QED
    BY <1>1, <1>2, Induction, ValuesAssumption
<1>4. VisitedWithin = CHOOSE h : To(h, Nesting)
  BY DEF VisitedWithin, VisitedOver
<1>5. To(VisitedWithin, Nesting)
  <2>1. \E h : To(h, Nesting)
    BY <1>3
  <2> HIDE DEF To
  <2> QED
    BY Zenon, <1>4, <2>1
<1>6. PICK W : W = VisitedWithin /\ To(W, Nesting)
  BY <1>5
<1> QED
  BY <1>6

PartKey(below, t, i) ==
    IF t.parts[i].op = "value" THEN KeyBefore(below, t, i) ELSE t.parts[i].key

PartResults(below, t) == [i \in DOMAIN t.parts |-> PartResult(below, t, i)]
PartKeys(below, t)    == [i \in DOMAIN t.parts |-> PartKey(below, t, i)]

Became(below, t) ==
    CASE t.call \in DOMAIN FromType            -> Some(ValueFrom(t.call, t.atom))
      [] t.call \in {"char", "unit_variant"}   -> Some(ValueFrom("str", t.atom))
      [] t.call = "i64"                        -> Err("UnsupportedValue")
      [] t.call = "i128"                       -> Err("Serialize")
      [] t.call \in Units                      -> Absent
      [] t.call \in Wrappers                   -> below[t.parts[1].of]
      [] t.call \in Compounds                  ->
             Assembled(t, PartResults(below, t), PartKeys(below, t))

ProjectionOver(n, below) == [t \in CallsWithin[n] |-> Became(below, t)]

LEMMA ProjectionUnfold ==
    \A n \in 0 .. Nesting : ProjectionWithin[n] = ProjectionOver(n, IF n = 0 THEN << >> ELSE ProjectionWithin[n - 1])
<1> DEFINE Turn(h, k) == ProjectionOver(k, IF k = 0 THEN << >> ELSE h[k - 1])
           To(h, m) == h = [k \in 0 .. m |-> Turn(h, k)]
           T == {m \in Nat : \E h : To(h, m)}
<1>1. 0 \in T
  <2>1. To([k \in 0 .. 0 |-> ProjectionOver(0, << >>)], 0)
    OBVIOUS
  <2> QED
    BY <2>1
<1>2. ASSUME NEW m \in Nat, m \in T PROVE m + 1 \in T
  <2>1. PICK e : To(e, m)
    BY <1>2
  <2>2. PICK g : g = [k \in 0 .. m + 1 |-> IF k = m + 1 THEN ProjectionOver(m + 1, e[m]) ELSE e[k]]
    OBVIOUS
  <2>3. \A k \in 0 .. m : g[k] = e[k] /\ e[k] = Turn(e, k)
    BY <2>1, <2>2
  <2>4. ASSUME NEW k \in 0 .. m + 1 PROVE g[k] = Turn(g, k)
    <3>1. k - 1 \in 0 .. m => g[k - 1] = e[k - 1]
      BY <2>3
    <3>2. k # 0 => k - 1 \in 0 .. m
      OBVIOUS
    <3>3. CASE k \in 0 .. m
      <4>1. (IF k = 0 THEN << >> ELSE g[k - 1]) = (IF k = 0 THEN << >> ELSE e[k - 1])
        BY <3>1, <3>2
      <4> QED
        BY <2>3, <3>3, <4>1
    <3>4. CASE k = m + 1
      <4>1. k # 0 /\ k - 1 = m /\ m \in 0 .. m
        BY <3>4
      <4>2. (IF k = 0 THEN << >> ELSE g[k - 1]) = e[m]
        BY <3>1, <4>1
      <4> QED
        BY <2>2, <3>4, <4>2
    <3> QED
      BY <3>3, <3>4
  <2>5. To(g, m + 1)
    BY <2>2, <2>4
  <2> QED
    BY <2>5
<1>3. Nesting \in T
  <2> HIDE DEF T
  <2> QED
    BY <1>1, <1>2, Induction, ValuesAssumption
<1>4. ProjectionWithin = CHOOSE h : To(h, Nesting)
  BY DEF ProjectionWithin, ProjectionOver, Became, PartResults, PartKeys, PartKey
<1>5. To(ProjectionWithin, Nesting)
  <2>1. \E h : To(h, Nesting)
    BY <1>3
  <2> HIDE DEF To
  <2> QED
    BY Zenon, <1>4, <2>1
<1>6. PICK W : W = ProjectionWithin /\ To(W, Nesting)
  BY <1>5
<1> QED
  BY <1>6

-----------------------------------------------------------------------------
(***************************************************************************)
(* The values of each nesting.                                             *)
(***************************************************************************)
Inner(n) == IF n = 0 THEN {} ELSE ValuesWithin[n - 1]

LEMMA ValueCases ==
    ASSUME NEW n \in 0 .. Nesting, NEW v \in ValuesWithin[n]
    PROVE  \/ v.type \in Plain /\ v.atom \in Int /\ v.items = << >> /\ v = Leaf(v.type, v.atom)
           \/ v.type = "String" /\ v.atom \in Texts /\ v.items = << >> /\ v = Leaf("String", v.atom)
           \/ v.type = "Map" /\ v.items \in [Texts -> Inner(n) \cup {None}] /\ v = MapOf(v.items)
           \/ v.type = "Array" /\ v.items \in Seq(Inner(n)) /\ v = ArrayOf(v.items)
<1>1. v \in ValuesOver(n, Inner(n))
  BY ValuesUnfold DEF Inner
<1>2. CASE v \in [type : Plain, atom : Int, items : {<< >>}]
  BY <1>2 DEF Leaf
<1>3. CASE v \in [type : {"String"}, atom : Texts, items : {<< >>}]
  BY <1>3 DEF Leaf
<1>4. CASE v \in [type : {"Map"}, atom : {0}, items : [Texts -> Inner(n) \cup {None}]]
  BY <1>4 DEF MapOf
<1>5. CASE v \in [type : {"Array"}, atom : {0}, items : Seq(Inner(n))]
  BY <1>5 DEF ArrayOf
<1> QED
  BY <1>1, <1>2, <1>3, <1>4, <1>5 DEF ValuesOver

LEMMA ValueTypes ==
    ASSUME NEW n \in 0 .. Nesting
    PROVE  /\ \A type \in Plain, atom \in Int : Leaf(type, atom) \in ValuesWithin[n]
           /\ \A atom \in Texts : Leaf("String", atom) \in ValuesWithin[n]
           /\ \A entries \in [Texts -> Inner(n) \cup {None}] : MapOf(entries) \in ValuesWithin[n]
           /\ \A items \in Seq(Inner(n)) : ArrayOf(items) \in ValuesWithin[n]
<1>1. ValuesWithin[n] = ValuesOver(n, Inner(n))
  BY ValuesUnfold DEF Inner
<1> QED
  BY <1>1 DEF ValuesOver, Leaf, MapOf, ArrayOf

LEMMA ValuesGrow ==
    \A n \in Nat : n + 1 <= Nesting => ValuesWithin[n] \subseteq ValuesWithin[n + 1]
<1> DEFINE T == {n \in Nat : n + 1 <= Nesting => ValuesWithin[n] \subseteq ValuesWithin[n + 1]}
<1>1. ASSUME NEW n \in Nat, n + 1 <= Nesting, Inner(n) \subseteq Inner(n + 1)
      PROVE  ValuesWithin[n] \subseteq ValuesWithin[n + 1]
  <2>1. n \in 0 .. Nesting /\ n + 1 \in 0 .. Nesting
    BY <1>1, ValuesAssumption
  <2>2. SUFFICES ASSUME NEW v \in ValuesWithin[n] PROVE v \in ValuesWithin[n + 1]
    OBVIOUS
  <2>3. CASE v.type \in Plain /\ v.atom \in Int /\ v = Leaf(v.type, v.atom)
    BY <2>1, <2>3, ValueTypes
  <2>4. CASE v.atom \in Texts /\ v = Leaf("String", v.atom)
    BY <2>1, <2>4, ValueTypes
  <2>5. CASE v.items \in [Texts -> Inner(n) \cup {None}] /\ v = MapOf(v.items)
    <3>1. v.items \in [Texts -> Inner(n + 1) \cup {None}]
      BY <1>1, <2>5
    <3> QED
      BY <2>1, <2>5, <3>1, ValueTypes
  <2>6. CASE v.items \in Seq(Inner(n)) /\ v = ArrayOf(v.items)
    <3>1. v.items \in Seq(Inner(n + 1))
      BY <1>1, <2>6
    <3> QED
      BY <2>1, <2>6, <3>1, ValueTypes
  <2> QED
    BY <2>1, <2>3, <2>4, <2>5, <2>6, ValueCases
<1>2. 0 \in T
  BY <1>1 DEF Inner
<1>3. ASSUME NEW n \in Nat, n \in T PROVE n + 1 \in T
  <2>1. n + 2 <= Nesting => Inner(n + 1) \subseteq Inner(n + 2)
    BY <1>3, ValuesAssumption DEF Inner
  <2> QED
    BY <1>1, <2>1, ValuesAssumption
<1> HIDE DEF T
<1>4. \A n \in Nat : n \in T
  BY <1>2, <1>3, Induction
<1> QED
  BY <1>4 DEF T

LEMMA ValuesNested ==
    ASSUME NEW n \in 0 .. Nesting
    PROVE  ValuesWithin[n] \subseteq AnyValue /\ Inner(n) \subseteq AnyValue /\ None \notin Inner(n)
<1> DEFINE T == {k \in Nat : k <= Nesting => ValuesWithin[Nesting - k] \subseteq AnyValue}
<1>1. 0 \in T
  BY ValuesAssumption DEF AnyValue
<1>2. ASSUME NEW k \in Nat, k \in T PROVE k + 1 \in T
  <2>1. CASE k + 1 <= Nesting
    <3>1. Nesting - (k + 1) \in Nat /\ (Nesting - (k + 1)) + 1 = Nesting - k /\ Nesting - k <= Nesting
      BY <2>1, ValuesAssumption
    <3>2. ValuesWithin[Nesting - (k + 1)] \subseteq ValuesWithin[Nesting - k]
      BY <3>1, ValuesGrow
    <3> QED
      BY <1>2, <2>1, <3>2, ValuesAssumption
  <2> QED
    BY <2>1
<1> HIDE DEF T
<1>3. \A k \in Nat : k \in T
  BY <1>1, <1>2, Induction
<1>4. \A m \in 0 .. Nesting : ValuesWithin[m] \subseteq AnyValue
  <2> SUFFICES ASSUME NEW m \in 0 .. Nesting PROVE ValuesWithin[m] \subseteq AnyValue
    OBVIOUS
  <2>1. Nesting - m \in Nat /\ Nesting - m <= Nesting /\ Nesting - (Nesting - m) = m
    BY ValuesAssumption
  <2> QED
    BY <1>3, <2>1 DEF T
<1>5. Inner(n) \subseteq AnyValue
  <2>1. n # 0 => n - 1 \in 0 .. Nesting
    BY ValuesAssumption
  <2> QED
    BY <1>4, <2>1 DEF Inner
<1> QED
  BY <1>4, <1>5, ValuesAssumption

-----------------------------------------------------------------------------
(***************************************************************************)
(* Equality and the pool.                                                  *)
(***************************************************************************)
SameAlike(n) ==
    \A v, w \in ValuesWithin[n] : SameWithin[n][v][w] <=> v = w

LEMMA SameStep ==
    ASSUME NEW n \in 0 .. Nesting, n # 0 => SameAlike(n - 1)
    PROVE  SameAlike(n)
<1> SUFFICES ASSUME NEW v \in ValuesWithin[n], NEW w \in ValuesWithin[n]
             PROVE  SameWithin[n][v][w] <=> v = w
  BY DEF SameAlike
<1> DEFINE below == IF n = 0 THEN << >> ELSE SameWithin[n - 1]
           same(x, y) == IF None \in {x, y} THEN x = y ELSE below[x][y]
<1>1. SameWithin[n][v][w] <=>
        /\ v.type = w.type
        /\ SameAtom(v.type, v.atom, w.atom)
        /\ DOMAIN v.items = DOMAIN w.items
        /\ \A k \in DOMAIN v.items : same(v.items[k], w.items[k])
  <2>1. SameWithin[n] = SameOver(n, below)
    BY SameUnfold
  <2> HIDE DEF below
  <2> QED
    BY SMTT(30), <2>1 DEF SameOver
<1>2. \A x, y \in Inner(n) \cup {None} : same(x, y) <=> x = y
  BY DEF Inner, SameAlike
<1> HIDE DEF below, same
<1>3. CASE v.type = "Map" /\ w.type = "Map"
  <2>1. v.items \in [Texts -> Inner(n) \cup {None}] /\ v = MapOf(v.items)
    BY <1>3, ValueCases DEF Plain, Floating
  <2>2. w.items \in [Texts -> Inner(n) \cup {None}] /\ w = MapOf(w.items)
    BY <1>3, ValueCases DEF Plain, Floating
  <2>3. v.atom = 0 /\ w.atom = 0
    BY <2>1, <2>2 DEF MapOf
  <2>4. (\A k \in Texts : v.items[k] = w.items[k]) <=> v.items = w.items
    BY <2>1, <2>2
  <2>5. v.items = w.items <=> v = w
    BY <2>1, <2>2
  <2> QED
    BY <1>1, <1>2, <1>3, <2>1, <2>2, <2>3, <2>4, <2>5 DEF SameAtom
<1>4. CASE v.type = "Array" /\ w.type = "Array"
  <2>1. v.items \in Seq(Inner(n)) /\ v = ArrayOf(v.items)
    BY <1>4, ValueCases DEF Plain, Floating
  <2>2. w.items \in Seq(Inner(n)) /\ w = ArrayOf(w.items)
    BY <1>4, ValueCases DEF Plain, Floating
  <2>3. v.atom = 0 /\ w.atom = 0
    BY <2>1, <2>2 DEF ArrayOf
  <2>4. v.items = w.items <=> DOMAIN v.items = DOMAIN w.items
                                /\ \A k \in DOMAIN v.items : v.items[k] = w.items[k]
    <3>1. PICK f, g : f = v.items /\ g = w.items
      OBVIOUS
    <3>2. f = [k \in DOMAIN f |-> f[k]] /\ g = [k \in DOMAIN g |-> g[k]]
      BY <2>1, <2>2, <3>1
    <3>3. DOMAIN f = DOMAIN g /\ (\A k \in DOMAIN f : f[k] = g[k]) => f = g
      BY ONLY <3>2
    <3> QED
      BY <3>1, <3>3
  <2>5. v.items = w.items <=> v = w
    BY <2>1, <2>2
  <2>6. DOMAIN v.items = DOMAIN w.items =>
            \A k \in DOMAIN v.items : v.items[k] \in Inner(n) /\ w.items[k] \in Inner(n)
    BY <2>1, <2>2
  <2>7. DOMAIN v.items = DOMAIN w.items =>
            ((\A k \in DOMAIN v.items : same(v.items[k], w.items[k]))
                <=> \A k \in DOMAIN v.items : v.items[k] = w.items[k])
    BY <1>2, <2>6
  <2>8. v.type = w.type /\ SameAtom(v.type, v.atom, w.atom)
    BY <1>4, <2>3 DEF SameAtom
  <2>9. CASE DOMAIN v.items = DOMAIN w.items
    <3> DEFINE alike == \A k \in DOMAIN v.items : same(v.items[k], w.items[k])
               equal == \A k \in DOMAIN v.items : v.items[k] = w.items[k]
    <3>1. SameWithin[n][v][w] <=> alike
      BY <1>1, <2>8, <2>9
    <3>2. alike <=> equal
      BY <2>7, <2>9
    <3>3. v = w <=> equal
      BY <2>4, <2>5, <2>9
    <3> QED
      BY <3>1, <3>2, <3>3
  <2>10. CASE DOMAIN v.items # DOMAIN w.items
    BY <1>1, <2>10
  <2> QED
    BY <2>9, <2>10
<1>5. CASE v.type \in Plain \cup {"String"} /\ v.items = << >> /\ v = Leaf(v.type, v.atom)
  <2>1. CASE v.type = w.type
    <3>1. w.items = << >> /\ w = Leaf(w.type, w.atom)
      BY <1>5, <2>1, ValueCases DEF Plain, Floating
    <3>2. v.atom = w.atom <=> v = w
      BY <1>5, <2>1, <3>1
    <3>3. DOMAIN v.items = DOMAIN w.items /\ DOMAIN v.items = {}
      BY <1>5, <3>1
    <3> QED
      BY <1>1, <2>1, <3>2, <3>3 DEF SameAtom
  <2> QED
    BY <1>1, <2>1
<1>6. CASE v.type # w.type
  BY <1>1, <1>6
<1>7. \/ v.type \in Plain \cup {"String"} /\ v.items = << >> /\ v = Leaf(v.type, v.atom)
      \/ v.type = "Map" \/ v.type = "Array"
  BY ValueCases
<1> QED
  BY <1>3, <1>4, <1>5, <1>6, <1>7

(* PartialEq and the hash agree, and both tell apart whatever is not the same bit for bit. *)
LEMMA SameIsEqual ==
    \A v, w \in AnyValue : SameValue(v, w) <=> v = w
<1> DEFINE T == {n \in Nat : n <= Nesting => SameAlike(n)}
<1>1. 0 \in T
  BY SameStep, ValuesAssumption
<1>2. ASSUME NEW n \in Nat, n \in T PROVE n + 1 \in T
  BY <1>2, SameStep, ValuesAssumption
<1> HIDE DEF T
<1>3. Nesting \in T
  BY <1>1, <1>2, Induction, ValuesAssumption
<1> QED
  BY <1>3, ValuesAssumption DEF T, SameAlike, SameValue, AnyValue

(* pool with v in it, at the number id, and nothing moved. *)
InternedIn(pool, v, r) ==
    /\ r.pool \in Seq(AnyValue) /\ r.id \in DOMAIN r.pool /\ r.pool[r.id] = v
    /\ \A i \in DOMAIN pool : i \in DOMAIN r.pool /\ r.pool[i] = pool[i]
    /\ IsInjective(pool) => IsInjective(r.pool)

LEMMA InternRight ==
    ASSUME NEW pool \in Seq(AnyValue), NEW v \in AnyValue
    PROVE  InternedIn(pool, v, Intern(pool, v))
<1>1. Indexed(pool, v) = {i \in DOMAIN pool : pool[i] = v}
  BY SameIsEqual DEF Indexed, Hashed
<1>2. CASE Indexed(pool, v) = {}
  <2>1. Intern(pool, v).pool = Append(pool, v) /\ Intern(pool, v).id = Len(pool) + 1
    BY <1>2 DEF Intern
  <2>2. PICK p : p = Append(pool, v)
    OBVIOUS
  <2>3. /\ p \in Seq(AnyValue) /\ DOMAIN p = 1 .. Len(pool) + 1 /\ p[Len(pool) + 1] = v
        /\ \A i \in DOMAIN pool : i \in DOMAIN p /\ p[i] = pool[i] /\ p[i] # v
        /\ \A i \in DOMAIN p : i \in DOMAIN pool \/ i = Len(pool) + 1
    BY <1>1, <1>2, <2>2
  <2>4. IsInjective(pool) => IsInjective(p)
    BY <2>3 DEF IsInjective
  <2> QED
    BY <2>1, <2>2, <2>3, <2>4 DEF InternedIn
<1>3. CASE Indexed(pool, v) # {}
  <2>1. Intern(pool, v).pool = pool /\ Intern(pool, v).id = Min(Indexed(pool, v))
    BY <1>3 DEF Intern
  <2>2. Indexed(pool, v) \subseteq Nat
    BY <1>1
  <2>3. \E x \in Indexed(pool, v) : \A y \in Indexed(pool, v) : x <= y
    BY <1>3, <2>2, Least
  <2>4. Min(Indexed(pool, v)) \in Indexed(pool, v)
    BY <2>3 DEF Min
  <2> QED
    BY <1>1, <2>1, <2>4 DEF InternedIn
<1> QED
  BY <1>2, <1>3

-----------------------------------------------------------------------------
(***************************************************************************)
(* The calls of each nesting.                                              *)
(***************************************************************************)
CallInner(n) == IF n = 0 THEN {} ELSE CallsWithin[n - 1]

Ops == {"inner", "element", "key", "value", "field"}

AnyPart(inner) == [op : Ops, key : Texts \cup {None}, of : inner]

Textual == {"char", "str", "unit_variant"}
Bare    == ((DOMAIN ScalarType) \ Textual) \cup DOMAIN Refusal \cup Units

(* What the traits let a caller say. *)
WellCalled(t) ==
    \/ t.call \in Textual /\ t.atom \in Texts /\ t.parts = << >>
    \/ t.call \in Bare /\ t.atom \in Int /\ t.parts = << >>
    \/ t.call \in Wrappers /\ Len(t.parts) = 1 /\ t.atom = 0 /\ t.parts[1].op = "inner"
    \/ /\ t.call \in Lists \cup {"tuple_variant"}
       /\ t.call = "tuple_variant" => t.atom \in Texts
       /\ \A i \in DOMAIN t.parts : t.parts[i].op = "element"
    \/ /\ t.call = "map"
       /\ \A i \in DOMAIN t.parts : t.parts[i].op \in {"key", "value"}
    \/ /\ t.call \in {"struct", "struct_variant", "newtype_variant"}
       /\ t.call # "struct" => t.atom \in Texts
       /\ \A i \in DOMAIN t.parts : t.parts[i].op = "field" /\ t.parts[i].key \in Texts

Single(S) == [1 .. 1 -> S]

LEMMA SingleIsSeq ==
    ASSUME NEW S, NEW p \in Single(S)
    PROVE  p \in Seq(S) /\ Len(p) = 1 /\ p[1] \in S
<1>1. p \in [1 .. 1 -> S] /\ 1 \in Nat /\ 1 \in 1 .. 1
  BY DEF Single
<1>2. p \in Seq(S)
  BY <1>1, SeqDef
<1> QED
  BY <1>1, <1>2

LEMMA SeqGrows ==
    ASSUME NEW S, NEW T, S \subseteq T
    PROVE  Seq(S) \subseteq Seq(T)
  OBVIOUS

LEMMA SeqItems ==
    ASSUME NEW S, NEW p \in Seq(S), NEW i \in DOMAIN p
    PROVE  p[i] \in S
  OBVIOUS

LEMMA CallCases ==
    ASSUME NEW n \in 0 .. Nesting, NEW t \in CallsWithin[n]
    PROVE  /\ t = Datum(t.call, t.atom, t.parts)
           /\ t.parts \in Seq(AnyPart(CallInner(n)))
           /\ WellCalled(t)
<1> DEFINE inner == CallInner(n)
           parts(ops, keys) == [op : ops, key : keys, of : inner]
           elements == Seq(parts({"element"}, {None}))
           fields == Seq(parts({"field"}, Texts))
           entries == Seq(parts({"key", "value"}, {None}))
<1>1. t \in CallsOver(n, inner)
  BY CallsUnfold DEF CallInner
<1>2. \/ t \in [call : Textual, atom : Texts, parts : {<< >>}]
      \/ t \in [call : Bare, atom : Int, parts : {<< >>}]
      \/ t \in [call : Wrappers, atom : {0}, parts : Single(parts({"inner"}, {None}))]
      \/ t \in [call : Lists, atom : {0}, parts : elements]
      \/ t \in [call : {"tuple_variant"}, atom : Texts, parts : elements]
      \/ t \in [call : {"map"}, atom : {0}, parts : entries]
      \/ t \in [call : {"struct"}, atom : {0}, parts : fields]
      \/ t \in [call : {"struct_variant"}, atom : Texts, parts : fields]
      \/ t \in [call : {"newtype_variant"}, atom : Texts, parts : Single(parts({"field"}, Texts))]
  <2> HIDE DEF inner
  <2> QED
    BY <1>1 DEF CallsOver, Textual, Bare, Single
<1>3. \A ops, keys : ops \subseteq Ops /\ keys \subseteq Texts \cup {None}
                        => parts(ops, keys) \subseteq AnyPart(inner)
  <2> HIDE DEF inner
  <2> QED
    BY DEF AnyPart
<1>4. << >> \in Seq(AnyPart(inner))
  OBVIOUS
<1>5. \A ops, keys : ops \subseteq Ops /\ keys \subseteq Texts \cup {None}
                        => Seq(parts(ops, keys)) \subseteq Seq(AnyPart(inner))
  <2> HIDE DEF parts, inner
  <2> QED
    BY <1>3, SeqGrows
<1>6. \A p \in elements : \A i \in DOMAIN p : p[i].op = "element"
  <2> SUFFICES ASSUME NEW p \in elements, NEW i \in DOMAIN p
               PROVE  p[i].op = "element"
    OBVIOUS
  <2>1. p[i] \in parts({"element"}, {None})
    BY SeqItems
  <2> QED
    BY <2>1
<1>7. \A p \in entries : \A i \in DOMAIN p : p[i].op \in {"key", "value"}
  <2> SUFFICES ASSUME NEW p \in entries, NEW i \in DOMAIN p
               PROVE  p[i].op \in {"key", "value"}
    OBVIOUS
  <2>1. p[i] \in parts({"key", "value"}, {None})
    BY SeqItems
  <2> QED
    BY <2>1
<1>8. \A p \in fields : \A i \in DOMAIN p : p[i].op = "field" /\ p[i].key \in Texts
  <2> SUFFICES ASSUME NEW p \in fields, NEW i \in DOMAIN p
               PROVE  p[i].op = "field" /\ p[i].key \in Texts
    OBVIOUS
  <2>1. p[i] \in parts({"field"}, Texts)
    BY SeqItems
  <2> QED
    BY <2>1
<1>9. \A p \in Single(parts({"inner"}, {None})) :
          p \in Seq(AnyPart(inner)) /\ Len(p) = 1 /\ p[1].op = "inner"
  <2> SUFFICES ASSUME NEW p \in Single(parts({"inner"}, {None}))
               PROVE  p \in Seq(AnyPart(inner)) /\ Len(p) = 1 /\ p[1].op = "inner"
    OBVIOUS
  <2>1. p \in Seq(parts({"inner"}, {None})) /\ Len(p) = 1 /\ p[1] \in parts({"inner"}, {None})
    BY SingleIsSeq
  <2> QED
    BY <1>5, <2>1 DEF Ops
<1>10. \A p \in Single(parts({"field"}, Texts)) :
          p \in Seq(AnyPart(inner)) /\ \A i \in DOMAIN p : p[i].op = "field" /\ p[i].key \in Texts
  <2> SUFFICES ASSUME NEW p \in Single(parts({"field"}, Texts))
               PROVE  p \in Seq(AnyPart(inner)) /\ p \in fields
    BY <1>8
  <2>1. p \in Seq(parts({"field"}, Texts))
    BY SingleIsSeq
  <2> QED
    BY <1>5, <2>1 DEF Ops
<1>11. elements \subseteq Seq(AnyPart(inner)) /\ entries \subseteq Seq(AnyPart(inner))
          /\ fields \subseteq Seq(AnyPart(inner))
  BY <1>5 DEF Ops
<1> HIDE DEF inner, elements, fields, entries, parts
<1>12. t = Datum(t.call, t.atom, t.parts)
  BY <1>2 DEF Datum
<1>13. t.parts \in Seq(AnyPart(inner))
  BY <1>2, <1>4, <1>9, <1>10, <1>11
<1>14. WellCalled(t)
  <2>1. CASE t \in [call : Textual, atom : Texts, parts : {<< >>}]
    <3>1. t.call \in Textual /\ t.atom \in Texts /\ t.parts \in {<< >>}
      BY <2>1
    <3> QED
      BY <3>1 DEF WellCalled, Lists
  <2>2. CASE t \in [call : Bare, atom : Int, parts : {<< >>}]
    <3>1. t.call \in Bare /\ t.atom \in Int /\ t.parts \in {<< >>}
      BY <2>2
    <3> QED
      BY <3>1 DEF WellCalled, Lists
  <2>3. CASE t \in [call : Wrappers, atom : {0}, parts : Single(parts({"inner"}, {None}))]
    <3>1. t.call \in Wrappers /\ t.atom \in {0} /\ t.parts \in Single(parts({"inner"}, {None}))
      BY <2>3
    <3> QED
      BY <1>9, <3>1 DEF WellCalled, Lists
  <2>4. CASE t \in [call : Lists, atom : {0}, parts : elements]
    <3>1. t.call \in Lists /\ t.atom \in {0} /\ t.parts \in elements
      BY <2>4
    <3> QED
      BY <1>6, <3>1 DEF WellCalled, Lists
  <2>5. CASE t \in [call : {"tuple_variant"}, atom : Texts, parts : elements]
    <3>1. t.call \in {"tuple_variant"} /\ t.atom \in Texts /\ t.parts \in elements
      BY <2>5
    <3> QED
      BY <1>6, <3>1 DEF WellCalled, Lists
  <2>6. CASE t \in [call : {"map"}, atom : {0}, parts : entries]
    <3>1. t.call \in {"map"} /\ t.atom \in {0} /\ t.parts \in entries
      BY <2>6
    <3> QED
      BY <1>7, <3>1 DEF WellCalled, Lists
  <2>7. CASE t \in [call : {"struct"}, atom : {0}, parts : fields]
    <3>1. t.call \in {"struct"} /\ t.atom \in {0} /\ t.parts \in fields
      BY <2>7
    <3> QED
      BY <1>8, <3>1 DEF WellCalled, Lists
  <2>8. CASE t \in [call : {"struct_variant"}, atom : Texts, parts : fields]
    <3>1. t.call \in {"struct_variant"} /\ t.atom \in Texts /\ t.parts \in fields
      BY <2>8
    <3> QED
      BY <1>8, <3>1 DEF WellCalled, Lists
  <2>9. CASE t \in [call : {"newtype_variant"}, atom : Texts, parts : Single(parts({"field"}, Texts))]
    <3>1. t.call \in {"newtype_variant"} /\ t.atom \in Texts /\ t.parts \in Single(parts({"field"}, Texts))
      BY <2>9
    <3> QED
      BY <1>10, <3>1 DEF WellCalled, Lists
  <2> QED
    BY <1>2, <2>1, <2>2, <2>3, <2>4, <2>5, <2>6, <2>7, <2>8, <2>9
<1> QED
  BY <1>12, <1>13, <1>14 DEF inner

LEMMA SingleGrows ==
    ASSUME NEW S, NEW T, S \subseteq T
    PROVE  Single(S) \subseteq Single(T)
  BY DEF Single

(* Parts of some kind, with data of inner. *)
PartsOf(ops, keys, inner) == [op : ops, key : keys, of : inner]

LEMMA CallsUnion ==
    ASSUME NEW n \in 0 .. Nesting
    PROVE  CallsWithin[n] =
               [call : Textual, atom : Texts, parts : {<< >>}]
               \cup [call : Bare, atom : Int, parts : {<< >>}]
               \cup [call : Wrappers, atom : {0}, parts : Single(PartsOf({"inner"}, {None}, CallInner(n)))]
               \cup [call : Lists, atom : {0}, parts : Seq(PartsOf({"element"}, {None}, CallInner(n)))]
               \cup [call : {"tuple_variant"}, atom : Texts,
                     parts : Seq(PartsOf({"element"}, {None}, CallInner(n)))]
               \cup [call : {"map"}, atom : {0},
                     parts : Seq(PartsOf({"key", "value"}, {None}, CallInner(n)))]
               \cup [call : {"struct"}, atom : {0}, parts : Seq(PartsOf({"field"}, Texts, CallInner(n)))]
               \cup [call : {"struct_variant"}, atom : Texts,
                     parts : Seq(PartsOf({"field"}, Texts, CallInner(n)))]
               \cup [call : {"newtype_variant"}, atom : Texts,
                     parts : Single(PartsOf({"field"}, Texts, CallInner(n)))]
<1>1. CallsWithin[n] = CallsOver(n, CallInner(n))
  BY CallsUnfold DEF CallInner
<1> QED
  BY <1>1 DEF CallsOver, Textual, Bare, Single, PartsOf

LEMMA CallsGrowStep ==
    ASSUME NEW n \in Nat, n + 1 <= Nesting, CallInner(n) \subseteq CallInner(n + 1)
    PROVE  CallsWithin[n] \subseteq CallsWithin[n + 1]
<1>1. n \in 0 .. Nesting /\ n + 1 \in 0 .. Nesting
  BY ValuesAssumption
<1>2. \A ops, keys : PartsOf(ops, keys, CallInner(n)) \subseteq PartsOf(ops, keys, CallInner(n + 1))
  BY DEF PartsOf
<1>3. \A ops, keys : Seq(PartsOf(ops, keys, CallInner(n))) \subseteq Seq(PartsOf(ops, keys, CallInner(n + 1)))
  BY <1>2, SeqGrows
<1>4. \A ops, keys : Single(PartsOf(ops, keys, CallInner(n)))
                         \subseteq Single(PartsOf(ops, keys, CallInner(n + 1)))
  BY <1>2, SingleGrows
<1>5. \A calls, atoms, S, T : S \subseteq T =>
          [call : calls, atom : atoms, parts : S] \subseteq [call : calls, atom : atoms, parts : T]
  OBVIOUS
<1> QED
  BY <1>1, <1>3, <1>4, <1>5, CallsUnion

LEMMA CallsGrow ==
    \A n \in Nat : n + 1 <= Nesting => CallsWithin[n] \subseteq CallsWithin[n + 1]
<1> DEFINE T == {n \in Nat : n + 1 <= Nesting => CallsWithin[n] \subseteq CallsWithin[n + 1]}
<1>1. 0 \in T
  BY CallsGrowStep DEF CallInner
<1>2. ASSUME NEW n \in Nat, n \in T PROVE n + 1 \in T
  <2>1. n + 2 <= Nesting => CallInner(n + 1) \subseteq CallInner(n + 2)
    BY <1>2, ValuesAssumption DEF CallInner
  <2> QED
    BY <2>1, CallsGrowStep, ValuesAssumption
<1> HIDE DEF T
<1>3. \A n \in Nat : n \in T
  BY <1>1, <1>2, Induction
<1> QED
  BY <1>3 DEF T

LEMMA CallsNested ==
    ASSUME NEW n \in 0 .. Nesting
    PROVE  CallsWithin[n] \subseteq AnyCall /\ CallInner(n) \subseteq AnyCall
               /\ CallInner(n) \subseteq CallsWithin[n]
<1> DEFINE T == {k \in Nat : k <= Nesting => CallsWithin[Nesting - k] \subseteq AnyCall}
<1>1. 0 \in T
  BY ValuesAssumption DEF AnyCall
<1>2. ASSUME NEW k \in Nat, k \in T PROVE k + 1 \in T
  <2>1. CASE k + 1 <= Nesting
    <3>1. Nesting - (k + 1) \in Nat /\ (Nesting - (k + 1)) + 1 = Nesting - k /\ Nesting - k <= Nesting
      BY <2>1, ValuesAssumption
    <3>2. CallsWithin[Nesting - (k + 1)] \subseteq CallsWithin[Nesting - k]
      BY <3>1, CallsGrow
    <3> QED
      BY <1>2, <2>1, <3>2, ValuesAssumption
  <2> QED
    BY <2>1
<1> HIDE DEF T
<1>3. \A k \in Nat : k \in T
  BY <1>1, <1>2, Induction
<1>4. \A m \in 0 .. Nesting : CallsWithin[m] \subseteq AnyCall
  <2> SUFFICES ASSUME NEW m \in 0 .. Nesting PROVE CallsWithin[m] \subseteq AnyCall
    OBVIOUS
  <2>1. Nesting - m \in Nat /\ Nesting - m <= Nesting /\ Nesting - (Nesting - m) = m
    BY ValuesAssumption
  <2> QED
    BY <1>3, <2>1 DEF T
<1>5. n # 0 => n - 1 \in 0 .. Nesting /\ n - 1 \in Nat /\ (n - 1) + 1 = n
  BY ValuesAssumption
<1> QED
  BY <1>4, <1>5, CallsGrow DEF CallInner

-----------------------------------------------------------------------------
(***************************************************************************)
(* The projection of a call is made of the projections of its parts.       *)
(***************************************************************************)
LEMMA MaxOf ==
    ASSUME NEW m \in Nat, NEW S, S \subseteq 0 .. m, S # {}
    PROVE  Max(S) \in S /\ \A x \in S : x <= Max(S)
<1>1. \E x \in S : \A y \in S : y <= x
  BY Greatest
<1>2. \E x \in S : \A y \in S : x >= y
  BY <1>1
<1> QED
  BY <1>2 DEF Max

LEMMA MinOf ==
    ASSUME NEW S, S \subseteq Nat, S # {}
    PROVE  Min(S) \in S /\ \A x \in S : Min(S) <= x
<1>1. \E x \in S : \A y \in S : x <= y
  BY Least
<1> QED
  BY <1>1 DEF Min

Agree(f, g, t) == \A i \in DOMAIN t.parts : f[t.parts[i].of] = g[t.parts[i].of]

(* The keys and the values before part i. *)
Turned(t, i) == {j \in 1 .. i - 1 : t.parts[j].op \in {"key", "value"}}

KeyAt(below, t, j) ==
    IF t.parts[j].op = "key" /\ below[t.parts[j].of].is = "some"
    THEN below[t.parts[j].of].value.atom ELSE None

LEMMA KeyBeforeIs ==
    ASSUME NEW below, NEW t, NEW i
    PROVE  KeyBefore(below, t, i) =
               IF Turned(t, i) # {} THEN KeyAt(below, t, Max(Turned(t, i))) ELSE None
  BY DEF KeyBefore, KeyAt, Turned

LEMMA KeysAgree ==
    ASSUME NEW f, NEW g, NEW t, NEW n \in Nat, DOMAIN t.parts = 1 .. n, Agree(f, g, t),
           NEW i \in 1 .. n + 1
    PROVE  KeyBefore(f, t, i) = KeyBefore(g, t, i)
<1>1. Turned(t, i) \subseteq DOMAIN t.parts /\ Turned(t, i) \subseteq 0 .. n
  BY DEF Turned
<1>2. CASE Turned(t, i) # {}
  <2>1. Max(Turned(t, i)) \in DOMAIN t.parts
    BY <1>1, <1>2, MaxOf
  <2>2. KeyAt(f, t, Max(Turned(t, i))) = KeyAt(g, t, Max(Turned(t, i)))
    BY <2>1 DEF KeyAt, Agree
  <2> QED
    BY <1>2, <2>2, KeyBeforeIs
<1> QED
  BY <1>2, KeyBeforeIs

LEMMA ResultsAgree ==
    ASSUME NEW f, NEW g, NEW t, NEW S, t.parts \in Seq(S), Agree(f, g, t)
    PROVE  PartResults(f, t) = PartResults(g, t) /\ PartKeys(f, t) = PartKeys(g, t)
<1>1. ASSUME NEW i \in DOMAIN t.parts PROVE KeyBefore(f, t, i) = KeyBefore(g, t, i)
  <2>1. PICK n \in Nat : DOMAIN t.parts = 1 .. n
    BY LenProperties
  <2>2. i \in 1 .. n + 1
    BY <2>1
  <2> QED
    BY <2>1, <2>2, KeysAgree
<1>2. \A i \in DOMAIN t.parts : PartKey(f, t, i) = PartKey(g, t, i)
  BY <1>1 DEF PartKey
<1>3. \A i \in DOMAIN t.parts : PartResult(f, t, i) = PartResult(g, t, i)
  BY <1>1 DEF PartResult, Agree
<1> QED
  BY <1>2, <1>3 DEF PartResults, PartKeys

LEMMA BecameCases ==
    ASSUME NEW f, NEW t
    PROVE  /\ t.call \in DOMAIN FromType => Became(f, t) = Some(ValueFrom(t.call, t.atom))
           /\ t.call \in {"char", "unit_variant"} => Became(f, t) = Some(ValueFrom("str", t.atom))
           /\ t.call = "i64" => Became(f, t) = Err("UnsupportedValue")
           /\ t.call = "i128" => Became(f, t) = Err("Serialize")
           /\ t.call \in Units => Became(f, t) = Absent
           /\ t.call \in Wrappers => Became(f, t) = f[t.parts[1].of]
           /\ t.call \in Compounds =>
                  Became(f, t) = Assembled(t, PartResults(f, t), PartKeys(f, t))
<1>1. DOMAIN FromType = {"u8", "u16", "u32", "u64", "u128", "i8", "i16", "i32", "f32", "f64",
                         "bool", "str", "bytes"}
  BY DEF FromType
<1>2. Compounds = {"seq", "tuple", "tuple_struct", "map", "struct", "newtype_variant",
                   "tuple_variant", "struct_variant"}
  BY DEF Compounds, Lists, Maps
<1>3. Units = {"none", "unit", "unit_struct"} /\ Wrappers = {"some", "newtype_struct"}
  BY DEF Units, Wrappers
<1>4. t.call \in DOMAIN FromType => Became(f, t) = Some(ValueFrom(t.call, t.atom))
  BY <1>1, <1>2, <1>3 DEF Became
<1>5. t.call \in {"char", "unit_variant"} => Became(f, t) = Some(ValueFrom("str", t.atom))
  BY <1>1, <1>2, <1>3 DEF Became
<1>6. t.call = "i64" => Became(f, t) = Err("UnsupportedValue")
  BY <1>1, <1>2, <1>3 DEF Became
<1>7. t.call = "i128" => Became(f, t) = Err("Serialize")
  BY <1>1, <1>2, <1>3 DEF Became
<1>8. t.call \in Units => Became(f, t) = Absent
  BY <1>1, <1>2, <1>3 DEF Became
<1>9. t.call \in Wrappers => Became(f, t) = f[t.parts[1].of]
  BY <1>1, <1>2, <1>3 DEF Became
<1>10. t.call \in Compounds => Became(f, t) = Assembled(t, PartResults(f, t), PartKeys(f, t))
  BY <1>1, <1>2, <1>3 DEF Became
<1> QED
  BY <1>4, <1>5, <1>6, <1>7, <1>8, <1>9, <1>10

LEMMA PartsWithin ==
    ASSUME NEW n \in 0 .. Nesting, NEW t \in CallsWithin[n], NEW i \in DOMAIN t.parts
    PROVE  t.parts[i] \in AnyPart(CallInner(n)) /\ t.parts[i].of \in CallInner(n)
<1>1. t.parts[i] \in AnyPart(CallInner(n))
  BY CallCases, SeqItems
<1> QED
  BY <1>1 DEF AnyPart

(* Every call is of one kind. *)
LEMMA CallKinds ==
    ASSUME NEW t, WellCalled(t)
    PROVE  \/ t.call \in DOMAIN FromType \/ t.call \in {"char", "unit_variant"}
           \/ t.call = "i64" \/ t.call = "i128" \/ t.call \in Units
           \/ t.call \in Wrappers \/ t.call \in Compounds
<1>1. DOMAIN ScalarType = DOMAIN FromType \cup {"char", "unit_variant"}
  BY DEF ScalarType, FromType
<1>2. DOMAIN Refusal = {"i64", "i128"}
  BY DEF Refusal
<1> QED
  BY <1>1, <1>2 DEF WellCalled, Textual, Bare, Compounds, Maps, FromType

LEMMA BecameAgrees ==
    ASSUME NEW n \in 0 .. Nesting, NEW t \in CallsWithin[n], NEW f, NEW g, Agree(f, g, t)
    PROVE  Became(f, t) = Became(g, t)
<1>1. PartResults(f, t) = PartResults(g, t) /\ PartKeys(f, t) = PartKeys(g, t)
  BY CallCases, ResultsAgree
<1>2. t.call \in Wrappers => f[t.parts[1].of] = g[t.parts[1].of]
  <2>1. t.call \in Wrappers => 1 \in DOMAIN t.parts
    BY CallCases DEF WellCalled, Wrappers, Textual, Bare, ScalarType, Refusal, Units, Lists
  <2> QED
    BY <2>1 DEF Agree
<1> QED
  BY <1>1, <1>2, BecameCases, CallCases, CallKinds

LEMMA ProjectionGrows ==
    \A n \in Nat : n + 1 <= Nesting =>
        \A t \in CallsWithin[n] : ProjectionWithin[n + 1][t] = ProjectionWithin[n][t]
<1> DEFINE Below(n) == IF n = 0 THEN << >> ELSE ProjectionWithin[n - 1]
           T == {n \in Nat : n + 1 <= Nesting =>
                     \A t \in CallsWithin[n] : ProjectionWithin[n + 1][t] = ProjectionWithin[n][t]}
<1>1. \A n \in 0 .. Nesting : \A t \in CallsWithin[n] : ProjectionWithin[n][t] = Became(Below(n), t)
  BY ProjectionUnfold DEF ProjectionOver
<1>2. ASSUME NEW n \in Nat, n + 1 <= Nesting, NEW t \in CallsWithin[n], Agree(Below(n + 1), Below(n), t)
      PROVE  ProjectionWithin[n + 1][t] = ProjectionWithin[n][t]
  <2>1. n \in 0 .. Nesting /\ n + 1 \in 0 .. Nesting /\ t \in CallsWithin[n + 1]
    BY <1>2, CallsGrow, ValuesAssumption
  <2> HIDE DEF Below
  <2> QED
    BY <1>1, <1>2, <2>1, BecameAgrees
<1>3. \A n \in 0 .. Nesting : \A t \in CallsWithin[n] :
          \A i \in DOMAIN t.parts : t.parts[i].of \in CallInner(n)
  BY PartsWithin
<1>4. 0 \in T
  <2>1. \A t \in CallsWithin[0] : Agree(Below(0 + 1), Below(0), t)
    BY <1>3, ValuesAssumption DEF Agree, CallInner
  <2> HIDE DEF Below
  <2> QED
    BY <1>2, <2>1
<1>5. ASSUME NEW n \in Nat, n \in T PROVE n + 1 \in T
  <2> SUFFICES ASSUME (n + 1) + 1 <= Nesting, NEW t \in CallsWithin[n + 1]
               PROVE  ProjectionWithin[(n + 1) + 1][t] = ProjectionWithin[n + 1][t]
    OBVIOUS
  <2>1. n + 1 \in 0 .. Nesting /\ n + 1 <= Nesting
    BY ValuesAssumption
  <2>2. \A i \in DOMAIN t.parts : t.parts[i].of \in CallsWithin[n]
    BY <1>3, <2>1 DEF CallInner
  <2>3. Below((n + 1) + 1) = ProjectionWithin[n + 1] /\ Below(n + 1) = ProjectionWithin[n]
    OBVIOUS
  <2>4. Agree(Below((n + 1) + 1), Below(n + 1), t)
    BY <1>5, <2>1, <2>2, <2>3 DEF Agree
  <2> HIDE DEF Below
  <2> QED
    BY <1>2, <2>4
<1> HIDE DEF T
<1>6. \A n \in Nat : n \in T
  BY <1>4, <1>5, Induction
<1> QED
  BY <1>6 DEF T

(* Projection, with what it made of the parts. *)
Whole == ProjectionWithin[Nesting]

LEMMA ProjectionIs ==
    ASSUME NEW t \in AnyCall
    PROVE  Projection(t) = Became(Whole, t)
<1>1. Nesting \in 0 .. Nesting /\ t \in CallsWithin[Nesting]
  BY ValuesAssumption DEF AnyCall
<1> DEFINE below == IF Nesting = 0 THEN << >> ELSE ProjectionWithin[Nesting - 1]
<1>2. Projection(t) = Became(below, t)
  BY <1>1, ProjectionUnfold DEF Projection, ProjectionOver
<1>3. \A i \in DOMAIN t.parts : t.parts[i].of \in CallInner(Nesting)
  BY <1>1, PartsWithin
<1>4. \A i \in DOMAIN t.parts : below[t.parts[i].of] = Whole[t.parts[i].of]
  <2>1. CASE Nesting = 0
    BY <1>3, <2>1 DEF CallInner
  <2>2. CASE Nesting # 0
    <3>1. Nesting - 1 \in Nat /\ (Nesting - 1) + 1 = Nesting /\ (Nesting - 1) + 1 <= Nesting
      BY <2>2, ValuesAssumption
    <3>2. \A u \in CallsWithin[Nesting - 1] : Whole[u] = ProjectionWithin[Nesting - 1][u]
      BY <3>1, ProjectionGrows DEF Whole
    <3> QED
      BY <1>3, <2>2, <3>2 DEF CallInner
  <2> QED
    BY <2>1, <2>2
<1> HIDE DEF below
<1>5. Agree(below, Whole, t)
  BY <1>4 DEF Agree
<1> QED
  BY <1>1, <1>2, <1>5, BecameAgrees

-----------------------------------------------------------------------------
(***************************************************************************)
(* The serializer's stack.  A frame holds what its first parts have become *)
(* and the key that waits; the frame above it, the focus or what has been  *)
(* returned stands for the part it waits for.                              *)
(***************************************************************************)
Result(t, i) == PartResult(Whole, t, i)

Sequential == Lists \cup {"tuple_variant"}
Keyed      == Maps \cup {"struct_variant"}

ItemsTo(t, m) == KeptOf(PartResults(Whole, t))[m]

(* The parts up to m that give key k a value. *)
Giving(t, m, k) ==
    {i \in 1 .. m : t.parts[i].op # "key" /\ Result(t, i).is = "some" /\ PartKey(Whole, t, i) = k}

EntriesTo(t, m) ==
    [k \in Texts |-> IF Giving(t, m, k) = {} THEN None ELSE Result(t, Max(Giving(t, m, k))).value]

(* f after m of its parts. *)
Holds(f, m) ==
    /\ f.of \in AnyCall /\ f.of.call \in Compounds
    /\ f.at \in 0 .. Len(f.of.parts) /\ m \in 0 .. f.at
    /\ \A i \in 1 .. m : Result(f.of, i).is # "error"
    /\ f.items = (IF f.of.call \in Sequential THEN ItemsTo(f.of, m) ELSE << >>)
    /\ f.entries = (IF f.of.call \in Keyed THEN EntriesTo(f.of, m) ELSE NoEntries)
    /\ f.of.call # "map" => f.pending_key = None

Waiting(f) == f.of.parts[f.at]

Resting1(f) == Holds(f, f.at) /\ f.pending_key = KeyBefore(Whole, f.of, f.at + 1)

Busy(f) == f.at > 0 /\ Holds(f, f.at - 1)

(* The part that f waits for has the key under which it will be entered. *)
Proper(f) ==
    /\ Waiting(f).op = "value" => f.pending_key = None /\ f.key # None
    /\ Waiting(f).op \in {"value", "field"} => f.key = PartKey(Whole, f.of, f.at)

Serves(f, t) == Busy(f) /\ Proper(f) /\ Projection(t) = Projection(Waiting(f).of)

(* Values that are under construction. *)
AnyItem == {Projection(t).value : t \in AnyCall}

FrameType == [of : AnyCall, at : Nat, key : Texts \cup {None}, items : Seq(AnyItem),
              entries : [Texts -> AnyItem \cup {None}], pending_key : Texts \cup {None}]

(* Every frame but the last serves the one above it, and the first serves the caller. *)
Stack(fs, d) ==
    /\ fs \in Seq(FrameType)
    /\ \A i \in 1 .. Len(fs) - 1 : Serves(fs[i], fs[i + 1].of)
    /\ fs # << >> => d \in AnyCall /\ Projection(fs[1].of) = Projection(d)

(* t is what the frame on top, or the caller, waits for. *)
Asks(fs, d, t) ==
    /\ t \in AnyCall
    /\ IF fs = << >> THEN d \in AnyCall /\ Projection(t) = Projection(d) ELSE Serves(Last(fs), t)

(* r is what the frame on top, or the caller, is given. *)
Answers(fs, d, r) ==
    IF fs = << >> THEN d \in AnyCall /\ r = Projection(d)
    ELSE LET f == Last(fs)
         IN  \/ Serves(f, Waiting(f).of) /\ r = Projection(Waiting(f).of)
             \/ Busy(f) /\ r.is = "error" /\ r = Result(f.of, f.at)

StackInv ==
    /\ Stack(frames, data)
    /\ focus # None => out = Nothing /\ Asks(frames, data, focus)
    /\ focus = None /\ out # Nothing => Answers(frames, data, out)
    /\ focus = None /\ out = Nothing /\ frames # << >> => Resting1(Last(frames))

LEMMA KeptTurns ==
    ASSUME NEW S, NEW results \in Seq(S)
    PROVE  /\ KeptOf(results)[0] = << >>
           /\ \A k \in 0 .. Len(results) - 1 :
                  KeptOf(results)[k + 1] = Kept(KeptOf(results)[k], results[k + 1])
<1> DEFINE Turn(h, k) == IF k = 0 THEN << >> ELSE Kept(h[k - 1], results[k])
           Eq(h) == h = [k \in 0 .. Len(results) |-> Turn(h, k)]
           T == {m \in Nat : \E h : h = [k \in 0 .. m |-> Turn(h, k)]}
<1>0. Len(results) \in Nat
  OBVIOUS
<1>1. 0 \in T
  <2>1. PICK g : g = [k \in 0 .. 0 |-> << >>]
    OBVIOUS
  <2>2. g = [k \in 0 .. 0 |-> Turn(g, k)]
    BY <2>1
  <2> QED
    BY <2>2
<1>2. ASSUME NEW m \in Nat, m \in T PROVE m + 1 \in T
  <2>1. PICK e : e = [k \in 0 .. m |-> Turn(e, k)]
    BY <1>2
  <2>2. PICK z : z = Kept(e[m], results[m + 1])
    OBVIOUS
  <2>3. PICK g : g = [k \in 0 .. m + 1 |-> IF k <= m THEN e[k] ELSE z]
    OBVIOUS
  <2>4. \A k \in 0 .. m + 1 : g[k] = Turn(g, k)
    <3>1. \A k \in 0 .. m : g[k] = e[k] /\ e[k] = Turn(e, k)
      <4>1. \A k \in 0 .. m : g[k] = e[k]
        BY <2>3
      <4>2. \A k \in 0 .. m : e[k] = Turn(e, k)
        <5> HIDE DEF Turn
        <5> QED
          BY ONLY <2>1
      <4> QED
        BY <4>1, <4>2
    <3>2. \A k \in 1 .. m + 1 : g[k - 1] = e[k - 1]
      BY <3>1
    <3>3. g[m + 1] = z
      BY <2>3
    <3>4. ASSUME NEW k \in 0 .. m PROVE Turn(g, k) = Turn(e, k)
      <4>1. CASE k = 0
        BY <4>1
      <4>2. CASE k # 0
        <5>1. g[k - 1] = e[k - 1]
          BY <3>2, <4>2
        <5> QED
          BY <4>2, <5>1
      <4> QED
        BY <4>1, <4>2
    <3>5. g[m + 1] = Turn(g, m + 1)
      <4>1. m + 1 # 0 /\ (m + 1) - 1 = m /\ g[m] = e[m]
        BY <3>1
      <4> QED
        BY <2>2, <3>3, <4>1
    <3>6. \A k \in 0 .. m : g[k] = Turn(g, k)
      BY <3>1, <3>4
    <3>7. \A k \in 0 .. m + 1 : k \in 0 .. m \/ k = m + 1
      OBVIOUS
    <3> HIDE DEF Turn
    <3> QED
      BY <3>5, <3>6, <3>7
  <2>5. g = [k \in 0 .. m + 1 |-> Turn(g, k)]
    <3> HIDE DEF Turn
    <3> QED
      BY <2>3, <2>4
  <2>6. \E h : h = [k \in 0 .. m + 1 |-> Turn(h, k)]
    BY Zenon, <2>5
  <2> QED
    BY <2>6
<1>3. Len(results) \in T
  <2> HIDE DEF T
  <2> QED
    BY <1>0, <1>1, <1>2, Induction
<1>4. KeptOf(results) = CHOOSE h : Eq(h)
  BY DEF KeptOf
<1>5. Eq(KeptOf(results))
  <2>1. \E h : Eq(h)
    BY <1>3
  <2> HIDE DEF Eq
  <2> QED
    BY Zenon, <1>4, <2>1
<1>6. PICK W : W = KeptOf(results) /\ W = [k \in 0 .. Len(results) |-> Turn(W, k)]
  BY <1>5
<1>7. 0 \in 0 .. Len(results) /\ \A k \in 0 .. Len(results) - 1 : k + 1 \in 0 .. Len(results) /\ k + 1 # 0 /\ (k + 1) - 1 = k
  BY <1>0
<1>8. \A k \in 0 .. Len(results) : W[k] = Turn(W, k)
  <2> HIDE DEF Turn
  <2> QED
    BY ONLY <1>6
<1>9. W[0] = << >>
  BY <1>7, <1>8
<1>10. ASSUME NEW k \in 0 .. Len(results) - 1 PROVE W[k + 1] = Kept(W[k], results[k + 1])
  <2>1. k + 1 \in 0 .. Len(results) /\ k + 1 # 0 /\ (k + 1) - 1 = k
    BY <1>7
  <2>2. W[k + 1] = Turn(W, k + 1)
    BY <1>8, <2>1
  <2> QED
    BY <2>1, <2>2
<1> QED
  BY <1>6, <1>9, <1>10

-----------------------------------------------------------------------------
(* What a call can become. *)
Shape(r) ==
    \/ r = Absent
    \/ r.is = "error"
    \/ r = Some(r.value) /\ r.is = "some" /\ (r.value.type = "String" => r.value.atom \in Texts)

LEMMA AssembledShape ==
    ASSUME NEW t, NEW results, NEW S, results \in Seq(S), NEW keys,
           t.call \in Compounds
    PROVE  Shape(Assembled(t, results, keys))
<1>1. CASE Failures(results) # {}
  <2>1. Failures(results) \subseteq Nat
    BY DEF Failures
  <2>2. Min(Failures(results)) \in Failures(results)
    BY <1>1, <2>1, MinOf
  <2>3. Assembled(t, results, keys) = results[Min(Failures(results))]
    BY <1>1 DEF Assembled, FirstError
  <2> QED
    BY <2>2, <2>3 DEF Failures, Shape
<1>2. CASE Failures(results) = {}
  <2>1. Compounds = Lists \cup Maps \cup {"tuple_variant", "struct_variant"}
    BY DEF Compounds
  <2>2. PICK l, m, p, q : Assembled(t, results, keys) =
            Some(CASE t.call \in Lists -> ArrayOf(l) [] t.call \in Maps -> MapOf(m)
                   [] t.call = "tuple_variant" -> MapOf(p) [] t.call = "struct_variant" -> MapOf(q))
    BY <1>2, Zenon DEF Assembled, ValueArray, ValueMap
  <2>3. \E v : Assembled(t, results, keys) = Some(v) /\ (v = ArrayOf(l) \/ v = MapOf(m) \/ v = MapOf(p) \/ v = MapOf(q))
    BY <2>1, <2>2
  <2> QED
    BY <2>3 DEF Shape, Some, ArrayOf, MapOf
<1> QED
  BY <1>1, <1>2

LEMMA BecameShape ==
    ASSUME NEW n \in 0 .. Nesting, NEW t \in CallsWithin[n], NEW f,
           \A i \in DOMAIN t.parts : Shape(f[t.parts[i].of])
    PROVE  Shape(Became(f, t))
<1>1. WellCalled(t)
  BY CallCases
<1>2. CASE t.call \in DOMAIN FromType
  <2>1. t.call = "str" => t.atom \in Texts
    BY <1>1 DEF WellCalled, Textual, Bare, Wrappers, Lists, Refusal, Units
  <2>2. t.call # "str" => FromType[t.call] # "String"
    BY <1>2 DEF FromType
  <2>3. Became(f, t) = Some(ValueFrom(t.call, t.atom))
    BY <1>2, BecameCases
  <2> QED
    BY <2>1, <2>2, <2>3 DEF Shape, Some, ValueFrom, Leaf
<1>3. CASE t.call \in {"char", "unit_variant"}
  <2>1. t.atom \in Texts
    BY <1>1, <1>3 DEF WellCalled, Textual, Bare, Wrappers, Lists, Refusal, Units
  <2>2. Became(f, t) = Some(ValueFrom("str", t.atom))
    BY <1>3, BecameCases
  <2> QED
    BY <2>1, <2>2 DEF Shape, Some, ValueFrom, Leaf
<1>4. CASE t.call \in {"i64", "i128"} \cup Units
  BY <1>4, BecameCases DEF Shape, Err
<1>5. CASE t.call \in Wrappers
  <2>1. 1 \in DOMAIN t.parts
    BY <1>1, <1>5, CallCases DEF WellCalled, Wrappers, Textual, Bare, ScalarType, Refusal, Units, Lists
  <2> QED
    BY <1>5, <2>1, BecameCases
<1>6. CASE t.call \in Compounds
  <2>1. PICK results : results = PartResults(f, t)
    OBVIOUS
  <2>2. \E S : results \in Seq(S)
    <3>1. results = [i \in 1 .. Len(t.parts) |-> PartResult(f, t, i)] /\ Len(t.parts) \in Nat
      BY <2>1, CallCases DEF PartResults
    <3>2. PICK m \in Nat : m = Len(t.parts)
      BY <3>1
    <3>3. PICK S : S = {PartResult(f, t, i) : i \in 1 .. m}
      OBVIOUS
    <3>4. results \in [1 .. m -> S]
      BY <3>1, <3>2, <3>3
    <3> QED
      BY <3>4, SeqDef
  <2>3. Became(f, t) = Assembled(t, results, PartKeys(f, t))
    BY <1>6, <2>1, BecameCases
  <2> QED
    BY <1>6, <2>2, <2>3, AssembledShape
<1> QED
  BY <1>1, <1>2, <1>3, <1>4, <1>5, <1>6, CallKinds

LEMMA ProjectionShape ==
    \A t \in AnyCall : Shape(Projection(t))
<1> DEFINE Below(n) == IF n = 0 THEN << >> ELSE ProjectionWithin[n - 1]
           T == {n \in Nat : n <= Nesting => \A t \in CallsWithin[n] : Shape(ProjectionWithin[n][t])}
<1>1. \A n \in 0 .. Nesting : \A t \in CallsWithin[n] : ProjectionWithin[n][t] = Became(Below(n), t)
  BY ProjectionUnfold DEF ProjectionOver
<1>2. ASSUME NEW n \in Nat, n = 0 \/ n - 1 \in T PROVE n \in T
  <2> SUFFICES ASSUME n <= Nesting, NEW t \in CallsWithin[n]
               PROVE  Shape(ProjectionWithin[n][t])
    OBVIOUS
  <2>1. n \in 0 .. Nesting
    BY ValuesAssumption
  <2>2. \A i \in DOMAIN t.parts : Shape(Below(n)[t.parts[i].of])
    BY <1>2, <2>1, PartsWithin, ValuesAssumption DEF CallInner
  <2> HIDE DEF Below, T
  <2> QED
    BY <1>1, <2>1, <2>2, BecameShape
<1>3. 0 \in T
  BY <1>2
<1>4. ASSUME NEW n \in Nat, n \in T PROVE n + 1 \in T
  <2>1. n + 1 \in Nat /\ (n + 1) - 1 = n
    OBVIOUS
  <2> HIDE DEF T
  <2> QED
    BY <1>2, <1>4, <2>1
<1>5. Nesting \in T
  <2> HIDE DEF T
  <2> QED
    BY <1>3, <1>4, Induction, ValuesAssumption
<1> QED
  BY <1>5, ValuesAssumption DEF AnyCall, Projection

-----------------------------------------------------------------------------
(***************************************************************************)
(* A compound, part by part.                                               *)
(***************************************************************************)
LEMMA PartFacts ==
    ASSUME NEW t \in AnyCall
    PROVE  /\ Len(t.parts) \in Nat /\ DOMAIN t.parts = 1 .. Len(t.parts)
           /\ WellCalled(t)
           /\ \A i \in DOMAIN t.parts : /\ t.parts[i].of \in AnyCall
                                        /\ t.parts[i].op \in Ops
                                        /\ t.parts[i].key \in Texts \cup {None}
           /\ PartResults(Whole, t) \in Seq({Result(t, i) : i \in DOMAIN t.parts})
           /\ Len(PartResults(Whole, t)) = Len(t.parts)
           /\ \A i \in DOMAIN t.parts : PartResults(Whole, t)[i] = Result(t, i)
<1>1. Nesting \in 0 .. Nesting /\ t \in CallsWithin[Nesting]
  BY ValuesAssumption DEF AnyCall
<1>2. t.parts \in Seq(AnyPart(CallInner(Nesting))) /\ WellCalled(t)
  BY <1>1, CallCases
<1>3. Len(t.parts) \in Nat /\ DOMAIN t.parts = 1 .. Len(t.parts)
  BY <1>2
<1>4. ASSUME NEW i \in DOMAIN t.parts
      PROVE  /\ t.parts[i].of \in AnyCall
             /\ t.parts[i].op \in Ops
             /\ t.parts[i].key \in Texts \cup {None}
  <2>1. t.parts[i] \in AnyPart(CallInner(Nesting))
    BY <1>2, SeqItems
  <2>2. CallInner(Nesting) \subseteq AnyCall
    BY <1>1, CallsNested
  <2> QED
    BY <2>1, <2>2 DEF AnyPart
<1>5. PICK m \in Nat : m = Len(t.parts)
  BY <1>3
<1>6. PICK S : S = {Result(t, i) : i \in DOMAIN t.parts}
  OBVIOUS
<1>7. PICK p : p = PartResults(Whole, t)
  OBVIOUS
<1>8. p = [i \in 1 .. m |-> Result(t, i)]
  BY <1>3, <1>5, <1>7 DEF PartResults, Result
<1>9. p \in [1 .. m -> S]
  BY <1>3, <1>5, <1>6, <1>8
<1>10. p \in Seq(S)
  BY <1>9, SeqDef
<1>11. Len(p) = m /\ \A i \in 1 .. m : p[i] = Result(t, i)
  BY <1>8, <1>10
<1> QED
  BY <1>2, <1>3, <1>4, <1>5, <1>6, <1>7, <1>10, <1>11

LEMMA ItemsStep ==
    ASSUME NEW t \in AnyCall
    PROVE  /\ ItemsTo(t, 0) = << >>
           /\ \A m \in 0 .. Len(t.parts) - 1 : ItemsTo(t, m + 1) = Kept(ItemsTo(t, m), Result(t, m + 1))
<1>1. PICK p : p = PartResults(Whole, t)
  OBVIOUS
<1>2. p \in Seq({Result(t, i) : i \in DOMAIN t.parts}) /\ Len(p) = Len(t.parts)
         /\ \A i \in DOMAIN t.parts : p[i] = Result(t, i)
  BY <1>1, PartFacts
<1>3. /\ KeptOf(p)[0] = << >>
      /\ \A k \in 0 .. Len(p) - 1 : KeptOf(p)[k + 1] = Kept(KeptOf(p)[k], p[k + 1])
  BY <1>2, KeptTurns
<1>4. \A m \in 0 .. Len(t.parts) - 1 : m + 1 \in DOMAIN t.parts
  <2>1. Len(t.parts) \in Nat /\ DOMAIN t.parts = 1 .. Len(t.parts)
    BY PartFacts
  <2> QED
    BY <2>1
<1> QED
  BY <1>1, <1>2, <1>3, <1>4 DEF ItemsTo

(* An entry more, if there is one. *)
LEMMA EntriesStep ==
    ASSUME NEW t \in AnyCall
    PROVE  /\ EntriesTo(t, 0) = NoEntries
           /\ \A m \in 0 .. Len(t.parts) - 1 :
                  EntriesTo(t, m + 1) =
                      IF t.parts[m + 1].op # "key" /\ Result(t, m + 1).is = "some"
                      THEN [EntriesTo(t, m) EXCEPT ![PartKey(Whole, t, m + 1)] = Result(t, m + 1).value]
                      ELSE EntriesTo(t, m)
<1>1. EntriesTo(t, 0) = NoEntries
  <2>1. \A k \in Texts : Giving(t, 0, k) = {}
    BY DEF Giving
  <2> QED
    BY <2>1 DEF EntriesTo, NoEntries
<1>2. ASSUME NEW m \in 0 .. Len(t.parts) - 1
      PROVE  EntriesTo(t, m + 1) =
                 IF t.parts[m + 1].op # "key" /\ Result(t, m + 1).is = "some"
                 THEN [EntriesTo(t, m) EXCEPT ![PartKey(Whole, t, m + 1)] = Result(t, m + 1).value]
                 ELSE EntriesTo(t, m)
  <2>1. m \in Nat /\ \A i \in 1 .. m + 1 : i \in 1 .. m \/ i = m + 1
    BY PartFacts
  <2> DEFINE gives == t.parts[m + 1].op # "key" /\ Result(t, m + 1).is = "some"
  <2>2. CASE gives
    <3>1. ASSUME NEW k \in Texts, k = PartKey(Whole, t, m + 1)
          PROVE  Giving(t, m + 1, k) # {} /\ Max(Giving(t, m + 1, k)) = m + 1
      <4>1. m + 1 \in Giving(t, m + 1, k) /\ Giving(t, m + 1, k) \subseteq 0 .. m + 1
        BY <2>1, <2>2, <3>1 DEF Giving
      <4>2. Max(Giving(t, m + 1, k)) \in 0 .. m + 1 /\ m + 1 <= Max(Giving(t, m + 1, k))
        BY <2>1, <4>1, MaxOf
      <4> QED
        BY <2>1, <4>1, <4>2
    <3>2. ASSUME NEW k \in Texts, k # PartKey(Whole, t, m + 1)
          PROVE  Giving(t, m + 1, k) = Giving(t, m, k)
      BY <2>1, <3>2 DEF Giving
    <3>3. EntriesTo(t, m + 1) =
              [EntriesTo(t, m) EXCEPT ![PartKey(Whole, t, m + 1)] = Result(t, m + 1).value]
      <4>1. PICK h, z : h = PartKey(Whole, t, m + 1) /\ z = Result(t, m + 1).value
        OBVIOUS
      <4>2. PICK e : e = EntriesTo(t, m)
        OBVIOUS
      <4>3. \A k \in Texts : e[k] = (IF Giving(t, m, k) = {} THEN None ELSE Result(t, Max(Giving(t, m, k))).value)
                /\ e = [x \in Texts |-> e[x]]
        BY <4>2 DEF EntriesTo
      <4>4. PICK g : g = EntriesTo(t, m + 1)
        OBVIOUS
      <4>5. \A k \in Texts : g[k] = IF k = h THEN z ELSE e[k]
        BY <3>1, <3>2, <4>1, <4>3, <4>4 DEF EntriesTo
      <4>6. DOMAIN g = Texts /\ g = [x \in Texts |-> g[x]] /\ DOMAIN e = Texts
        BY <4>2, <4>4 DEF EntriesTo
      <4>7. g = [e EXCEPT ![h] = z]
        BY ONLY <4>5, <4>6
      <4> QED
        BY <4>1, <4>2, <4>4, <4>7
    <3> QED
      BY <2>2, <3>3
  <2>3. CASE ~gives
    <3>1. \A k : Giving(t, m + 1, k) = Giving(t, m, k)
      BY <2>1, <2>3 DEF Giving
    <3> QED
      BY <2>3, <3>1 DEF EntriesTo
  <2> QED
    BY <2>2, <2>3
<1> QED
  BY <1>1, <1>2

LEMMA KeyStep ==
    ASSUME NEW t \in AnyCall
    PROVE  /\ KeyBefore(Whole, t, 1) = None
           /\ t.call # "map" => \A i \in 1 .. Len(t.parts) + 1 : KeyBefore(Whole, t, i) = None
           /\ \A m \in 0 .. Len(t.parts) - 1 :
                  KeyBefore(Whole, t, m + 2) =
                      IF t.parts[m + 1].op = "key" THEN KeyAt(Whole, t, m + 1)
                      ELSE IF t.parts[m + 1].op = "value" THEN None ELSE KeyBefore(Whole, t, m + 1)
<1>1. Turned(t, 1) = {}
  BY DEF Turned
<1>2. t.call # "map" => \A i \in DOMAIN t.parts : t.parts[i].op \notin {"key", "value"}
  <2>1. WellCalled(t) /\ DOMAIN t.parts = 1 .. Len(t.parts)
    BY PartFacts
  <2>2. t.parts = << >> => DOMAIN t.parts = {}
    OBVIOUS
  <2> QED
    BY <2>1, <2>2 DEF WellCalled
<1>3. t.call # "map" => \A i \in 1 .. Len(t.parts) + 1 : Turned(t, i) = {}
  <2>1. Len(t.parts) \in Nat /\ DOMAIN t.parts = 1 .. Len(t.parts)
    BY PartFacts
  <2>2. \A i \in 1 .. Len(t.parts) + 1 : \A j \in 1 .. i - 1 : j \in DOMAIN t.parts
    BY <2>1
  <2> QED
    BY <1>2, <2>2 DEF Turned
<1>4. ASSUME NEW m \in 0 .. Len(t.parts) - 1
      PROVE  KeyBefore(Whole, t, m + 2) =
                 IF t.parts[m + 1].op = "key" THEN KeyAt(Whole, t, m + 1)
                 ELSE IF t.parts[m + 1].op = "value" THEN None ELSE KeyBefore(Whole, t, m + 1)
  <2>1. m \in Nat /\ (m + 2) - 1 = m + 1 /\ (m + 1) - 1 = m
           /\ \A i \in 1 .. m + 1 : i \in 1 .. m \/ i = m + 1
    BY PartFacts
  <2>2. CASE t.parts[m + 1].op \in {"key", "value"}
    <3>1. m + 1 \in Turned(t, m + 2) /\ Turned(t, m + 2) \subseteq 0 .. m + 1
      BY <2>1, <2>2 DEF Turned
    <3>2. Max(Turned(t, m + 2)) \in 0 .. m + 1 /\ m + 1 <= Max(Turned(t, m + 2))
      BY <2>1, <3>1, MaxOf
    <3>3. KeyBefore(Whole, t, m + 2) = KeyAt(Whole, t, m + 1)
      BY <2>1, <3>1, <3>2, KeyBeforeIs
    <3> QED
      BY <2>2, <3>3 DEF KeyAt
  <2>3. CASE t.parts[m + 1].op \notin {"key", "value"}
    <3>1. Turned(t, m + 2) = Turned(t, m + 1)
      BY <2>1, <2>3 DEF Turned
    <3> QED
      BY <2>3, <3>1, KeyBeforeIs
  <2> QED
    BY <2>2, <2>3
<1> QED
  BY <1>1, <1>3, <1>4, KeyBeforeIs


(* The first error is what a compound becomes. *)
LEMMA FailedCompound ==
    ASSUME NEW t \in AnyCall, t.call \in Compounds, NEW m \in DOMAIN t.parts,
           Result(t, m).is = "error", \A i \in 1 .. m - 1 : Result(t, i).is # "error"
    PROVE  Projection(t) = Result(t, m)
<1>1. PICK p : p = PartResults(Whole, t)
  OBVIOUS
<1>2. p \in Seq({Result(t, i) : i \in DOMAIN t.parts}) /\ Len(p) = Len(t.parts)
         /\ \A i \in DOMAIN t.parts : p[i] = Result(t, i)
  BY <1>1, PartFacts
<1>3. DOMAIN p = DOMAIN t.parts /\ DOMAIN p = 1 .. Len(t.parts) /\ Len(t.parts) \in Nat
  <2>1. Len(t.parts) \in Nat /\ DOMAIN t.parts = 1 .. Len(t.parts)
    BY PartFacts
  <2> QED
    BY <1>2, <2>1
<1>4. m \in Failures(p) /\ Failures(p) \subseteq Nat
  BY <1>2, <1>3 DEF Failures
<1>5. \A i \in Failures(p) : m <= i
  BY <1>2, <1>3 DEF Failures
<1>6. Min(Failures(p)) = m
  <2>1. Min(Failures(p)) \in Failures(p) /\ Min(Failures(p)) <= m
    BY <1>4, MinOf
  <2> QED
    BY <1>4, <1>5, <2>1
<1>7. Assembled(t, p, PartKeys(Whole, t)) = p[m]
  BY <1>4, <1>6 DEF Assembled, FirstError
<1> QED
  BY <1>1, <1>2, <1>7, ProjectionIs, BecameCases

(* What a compound becomes if no part fails. *)
EndedWith(t, items, entries) ==
    CASE t.call \in Lists           -> ArrayOf(items)
      [] t.call \in Maps            -> MapOf(entries)
      [] t.call = "tuple_variant"   -> Tagged(t.atom, ArrayOf(items))
      [] t.call = "struct_variant"  -> Tagged(t.atom, MapOf(entries))

LEMMA TaggedIs ==
    ASSUME NEW k, NEW v
    PROVE  ValueMap(<<[key |-> k, value |-> v]>>) = Tagged(k, v)
<1>1. PICK p : p = <<[key |-> k, value |-> v]>>
  OBVIOUS
<1>2. DOMAIN p = {1} /\ p[1].key = k /\ p[1].value = v
  BY <1>1
<1> DEFINE with(x) == {i \in DOMAIN p : p[i].key = x}
<1>3. ASSUME NEW x \in Texts
      PROVE  (IF with(x) = {} THEN None ELSE p[Max(with(x))].value) = IF x = k THEN v ELSE None
  <2>1. CASE x = k
    <3>1. with(x) = {1}
      BY <1>2, <2>1
    <3>2. Max(with(x)) \in {1}
      BY <3>1, MaxOf
    <3> QED
      BY <1>2, <2>1, <3>1, <3>2
  <2>2. CASE x # k
    <3>1. with(x) = {}
      BY <1>2, <2>2
    <3> QED
      BY <2>2, <3>1
  <2> QED
    BY <2>1, <2>2
<1>4. ValueMap(p) = MapOf([x \in Texts |-> IF with(x) = {} THEN None ELSE p[Max(with(x))].value])
  BY DEF ValueMap
<1>5. [x \in Texts |-> IF with(x) = {} THEN None ELSE p[Max(with(x))].value]
          = [x \in Texts |-> IF x = k THEN v ELSE None]
  <2> HIDE DEF with
  <2> QED
    BY <1>3
<1>6. [x \in Texts |-> IF x = k THEN v ELSE None] = [NoEntries EXCEPT ![k] = v]
  BY DEF NoEntries
<1> HIDE DEF with
<1> QED
  BY <1>1, <1>4, <1>5, <1>6 DEF Tagged

LEMMA AssembledWhole ==
    ASSUME NEW t \in AnyCall, t.call \in Compounds,
           \A i \in 1 .. Len(t.parts) : Result(t, i).is # "error"
    PROVE  Projection(t) = Some(EndedWith(t, ItemsTo(t, Len(t.parts)), EntriesTo(t, Len(t.parts))))
<1>1. PICK p : p = PartResults(Whole, t)
  OBVIOUS
<1>2. PICK q : q = PartKeys(Whole, t)
  OBVIOUS
<1>3. Len(t.parts) \in Nat /\ DOMAIN t.parts = 1 .. Len(t.parts)
         /\ p \in Seq({Result(t, i) : i \in DOMAIN t.parts}) /\ Len(p) = Len(t.parts)
         /\ \A i \in DOMAIN t.parts : p[i] = Result(t, i)
  BY <1>1, PartFacts
<1>4. DOMAIN p = DOMAIN t.parts
  BY <1>3
<1>5. \A i \in DOMAIN t.parts : q[i] = PartKey(Whole, t, i)
  BY <1>2 DEF PartKeys
<1>6. Failures(p) = {}
  BY <1>3, <1>4 DEF Failures
<1> DEFINE list == ValueArray(KeptOf(p)[Len(p)])
           present == {i \in DOMAIN p : p[i].is = "some" /\ t.parts[i].op # "key"}
           pairs == [i \in present |-> [key |-> q[i], value |-> p[i].value]]
           tagged(v) == ValueMap(<<[key |-> t.atom, value |-> v]>>)
<1>7. list = ArrayOf(ItemsTo(t, Len(t.parts)))
  BY <1>1, <1>3 DEF ValueArray, ItemsTo
<1>8. ValueMap(pairs) = MapOf(EntriesTo(t, Len(t.parts)))
  <2> DEFINE with(x) == {i \in DOMAIN pairs : pairs[i].key = x}
  <2>1. \A x \in Texts : with(x) = Giving(t, Len(t.parts), x)
    BY Zenon, <1>3, <1>4, <1>5 DEF Giving
  <2>2. ASSUME NEW x \in Texts
        PROVE  (IF with(x) = {} THEN None ELSE pairs[Max(with(x))].value)
                   = IF Giving(t, Len(t.parts), x) = {} THEN None
                     ELSE Result(t, Max(Giving(t, Len(t.parts), x))).value
    <3>1. CASE Giving(t, Len(t.parts), x) # {}
      <4>1. PICK z : z = Max(Giving(t, Len(t.parts), x))
        OBVIOUS
      <4>2. Giving(t, Len(t.parts), x) \subseteq 0 .. Len(t.parts)
        BY <1>3 DEF Giving
      <4>3. z \in with(x)
        BY Zenon, <1>3, <2>1, <3>1, <4>1, <4>2, MaxOf
      <4>4. z \in present /\ pairs[z].value = p[z].value /\ p[z] = Result(t, z)
        BY <1>3, <1>4, <4>3
      <4> QED
        BY Zenon, <2>1, <3>1, <4>1, <4>4
    <3>2. CASE Giving(t, Len(t.parts), x) = {}
      BY Zenon, <2>1, <3>2
    <3> QED
      BY Zenon, <3>1, <3>2
  <2>3. ValueMap(pairs) = MapOf([x \in Texts |-> IF with(x) = {} THEN None ELSE pairs[Max(with(x))].value])
    BY DEF ValueMap
  <2>4. [x \in Texts |-> IF with(x) = {} THEN None ELSE pairs[Max(with(x))].value] = EntriesTo(t, Len(t.parts))
    <3> HIDE DEF with, pairs
    <3> QED
      BY <2>2 DEF EntriesTo
  <2> HIDE DEF with, pairs
  <2> QED
    BY <2>3, <2>4
<1>9. Assembled(t, p, q) =
          Some(CASE t.call \in Lists          -> list
                 [] t.call \in Maps           -> ValueMap(pairs)
                 [] t.call = "tuple_variant"  -> tagged(list)
                 [] t.call = "struct_variant" -> tagged(ValueMap(pairs)))
  BY <1>6 DEF Assembled
<1>10. \A v : tagged(v) = Tagged(t.atom, v)
  BY TaggedIs
<1>11. Projection(t) = Assembled(t, p, q)
  BY <1>1, <1>2, ProjectionIs, BecameCases
<1> HIDE DEF list, pairs, tagged, present
<1> QED
  BY <1>7, <1>8, <1>9, <1>10, <1>11 DEF EndedWith

-----------------------------------------------------------------------------
(***************************************************************************)
(* The stack when a frame is changed, opened or closed.                    *)
(***************************************************************************)
LEMMA StackTop ==
    ASSUME NEW fs, NEW d, Stack(fs, d), fs # << >>
    PROVE  /\ Len(fs) \in Nat /\ Len(fs) > 0 /\ DOMAIN fs = 1 .. Len(fs)
           /\ Last(fs) = fs[Len(fs)] /\ \A i \in 1 .. Len(fs) : fs[i] \in FrameType
  BY DEF Stack, Last

LEMMA TopReplaced ==
    ASSUME NEW fs, NEW d, Stack(fs, d), fs # << >>,
           NEW g \in FrameType, g.of = Last(fs).of
    PROVE  /\ Stack([fs EXCEPT ![Len(fs)] = g], d)
           /\ [fs EXCEPT ![Len(fs)] = g] # << >>
           /\ Last([fs EXCEPT ![Len(fs)] = g]) = g
<1>1. PICK gs : gs = [fs EXCEPT ![Len(fs)] = g]
  OBVIOUS
<1>2. /\ Len(fs) \in Nat /\ Len(fs) > 0 /\ DOMAIN fs = 1 .. Len(fs)
      /\ Last(fs) = fs[Len(fs)] /\ \A i \in 1 .. Len(fs) : fs[i] \in FrameType
  BY StackTop
<1>3. fs \in Seq(FrameType)
  BY DEF Stack
<1>4. gs \in Seq(FrameType) /\ Len(gs) = Len(fs) /\ gs # << >>
  BY <1>1, <1>2, <1>3
<1>5. gs[Len(fs)] = g /\ \A i \in 1 .. Len(fs) : i # Len(fs) => gs[i] = fs[i]
  BY <1>1, <1>2
<1>6. \A i \in 1 .. Len(fs) : gs[i].of = fs[i].of
  BY <1>2, <1>5
<1>7. \A i \in 1 .. Len(gs) - 1 : Serves(gs[i], gs[i + 1].of)
  <2> SUFFICES ASSUME NEW i \in 1 .. Len(fs) - 1 PROVE Serves(gs[i], gs[i + 1].of)
    BY <1>4
  <2>1. i \in 1 .. Len(fs) /\ i + 1 \in 1 .. Len(fs) /\ i # Len(fs)
    <3>1. Len(fs) \in Nat
      BY <1>2
    <3> QED
      BY ONLY <3>1
  <2>2. Serves(fs[i], fs[i + 1].of)
    BY DEF Stack
  <2> QED
    BY <1>5, <1>6, <2>1, <2>2
<1>8. d \in AnyCall /\ Projection(gs[1].of) = Projection(d)
  BY <1>2, <1>6 DEF Stack
<1> QED
  BY Zenon, <1>1, <1>4, <1>5, <1>7, <1>8 DEF Stack, Last

LEMMA TopRemoved ==
    ASSUME NEW fs, NEW d, Stack(fs, d), fs # << >>
    PROVE  Stack(Front(fs), d) /\ Asks(Front(fs), d, Last(fs).of)
<1>1. PICK gs : gs = Front(fs)
  OBVIOUS
<1>2. /\ Len(fs) \in Nat /\ Len(fs) > 0 /\ DOMAIN fs = 1 .. Len(fs)
      /\ Last(fs) = fs[Len(fs)] /\ \A i \in 1 .. Len(fs) : fs[i] \in FrameType
  BY StackTop
<1>3. fs \in Seq(FrameType)
  BY DEF Stack
<1>4. gs = SubSeq(fs, 1, Len(fs) - 1) /\ Len(fs) - 1 \in Nat
  BY <1>1, <1>2 DEF Front
<1>5. gs \in Seq(FrameType) /\ Len(gs) = Len(fs) - 1 /\ \A i \in 1 .. Len(fs) - 1 : gs[i] = fs[i]
  BY <1>2, <1>3, <1>4
<1>6. \A i \in 1 .. Len(gs) - 1 : Serves(gs[i], gs[i + 1].of)
  <2> SUFFICES ASSUME NEW i \in 1 .. Len(fs) - 2 PROVE Serves(gs[i], gs[i + 1].of)
    BY <1>2, <1>5
  <2>1. i \in 1 .. Len(fs) - 1 /\ i + 1 \in 1 .. Len(fs) - 1
    BY <1>2
  <2>2. Serves(fs[i], fs[i + 1].of)
    BY <2>1 DEF Stack
  <2> QED
    BY <1>5, <2>1, <2>2
<1>7. d \in AnyCall /\ Projection(fs[1].of) = Projection(d)
  BY DEF Stack
<1>8. gs # << >> => Projection(gs[1].of) = Projection(d)
  <2>1. gs # << >> => 1 \in 1 .. Len(fs) - 1
    BY <1>2, <1>5
  <2> QED
    BY <1>5, <1>7, <2>1
<1>9. Last(fs).of \in AnyCall
  BY <1>2 DEF FrameType
<1>10. CASE gs = << >>
  <2>1. Len(gs) = 0
    BY <1>10
  <2>2. Len(fs) = 1
    <3>1. Len(fs) - 1 = 0 /\ Len(fs) \in Nat
      BY ONLY <1>2, <1>5, <2>1
    <3> QED
      BY ONLY <3>1
  <2>3. Asks(gs, d, Last(fs).of)
    BY <1>2, <1>7, <1>9, <1>10, <2>2 DEF Asks
  <2>4. Stack(gs, d)
    BY <1>5, <1>6, <1>10 DEF Stack
  <2> QED
    BY <1>1, <2>3, <2>4
<1>11. CASE gs # << >>
  <2>1. Len(fs) - 1 \in 1 .. Len(fs) - 1 /\ (Len(fs) - 1) + 1 = Len(fs)
    BY <1>2, <1>5, <1>11
  <2>2. Serves(fs[Len(fs) - 1], fs[Len(fs)].of)
    <3>1. \A i \in 1 .. Len(fs) - 1 : Serves(fs[i], fs[i + 1].of)
      BY DEF Stack
    <3> QED
      BY <2>1, <3>1
  <2>3. Last(gs) = fs[Len(fs) - 1]
    BY <1>5, <2>1 DEF Last
  <2> QED
    BY <1>1, <1>2, <1>5, <1>6, <1>7, <1>8, <1>9, <1>11, <2>2, <2>3 DEF Stack, Asks
<1> QED
  BY <1>10, <1>11

LEMMA TopAdded ==
    ASSUME NEW fs, NEW d, NEW t, Stack(fs, d), Asks(fs, d, t),
           NEW g \in FrameType, g.of = t
    PROVE  Stack(Append(fs, g), d) /\ Append(fs, g) # << >> /\ Last(Append(fs, g)) = g
<1>1. PICK gs : gs = Append(fs, g)
  OBVIOUS
<1>2. fs \in Seq(FrameType) /\ Len(fs) \in Nat
  BY DEF Stack
<1>3. /\ gs \in Seq(FrameType) /\ Len(gs) = Len(fs) + 1 /\ gs # << >>
      /\ gs[Len(fs) + 1] = g /\ \A i \in 1 .. Len(fs) : gs[i] = fs[i]
  BY <1>1, <1>2
<1>4. ASSUME NEW i \in 1 .. Len(gs) - 1 PROVE Serves(gs[i], gs[i + 1].of)
  <2>1. CASE i = Len(fs)
    <3>1. fs # << >> /\ Serves(fs[Len(fs)], t)
      BY <1>2, <1>3, <2>1 DEF Asks, Last
    <3> QED
      BY <1>2, <1>3, <2>1, <3>1
  <2>2. CASE i # Len(fs)
    <3>1. i \in 1 .. Len(fs) - 1 /\ i \in 1 .. Len(fs) /\ i + 1 \in 1 .. Len(fs)
      BY <1>2, <1>3, <2>2
    <3>2. Serves(fs[i], fs[i + 1].of)
      BY <3>1 DEF Stack
    <3> QED
      BY <1>3, <3>1, <3>2
  <2> QED
    BY <2>1, <2>2
<1>5. d \in AnyCall /\ Projection(gs[1].of) = Projection(d)
  <2>1. CASE fs = << >>
    BY <1>2, <1>3, <2>1 DEF Asks
  <2>2. CASE fs # << >>
    <3>1. 1 \in 1 .. Len(fs)
      BY <1>2, <2>2
    <3> QED
      BY <1>3, <2>2, <3>1 DEF Stack
  <2> QED
    BY <2>1, <2>2
<1> QED
  BY <1>1, <1>3, <1>4, <1>5 DEF Stack, Last

LEMMA AnswersAsked ==
    ASSUME NEW fs, NEW d, NEW t, Asks(fs, d, t)
    PROVE  Answers(fs, d, Projection(t)) /\ Projection(t) # Nothing
<1>1. Projection(t) # Nothing
  BY ProjectionShape DEF Asks, Shape, Absent, Some, Nothing
<1>2. fs # << >> => Serves(Last(fs), Waiting(Last(fs)).of)
  BY DEF Asks, Serves
<1> QED
  BY <1>1, <1>2 DEF Asks, Answers, Serves


-----------------------------------------------------------------------------
(***************************************************************************)
(* The frame on top, before and after a part.                              *)
(***************************************************************************)
Entered(f, k, p) == [f EXCEPT !.at = @ + 1, !.key = k, !.pending_key = p]

LEMMA EnteredIs ==
    ASSUME NEW f \in FrameType, NEW k \in Texts \cup {None}, NEW p \in Texts \cup {None}
    PROVE  LET g == Entered(f, k, p)
           IN  /\ g \in FrameType /\ g.of = f.of /\ g.at = f.at + 1 /\ g.key = k
               /\ g.items = f.items /\ g.entries = f.entries /\ g.pending_key = p
<1>1. PICK K, I, E : K = Texts \cup {None} /\ I = Seq(AnyItem) /\ E = [Texts -> AnyItem \cup {None}]
  OBVIOUS
<1>2. FrameType = [of : AnyCall, at : Nat, key : K, items : I, entries : E, pending_key : K]
  BY <1>1 DEF FrameType
<1>3. f.at + 1 \in Nat /\ k \in K /\ p \in K
  BY <1>1, <1>2
<1> QED
  BY <1>2, <1>3 DEF Entered

LEMMA EnteredHolds ==
    ASSUME NEW f \in FrameType, Holds(f, f.at), f.at < Len(f.of.parts),
           NEW k \in Texts \cup {None}, NEW p \in Texts \cup {None}, f.of.call # "map" => p = None
    PROVE  Busy(Entered(f, k, p))
<1>1. PICK g : g = Entered(f, k, p)
  OBVIOUS
<1>2. /\ g \in FrameType /\ g.of = f.of /\ g.at = f.at + 1 /\ g.key = k
      /\ g.items = f.items /\ g.entries = f.entries /\ g.pending_key = p
  BY <1>1, EnteredIs
<1>3. f.at \in Nat /\ f.of \in AnyCall
  BY DEF FrameType
<1>4. Len(f.of.parts) \in Nat
  BY <1>3, PartFacts
<1>5. g.at > 0 /\ g.at - 1 = f.at /\ g.at \in 0 .. Len(g.of.parts) /\ f.at \in 0 .. g.at
  <2>1. f.at < Len(f.of.parts)
    OBVIOUS
  <2>2. g.at = f.at + 1 /\ g.of = f.of
    BY <1>2
  <2> QED
    BY ONLY <1>3, <1>4, <2>1, <2>2
<1> QED
  BY <1>1, <1>2, <1>5 DEF Holds, Busy

(* serialize_element, serialize_field, serialize_key: the part has its own key. *)
LEMMA PartEntered ==
    ASSUME NEW f \in FrameType, Resting1(f), f.at < Len(f.of.parts),
           f.of.parts[f.at + 1].op \in {"element", "field", "key"}
    PROVE  LET part == f.of.parts[f.at + 1]
               g    == Entered(f, part.key, f.pending_key)
           IN  g \in FrameType /\ g.of = f.of /\ Serves(g, part.of) /\ part.of \in AnyCall
<1>1. f.at \in Nat /\ f.of \in AnyCall /\ f.pending_key \in Texts \cup {None}
  BY DEF FrameType
<1>2. Len(f.of.parts) \in Nat /\ DOMAIN f.of.parts = 1 .. Len(f.of.parts)
  BY <1>1, PartFacts
<1>3. f.at + 1 \in DOMAIN f.of.parts
  BY <1>1, <1>2
<1>4. PICK part : part = f.of.parts[f.at + 1]
  OBVIOUS
<1>5. part.of \in AnyCall /\ part.key \in Texts \cup {None}
  BY <1>1, <1>3, <1>4, PartFacts
<1>6. PICK g : g = Entered(f, part.key, f.pending_key)
  OBVIOUS
<1>7. g \in FrameType /\ g.of = f.of /\ g.at = f.at + 1 /\ g.key = part.key /\ g.pending_key = f.pending_key
  <2>1. PICK k \in Texts \cup {None}, q \in Texts \cup {None} : k = part.key /\ q = f.pending_key
    BY <1>1, <1>5
  <2>2. g = Entered(f, k, q)
    BY <1>6, <2>1
  <2>3. g \in FrameType /\ g.of = f.of /\ g.at = f.at + 1 /\ g.key = k /\ g.pending_key = q
    BY <2>2, EnteredIs
  <2> QED
    BY <2>1, <2>3
<1>8. Busy(g)
  BY <1>1, <1>5, <1>6, EnteredHolds DEF Resting1, Holds
<1>9. Proper(g)
  BY <1>4, <1>7 DEF Proper, Waiting, PartKey
<1> QED
  BY <1>4, <1>5, <1>6, <1>7, <1>8, <1>9 DEF Serves, Waiting

(* serialize_value, under the key that waits. *)
LEMMA ValueEntered ==
    ASSUME NEW f \in FrameType, Resting1(f), f.at < Len(f.of.parts),
           f.of.parts[f.at + 1].op = "value", f.pending_key # None
    PROVE  LET part == f.of.parts[f.at + 1]
               g    == Entered(f, f.pending_key, None)
           IN  g \in FrameType /\ g.of = f.of /\ Serves(g, part.of) /\ part.of \in AnyCall
<1>1. f.at \in Nat /\ f.of \in AnyCall /\ f.pending_key \in Texts \cup {None}
  BY DEF FrameType
<1>2. Len(f.of.parts) \in Nat /\ DOMAIN f.of.parts = 1 .. Len(f.of.parts)
  BY <1>1, PartFacts
<1>3. f.at + 1 \in DOMAIN f.of.parts
  BY <1>1, <1>2
<1>4. PICK part : part = f.of.parts[f.at + 1]
  OBVIOUS
<1>5. part.of \in AnyCall
  BY <1>1, <1>3, <1>4, PartFacts
<1>6. PICK g : g = Entered(f, f.pending_key, None)
  OBVIOUS
<1>7. g \in FrameType /\ g.of = f.of /\ g.at = f.at + 1 /\ g.key = f.pending_key /\ g.pending_key = None
  BY <1>1, <1>6, EnteredIs
<1>8. Busy(g)
  BY <1>1, <1>6, EnteredHolds DEF Resting1
<1>9. Proper(g)
  <2>1. f.pending_key = KeyBefore(Whole, f.of, f.at + 1)
    BY DEF Resting1
  <2>2. Waiting(g) = part
    BY <1>4, <1>7 DEF Waiting
  <2>3. PartKey(Whole, g.of, g.at) = KeyBefore(Whole, f.of, f.at + 1)
    BY <1>4, <1>7 DEF PartKey
  <2> QED
    BY <1>7, <2>1, <2>2, <2>3 DEF Proper
<1> QED
  BY <1>4, <1>5, <1>6, <1>7, <1>8, <1>9 DEF Serves, Waiting

LEMMA ValueRefused ==
    ASSUME NEW f \in FrameType, Resting1(f), f.at < Len(f.of.parts),
           f.of.parts[f.at + 1].op = "value", f.pending_key = None
    PROVE  LET g == [f EXCEPT !.at = @ + 1]
           IN  g \in FrameType /\ g.of = f.of /\ Busy(g) /\ Result(g.of, g.at) = Err("UnsupportedValue")
<1>1. f.at \in Nat /\ f.of \in AnyCall /\ f.key \in Texts \cup {None}
  BY DEF FrameType
<1>2. PICK g : g = [f EXCEPT !.at = @ + 1]
  OBVIOUS
<1>3. g = Entered(f, f.key, None)
  <2>1. /\ DOMAIN f = {"of", "at", "key", "items", "entries", "pending_key"}
        /\ f = [x \in DOMAIN f |-> f[x]] /\ f["key"] = f.key /\ f["pending_key"] = None
    BY DEF FrameType
  <2>2. g = [x \in DOMAIN f |-> IF x = "at" THEN f.at + 1 ELSE f[x]]
    BY <1>2, <2>1
  <2>3. Entered(f, f.key, None) =
            [x \in DOMAIN f |-> IF x = "at" THEN f.at + 1 ELSE IF x = "key" THEN f.key
                                ELSE IF x = "pending_key" THEN None ELSE f[x]]
    BY <2>1 DEF Entered
  <2>4. \A x \in DOMAIN f :
            (IF x = "at" THEN f.at + 1 ELSE IF x = "key" THEN f.key
             ELSE IF x = "pending_key" THEN None ELSE f[x]) = IF x = "at" THEN f.at + 1 ELSE f[x]
    BY <2>1
  <2> QED
    BY <2>2, <2>3, <2>4
<1>4. g \in FrameType /\ g.of = f.of /\ g.at = f.at + 1
  <2>1. PICK h : h = Entered(f, f.key, None)
    OBVIOUS
  <2>2. None \in Texts \cup {None}
    OBVIOUS
  <2>3. h \in FrameType /\ h.of = f.of /\ h.at = f.at + 1
    <3>1. PICK k \in Texts \cup {None}, q \in Texts \cup {None} : k = f.key /\ q = None
      BY <1>1, <2>2
    <3>2. h = Entered(f, k, q)
      BY <2>1, <3>1
    <3> QED
      BY <3>2, EnteredIs
  <2> QED
    BY <1>3, <2>1, <2>3
<1>5. Busy(g)
  BY <1>1, <1>3, EnteredHolds DEF Resting1
<1>6. Result(f.of, f.at + 1) = Err("UnsupportedValue")
  BY DEF Resting1, Result, PartResult
<1> QED
  BY <1>2, <1>4, <1>5, <1>6


LEMMA OpCalls ==
    ASSUME NEW t \in AnyCall, NEW i \in DOMAIN t.parts
    PROVE  /\ t.parts[i].op = "element" => t.call \in Sequential /\ t.call \notin Keyed
           /\ t.parts[i].op \in {"key", "value"} => t.call = "map"
           /\ t.parts[i].op = "field" => t.call \in Keyed /\ t.call # "map" /\ t.parts[i].key \in Texts
           /\ t.call \in Sequential => t.parts[i].op = "element"
<1>1. WellCalled(t)
  BY PartFacts
<1>2. t.parts # << >>
  OBVIOUS
<1> QED
  BY <1>1, <1>2 DEF WellCalled, Sequential, Keyed, Maps, Lists, Wrappers, Textual, Bare, ScalarType, Refusal, Units

LEMMA KindsApart ==
    /\ "map" \in Keyed
    /\ \A c \in Sequential : c \notin Keyed
    /\ Compounds = Sequential \cup Keyed
  BY DEF Sequential, Keyed, Maps, Lists, Compounds

(* A frame that has been given the result of a part. *)
LEMMA PartHeld ==
    ASSUME NEW f, Busy(f), NEW g, g.of = f.of, g.at = f.at,
           Result(f.of, f.at).is # "error",
           f.of.call \in Sequential => g.items = Kept(f.items, Result(f.of, f.at)) /\ g.entries = f.entries,
           f.of.call \in Keyed =>
               /\ g.items = f.items
               /\ g.entries =
                      IF Waiting(f).op # "key" /\ Result(f.of, f.at).is = "some"
                      THEN [f.entries EXCEPT ![PartKey(Whole, f.of, f.at)] = Result(f.of, f.at).value]
                      ELSE f.entries,
           f.of.call # "map" => g.pending_key = None
    PROVE  Holds(g, g.at)
<1>1. PICK m : m = f.at - 1
  OBVIOUS
<1>2. Holds(f, m) /\ f.at > 0
  BY <1>1 DEF Busy
<1>3. f.of \in AnyCall /\ f.at \in 0 .. Len(f.of.parts)
  BY <1>2 DEF Holds
<1>4. Len(f.of.parts) \in Nat
  BY <1>3, PartFacts
<1>5. m \in 0 .. Len(f.of.parts) - 1 /\ m + 1 = f.at /\ f.at \in Nat
  BY <1>1, <1>2, <1>3, <1>4
<1>6. \A i \in 1 .. f.at : Result(f.of, i).is # "error"
  <2>1. \A i \in 1 .. f.at : i \in 1 .. m \/ i = f.at
    BY <1>5
  <2> QED
    BY <1>2, <2>1 DEF Holds
<1>7. ItemsTo(f.of, f.at) = Kept(ItemsTo(f.of, m), Result(f.of, f.at))
  BY <1>3, <1>5, ItemsStep
<1>8. EntriesTo(f.of, f.at) =
          IF Waiting(f).op # "key" /\ Result(f.of, f.at).is = "some"
          THEN [EntriesTo(f.of, m) EXCEPT ![PartKey(Whole, f.of, f.at)] = Result(f.of, f.at).value]
          ELSE EntriesTo(f.of, m)
  BY <1>3, <1>5, EntriesStep DEF Waiting
<1>9. f.at \in 0 .. f.at
  BY <1>5
<1>10. CASE f.of.call \in Sequential
  <2>1. f.of.call \notin Keyed
    BY <1>10, KindsApart
  <2>2. f.items = ItemsTo(f.of, m) /\ f.entries = NoEntries
    BY <1>2, <1>10, <2>1 DEF Holds
  <2>3. g.items = ItemsTo(f.of, f.at) /\ g.entries = NoEntries
    BY <1>7, <1>10, <2>2
  <2> QED
    BY <1>2, <1>3, <1>6, <1>9, <1>10, <2>1, <2>3 DEF Holds
<1>11. CASE f.of.call \in Keyed
  <2>1. f.of.call \notin Sequential
    BY <1>11, KindsApart
  <2>2. f.items = << >> /\ f.entries = EntriesTo(f.of, m)
    BY <1>2, <1>11, <2>1 DEF Holds
  <2>3. g.items = << >> /\ g.entries = EntriesTo(f.of, f.at)
    BY <1>8, <1>11, <2>2
  <2> QED
    BY <1>2, <1>3, <1>6, <1>9, <1>11, <2>1, <2>3 DEF Holds
<1> QED
  BY <1>2, <1>10, <1>11, KindsApart DEF Holds

(* What the answer to a frame is worth to it. *)
LEMMA PartAnswered ==
    ASSUME NEW f \in FrameType, Serves(f, Waiting(f).of), NEW r, r = Projection(Waiting(f).of)
    PROVE  /\ f.at \in DOMAIN f.of.parts /\ f.of \in AnyCall /\ Waiting(f).of \in AnyCall
           /\ Waiting(f).op # "key" => Result(f.of, f.at) = r
           /\ Waiting(f).op = "key" /\ r.is = "some" =>
                  IF r.value.type = "String"
                  THEN Result(f.of, f.at) = r /\ KeyAt(Whole, f.of, f.at) = r.value.atom
                  ELSE Result(f.of, f.at) = Err("UnsupportedValue")
           /\ Waiting(f).op = "key" /\ r.is = "none" => Result(f.of, f.at) = Err("UnsupportedValue")
           /\ r.is = "error" => Result(f.of, f.at) = r
<1>1. f.of \in AnyCall /\ f.at \in 0 .. Len(f.of.parts) /\ f.at > 0
  BY DEF Serves, Busy, Holds
<1>2. f.at \in DOMAIN f.of.parts
  <2>1. Len(f.of.parts) \in Nat /\ DOMAIN f.of.parts = 1 .. Len(f.of.parts)
    BY <1>1, PartFacts
  <2> QED
    BY <1>1, <2>1
<1>3. Waiting(f).of \in AnyCall
  BY <1>1, <1>2, PartFacts DEF Waiting
<1>4. r = Whole[f.of.parts[f.at].of]
  BY DEF Projection, Whole, Waiting
<1>5. f.of.parts[f.at].op = "value" => KeyBefore(Whole, f.of, f.at) # None
  BY DEF Serves, Proper, Waiting, PartKey
<1>6. Waiting(f) = f.of.parts[f.at]
  BY DEF Waiting
<1>7. CASE Waiting(f).op = "key"
  BY Zenon, <1>1, <1>2, <1>3, <1>4, <1>6, <1>7 DEF Result, PartResult, KeyAt
<1>8. CASE Waiting(f).op # "key"
  BY Zenon, <1>1, <1>2, <1>3, <1>4, <1>5, <1>6, <1>8 DEF Result, PartResult
<1> QED
  BY <1>7, <1>8


LEMMA NoKeyWaits ==
    ASSUME NEW f \in FrameType, Serves(f, Waiting(f).of), Waiting(f).op # "key"
    PROVE  f.pending_key = None /\ KeyBefore(Whole, f.of, f.at + 1) = None
<1>1. f.at \in DOMAIN f.of.parts /\ f.of \in AnyCall
  BY PartAnswered
<1>2. Len(f.of.parts) \in Nat /\ DOMAIN f.of.parts = 1 .. Len(f.of.parts) /\ WellCalled(f.of)
  BY <1>1, PartFacts
<1>3. f.at - 1 \in 0 .. Len(f.of.parts) - 1 /\ (f.at - 1) + 1 = f.at /\ (f.at - 1) + 2 = f.at + 1
          /\ f.at + 1 \in 1 .. Len(f.of.parts) + 1
  BY <1>1, <1>2
<1>4. CASE f.of.call = "map"
  <2>1. f.of.parts # << >>
    BY <1>1
  <2>2. f.of.parts[f.at].op \in {"key", "value"}
    BY <1>1, <1>2, <1>4, <2>1 DEF WellCalled, Lists, Wrappers, Textual, Bare, ScalarType, Refusal, Units
  <2>3. f.of.parts[f.at].op = "value"
    BY <2>2 DEF Waiting
  <2> QED
    BY <1>1, <1>3, <2>3, KeyStep DEF Serves, Proper, Waiting
<1>5. CASE f.of.call # "map"
  BY <1>1, <1>3, <1>5, KeyStep DEF Serves, Busy, Holds
<1> QED
  BY <1>4, <1>5

LEMMA KeyHeld ==
    ASSUME NEW f \in FrameType, Serves(f, Waiting(f).of), NEW r, r = Projection(Waiting(f).of),
           Waiting(f).op = "key", r.is = "some", r.value.type = "String"
    PROVE  LET g == [f EXCEPT !.pending_key = r.value.atom]
           IN  g \in FrameType /\ g.of = f.of /\ Resting1(g)
<1>1. /\ f.at \in DOMAIN f.of.parts /\ f.of \in AnyCall /\ Waiting(f).of \in AnyCall
      /\ Result(f.of, f.at) = r /\ KeyAt(Whole, f.of, f.at) = r.value.atom
  BY PartAnswered
<1>2. r.value.atom \in Texts
  BY <1>1, ProjectionShape DEF Shape, Absent
<1>3. PICK g : g = [f EXCEPT !.pending_key = r.value.atom]
  OBVIOUS
<1>4. PICK I, E : I = Seq(AnyItem) /\ E = [Texts -> AnyItem \cup {None}]
  OBVIOUS
<1>5. f \in [of : AnyCall, at : Nat, key : Texts \cup {None}, items : I, entries : E,
             pending_key : Texts \cup {None}]
  BY <1>4 DEF FrameType
<1>6. /\ g.of = f.of /\ g.at = f.at /\ g.items = f.items /\ g.entries = f.entries
      /\ g.pending_key = r.value.atom /\ g \in FrameType
  BY <1>2, <1>3, <1>4, <1>5 DEF FrameType
<1>7. f.of.call = "map"
  BY <1>1, OpCalls DEF Waiting
<1>8. "map" \in Keyed /\ "map" \notin Sequential
  BY KindsApart
<1>9. Holds(g, g.at)
  BY <1>1, <1>6, <1>7, <1>8, PartHeld DEF Serves
<1>10. KeyBefore(Whole, f.of, f.at + 1) = KeyAt(Whole, f.of, f.at)
  <2>1. Len(f.of.parts) \in Nat /\ DOMAIN f.of.parts = 1 .. Len(f.of.parts)
    BY <1>1, PartFacts
  <2>2. f.at - 1 \in 0 .. Len(f.of.parts) - 1 /\ (f.at - 1) + 1 = f.at /\ (f.at - 1) + 2 = f.at + 1
    BY <1>1, <2>1
  <2> QED
    BY <1>1, <2>2, KeyStep DEF Waiting
<1> QED
  BY <1>1, <1>3, <1>6, <1>9, <1>10 DEF Resting1

LEMMA ElementHeld ==
    ASSUME NEW f \in FrameType, Serves(f, Waiting(f).of), NEW r, r = Projection(Waiting(f).of),
           Waiting(f).op = "element", r.is = "some"
    PROVE  LET g == [f EXCEPT !.items = Append(@, r.value)]
           IN  g \in FrameType /\ g.of = f.of /\ Resting1(g)
<1>1. /\ f.at \in DOMAIN f.of.parts /\ f.of \in AnyCall /\ Waiting(f).of \in AnyCall
      /\ Result(f.of, f.at) = r
  BY PartAnswered
<1>2. r.value \in AnyItem
  BY <1>1 DEF AnyItem
<1>3. PICK g : g = [f EXCEPT !.items = Append(f.items, r.value)]
  OBVIOUS
<1>4. f.items \in Seq(AnyItem) /\ Append(f.items, r.value) \in Seq(AnyItem)
  BY <1>2 DEF FrameType
<1>5. PICK I, E, i : I = Seq(AnyItem) /\ E = [Texts -> AnyItem \cup {None}] /\ i = Append(f.items, r.value)
  OBVIOUS
<1>6. FrameType = [of : AnyCall, at : Nat, key : Texts \cup {None}, items : I, entries : E,
             pending_key : Texts \cup {None}]
  BY <1>5 DEF FrameType
<1>7. g = [f EXCEPT !.items = i] /\ i \in I
  BY <1>3, <1>4, <1>5
<1>8. /\ g.of = f.of /\ g.at = f.at /\ g.items = i /\ g.entries = f.entries
      /\ g.pending_key = f.pending_key /\ g \in FrameType
  BY <1>6, <1>7
<1>9. f.of.call \in Sequential /\ f.of.call \notin Keyed
  BY <1>1, OpCalls DEF Waiting
<1>10. Kept(f.items, r) = i
  BY <1>5 DEF Kept
<1>11. f.pending_key = None /\ KeyBefore(Whole, f.of, f.at + 1) = None
  BY NoKeyWaits
<1>12. Holds(g, g.at)
  BY <1>1, <1>8, <1>9, <1>10, <1>11, PartHeld DEF Serves
<1> QED
  BY <1>3, <1>8, <1>11, <1>12 DEF Resting1

LEMMA EntryHeld ==
    ASSUME NEW f \in FrameType, Serves(f, Waiting(f).of), NEW r, r = Projection(Waiting(f).of),
           Waiting(f).op \in {"value", "field"}, r.is = "some"
    PROVE  LET g == [f EXCEPT !.entries[f.key] = r.value]
           IN  g \in FrameType /\ g.of = f.of /\ Resting1(g)
<1>1. /\ f.at \in DOMAIN f.of.parts /\ f.of \in AnyCall /\ Waiting(f).of \in AnyCall
      /\ Result(f.of, f.at) = r
  BY PartAnswered
<1>2. r.value \in AnyItem
  BY <1>1 DEF AnyItem
<1>3. PICK e : e = [f.entries EXCEPT ![f.key] = r.value]
  OBVIOUS
<1>4. PICK g : g = [f EXCEPT !.entries = e]
  OBVIOUS
<1>5. [f EXCEPT !.entries[f.key] = r.value] = g
  BY <1>3, <1>4
<1>6. PICK I, E : I = Seq(AnyItem) /\ E = [Texts -> AnyItem \cup {None}]
  OBVIOUS
<1>7. FrameType = [of : AnyCall, at : Nat, key : Texts \cup {None}, items : I, entries : E,
             pending_key : Texts \cup {None}]
  BY <1>6 DEF FrameType
<1>8. e \in E
  <2>1. f.entries \in [Texts -> AnyItem \cup {None}]
    BY <1>6, <1>7
  <2> QED
    BY <1>2, <1>3, <1>6, <2>1
<1>9. /\ g.of = f.of /\ g.at = f.at /\ g.items = f.items /\ g.entries = e
      /\ g.pending_key = f.pending_key /\ g \in FrameType
  BY <1>4, <1>7, <1>8
<1>10. f.of.call \in Keyed /\ f.of.call \notin Sequential
  BY <1>1, OpCalls, KindsApart DEF Waiting
<1>11. f.key = PartKey(Whole, f.of, f.at)
  BY DEF Serves, Proper
<1>12. f.pending_key = None /\ KeyBefore(Whole, f.of, f.at + 1) = None
  BY NoKeyWaits
<1>13. e = [f.entries EXCEPT ![PartKey(Whole, f.of, f.at)] = Result(f.of, f.at).value]
  BY <1>1, <1>3, <1>11
<1>14. Holds(g, g.at)
  BY <1>1, <1>9, <1>10, <1>12, <1>13, PartHeld DEF Serves
<1> QED
  BY <1>5, <1>9, <1>12, <1>14 DEF Resting1

LEMMA AbsentDropped ==
    ASSUME NEW f \in FrameType, Serves(f, Waiting(f).of), NEW r, r = Projection(Waiting(f).of),
           Waiting(f).op # "key", r.is = "none"
    PROVE  Resting1(f)
<1>1. /\ f.at \in DOMAIN f.of.parts /\ f.of \in AnyCall /\ Waiting(f).of \in AnyCall
      /\ Result(f.of, f.at) = r
  BY PartAnswered
<1>2. Kept(f.items, r) = f.items
  BY DEF Kept
<1>3. f.pending_key = None /\ KeyBefore(Whole, f.of, f.at + 1) = None
  BY NoKeyWaits
<1>4. Holds(f, f.at)
  BY <1>1, <1>2, <1>3, PartHeld DEF Serves
<1> QED
  BY <1>3, <1>4 DEF Resting1

(* `?': the compound fails with the part. *)
LEMMA FrameFailed ==
    ASSUME NEW f \in FrameType, Busy(f), Result(f.of, f.at).is = "error"
    PROVE  Projection(f.of) = Result(f.of, f.at)
<1>1. f.of \in AnyCall /\ f.of.call \in Compounds /\ f.at \in 0 .. Len(f.of.parts) /\ f.at > 0
         /\ \A i \in 1 .. f.at - 1 : Result(f.of, i).is # "error"
  BY DEF Busy, Holds
<1>2. Len(f.of.parts) \in Nat /\ DOMAIN f.of.parts = 1 .. Len(f.of.parts)
  BY <1>1, PartFacts
<1>3. f.at \in DOMAIN f.of.parts
  BY <1>1, <1>2
<1> QED
  BY <1>1, <1>3, FailedCompound

LEMMA FrameEnded ==
    ASSUME NEW f \in FrameType, Resting1(f), f.at = Len(f.of.parts)
    PROVE  Projection(f.of) = Some(Ended(f))
<1>1. /\ f.of \in AnyCall /\ f.of.call \in Compounds
      /\ \A i \in 1 .. Len(f.of.parts) : Result(f.of, i).is # "error"
      /\ f.of.call \in Sequential => f.items = ItemsTo(f.of, Len(f.of.parts))
      /\ f.of.call \in Keyed => f.entries = EntriesTo(f.of, Len(f.of.parts))
  BY DEF Resting1, Holds
<1>2. Projection(f.of) = Some(EndedWith(f.of, ItemsTo(f.of, Len(f.of.parts)), EntriesTo(f.of, Len(f.of.parts))))
  BY <1>1, AssembledWhole
<1>3. CASE f.of.call \in Sequential
  <2>1. f.of.call \notin Maps /\ f.of.call # "struct_variant"
    BY <1>3 DEF Sequential, Lists, Maps
  <2>2. \/ f.of.call \in Lists /\ f.of.call # "tuple_variant"
        \/ f.of.call = "tuple_variant" /\ f.of.call \notin Lists
    BY <1>3 DEF Sequential, Lists
  <2>3. f.items = ItemsTo(f.of, Len(f.of.parts))
    BY <1>1, <1>3
  <2>4. CASE f.of.call \in Lists /\ f.of.call # "tuple_variant"
    BY <1>2, <2>1, <2>3, <2>4 DEF EndedWith, Ended
  <2>5. CASE f.of.call = "tuple_variant" /\ f.of.call \notin Lists
    BY <1>2, <2>1, <2>3, <2>5 DEF EndedWith, Ended
  <2> QED
    BY <2>2, <2>4, <2>5
<1>4. CASE f.of.call \in Keyed
  <2>1. f.of.call \notin Lists /\ f.of.call # "tuple_variant"
    BY <1>4 DEF Keyed, Lists, Maps
  <2>2. \/ f.of.call \in Maps /\ f.of.call # "struct_variant"
        \/ f.of.call = "struct_variant" /\ f.of.call \notin Maps
    BY <1>4 DEF Keyed, Maps
  <2>3. f.entries = EntriesTo(f.of, Len(f.of.parts))
    BY <1>1, <1>4
  <2>4. CASE f.of.call \in Maps /\ f.of.call # "struct_variant"
    BY <1>2, <2>1, <2>3, <2>4 DEF EndedWith, Ended
  <2>5. CASE f.of.call = "struct_variant" /\ f.of.call \notin Maps
    BY <1>2, <2>1, <2>3, <2>5 DEF EndedWith, Ended
  <2> QED
    BY <2>2, <2>4, <2>5
<1> QED
  BY <1>1, <1>3, <1>4, KindsApart


-----------------------------------------------------------------------------
(***************************************************************************)
(* Every step of the serializer keeps the stack in order.                  *)
(***************************************************************************)
LEMMA NoneIsNoCall == None \notin AnyCall
  BY ValueInsertAssumption

(* A call that returns at once. *)
LEMMA ReturnKeeps ==
    ASSUME StackInv, focus # None, out' = Projection(focus), focus' = None,
           UNCHANGED <<data, frames>>
    PROVE  StackInv'
<1>1. Asks(frames, data, focus)
  BY DEF StackInv
<1>2. Answers(frames, data, out') /\ out' # Nothing
  BY <1>1, AnswersAsked
<1> QED
  BY <1>2 DEF StackInv

LEMMA ScalarKeeps ==
    ASSUME StackInv, SerializeScalar, UNCHANGED data PROVE StackInv'
<1>1. focus # None /\ focus.call \in DOMAIN ScalarType /\ focus' = None /\ UNCHANGED frames
         /\ out' = Some(Leaf(ScalarType[focus.call], focus.atom))
  BY DEF SerializeScalar, Entering, Return
<1>2. focus \in AnyCall
  BY <1>1 DEF StackInv, Asks
<1>3. Projection(focus) = Some(Leaf(ScalarType[focus.call], focus.atom))
  <2>1. Projection(focus) = Became(Whole, focus)
    BY <1>2, ProjectionIs
  <2>2. CASE focus.call \in {"char", "unit_variant"}
    BY <2>1, <2>2, BecameCases DEF ValueFrom, FromType, ScalarType
  <2>3. CASE focus.call \notin {"char", "unit_variant"}
    <3>1. focus.call \in DOMAIN FromType /\ FromType[focus.call] = ScalarType[focus.call]
      BY <1>1, <2>3 DEF FromType, ScalarType
    <3> QED
      BY <2>1, <3>1, BecameCases DEF ValueFrom
  <2> QED
    BY <2>2, <2>3
<1> QED
  BY <1>1, <1>3, ReturnKeeps

LEMMA UnitKeeps ==
    ASSUME StackInv, SerializeUnit, UNCHANGED data PROVE StackInv'
<1>1. focus # None /\ focus.call \in Units /\ focus' = None /\ UNCHANGED frames /\ out' = Absent
  BY DEF SerializeUnit, Entering, Return
<1>2. focus \in AnyCall
  BY <1>1 DEF StackInv, Asks
<1>3. Projection(focus) = Absent
  BY <1>1, <1>2, ProjectionIs, BecameCases
<1> QED
  BY <1>1, <1>3, ReturnKeeps

LEMMA UnsupportedKeeps ==
    ASSUME StackInv, SerializeUnsupported, UNCHANGED data PROVE StackInv'
<1>1. focus # None /\ focus.call \in {"i64", "i128"} /\ focus' = None /\ UNCHANGED frames
         /\ out' = Err(Refusal[focus.call])
  BY DEF SerializeUnsupported, Entering, Return, Refusal
<1>2. focus \in AnyCall
  BY <1>1 DEF StackInv, Asks
<1>3. Projection(focus) = Err(Refusal[focus.call])
  BY <1>1, <1>2, ProjectionIs, BecameCases DEF Refusal
<1> QED
  BY <1>1, <1>3, ReturnKeeps

LEMMA WrapperKeeps ==
    ASSUME StackInv, SerializeWrapper, UNCHANGED data PROVE StackInv'
<1>1. focus # None /\ focus.call \in Wrappers /\ focus' = focus.parts[1].of /\ UNCHANGED <<frames, out>>
  BY DEF SerializeWrapper, Entering
<1>2. focus \in AnyCall /\ out = Nothing /\ Asks(frames, data, focus)
  BY <1>1 DEF StackInv, Asks
<1>3. 1 \in DOMAIN focus.parts
  <2>1. WellCalled(focus) /\ DOMAIN focus.parts = 1 .. Len(focus.parts)
    BY <1>2, PartFacts
  <2>2. Len(focus.parts) = 1
    BY <1>1, <2>1 DEF WellCalled, Wrappers, Textual, Bare, ScalarType, Refusal, Units, Lists
  <2> QED
    BY <2>1, <2>2
<1>4. focus' \in AnyCall
  BY <1>1, <1>2, <1>3, PartFacts
<1>5. Projection(focus') = Projection(focus)
  <2>1. Projection(focus) = Whole[focus.parts[1].of]
    BY <1>1, <1>2, ProjectionIs, BecameCases
  <2> QED
    BY <1>1, <2>1 DEF Whole, Projection
<1>6. Asks(frames, data, focus')
  BY <1>2, <1>4, <1>5 DEF Asks, Serves
<1> QED
  BY <1>1, <1>2, <1>4, <1>6, NoneIsNoCall DEF StackInv

LEMMA OpenKeeps ==
    ASSUME StackInv, Open, UNCHANGED data PROVE StackInv'
<1> DEFINE new == [of |-> focus, at |-> 0, key |-> None, items |-> << >>,
                   entries |-> NoEntries, pending_key |-> None]
<1>1. focus # None /\ focus.call \in Compounds /\ focus' = None /\ UNCHANGED out
         /\ frames' = Append(frames, new)
  BY DEF Open, Entering
<1>2. focus \in AnyCall /\ out = Nothing /\ Asks(frames, data, focus) /\ Stack(frames, data)
  BY <1>1 DEF StackInv, Asks
<1>3. new \in FrameType
  <2>1. << >> \in Seq(AnyItem) /\ NoEntries \in [Texts -> AnyItem \cup {None}]
    BY DEF NoEntries
  <2>2. PICK I, E : I = Seq(AnyItem) /\ E = [Texts -> AnyItem \cup {None}]
    OBVIOUS
  <2>3. << >> \in I /\ NoEntries \in E
    BY <2>1, <2>2
  <2>4. new \in [of : AnyCall, at : Nat, key : Texts \cup {None}, items : I, entries : E,
                 pending_key : Texts \cup {None}]
    BY <1>2, <2>3
  <2> QED
    BY <2>2, <2>4 DEF FrameType
<1>4. /\ new.of = focus /\ new.at = 0 /\ new.items = << >> /\ new.entries = NoEntries
      /\ new.pending_key = None
  OBVIOUS
<1>5. PICK g : g = new
  OBVIOUS
<1> HIDE DEF new
<1>6. Len(focus.parts) \in Nat
  BY <1>2, PartFacts
<1>7. Resting1(g)
  <2>1. KeyBefore(Whole, focus, 0 + 1) = None
    BY <1>2, KeyStep
  <2>2. ItemsTo(focus, 0) = << >> /\ EntriesTo(focus, 0) = NoEntries
    BY <1>2, ItemsStep, EntriesStep
  <2>3. 0 \in 0 .. Len(focus.parts) /\ 0 \in 0 .. 0 /\ \A i \in 1 .. 0 : FALSE
    BY <1>6
  <2> QED
    BY <1>1, <1>2, <1>4, <1>5, <2>1, <2>2, <2>3 DEF Resting1, Holds
<1>8. Stack(frames', data') /\ frames' # << >> /\ Last(frames') = g
  BY <1>1, <1>2, <1>3, <1>4, <1>5, TopAdded
<1> QED
  BY <1>1, <1>2, <1>7, <1>8 DEF StackInv

(* The frame on top enters a part. *)
LEMMA EnterKeeps ==
    ASSUME StackInv, frames # << >>, focus = None, out = Nothing, UNCHANGED <<data, out>>,
           NEW g \in FrameType, g.of = Last(frames).of, frames' = [frames EXCEPT ![Len(frames)] = g],
           focus' \in AnyCall, Serves(g, focus')
    PROVE  StackInv'
<1>1. Stack(frames, data)
  BY DEF StackInv
<1>2. Stack(frames', data') /\ frames' # << >> /\ Last(frames') = g
  BY <1>1, TopReplaced
<1>3. Asks(frames', data', focus')
  BY <1>2 DEF Asks
<1> QED
  BY <1>2, <1>3, NoneIsNoCall DEF StackInv

(* The frame on top has taken the answer it waited for. *)
LEMMA TakenKeeps ==
    ASSUME StackInv, frames # << >>, focus' = None, out' = Nothing, UNCHANGED data,
           NEW g \in FrameType, g.of = Last(frames).of, frames' = [frames EXCEPT ![Len(frames)] = g],
           Resting1(g)
    PROVE  StackInv'
<1>1. Stack(frames, data)
  BY DEF StackInv
<1>2. Stack(frames', data') /\ frames' # << >> /\ Last(frames') = g
  BY <1>1, TopReplaced
<1> QED
  BY <1>2 DEF StackInv

LEMMA NextPartKeeps ==
    ASSUME StackInv, NextPart, UNCHANGED data PROVE StackInv'
<1>1. PICK f : f = Last(frames)
  OBVIOUS
<1>2. PICK part : part = f.of.parts[f.at + 1]
  OBVIOUS
<1>3. /\ frames # << >> /\ focus = None /\ out = Nothing /\ out' = out
      /\ f.at < Len(f.of.parts) /\ part.op \in {"element", "field", "key"}
      /\ frames' = [frames EXCEPT ![Len(frames)] = Entered(f, part.key, f.pending_key)]
      /\ focus' = part.of
  BY <1>1, <1>2 DEF NextPart, More, Resting, Enter, InFrame, Frame, Entered
<1>4. f \in FrameType /\ Resting1(f)
  BY <1>1, <1>3, StackTop DEF StackInv
<1>5. PICK g : g = Entered(f, part.key, f.pending_key)
  OBVIOUS
<1>6. g \in FrameType /\ g.of = f.of /\ Serves(g, part.of) /\ part.of \in AnyCall
  BY <1>2, <1>3, <1>4, <1>5, PartEntered
<1> QED
  BY <1>1, <1>3, <1>5, <1>6, EnterKeeps

LEMMA NextValueKeeps ==
    ASSUME StackInv, NextValue, UNCHANGED data PROVE StackInv'
<1>1. PICK f : f = Last(frames)
  OBVIOUS
<1>2. PICK part : part = f.of.parts[f.at + 1]
  OBVIOUS
<1>3. /\ frames # << >> /\ focus = None /\ out = Nothing /\ out' = out
      /\ f.at < Len(f.of.parts) /\ part.op = "value" /\ f.pending_key # None
      /\ frames' = [frames EXCEPT ![Len(frames)] = Entered(f, f.pending_key, None)]
      /\ focus' = part.of
  BY <1>1, <1>2 DEF NextValue, More, Resting, Enter, InFrame, Frame, Entered
<1>4. f \in FrameType /\ Resting1(f)
  BY <1>1, <1>3, StackTop DEF StackInv
<1>5. PICK g : g = Entered(f, f.pending_key, None)
  OBVIOUS
<1>6. g \in FrameType /\ g.of = f.of /\ Serves(g, part.of) /\ part.of \in AnyCall
  BY <1>2, <1>3, <1>4, <1>5, ValueEntered
<1> QED
  BY <1>1, <1>3, <1>5, <1>6, EnterKeeps

LEMMA ValueWithoutKeyKeeps ==
    ASSUME StackInv, ValueWithoutKey, UNCHANGED data PROVE StackInv'
<1>1. PICK f : f = Last(frames)
  OBVIOUS
<1>2. PICK g : g = [f EXCEPT !.at = @ + 1]
  OBVIOUS
<1>3. /\ frames # << >> /\ focus = None /\ out = Nothing /\ focus' = None
      /\ out' = Err("UnsupportedValue")
      /\ f.at < Len(f.of.parts) /\ f.of.parts[f.at + 1].op = "value" /\ f.pending_key = None
      /\ frames' = [frames EXCEPT ![Len(frames)] = g]
  BY <1>1, <1>2 DEF ValueWithoutKey, More, Resting, Return, InFrame, Frame
<1>4. f \in FrameType /\ Resting1(f)
  BY <1>1, <1>3, StackTop DEF StackInv
<1>5. g \in FrameType /\ g.of = f.of /\ Busy(g) /\ Result(g.of, g.at) = Err("UnsupportedValue")
  BY <1>2, <1>3, <1>4, ValueRefused
<1>6. Stack(frames', data') /\ frames' # << >> /\ Last(frames') = g
  BY <1>1, <1>3, <1>5, TopReplaced DEF StackInv
<1>7. out' # Nothing /\ out'.is = "error"
  BY <1>3 DEF Err, Nothing
<1>8. Answers(frames', data', out')
  BY <1>3, <1>5, <1>6, <1>7 DEF Answers
<1> QED
  BY <1>3, <1>6, <1>7, <1>8 DEF StackInv


LEMMA AnsweredTop ==
    ASSUME StackInv, PartReturned({"some", "none"}), NEW f, f = Last(frames)
    PROVE  /\ f \in FrameType /\ Stack(frames, data) /\ frames # << >> /\ focus = None
           /\ Serves(f, Waiting(f).of) /\ out = Projection(Waiting(f).of)
<1>1. frames # << >> /\ focus = None /\ out.is \in {"some", "none"} /\ out # Nothing
  BY DEF PartReturned, Nothing
<1>2. Answers(frames, data, out) /\ Stack(frames, data)
  BY <1>1 DEF StackInv
<1>3. f \in FrameType
  BY <1>1, <1>2, StackTop
<1> QED
  BY <1>1, <1>2, <1>3 DEF Answers

LEMMA KeyReturnedKeeps ==
    ASSUME StackInv, KeyReturned, UNCHANGED data PROVE StackInv'
<1>1. PICK f : f = Last(frames)
  OBVIOUS
<1>2. /\ f \in FrameType /\ Stack(frames, data) /\ frames # << >> /\ focus = None
      /\ Serves(f, Waiting(f).of) /\ out = Projection(Waiting(f).of)
  BY <1>1, AnsweredTop DEF KeyReturned
<1>3. Waiting(f).op = "key" /\ focus' = None /\ out.is \in {"some", "none"}
  BY <1>1, <1>2 DEF KeyReturned, AtKey, Frame, Waiting, PartReturned
<1>4. CASE out.is = "some" /\ out.value.type = "String"
  <2>1. PICK g : g = [f EXCEPT !.pending_key = out.value.atom]
    OBVIOUS
  <2>2. g \in FrameType /\ g.of = f.of /\ Resting1(g)
    BY <1>2, <1>3, <1>4, <2>1, KeyHeld
  <2>3. frames' = [frames EXCEPT ![Len(frames)] = g] /\ out' = Nothing
    BY <1>1, <1>4, <2>1 DEF KeyReturned, InFrame, Frame
  <2> QED
    BY <1>1, <1>2, <1>3, <2>2, <2>3, TakenKeeps
<1>5. CASE ~(out.is = "some" /\ out.value.type = "String")
  <2>1. out' = Err("UnsupportedValue") /\ frames' = frames
    BY <1>5 DEF KeyReturned
  <2>2. Result(f.of, f.at) = Err("UnsupportedValue")
    BY <1>2, <1>3, <1>5, PartAnswered
  <2>3. out' # Nothing /\ out'.is = "error"
    BY <2>1 DEF Err, Nothing
  <2>4. Answers(frames', data', out')
    BY <1>1, <1>2, <2>1, <2>2, <2>3 DEF Answers, Serves
  <2> QED
    BY <1>2, <1>3, <2>1, <2>3, <2>4 DEF StackInv
<1> QED
  BY <1>4, <1>5

LEMMA ElementKeptKeeps ==
    ASSUME StackInv, ElementKept, UNCHANGED data PROVE StackInv'
<1>1. PICK f : f = Last(frames)
  OBVIOUS
<1>2. /\ f \in FrameType /\ Stack(frames, data) /\ frames # << >> /\ focus = None
      /\ Serves(f, Waiting(f).of) /\ out = Projection(Waiting(f).of)
  <2>1. PartReturned({"some", "none"})
    BY DEF ElementKept, PartReturned
  <2> QED
    BY <1>1, <2>1, AnsweredTop
<1>3. PICK g : g = [f EXCEPT !.items = Append(@, out.value)]
  OBVIOUS
<1>4. /\ Waiting(f).op = "element" /\ focus' = None /\ out.is = "some" /\ out' = Nothing
      /\ frames' = [frames EXCEPT ![Len(frames)] = g]
  BY <1>1, <1>2, <1>3 DEF ElementKept, Frame, Waiting, PartReturned, InFrame
<1>5. g \in FrameType /\ g.of = f.of /\ Resting1(g)
  BY <1>2, <1>3, <1>4, ElementHeld
<1> QED
  BY <1>1, <1>2, <1>4, <1>5, TakenKeeps

LEMMA EntryKeptKeeps ==
    ASSUME StackInv, EntryKept, UNCHANGED data PROVE StackInv'
<1>1. PICK f : f = Last(frames)
  OBVIOUS
<1>2. /\ f \in FrameType /\ Stack(frames, data) /\ frames # << >> /\ focus = None
      /\ Serves(f, Waiting(f).of) /\ out = Projection(Waiting(f).of)
  <2>1. PartReturned({"some", "none"})
    BY DEF EntryKept, PartReturned
  <2> QED
    BY <1>1, <2>1, AnsweredTop
<1>3. PICK g : g = [f EXCEPT !.entries[f.key] = out.value]
  OBVIOUS
<1>4. /\ Waiting(f).op \in {"value", "field"} /\ focus' = None /\ out.is = "some" /\ out' = Nothing
      /\ frames' = [frames EXCEPT ![Len(frames)] = g]
  BY <1>1, <1>2, <1>3 DEF EntryKept, Frame, Waiting, PartReturned, InFrame
<1>5. g \in FrameType /\ g.of = f.of /\ Resting1(g)
  BY <1>2, <1>3, <1>4, EntryHeld
<1> QED
  BY <1>1, <1>2, <1>4, <1>5, TakenKeeps

LEMMA PartDroppedKeeps ==
    ASSUME StackInv, PartDropped, UNCHANGED data PROVE StackInv'
<1>1. PICK f : f = Last(frames)
  OBVIOUS
<1>2. /\ f \in FrameType /\ Stack(frames, data) /\ frames # << >> /\ focus = None
      /\ Serves(f, Waiting(f).of) /\ out = Projection(Waiting(f).of)
  <2>1. PartReturned({"some", "none"})
    BY DEF PartDropped, PartReturned
  <2> QED
    BY <1>1, <2>1, AnsweredTop
<1>3. Waiting(f).op # "key" /\ focus' = None /\ out.is = "none" /\ out' = Nothing /\ frames' = frames
  BY <1>1, <1>2 DEF PartDropped, AtKey, Frame, Waiting, PartReturned
<1>4. Resting1(f)
  BY <1>2, <1>3, AbsentDropped
<1> QED
  BY <1>1, <1>2, <1>3, <1>4 DEF StackInv

LEMMA PartFailedKeeps ==
    ASSUME StackInv, PartFailed, UNCHANGED data PROVE StackInv'
<1>1. PICK f : f = Last(frames)
  OBVIOUS
<1>2. /\ frames # << >> /\ focus = None /\ focus' = None /\ out.is = "error" /\ out # Nothing
      /\ out' = out /\ frames' = Front(frames)
  BY DEF PartFailed, PartReturned, Nothing
<1>3. Answers(frames, data, out) /\ Stack(frames, data)
  BY <1>2 DEF StackInv
<1>4. f \in FrameType
  BY <1>1, <1>2, <1>3, StackTop
<1>5. Busy(f) /\ out = Result(f.of, f.at)
  <2>1. CASE Serves(f, Waiting(f).of) /\ out = Projection(Waiting(f).of)
    BY <1>2, <1>4, <2>1, PartAnswered DEF Serves
  <2>2. CASE Busy(f) /\ out.is = "error" /\ out = Result(f.of, f.at)
    BY <2>2
  <2> QED
    BY <1>1, <1>2, <1>3, <2>1, <2>2 DEF Answers
<1>6. out = Projection(f.of)
  BY <1>2, <1>4, <1>5, FrameFailed
<1>7. Stack(frames', data') /\ Asks(frames', data', f.of)
  BY <1>1, <1>2, <1>3, TopRemoved
<1>8. Answers(frames', data', out')
  BY <1>2, <1>6, <1>7, AnswersAsked
<1> QED
  BY <1>2, <1>7, <1>8 DEF StackInv

LEMMA CloseKeeps ==
    ASSUME StackInv, Close, UNCHANGED data PROVE StackInv'
<1>1. PICK f : f = Last(frames)
  OBVIOUS
<1>2. /\ frames # << >> /\ focus = None /\ focus' = None /\ out = Nothing
      /\ f.at = Len(f.of.parts) /\ out' = Some(Ended(f)) /\ frames' = Front(frames)
  BY <1>1 DEF Close, Resting, Frame
<1>3. f \in FrameType /\ Resting1(f) /\ Stack(frames, data)
  BY <1>1, <1>2, StackTop DEF StackInv
<1>4. out' = Projection(f.of)
  BY <1>2, <1>3, FrameEnded
<1>5. Stack(frames', data') /\ Asks(frames', data', f.of)
  BY <1>1, <1>2, <1>3, TopRemoved
<1>6. Answers(frames', data', out') /\ out' # Nothing
  BY <1>4, <1>5, AnswersAsked
<1> QED
  BY <1>2, <1>5, <1>6 DEF StackInv

(* The serializer keeps its stack in order. *)
LEMMA SerializingKeeps ==
    ASSUME StackInv, Serializing PROVE StackInv'
<1>1. UNCHANGED data
  BY DEF Serializing
<1> QED
  BY <1>1, ScalarKeeps, UnitKeeps, UnsupportedKeeps, WrapperKeeps, OpenKeeps, NextPartKeeps,
     NextValueKeeps, ValueWithoutKeyKeeps, KeyReturnedKeeps, ElementKeptKeeps, EntryKeptKeeps,
     PartDroppedKeeps, PartFailedKeeps, CloseKeeps DEF Serializing

(* What is returned to the caller is what his data stands for. *)
LEMMA ReturnedRight ==
    ASSUME StackInv PROVE Projected
  BY DEF StackInv, Answers, Projected, Returned


-----------------------------------------------------------------------------
(***************************************************************************)
(* Value as a caller's data: what a value is serialized as becomes the     *)
(* value again, in the serializer and in the visitor.                      *)
(***************************************************************************)
LEMMA KeySequence ==
    ASSUME NEW S, S \subseteq Texts
    PROVE  /\ SetToSeq(S) \in Seq(S) /\ Len(SetToSeq(S)) \in Nat
           /\ \A x \in S : \E j \in 1 .. Len(SetToSeq(S)) : SetToSeq(S)[j] = x
<1>1. IsFiniteSet(S)
  BY FS_Subset, ValuesAssumption
<1>2. PICK n \in Nat : n = Cardinality(S) /\ ExistsBijection(1 .. n, S)
  BY <1>1, FS_CardinalityType
<1>3. \E f \in [1 .. n -> S] : IsInjective(f)
  BY <1>2 DEF ExistsBijection, Bijection, Injection
<1>4. PICK f : f = SetToSeq(S)
  OBVIOUS
<1>5. f \in [1 .. n -> S] /\ IsInjective(f)
  BY <1>2, <1>3, <1>4 DEF SetToSeq
<1>6. f \in Injection(1 .. n, S)
  BY <1>5 DEF Injection
<1>7. Cardinality(1 .. n) = n
  <2>1. 1 \in Int /\ n \in Int
    OBVIOUS
  <2> QED
    BY <2>1, FS_Interval
<1>8. f \in Surjection(1 .. n, S)
  BY <1>1, <1>2, <1>6, <1>7, FS_Injection
<1>9. \A x \in S : \E j \in 1 .. n : f[j] = x
  BY <1>8 DEF Surjection
<1>10. f \in Seq(S)
  BY <1>5, SeqDef
<1>11. Len(f) = n
  BY <1>5, <1>10
<1> QED
  BY <1>4, <1>9, <1>10, <1>11

KeyPart(k) == Part("key", None, Datum("str", k, << >>))

EntryParts(below, items, ks) ==
    [i \in 1 .. 2 * Len(ks) |-> IF i % 2 = 1 THEN KeyPart(ks[(i + 1) \div 2])
                                ELSE Part("value", None, below[items[ks[i \div 2]]])]

(* Where the jth key and its value are. *)
Odd(j)  == 2 * j - 1
Even(j) == 2 * j

EntriesAt(m, below, items, ks, parts) ==
    /\ Even(m) \in Nat
    /\ \A i \in 1 .. Even(m) : \E j \in 1 .. m : i = Odd(j) \/ i = Even(j)
    /\ \A j \in 1 .. m : /\ Odd(j) \in 1 .. Even(m) /\ Even(j) \in 1 .. Even(m)
                          /\ parts[Odd(j)] = KeyPart(ks[j])
                          /\ parts[Even(j)] = Part("value", None, below[items[ks[j]]])

LEMMA EntryPartsAt ==
    ASSUME NEW below, NEW items, NEW ks, Len(ks) \in Nat, NEW parts, parts = EntryParts(below, items, ks)
    PROVE  EntriesAt(Len(ks), below, items, ks, parts)
<1>1. PICK m \in Nat : m = Len(ks)
  OBVIOUS
<1>2. ASSUME NEW i \in 1 .. 2 * m PROVE \E j \in 1 .. m : i = 2 * j - 1 \/ i = 2 * j
  <2>1. (i + 1) \div 2 \in 1 .. m /\ (i = 2 * ((i + 1) \div 2) - 1 \/ i = 2 * ((i + 1) \div 2))
    OBVIOUS
  <2> QED
    BY <2>1
<1>3. ASSUME NEW j \in 1 .. m
      PROVE  /\ 2 * j - 1 \in 1 .. 2 * m /\ (2 * j - 1) % 2 = 1 /\ ((2 * j - 1) + 1) \div 2 = j
             /\ 2 * j \in 1 .. 2 * m /\ (2 * j) % 2 # 1 /\ (2 * j) \div 2 = j
  OBVIOUS
<1>4. parts = [i \in 1 .. 2 * m |-> IF i % 2 = 1 THEN KeyPart(ks[(i + 1) \div 2])
                                    ELSE Part("value", None, below[items[ks[i \div 2]]])]
  BY <1>1 DEF EntryParts
<1>5. ASSUME NEW j \in 1 .. m
      PROVE  /\ parts[2 * j - 1] = KeyPart(ks[j])
             /\ parts[2 * j] = Part("value", None, below[items[ks[j]]])
  BY <1>3, <1>4
<1>6. EntriesAt(m, below, items, ks, parts)
  <2>1. /\ Even(m) \in Nat
        /\ \A i \in 1 .. Even(m) : \E j \in 1 .. m : i = Odd(j) \/ i = Even(j)
        /\ \A j \in 1 .. m : /\ Odd(j) \in 1 .. Even(m) /\ Even(j) \in 1 .. Even(m)
                              /\ parts[Odd(j)] = KeyPart(ks[j])
                              /\ parts[Even(j)] = Part("value", None, below[items[ks[j]]])
    BY <1>2, <1>3, <1>5 DEF Odd, Even
  <2> QED
    BY Zenon, <2>1 DEF EntriesAt
<1> QED
  BY <1>1, <1>6

(* Pairs of all keys of a map with their values are the map. *)
LEMMA MapBack ==
    ASSUME NEW items, items = [x \in Texts |-> items[x]],
           NEW pairs, NEW m \in Nat, DOMAIN pairs \subseteq 0 .. m,
           \A i \in DOMAIN pairs : items[pairs[i].key] # None /\ pairs[i].value = items[pairs[i].key],
           \A x \in Texts : items[x] # None => \E i \in DOMAIN pairs : pairs[i].key = x
    PROVE  ValueMap(pairs) = MapOf(items)
<1> DEFINE with(x) == {i \in DOMAIN pairs : pairs[i].key = x}
<1>1. ASSUME NEW x \in Texts
      PROVE  (IF with(x) = {} THEN None ELSE pairs[Max(with(x))].value) = items[x]
  <2>1. CASE with(x) = {}
    BY <2>1
  <2>2. CASE with(x) # {}
    <3>1. Max(with(x)) \in with(x)
      BY <2>2, MaxOf
    <3> QED
      BY <2>2, <3>1
  <2> QED
    BY <2>1, <2>2
<1>2. ValueMap(pairs) = MapOf([x \in Texts |-> IF with(x) = {} THEN None ELSE pairs[Max(with(x))].value])
  BY DEF ValueMap
<1> HIDE DEF with
<1>3. [x \in Texts |-> IF with(x) = {} THEN None ELSE pairs[Max(with(x))].value] = items
  BY <1>1
<1> QED
  BY <1>2, <1>3

(* Results of which none is absent or an error. *)
LEMMA AllKept ==
    ASSUME NEW S, NEW results \in Seq(S), NEW U, NEW items \in Seq(U), Len(items) = Len(results),
           \A i \in DOMAIN results : results[i] = Some(items[i])
    PROVE  KeptOf(results)[Len(results)] = items
<1>1. /\ KeptOf(results)[0] = << >>
      /\ \A k \in 0 .. Len(results) - 1 : KeptOf(results)[k + 1] = Kept(KeptOf(results)[k], results[k + 1])
  BY KeptTurns
<1>2. PICK F : F = KeptOf(results)
  OBVIOUS
<1> DEFINE Copied(f, m) == f \in Seq(U) /\ Len(f) = m /\ \A i \in 1 .. m : f[i] = items[i]
           T == {m \in Nat : m <= Len(items) => Copied(F[m], m)}
<1>3. 0 \in T
  <2>1. PICK f : f = F[0]
    OBVIOUS
  <2>2. f = << >>
    BY <1>1, <1>2, <2>1
  <2>3. Copied(f, 0)
    BY <2>2
  <2> QED
    BY <2>1, <2>3
<1>4. ASSUME NEW m \in Nat, m \in T PROVE m + 1 \in T
  <2>1. CASE m + 1 <= Len(items)
    <3>1. m \in 0 .. Len(results) - 1 /\ m + 1 \in DOMAIN results /\ m <= Len(items)
             /\ items[m + 1] \in U
      BY <2>1
    <3>2. F[m + 1] = Kept(F[m], Some(items[m + 1]))
      BY <1>1, <1>2, <3>1
    <3>3. F[m + 1] = Append(F[m], items[m + 1])
      BY <3>2 DEF Kept, Some
    <3>4. PICK f, x : f = F[m] /\ x = items[m + 1]
      OBVIOUS
    <3>5. f \in Seq(U) /\ Len(f) = m /\ x \in U /\ \A i \in 1 .. m : f[i] = items[i]
      BY <1>4, <3>1, <3>4
    <3>6. \A i \in 1 .. m + 1 : i \in 1 .. m \/ i = m + 1
      OBVIOUS
    <3>7. PICK g : g = Append(f, x)
      OBVIOUS
    <3>8. g \in Seq(U) /\ Len(g) = m + 1 /\ g[m + 1] = x /\ \A i \in 1 .. m : g[i] = f[i]
      BY <3>5, <3>7
    <3>9. Copied(g, m + 1)
      BY <3>4, <3>5, <3>6, <3>8
    <3>10. F[m + 1] = g
      BY <3>3, <3>4, <3>7
    <3>11. Copied(F[m + 1], m + 1)
      BY <3>9, <3>10
    <3> HIDE DEF Copied
    <3> QED
      BY <3>11
  <2> QED
    BY <2>1
<1>5. Copied(F[Len(items)], Len(items))
  <2> HIDE DEF T
  <2>1. Len(items) \in T
    BY <1>3, <1>4, Induction
  <2> QED
    BY <2>1 DEF T
<1>6. F[Len(items)] = items
  BY <1>5
<1> QED
  BY <1>2, <1>6


(* What is below level n, for values and for keys, comes back. *)
DataBelow(n)       == IF n = 0 THEN << >> ELSE DataWithin[n - 1]
ProjectionBelow(n) == IF n = 0 THEN << >> ELSE ProjectionWithin[n - 1]
VisitedBelow(n)    == IF n = 0 THEN << >> ELSE VisitedWithin[n - 1]

KeyDatum(k) == Datum("str", k, << >>)

ComesBack(n, d, v) ==
    d \in CallsWithin[n] /\ ProjectionWithin[n][d] = Some(v) /\ VisitedWithin[n][d] = Some(v)

BelowComesBack(n) ==
    /\ \A u \in Inner(n) : LET d == DataBelow(n)[u]
                           IN  /\ d \in CallInner(n)
                               /\ ProjectionBelow(n)[d] = Some(u) /\ VisitedBelow(n)[d] = Some(u)
    /\ n # 0 => \A k \in Texts : LET d == KeyDatum(k)
                                 IN  /\ d \in CallInner(n)
                                     /\ ProjectionBelow(n)[d] = Some(Leaf("String", k))
                                     /\ VisitedBelow(n)[d] = Some(Leaf("String", k))

VisitResults(below, t) == [i \in DOMAIN t.parts |-> VisitedPart(t.parts[i], below[t.parts[i].of])]
VisitItems(t, results) == [i \in DOMAIN t.parts |-> results[i].value]
VisitPairs(t, results) ==
    [i \in 1 .. Len(t.parts) \div 2 |->
        [key |-> t.parts[2 * i - 1].of.atom, value |-> results[2 * i].value]]

LEMMA VisitedCases ==
    ASSUME NEW n \in 0 .. Nesting, NEW t \in CallsWithin[n]
    PROVE  LET results == VisitResults(VisitedBelow(n), t)
           IN  /\ t.call \in DOMAIN VisitType =>
                      VisitedWithin[n][t] = Some(Leaf(VisitType[t.call], t.atom))
               /\ t.call = "seq" /\ Failures(results) = {} =>
                      VisitedWithin[n][t] = Some(ArrayOf(VisitItems(t, results)))
               /\ t.call = "map" /\ Failures(results) = {} =>
                      VisitedWithin[n][t] = Some(ValueMap(VisitPairs(t, results)))
<1>1. VisitedWithin[n] = VisitedOver(n, VisitedBelow(n))
  BY VisitedUnfold DEF VisitedBelow
<1>2. PICK B : B = VisitedBelow(n)
  OBVIOUS
<1>3. DOMAIN VisitType = {"bool", "i8", "i16", "i32", "u8", "u16", "u32", "u64", "u128", "f32", "f64",
                          "char", "str", "bytes"}
  BY DEF VisitType
<1>4. CASE t.call \in DOMAIN VisitType
  BY Zenon, <1>1, <1>2, <1>3, <1>4 DEF VisitedOver
<1>5. CASE t.call = "seq"
  BY Zenon, <1>1, <1>2, <1>3, <1>5 DEF VisitedOver, VisitResults, VisitItems, VisitPairs
<1>6. CASE t.call = "map"
  BY Zenon, <1>1, <1>2, <1>3, <1>6 DEF VisitedOver, VisitResults, VisitItems, VisitPairs
<1> QED
  BY <1>2, <1>3, <1>4, <1>5, <1>6

LEMMA DataCases ==
    ASSUME NEW n \in 0 .. Nesting, NEW v \in ValuesWithin[n]
    PROVE  /\ v.type = "Map" =>
                  DataWithin[n][v] = Datum("map", 0, EntryParts(DataBelow(n), v.items, SetToSeq(KeysOf(v))))
           /\ v.type = "Array" =>
                  DataWithin[n][v] =
                      Datum("seq", 0, [i \in DOMAIN v.items |-> Part("element", None, DataBelow(n)[v.items[i]])])
           /\ v.type \notin {"Map", "Array"} =>
                  DataWithin[n][v] = Datum(SerializedAs[v.type], v.atom, << >>)
<1>1. DataWithin[n] = DataOver(n, DataBelow(n))
  BY DataUnfold DEF DataBelow
<1>2. PICK B : B = DataBelow(n)
  OBVIOUS
<1>3. CASE v.type = "Map"
  BY <1>1, <1>2, <1>3 DEF DataOver, EntryParts, KeyPart
<1>4. CASE v.type = "Array"
  BY <1>1, <1>2, <1>4 DEF DataOver
<1>5. CASE v.type \notin {"Map", "Array"}
  BY <1>1, <1>2, <1>5 DEF DataOver
<1> QED
  BY <1>3, <1>4, <1>5

LEMMA ScalarComesBack ==
    ASSUME NEW n \in 0 .. Nesting,
           NEW type \in Plain \cup {"String"}, NEW atom, IF type = "String" THEN atom \in Texts ELSE atom \in Int
    PROVE  ComesBack(n, Datum(SerializedAs[type], atom, << >>), Leaf(type, atom))
<1>1. PICK d : d = Datum(SerializedAs[type], atom, << >>)
  OBVIOUS
<1>2. d.call = SerializedAs[type] /\ d.atom = atom /\ d.parts = << >> /\ d = [call |-> d.call, atom |-> d.atom, parts |-> d.parts]
  BY <1>1 DEF Datum
<1>3. /\ SerializedAs[type] \in DOMAIN FromType /\ SerializedAs[type] \in DOMAIN VisitType
      /\ FromType[SerializedAs[type]] = type /\ VisitType[SerializedAs[type]] = type
      /\ SerializedAs[type] \in Bare \cup {"str"} /\ (SerializedAs[type] = "str" <=> type = "String")
  BY DEF Plain, Floating, SerializedAs, FromType, VisitType, Bare, ScalarType, Textual
<1>4. d \in CallsWithin[n]
  <2>1. CASE type = "String"
    <3>1. d \in [call : Textual, atom : Texts, parts : {<< >>}]
      BY <1>2, <1>3, <2>1 DEF Textual
    <3> QED
      BY <3>1, CallsUnion
  <2>2. CASE type # "String"
    <3>1. d \in [call : Bare, atom : Int, parts : {<< >>}]
      BY <1>2, <1>3, <2>2
    <3> QED
      BY <3>1, CallsUnion
  <2> QED
    BY <2>1, <2>2
<1>5. ProjectionWithin[n][d] = Some(Leaf(type, atom))
  <2>1. ProjectionWithin[n] = ProjectionOver(n, ProjectionBelow(n))
    BY ProjectionUnfold DEF ProjectionBelow
  <2>2. ProjectionWithin[n][d] = Became(ProjectionBelow(n), d)
    BY <1>4, <2>1 DEF ProjectionOver
  <2>3. Became(ProjectionBelow(n), d) = Some(ValueFrom(d.call, d.atom))
    BY <1>2, <1>3, BecameCases
  <2> QED
    BY <1>2, <1>3, <2>2, <2>3 DEF ValueFrom
<1>6. VisitedWithin[n][d] = Some(Leaf(type, atom))
  BY <1>2, <1>3, <1>4, VisitedCases
<1> QED
  BY <1>1, <1>4, <1>5, <1>6 DEF ComesBack


LEMMA ProjectedCompound ==
    ASSUME NEW n \in 0 .. Nesting, NEW t \in CallsWithin[n], t.call \in Compounds,
           NEW B, B = ProjectionBelow(n)
    PROVE  ProjectionWithin[n][t] = Assembled(t, PartResults(B, t), PartKeys(B, t))
<1>1. ProjectionWithin[n] = ProjectionOver(n, B)
  BY ProjectionUnfold DEF ProjectionBelow
<1>2. ProjectionWithin[n][t] = Became(B, t)
  BY <1>1 DEF ProjectionOver
<1> QED
  BY <1>2, BecameCases

LEMMA ArrayComesBack ==
    ASSUME NEW n \in 0 .. Nesting, BelowComesBack(n), NEW v \in ValuesWithin[n], v.type = "Array"
    PROVE  ComesBack(n, DataWithin[n][v], v)
<1>1. v.items \in Seq(Inner(n)) /\ v = ArrayOf(v.items)
  BY ValueCases DEF Plain, Floating
<1>2. PICK s : s = v.items
  OBVIOUS
<1>3. s \in Seq(Inner(n)) /\ v = ArrayOf(s)
  BY <1>1, <1>2
<1>4. PICK m \in Nat : m = Len(s)
  BY <1>3
<1>5. DOMAIN s = 1 .. m /\ \A i \in 1 .. m : s[i] \in Inner(n)
  BY <1>3, <1>4
<1>6. PICK p : p = [i \in 1 .. m |-> Part("element", None, DataBelow(n)[s[i]])]
  OBVIOUS
<1>7. PICK d : d = Datum("seq", 0, p)
  OBVIOUS
<1>8. DataWithin[n][v] = d
  BY <1>2, <1>5, <1>6, <1>7, DataCases
<1>9. \A i \in 1 .. m : /\ p[i] \in PartsOf({"element"}, {None}, CallInner(n))
                        /\ p[i].op = "element" /\ p[i].of = DataBelow(n)[s[i]]
  BY <1>5, <1>6 DEF BelowComesBack, Part, PartsOf
<1>10. p \in Seq(PartsOf({"element"}, {None}, CallInner(n))) /\ DOMAIN p = 1 .. m /\ Len(p) = m
  <2>1. PICK S : S = PartsOf({"element"}, {None}, CallInner(n))
    OBVIOUS
  <2>2. p \in [1 .. m -> S]
    BY <1>6, <1>9, <2>1
  <2>3. p \in Seq(S)
    BY <2>2, SeqDef
  <2> QED
    BY <2>1, <2>2, <2>3
<1>11. d \in CallsWithin[n] /\ d.call = "seq" /\ d.parts = p /\ d.atom = 0
  <2>1. d \in [call : Lists, atom : {0}, parts : Seq(PartsOf({"element"}, {None}, CallInner(n)))]
    <3>1. PICK S : S = Seq(PartsOf({"element"}, {None}, CallInner(n)))
      OBVIOUS
    <3>2. p \in S
      BY <1>10, <3>1
    <3>3. d \in [call : Lists, atom : {0}, parts : S]
      BY <1>7, <3>2 DEF Datum, Lists
    <3> QED
      BY <3>1, <3>3
  <2>2. d \in CallsWithin[n]
    BY <2>1, CallsUnion
  <2> QED
    BY <1>7, <2>2 DEF Datum
<1>12. ProjectionWithin[n][d] = Some(v)
  <2>1. PICK B : B = ProjectionBelow(n)
    OBVIOUS
  <2>2. PICK results : results = PartResults(B, d)
    OBVIOUS
  <2>3. \A i \in 1 .. m : PartResult(B, d, i) = Some(s[i])
    <3>1. \A i \in 1 .. m : B[p[i].of] = Some(s[i])
      BY <1>5, <1>9, <2>1 DEF BelowComesBack
    <3> QED
      BY <1>9, <1>11, <3>1 DEF PartResult
  <2>4. results = [i \in 1 .. m |-> Some(s[i])]
    BY <1>10, <1>11, <2>2, <2>3 DEF PartResults
  <2>5. PICK S : S = {Some(x) : x \in Inner(n)}
    OBVIOUS
  <2>6. results \in [1 .. m -> S]
    BY <1>5, <2>4, <2>5
  <2>7. results \in Seq(S) /\ DOMAIN results = 1 .. m
    BY <2>6, SeqDef
  <2>8. Len(results) = m
    BY <2>7
  <2>9. KeptOf(results)[Len(results)] = s
    <3>1. \A i \in DOMAIN results : results[i] = Some(s[i])
      BY <2>4, <2>7
    <3>2. Len(s) = Len(results)
      BY <1>4, <2>8
    <3> QED
      BY <1>3, <2>7, <3>1, <3>2, AllKept
  <2>10. Failures(results) = {}
    BY <2>4, <2>7 DEF Failures, Some
  <2>11. Assembled(d, results, PartKeys(B, d)) = Some(ArrayOf(s))
    BY <1>11, <2>9, <2>10 DEF Assembled, ValueArray, Lists, Maps
  <2>12. d.call \in Compounds
    BY <1>11 DEF Compounds, Lists
  <2> QED
    BY <1>3, <1>11, <2>1, <2>2, <2>11, <2>12, ProjectedCompound
<1>13. VisitedWithin[n][d] = Some(v)
  <2>1. PICK B : B = VisitedBelow(n)
    OBVIOUS
  <2>2. PICK results : results = VisitResults(B, d)
    OBVIOUS
  <2>3. \A i \in 1 .. m : B[p[i].of] = Some(s[i])
    BY <1>5, <1>9, <2>1 DEF BelowComesBack
  <2>4. results = [i \in 1 .. m |-> Some(s[i])]
    <3>1. \A i \in 1 .. m : VisitedPart(p[i], B[p[i].of]) = Some(s[i])
      BY <1>9, <2>3 DEF VisitedPart
    <3> QED
      BY <1>10, <1>11, <2>2, <3>1 DEF VisitResults
  <2>5. Failures(results) = {}
    BY <2>4 DEF Failures, Some
  <2>6. [i \in DOMAIN d.parts |-> results[i].value] = s
    <3>1. \A i \in 1 .. m : results[i].value = s[i]
      BY <2>4 DEF Some
    <3>2. s = [i \in 1 .. m |-> s[i]]
      BY <1>3, <1>5
    <3> QED
      BY <1>10, <1>11, <3>1, <3>2
  <2>7. VisitedWithin[n][d] = Some(ArrayOf(VisitItems(d, results)))
    BY <1>11, <2>1, <2>2, <2>5, VisitedCases
  <2> QED
    BY <1>3, <2>6, <2>7 DEF VisitItems
<1> QED
  BY <1>8, <1>11, <1>12, <1>13 DEF ComesBack


(* What the parts of a serialized map become, and the key that waits for each value. *)
EntriesBack(m, below, d, ks, items) ==
    \A j \in 1 .. m : /\ PartResult(below, d, Odd(j)) = Some(Leaf("String", ks[j]))
                      /\ PartResult(below, d, Even(j)) = Some(items[ks[j]])
                      /\ PartKey(below, d, Even(j)) = ks[j]

LEMMA EntriesComeBack ==
    ASSUME NEW m \in Nat, NEW ks, NEW items, NEW p, NEW d, NEW B,
           d.parts = p, DOMAIN p = 1 .. Even(m), Even(m) \in Nat,
           \A i \in 1 .. Even(m) : \E j \in 1 .. m : i = Odd(j) \/ i = Even(j),
           \A j \in 1 .. m : /\ Odd(j) \in 1 .. Even(m) /\ Even(j) \in 1 .. Even(m)
                             /\ p[Odd(j)].op = "key" /\ p[Even(j)].op = "value"
                             /\ ks[j] \in Texts
                             /\ B[p[Odd(j)].of] = Some(Leaf("String", ks[j]))
                             /\ B[p[Even(j)].of] = Some(items[ks[j]])
    PROVE  EntriesBack(m, B, d, ks, items)
<1>0. \A j \in 1 .. m : /\ d.parts[Odd(j)].op = "key" /\ d.parts[Even(j)].op = "value"
                        /\ B[d.parts[Odd(j)].of] = Some(Leaf("String", ks[j]))
                        /\ B[d.parts[Even(j)].of] = Some(items[ks[j]])
  OBVIOUS
<1>1. ASSUME NEW j \in 1 .. m PROVE KeyBefore(B, d, Even(j)) = ks[j]
  <2>1. Turned(d, Even(j)) \subseteq 0 .. Odd(j) /\ Odd(j) \in Turned(d, Even(j)) /\ Odd(j) \in Nat
    <3>1. Odd(j) \in Nat /\ Even(j) - 1 = Odd(j) /\ Odd(j) \in 1 .. Odd(j)
      BY DEF Odd, Even
    <3> QED
      BY <3>1 DEF Turned
  <2>2. Max(Turned(d, Even(j))) \in 0 .. Odd(j) /\ Odd(j) <= Max(Turned(d, Even(j)))
    BY <2>1, MaxOf
  <2>3. Max(Turned(d, Even(j))) = Odd(j)
    BY <2>1, <2>2
  <2>4. KeyAt(B, d, Odd(j)) = ks[j]
    <3>1. d.parts[Odd(j)].op = "key" /\ B[d.parts[Odd(j)].of] = Some(Leaf("String", ks[j]))
      BY Zenon, <1>0
    <3>2. PICK o : o = Odd(j)
      OBVIOUS
    <3> QED
      BY ONLY <3>1, <3>2 DEF KeyAt, Some, Leaf
  <2> QED
    BY <2>1, <2>3, <2>4, KeyBeforeIs
<1>2. \A k \in Texts : k # None
  BY ValuesAssumption
<1>3. ASSUME NEW j \in 1 .. m PROVE PartResult(B, d, Odd(j)) = Some(Leaf("String", ks[j]))
  <2>1. d.parts[Odd(j)].op = "key" /\ B[d.parts[Odd(j)].of] = Some(Leaf("String", ks[j]))
    BY Zenon, <1>0
  <2> QED
    BY ONLY <2>1 DEF PartResult, Some, Leaf
<1>4. ASSUME NEW j \in 1 .. m PROVE PartResult(B, d, Even(j)) = Some(items[ks[j]])
  <2>1. KeyBefore(B, d, Even(j)) # None
    BY <1>1, <1>2
  <2> QED
    BY ONLY <1>0, <2>1, j \in 1 .. m DEF PartResult
<1>5. ASSUME NEW j \in 1 .. m PROVE PartKey(B, d, Even(j)) = ks[j]
  BY ONLY <1>0, <1>1, j \in 1 .. m DEF PartKey
<1> QED
  BY Zenon, <1>3, <1>4, <1>5 DEF EntriesBack

LEMMA MapComesBack ==
    ASSUME NEW n \in 0 .. Nesting, BelowComesBack(n), NEW v \in ValuesWithin[n], v.type = "Map"
    PROVE  ComesBack(n, DataWithin[n][v], v)
<1>1. v.items \in [Texts -> Inner(n) \cup {None}] /\ v = MapOf(v.items)
  BY ValueCases DEF Plain, Floating
<1>2. PICK items : items = v.items
  OBVIOUS
<1>3. items \in [Texts -> Inner(n) \cup {None}] /\ v = MapOf(items)
  BY <1>1, <1>2
<1>4. PICK ks : ks = SetToSeq(KeysOf(v))
  OBVIOUS
<1>5. /\ ks \in Seq(KeysOf(v)) /\ Len(ks) \in Nat
      /\ \A x \in KeysOf(v) : \E j \in 1 .. Len(ks) : ks[j] = x
  BY <1>4, KeySequence DEF KeysOf
<1>6. PICK m \in Nat : m = Len(ks)
  BY <1>5
<1>7. \A j \in 1 .. m : ks[j] \in Texts /\ items[ks[j]] # None /\ items[ks[j]] \in Inner(n)
  <2>1. \A j \in 1 .. m : ks[j] \in KeysOf(v)
    BY <1>5, <1>6
  <2> QED
    BY <1>2, <1>3, <2>1 DEF KeysOf
<1>8. \A x \in Texts : items[x] # None => \E j \in 1 .. m : ks[j] = x
  BY <1>2, <1>5, <1>6 DEF KeysOf
<1>9. PICK p : p = EntryParts(DataBelow(n), items, ks)
  OBVIOUS
<1>10. PICK d : d = Datum("map", 0, p)
  OBVIOUS
<1>11. DataWithin[n][v] = d
  BY <1>2, <1>4, <1>9, <1>10, DataCases
<1>12. /\ Even(m) \in Nat
       /\ \A i \in 1 .. Even(m) : \E j \in 1 .. m : i = Odd(j) \/ i = Even(j)
       /\ \A j \in 1 .. m : /\ Odd(j) \in 1 .. Even(m) /\ Even(j) \in 1 .. Even(m)
                            /\ p[Odd(j)] = KeyPart(ks[j])
                            /\ p[Even(j)] = Part("value", None, DataBelow(n)[items[ks[j]]])
  <2>1. EntriesAt(Len(ks), DataBelow(n), items, ks, p)
    BY <1>5, <1>9, EntryPartsAt
  <2>2. EntriesAt(m, DataBelow(n), items, ks, p)
    BY <1>6, <2>1
  <2> QED
    BY Zenon, <2>2 DEF EntriesAt
<1>13. ASSUME NEW j \in 1 .. m
       PROVE  /\ p[Odd(j)].op = "key" /\ p[Odd(j)].of = KeyDatum(ks[j])
              /\ p[Even(j)].op = "value" /\ p[Even(j)].of = DataBelow(n)[items[ks[j]]]
  <2>1. p[Odd(j)] = KeyPart(ks[j]) /\ p[Even(j)] = Part("value", None, DataBelow(n)[items[ks[j]]])
    BY Zenon, <1>12
  <2> QED
    BY ONLY <2>1 DEF KeyPart, KeyDatum, Part
<1>14. \A j \in 1 .. m : n # 0
  BY <1>7 DEF Inner
<1>15. PICK S : S = PartsOf({"key", "value"}, {None}, CallInner(n))
  OBVIOUS
<1>16. ASSUME NEW j \in 1 .. m PROVE p[Odd(j)] \in S /\ p[Even(j)] \in S
  <2>1. KeyDatum(ks[j]) \in CallInner(n) /\ DataBelow(n)[items[ks[j]]] \in CallInner(n)
    BY <1>7, <1>14 DEF BelowComesBack
  <2>2. p[Odd(j)] = KeyPart(ks[j]) /\ p[Even(j)] = Part("value", None, DataBelow(n)[items[ks[j]]])
    BY Zenon, <1>12
  <2> QED
    BY ONLY <1>15, <2>1, <2>2 DEF KeyPart, KeyDatum, Part, PartsOf
<1>17. DOMAIN p = 1 .. Even(m) /\ p = [i \in 1 .. Even(m) |-> p[i]]
  BY <1>6, <1>9 DEF EntryParts, Even
<1>18. p \in [1 .. Even(m) -> S]
  <2>1. \A i \in 1 .. Even(m) : p[i] \in S
    BY <1>12, <1>16
  <2> QED
    BY <1>17, <2>1
<1>19. p \in Seq(S) /\ Len(p) = Even(m)
  <2>1. PICK k \in Nat : k = Even(m)
    BY <1>12
  <2>2. p \in [1 .. k -> S]
    BY <1>18, <2>1
  <2>3. p \in Seq(S)
    BY <2>2, SeqDef
  <2>4. Len(p) = k
    BY <2>2, <2>3
  <2> QED
    BY <2>1, <2>3, <2>4
<1>20. d \in CallsWithin[n] /\ d.call = "map" /\ d.parts = p /\ d.atom = 0
  <2>1. PICK Q : Q = Seq(PartsOf({"key", "value"}, {None}, CallInner(n)))
    OBVIOUS
  <2>2. p \in Q
    BY <1>15, <1>19, <2>1
  <2>3. d \in [call : {"map"}, atom : {0}, parts : Q]
    BY <1>10, <2>2 DEF Datum
  <2>4. d \in CallsWithin[n]
    BY <2>1, <2>3, CallsUnion
  <2> QED
    BY <1>10, <2>4 DEF Datum
<1>21. ProjectionWithin[n][d] = Some(v)
  <2>1. PICK B : B = ProjectionBelow(n)
    OBVIOUS
  <2>2. \A j \in 1 .. m : /\ B[p[Odd(j)].of] = Some(Leaf("String", ks[j]))
                          /\ B[p[Even(j)].of] = Some(items[ks[j]])
    BY <1>7, <1>13, <1>14, <2>1 DEF BelowComesBack
  <2>3. \A j \in 1 .. m : /\ PartResult(B, d, Odd(j)) = Some(Leaf("String", ks[j]))
                          /\ PartResult(B, d, Even(j)) = Some(items[ks[j]])
                          /\ PartKey(B, d, Even(j)) = ks[j]
    <3>1. /\ \A i \in 1 .. Even(m) : \E j \in 1 .. m : i = Odd(j) \/ i = Even(j)
          /\ \A j \in 1 .. m : /\ Odd(j) \in 1 .. Even(m) /\ Even(j) \in 1 .. Even(m)
                               /\ p[Odd(j)].op = "key" /\ p[Even(j)].op = "value"
                               /\ ks[j] \in Texts
                               /\ B[p[Odd(j)].of] = Some(Leaf("String", ks[j]))
                               /\ B[p[Even(j)].of] = Some(items[ks[j]])
      BY Zenon, <1>7, <1>12, <1>13, <2>2
    <3>2. d.parts = p /\ DOMAIN p = 1 .. Even(m) /\ Even(m) \in Nat
      BY <1>12, <1>17, <1>20
    <3> QED
      <4>1. EntriesBack(m, B, d, ks, items)
        BY <3>1, <3>2, EntriesComeBack
      <4> QED
        BY Zenon, <4>1 DEF EntriesBack
  <2>4. PICK results : results = PartResults(B, d)
    OBVIOUS
  <2>5. PICK keys : keys = PartKeys(B, d)
    OBVIOUS
  <2>6. DOMAIN results = 1 .. Even(m) /\ \A i \in 1 .. Even(m) : results[i] = PartResult(B, d, i)
    BY <1>17, <1>20, <2>4 DEF PartResults
  <2>7. \A i \in 1 .. Even(m) : keys[i] = PartKey(B, d, i)
    BY <1>17, <1>20, <2>5 DEF PartKeys
  <2>8. \A i \in 1 .. Even(m) : results[i].is = "some"
    BY <1>12, <2>3, <2>6 DEF Some
  <2>9. Failures(results) = {}
    BY <2>6, <2>8 DEF Failures
  <2> DEFINE present == {i \in DOMAIN results : results[i].is = "some" /\ d.parts[i].op # "key"}
             pairs == [i \in present |-> [key |-> keys[i], value |-> results[i].value]]
  <2>10. Assembled(d, results, keys) = Some(ValueMap(pairs))
    BY <1>20, <2>9 DEF Assembled, Lists, Maps
  <2>11. \A i \in present : \E j \in 1 .. m : i = Even(j)
    BY <1>12, <1>13, <1>20, <2>6
  <2>12. \A j \in 1 .. m : Even(j) \in present
    BY <1>12, <1>13, <1>20, <2>6, <2>8
  <2>13. \A j \in 1 .. m : keys[Even(j)] = ks[j] /\ results[Even(j)].value = items[ks[j]]
    BY <1>12, <2>3, <2>6, <2>7 DEF Some
  <2>14. \A i \in DOMAIN pairs : items[pairs[i].key] # None /\ pairs[i].value = items[pairs[i].key]
    BY <1>7, <2>11, <2>13
  <2>15. \A x \in Texts : items[x] # None => \E i \in DOMAIN pairs : pairs[i].key = x
    <3> SUFFICES ASSUME NEW x \in Texts, items[x] # None PROVE \E i \in DOMAIN pairs : pairs[i].key = x
      OBVIOUS
    <3>1. PICK j \in 1 .. m : ks[j] = x
      BY <1>8
    <3>2. Even(j) \in DOMAIN pairs /\ pairs[Even(j)].key = x
      BY <2>12, <2>13, <3>1
    <3> QED
      BY <3>2
  <2>16. DOMAIN pairs \subseteq 0 .. Even(m) /\ Even(m) \in Nat
    BY <1>12, <2>6
  <2>17. items = [x \in Texts |-> items[x]]
    BY <1>3
  <2> HIDE DEF pairs, present
  <2>18. ValueMap(pairs) = MapOf(items)
    BY <2>14, <2>15, <2>16, <2>17, MapBack
  <2>19. d.call \in Compounds
    BY <1>20 DEF Compounds, Maps
  <2> QED
    BY <1>3, <1>20, <2>1, <2>4, <2>5, <2>10, <2>18, <2>19, ProjectedCompound
<1>22. VisitedWithin[n][d] = Some(v)
  <2>1. PICK B : B = VisitedBelow(n)
    OBVIOUS
  <2>2. \A j \in 1 .. m : /\ B[p[Odd(j)].of] = Some(Leaf("String", ks[j]))
                          /\ B[p[Even(j)].of] = Some(items[ks[j]])
    BY <1>7, <1>13, <1>14, <2>1 DEF BelowComesBack
  <2>3. PICK results : results = VisitResults(B, d)
    OBVIOUS
  <2>4. DOMAIN results = 1 .. Even(m) /\ \A i \in 1 .. Even(m) : results[i] = B[p[i].of]
    <3>1. ASSUME NEW i \in 1 .. Even(m) PROVE VisitedPart(p[i], B[p[i].of]) = B[p[i].of]
      <4>1. PICK j \in 1 .. m : i = Odd(j) \/ i = Even(j)
        BY Zenon, <1>12
      <4>2. p[i].op = "value" \/ p[i].of = KeyDatum(ks[j])
        BY Zenon, <1>13, <4>1
      <4> QED
        BY ONLY <4>2 DEF VisitedPart, KeyDatum, Datum
    <3> QED
      BY <1>17, <1>20, <2>3, <3>1 DEF VisitResults
  <2>5. ASSUME NEW i \in 1 .. Even(m) PROVE results[i].is = "some"
    <3>1. PICK j \in 1 .. m : i = Odd(j) \/ i = Even(j)
      BY Zenon, <1>12
    <3>2. B[p[i].of] = Some(Leaf("String", ks[j])) \/ B[p[i].of] = Some(items[ks[j]])
      BY Zenon, <2>2, <3>1
    <3>3. results[i] = B[p[i].of]
      BY Zenon, <2>4
    <3> QED
      BY ONLY <3>2, <3>3 DEF Some
  <2>6. Failures(results) = {}
    BY <2>4, <2>5 DEF Failures
  <2>7. PICK pairs : pairs = VisitPairs(d, results)
    OBVIOUS
  <2>8. Len(d.parts) \div 2 = m
    BY <1>19, <1>20 DEF Even
  <2>9. DOMAIN pairs = 1 .. m
          /\ \A j \in 1 .. m : pairs[j].key = ks[j] /\ pairs[j].value = items[ks[j]]
    <3>1. pairs = [j \in 1 .. m |-> [key |-> p[Odd(j)].of.atom, value |-> results[Even(j)].value]]
      BY <1>20, <2>7, <2>8 DEF VisitPairs, Odd, Even
    <3>2. ASSUME NEW j \in 1 .. m PROVE p[Odd(j)].of.atom = ks[j] /\ results[Even(j)].value = items[ks[j]]
      <4>1. /\ p[Odd(j)].of = KeyDatum(ks[j]) /\ results[Even(j)] = B[p[Even(j)].of]
            /\ B[p[Even(j)].of] = Some(items[ks[j]])
        BY Zenon, <1>12, <1>13, <2>2, <2>4
      <4> QED
        BY ONLY <4>1 DEF KeyDatum, Datum, Some
    <3> QED
      BY <3>1, <3>2
  <2>10. items = [x \in Texts |-> items[x]]
    BY <1>3
  <2>11. \A j \in DOMAIN pairs : items[pairs[j].key] # None /\ pairs[j].value = items[pairs[j].key]
    BY <1>7, <2>9
  <2>12. \A x \in Texts : items[x] # None => \E j \in DOMAIN pairs : pairs[j].key = x
    BY <1>8, <2>9
  <2>13. ValueMap(pairs) = MapOf(items)
    <3>1. DOMAIN pairs \subseteq 0 .. m /\ m \in Nat
      BY <2>9
    <3> QED
      BY <2>10, <2>11, <2>12, <3>1, MapBack
  <2> QED
    BY <1>3, <1>20, <2>1, <2>3, <2>6, <2>7, <2>13, VisitedCases
<1> QED
  BY <1>11, <1>20, <1>21, <1>22 DEF ComesBack

(* Every value, of every nesting. *)
LevelComesBack(n) == \A v \in ValuesWithin[n] : ComesBack(n, DataWithin[n][v], v)

LEMMA LevelStep ==
    ASSUME NEW n \in 0 .. Nesting, BelowComesBack(n) PROVE LevelComesBack(n)
<1> SUFFICES ASSUME NEW v \in ValuesWithin[n] PROVE ComesBack(n, DataWithin[n][v], v)
  BY DEF LevelComesBack
<1>1. CASE v.type = "Map"
  BY <1>1, MapComesBack
<1>2. CASE v.type = "Array"
  BY <1>2, ArrayComesBack
<1>3. CASE v.type \notin {"Map", "Array"}
  <2>1. DataWithin[n][v] = Datum(SerializedAs[v.type], v.atom, << >>)
    BY <1>3, DataCases
  <2>2. /\ v.type \in Plain \cup {"String"} /\ v = Leaf(v.type, v.atom)
        /\ IF v.type = "String" THEN v.atom \in Texts ELSE v.atom \in Int
    BY <1>3, ValueCases DEF Plain, Floating
  <2>3. ComesBack(n, Datum(SerializedAs[v.type], v.atom, << >>), Leaf(v.type, v.atom))
    <3>1. PICK type, atom : type = v.type /\ atom = v.atom
      OBVIOUS
    <3> QED
      BY <2>2, <3>1, ScalarComesBack
  <2> QED
    BY <2>1, <2>2, <2>3
<1> QED
  BY <1>1, <1>2, <1>3

LEMMA BelowStep ==
    ASSUME NEW n \in Nat, n + 1 <= Nesting, LevelComesBack(n) PROVE BelowComesBack(n + 1)
<1>1. n \in 0 .. Nesting /\ n + 1 # 0 /\ (n + 1) - 1 = n
  BY ValuesAssumption
<1>2. /\ Inner(n + 1) = ValuesWithin[n] /\ CallInner(n + 1) = CallsWithin[n]
      /\ DataBelow(n + 1) = DataWithin[n] /\ ProjectionBelow(n + 1) = ProjectionWithin[n]
      /\ VisitedBelow(n + 1) = VisitedWithin[n]
  BY <1>1 DEF Inner, CallInner, DataBelow, ProjectionBelow, VisitedBelow
<1>3. ASSUME NEW k \in Texts PROVE ComesBack(n, KeyDatum(k), Leaf("String", k))
  <2>1. SerializedAs["String"] = "str"
    BY DEF SerializedAs
  <2>2. ComesBack(n, Datum(SerializedAs["String"], k, << >>), Leaf("String", k))
    BY <1>1, ScalarComesBack
  <2> QED
    BY <2>1, <2>2 DEF KeyDatum
<1> QED
  BY <1>2, <1>3 DEF LevelComesBack, BelowComesBack, ComesBack

LEMMA EveryLevelComesBack == LevelComesBack(Nesting)
<1> DEFINE T == {n \in Nat : n <= Nesting => LevelComesBack(n)}
<1>1. 0 \in T
  <2>1. BelowComesBack(0)
    BY DEF BelowComesBack, Inner
  <2> QED
    BY <2>1, LevelStep, ValuesAssumption
<1>2. ASSUME NEW n \in Nat, n \in T PROVE n + 1 \in T
  <2>1. n + 1 <= Nesting => BelowComesBack(n + 1)
    BY <1>2, BelowStep, ValuesAssumption
  <2> QED
    BY <2>1, LevelStep, ValuesAssumption
<1> HIDE DEF T
<1>3. Nesting \in T
  BY <1>1, <1>2, Induction, ValuesAssumption
<1> QED
  BY <1>3, ValuesAssumption DEF T

(***************************************************************************)
(* Every value there is, however it nests: what Serialize for Value calls  *)
(* becomes the value again, in ValueSerializer and in ValueVisitor.        *)
(***************************************************************************)
THEOREM RoundTrip ==
    \A v \in AnyValue : /\ AsData(v) \in AnyCall
                        /\ Projection(AsData(v)) = Some(v) /\ Visited(AsData(v)) = Some(v)
  BY EveryLevelComesBack
     DEF LevelComesBack, ComesBack, AnyValue, AnyCall, AsData, Projection, Visited


-----------------------------------------------------------------------------
(***************************************************************************)
(* What the strategies make of two values is a value.                      *)
(***************************************************************************)
MergeBelow(n) == IF n = 0 THEN << >> ELSE MergeWithin[n - 1]

BothOf(below, x, y) == IF None \in {x, y} THEN y ELSE below[x][y]

LEMMA MergeCases ==
    ASSUME NEW n \in 0 .. Nesting, NEW v \in ValuesWithin[n], NEW w \in ValuesWithin[n]
    PROVE  /\ v.type = "Map" /\ w.type = "Map" =>
                  MergeWithin[n][v][w] =
                      MapOf(Over([k \in Texts |-> BothOf(MergeBelow(n), v.items[k], w.items[k])], v.items))
           /\ v.type = "Array" /\ w.type = "Array" => MergeWithin[n][v][w] = ArrayOf(v.items \o w.items)
           /\ ~(v.type = "Map" /\ w.type = "Map") /\ ~(v.type = "Array" /\ w.type = "Array") =>
                  MergeWithin[n][v][w] = w
<1>1. MergeWithin[n] = MergeOver(n, MergeBelow(n))
  BY MergeUnfold DEF MergeBelow
<1>2. PICK B : B = MergeBelow(n)
  OBVIOUS
<1>3. CASE v.type = "Map" /\ w.type = "Map"
  BY SMTT(30), <1>1, <1>2, <1>3 DEF MergeOver, BothOf
<1>4. CASE v.type = "Array" /\ w.type = "Array"
  BY SMTT(30), <1>1, <1>2, <1>4 DEF MergeOver
<1>5. CASE ~(v.type = "Map" /\ w.type = "Map") /\ ~(v.type = "Array" /\ w.type = "Array")
  BY SMTT(30), <1>1, <1>2, <1>5 DEF MergeOver
<1> QED
  BY <1>3, <1>4, <1>5

MergeStays(n) == \A v, w \in ValuesWithin[n] : MergeWithin[n][v][w] \in ValuesWithin[n]

LEMMA MergeStep ==
    ASSUME NEW n \in 0 .. Nesting, n # 0 => MergeStays(n - 1) PROVE MergeStays(n)
<1> SUFFICES ASSUME NEW v \in ValuesWithin[n], NEW w \in ValuesWithin[n]
             PROVE  MergeWithin[n][v][w] \in ValuesWithin[n]
  BY DEF MergeStays
<1>1. CASE v.type = "Map" /\ w.type = "Map"
  <2>1. v.items \in [Texts -> Inner(n) \cup {None}] /\ w.items \in [Texts -> Inner(n) \cup {None}]
    BY <1>1, ValueCases DEF Plain, Floating
  <2>2. PICK items : items = Over([k \in Texts |-> BothOf(MergeBelow(n), v.items[k], w.items[k])], v.items)
    OBVIOUS
  <2>3. ASSUME NEW k \in Texts PROVE BothOf(MergeBelow(n), v.items[k], w.items[k]) \in Inner(n) \cup {None}
    <3>1. v.items[k] \in Inner(n) \cup {None} /\ w.items[k] \in Inner(n) \cup {None}
      BY <2>1
    <3>2. CASE None \in {v.items[k], w.items[k]}
      BY <3>1, <3>2 DEF BothOf
    <3>3. CASE None \notin {v.items[k], w.items[k]}
      <4>1. v.items[k] \in Inner(n) /\ w.items[k] \in Inner(n) /\ n # 0
        BY <3>1, <3>3 DEF Inner
      <4>2. MergeBelow(n)[v.items[k]][w.items[k]] \in Inner(n)
        BY <4>1 DEF MergeBelow, MergeStays, Inner
      <4> QED
        BY <3>3, <4>2 DEF BothOf
    <3> QED
      BY <3>2, <3>3
  <2>4. items \in [Texts -> Inner(n) \cup {None}]
    BY <2>1, <2>2, <2>3 DEF Over
  <2>5. MergeWithin[n][v][w] = MapOf(items)
    BY <1>1, <2>2, MergeCases
  <2> QED
    BY <2>4, <2>5, ValueTypes
<1>2. CASE v.type = "Array" /\ w.type = "Array"
  <2>1. v.items \in Seq(Inner(n)) /\ w.items \in Seq(Inner(n))
    BY <1>2, ValueCases DEF Plain, Floating
  <2>2. v.items \o w.items \in Seq(Inner(n))
    BY <2>1
  <2> QED
    <3>1. MergeWithin[n][v][w] = ArrayOf(v.items \o w.items)
      BY <1>2, MergeCases
    <3>2. ArrayOf(v.items \o w.items) \in ValuesWithin[n]
      BY <2>2, ValueTypes
    <3> QED
      BY <3>1, <3>2
<1>3. CASE ~(v.type = "Map" /\ w.type = "Map") /\ ~(v.type = "Array" /\ w.type = "Array")
  BY <1>3, MergeCases
<1> QED
  BY <1>1, <1>2, <1>3

LEMMA MergeStaysEvery == \A n \in 0 .. Nesting : MergeStays(n)
<1> DEFINE T == {n \in Nat : n <= Nesting => MergeStays(n)}
<1>1. 0 \in T
  BY MergeStep, ValuesAssumption
<1>2. ASSUME NEW n \in Nat, n \in T PROVE n + 1 \in T
  BY <1>2, MergeStep, ValuesAssumption
<1> HIDE DEF T
<1>3. \A n \in Nat : n \in T
  BY <1>1, <1>2, Induction
<1> QED
  BY <1>3, ValuesAssumption DEF T

LEMMA MergeStaysValue == MergeStays(Nesting)
  BY MergeStaysEvery, ValuesAssumption

(* What each strategy stores. *)
LEMMA MergedIsValue ==
    ASSUME NEW strategy \in Strategies, NEW old \in AnyValue \cup {None}, NEW new \in AnyValue
    PROVE  Merged(strategy, old, new) \in AnyValue
<1>1. CASE old = None \/ strategy = "Replace"
  BY <1>1 DEF Merged
<1>2. CASE old # None /\ strategy = "TopLevelMerge"
  <2>1. Merged(strategy, old, new) = MergeTopLevel(old, new)
    BY <1>2 DEF Merged
  <2>2. CASE old.type = "Map" /\ new.type = "Map"
    <3>1. Nesting \in 0 .. Nesting
      BY ValuesAssumption
    <3>2. PICK E : E = [Texts -> Inner(Nesting) \cup {None}]
      OBVIOUS
    <3>3. old.items \in E /\ new.items \in E
      BY <1>2, <2>2, <3>1, <3>2, ValueCases DEF AnyValue, Plain, Floating
    <3>4. Over(new.items, old.items) \in E
      BY <3>2, <3>3 DEF Over
    <3> QED
      BY <2>1, <2>2, <3>1, <3>2, <3>4, ValueTypes DEF MergeTopLevel, AnyValue
  <2>3. CASE ~(old.type = "Map" /\ new.type = "Map")
    BY <2>1, <2>3 DEF MergeTopLevel
  <2> QED
    BY <2>2, <2>3
<1>3. CASE old # None /\ strategy = "DeepMerge"
  BY <1>3, MergeStaysValue DEF Merged, MergeDeep, MergeStays, AnyValue
<1> QED
  BY <1>1, <1>2, <1>3 DEF Strategies


-----------------------------------------------------------------------------
(***************************************************************************)
(* Store: the table and the pool while the leaves of a network are filled. *)
(***************************************************************************)
Filled(start, net, strategy, new) ==
    LET After[k \in 0 .. Len(net)] ==
            IF k = 0 THEN start ELSE StoredAt(After[k - 1], net[k], strategy, new)
    IN  After

LEMMA FilledStep ==
    ASSUME NEW start, NEW net, NEW strategy, NEW new, Len(net) \in Nat
    PROVE  /\ Filled(start, net, strategy, new)[0] = start
           /\ \A k \in 0 .. Len(net) - 1 :
                  Filled(start, net, strategy, new)[k + 1] = StoredAt(Filled(start, net, strategy, new)[k], net[k + 1], strategy, new)
<1> DEFINE Turn(h, k) == IF k = 0 THEN start ELSE StoredAt(h[k - 1], net[k], strategy, new)
           Eq(h) == h = [k \in 0 .. Len(net) |-> Turn(h, k)]
           T == {m \in Nat : \E h : h = [k \in 0 .. m |-> Turn(h, k)]}
<1>0. Len(net) \in Nat
  OBVIOUS
<1>1. 0 \in T
  <2>1. PICK g : g = [k \in 0 .. 0 |-> start]
    OBVIOUS
  <2>2. g = [k \in 0 .. 0 |-> Turn(g, k)]
    BY <2>1
  <2> QED
    BY <2>2
<1>2. ASSUME NEW m \in Nat, m \in T PROVE m + 1 \in T
  <2>1. PICK e : e = [k \in 0 .. m |-> Turn(e, k)]
    BY <1>2
  <2>2. PICK z : z = StoredAt(e[m], net[m + 1], strategy, new)
    OBVIOUS
  <2>3. PICK g : g = [k \in 0 .. m + 1 |-> IF k <= m THEN e[k] ELSE z]
    OBVIOUS
  <2>4. \A k \in 0 .. m + 1 : g[k] = Turn(g, k)
    <3>1. \A k \in 0 .. m : g[k] = e[k] /\ e[k] = Turn(e, k)
      <4>1. \A k \in 0 .. m : g[k] = e[k]
        BY <2>3
      <4>2. \A k \in 0 .. m : e[k] = Turn(e, k)
        <5> HIDE DEF Turn
        <5> QED
          BY ONLY <2>1
      <4> QED
        BY <4>1, <4>2
    <3>2. \A k \in 1 .. m + 1 : g[k - 1] = e[k - 1]
      BY <3>1
    <3>3. g[m + 1] = z
      BY <2>3
    <3>4. ASSUME NEW k \in 0 .. m PROVE Turn(g, k) = Turn(e, k)
      <4>1. CASE k = 0
        BY <4>1
      <4>2. CASE k # 0
        <5>1. g[k - 1] = e[k - 1]
          BY <3>2, <4>2
        <5> QED
          BY <4>2, <5>1
      <4> QED
        BY <4>1, <4>2
    <3>5. g[m + 1] = Turn(g, m + 1)
      <4>1. m + 1 # 0 /\ (m + 1) - 1 = m /\ g[m] = e[m]
        BY <3>1
      <4> QED
        BY <2>2, <3>3, <4>1
    <3>6. \A k \in 0 .. m : g[k] = Turn(g, k)
      BY <3>1, <3>4
    <3>7. \A k \in 0 .. m + 1 : k \in 0 .. m \/ k = m + 1
      OBVIOUS
    <3> HIDE DEF Turn
    <3> QED
      BY <3>5, <3>6, <3>7
  <2>5. g = [k \in 0 .. m + 1 |-> Turn(g, k)]
    <3> HIDE DEF Turn
    <3> QED
      BY <2>3, <2>4
  <2>6. \E h : h = [k \in 0 .. m + 1 |-> Turn(h, k)]
    BY Zenon, <2>5
  <2> QED
    BY <2>6
<1>3. Len(net) \in T
  <2> HIDE DEF T
  <2> QED
    BY <1>0, <1>1, <1>2, Induction
<1>4. Filled(start, net, strategy, new) = CHOOSE h : Eq(h)
  BY DEF Filled
<1>5. Eq(Filled(start, net, strategy, new))
  <2>1. \E h : Eq(h)
    BY <1>3
  <2> HIDE DEF Eq
  <2> QED
    BY Zenon, <1>4, <2>1
<1>6. PICK W : W = Filled(start, net, strategy, new) /\ W = [k \in 0 .. Len(net) |-> Turn(W, k)]
  BY <1>5
<1>7. 0 \in 0 .. Len(net) /\ \A k \in 0 .. Len(net) - 1 : k + 1 \in 0 .. Len(net) /\ k + 1 # 0 /\ (k + 1) - 1 = k
  BY <1>0
<1>8. \A k \in 0 .. Len(net) : W[k] = Turn(W, k)
  <2> HIDE DEF Turn
  <2> QED
    BY ONLY <1>6
<1>9. W[0] = start
  BY <1>7, <1>8
<1>10. ASSUME NEW k \in 0 .. Len(net) - 1 PROVE W[k + 1] = StoredAt(W[k], net[k + 1], strategy, new)
  <2>1. k + 1 \in 0 .. Len(net) /\ k + 1 # 0 /\ (k + 1) - 1 = k
    BY <1>7
  <2>2. W[k + 1] = Turn(W, k + 1)
    BY <1>8, <2>1
  <2> QED
    BY <2>1, <2>2
<1> QED
  BY <1>6, <1>9, <1>10

(* What a table and its pool always are. *)
TableOf(t) ==
    /\ t.pool \in Seq(AnyValue)
    /\ t.ids \in [Addresses -> DOMAIN t.pool \cup {None}]

(* The table after the addresses of done: start's values, and merged ones in done. *)
FilledTo(start, t, done, strategy, new) ==
    /\ TableOf(t)
    /\ IsInjective(start.pool) => IsInjective(t.pool)
    /\ \A a \in Addresses :
           Held(t.pool, t.ids[a]) = IF a \in done THEN Merged(strategy, Held(start.pool, start.ids[a]), new)
                                    ELSE Held(start.pool, start.ids[a])

LEMMA HeldIsValue ==
    ASSUME NEW t, TableOf(t), NEW a \in Addresses
    PROVE  Held(t.pool, t.ids[a]) \in AnyValue \cup {None}
  BY DEF TableOf, Held

LEMMA LeafStored ==
    ASSUME NEW start, TableOf(start), NEW t, NEW done, NEW strategy \in Strategies, NEW new \in AnyValue,
           FilledTo(start, t, done, strategy, new), NEW a \in Addresses \ done
    PROVE  FilledTo(start, StoredAt(t, a, strategy, new), done \cup {a}, strategy, new)
<1>1. PICK v : v = Merged(strategy, Held(t.pool, t.ids[a]), new)
  OBVIOUS
<1>2. TableOf(t) /\ Held(t.pool, t.ids[a]) = Held(start.pool, start.ids[a])
  BY DEF FilledTo
<1>3. v = Merged(strategy, Held(start.pool, start.ids[a]), new) /\ v \in AnyValue
  BY <1>1, <1>2, HeldIsValue, MergedIsValue
<1>4. PICK r : r = Intern(t.pool, v)
  OBVIOUS
<1>5. InternedIn(t.pool, v, r)
  BY <1>2, <1>3, <1>4, InternRight DEF TableOf
<1>6. PICK u : u = StoredAt(t, a, strategy, new)
  OBVIOUS
<1>7. u.pool = r.pool /\ u.ids = [t.ids EXCEPT ![a] = r.id]
  BY <1>1, <1>4, <1>6 DEF StoredAt
<1>8. /\ r.pool \in Seq(AnyValue) /\ r.id \in DOMAIN r.pool /\ r.pool[r.id] = v
      /\ \A i \in DOMAIN t.pool : i \in DOMAIN r.pool /\ r.pool[i] = t.pool[i]
      /\ IsInjective(t.pool) => IsInjective(r.pool)
  BY <1>5 DEF InternedIn
<1>9. t.ids \in [Addresses -> DOMAIN t.pool \cup {None}]
  BY <1>2 DEF TableOf
<1>10. u.ids[a] = r.id /\ \A x \in Addresses : x # a => u.ids[x] = t.ids[x]
  BY <1>7, <1>9
<1>11. TableOf(u)
  <2>1. u.ids \in [Addresses -> DOMAIN r.pool \cup {None}]
    BY <1>7, <1>8, <1>9
  <2> QED
    BY <1>7, <1>8, <2>1 DEF TableOf
<1>12. \A i \in DOMAIN r.pool : i # None
  <2>1. DOMAIN r.pool \subseteq Int
    BY <1>8
  <2> QED
    BY <2>1, ValuesAssumption
<1>13. Held(u.pool, u.ids[a]) = v
  BY <1>7, <1>8, <1>10, <1>12 DEF Held
<1>14. ASSUME NEW x \in Addresses, x # a PROVE Held(u.pool, u.ids[x]) = Held(t.pool, t.ids[x])
  BY <1>7, <1>8, <1>9, <1>10, <1>14 DEF Held
<1>15. IsInjective(start.pool) => IsInjective(u.pool)
  BY <1>7, <1>8 DEF FilledTo
<1>16. ASSUME NEW x \in Addresses
       PROVE  Held(u.pool, u.ids[x]) = IF x \in done \cup {a}
                                       THEN Merged(strategy, Held(start.pool, start.ids[x]), new)
                                       ELSE Held(start.pool, start.ids[x])
  BY <1>3, <1>13, <1>14 DEF FilledTo
<1> QED
  BY <1>6, <1>11, <1>15, <1>16 DEF FilledTo

(* All leaves of a network. *)
LEMMA NetworkStored ==
    ASSUME NEW start, TableOf(start), NEW net \in Seq(Addresses), IsInjective(net),
           NEW strategy \in Strategies, NEW new \in AnyValue
    PROVE  FilledTo(start, Filled(start, net, strategy, new)[Len(net)], ToSet(net), strategy, new)
<1> DEFINE done(k) == {net[j] : j \in 1 .. k}
           T == {k \in Nat : k <= Len(net) =>
                     FilledTo(start, Filled(start, net, strategy, new)[k], done(k), strategy, new)}
<1>1. Len(net) \in Nat /\ DOMAIN net = 1 .. Len(net)
  OBVIOUS
<1>2. PICK F : F = Filled(start, net, strategy, new)
  OBVIOUS
<1>3. F[0] = start /\ \A k \in 0 .. Len(net) - 1 : F[k + 1] = StoredAt(F[k], net[k + 1], strategy, new)
  BY <1>1, <1>2, FilledStep
<1>4. 0 \in T
  <2>1. FilledTo(start, start, {}, strategy, new)
    BY DEF FilledTo
  <2>2. done(0) = {}
    OBVIOUS
  <2> HIDE DEF done
  <2> QED
    BY <1>2, <1>3, <2>1, <2>2
<1>5. ASSUME NEW k \in Nat, k \in T PROVE k + 1 \in T
  <2> SUFFICES ASSUME k + 1 <= Len(net)
               PROVE  FilledTo(start, F[k + 1], done(k + 1), strategy, new)
    BY <1>2
  <2>1. k \in 0 .. Len(net) - 1 /\ k + 1 \in 1 .. Len(net) /\ k <= Len(net)
    BY <1>1
  <2>2. FilledTo(start, F[k], done(k), strategy, new)
    BY <1>2, <1>5, <2>1
  <2>3. \A j \in 1 .. k : j \in 1 .. Len(net) /\ j # k + 1
    BY <1>1, <2>1
  <2>4. net[k + 1] \in Addresses \ done(k)
    BY <1>1, <2>1, <2>3 DEF IsInjective
  <2>5. done(k + 1) = done(k) \cup {net[k + 1]}
    <3>1. \A j : j \in 1 .. k + 1 <=> j \in 1 .. k \/ j = k + 1
      OBVIOUS
    <3> QED
      BY <3>1
  <2>6. PICK D : D = done(k)
    OBVIOUS
  <2> HIDE DEF done
  <2>7. FilledTo(start, StoredAt(F[k], net[k + 1], strategy, new), D \cup {net[k + 1]}, strategy, new)
    BY <2>2, <2>4, <2>6, LeafStored
  <2> QED
    BY <1>3, <2>1, <2>5, <2>6, <2>7
<1>6. Len(net) \in T
  <2> HIDE DEF T
  <2> QED
    BY <1>1, <1>4, <1>5, Induction
<1>7. done(Len(net)) = ToSet(net)
  BY <1>1 DEF ToSet
<1> HIDE DEF done
<1> QED
  BY <1>1, <1>6, <1>7


-----------------------------------------------------------------------------
(***************************************************************************)
(* The invariant of an insert: the stack of frames stands for the caller's *)
(* data, and the table and its pool are sound.                             *)
(***************************************************************************)
Table == [pool |-> values, ids |-> ids]

(* What the caller inserts, and that it becomes a value. *)
Insertable(t) == t \in AnyCall /\ (Projection(t).is = "some" => Projection(t).value \in AnyValue)

InsertInv ==
    /\ StackInv
    /\ ~Idle => Insertable(data) /\ request.net \in Nets /\ request.strategy \in Strategies
    /\ TableOf(Table) /\ IsInjective(values)
    /\ inserts \in 0 .. MaxInserts

LEMMA InitInv == Init => InsertInv
<1> SUFFICES ASSUME Init PROVE InsertInv
  OBVIOUS
<1>1. Idle /\ frames = << >> /\ focus = None /\ out = Nothing
  BY DEF Init, Idle
<1>2. StackInv
  BY <1>1 DEF StackInv, Stack
<1>3. TableOf(Table)
  BY DEF Init, TableOf, Table
<1>4. IsInjective(values)
  BY DEF Init, IsInjective
<1>5. inserts \in 0 .. MaxInserts
  BY ValueInsertAssumption DEF Init
<1> QED
  BY <1>1, <1>2, <1>3, <1>4, <1>5 DEF InsertInv

(* A call begins on data that becomes a value. *)
LEMMA InsertKeeps ==
    ASSUME InsertInv, NEW t, Insertable(t), NEW net \in Nets, NEW strategy \in Strategies,
           Insert(t, net, strategy)
    PROVE  InsertInv'
<1>1. /\ Idle /\ inserts < MaxInserts /\ data' = t /\ focus' = t /\ frames' = frames /\ out' = out
      /\ request' = [net |-> net, strategy |-> strategy] /\ inserts' = inserts + 1
      /\ values' = values /\ ids' = ids
  BY DEF Insert, Begin
<1>2. frames' = << >> /\ out' = Nothing /\ focus' # None
  BY <1>1, NoneIsNoCall DEF Idle, Insertable
<1>3. StackInv'
  BY <1>1, <1>2 DEF StackInv, Stack, Asks, Insertable
<1>4. Insertable(data)' /\ (request.net \in Nets)' /\ (request.strategy \in Strategies)'
  BY <1>1 DEF Insertable
<1>5. TableOf(Table)' /\ IsInjective(values)'
  BY <1>1 DEF InsertInv, Table, TableOf
<1>6. (inserts \in 0 .. MaxInserts)'
  BY <1>1, ValueInsertAssumption DEF InsertInv
<1> QED
  BY <1>3, <1>4, <1>5, <1>6 DEF InsertInv

LEMMA GetIsValue ==
    ASSUME InsertInv, NEW a \in Addresses PROVE Get(a) \in AnyValue \cup {None}
<1>1. TableOf(Table) /\ Table.pool = values /\ Table.ids = ids
  BY DEF InsertInv, Table
<1> QED
  BY <1>1, HeldIsValue DEF Get

LEMMA InsertCopyKeeps ==
    ASSUME InsertInv, NEW a \in Addresses, NEW net \in Nets, NEW strategy \in Strategies,
           InsertCopy(a, net, strategy)
    PROVE  InsertInv'
<1>1. Get(a) \in AnyValue /\ Insert(AsData(Get(a)), net, strategy)
  BY GetIsValue DEF InsertCopy
<1>2. Insertable(AsData(Get(a)))
  BY <1>1, RoundTrip DEF Insertable, Some
<1> QED
  BY <1>1, <1>2, InsertKeeps

LEMMA SerializeKeeps ==
    ASSUME InsertInv, Serialize PROVE InsertInv'
<1>1. Serializing /\ UNCHANGED <<data, values, ids, request, inserts>>
  BY DEF Serialize, Serializing
<1>2. StackInv'
  BY <1>1, SerializingKeeps DEF InsertInv
<1>3. ~Idle
  BY <1>1 DEF Idle, Serializing, SerializeScalar, SerializeUnit, SerializeUnsupported, SerializeWrapper, Open,
     NextPart, NextValue, ValueWithoutKey, KeyReturned, ElementKept, EntryKept, PartDropped, PartFailed, Close,
     Entering, More, Resting, PartReturned
<1> QED
  BY <1>1, <1>2, <1>3 DEF InsertInv, Table, TableOf, Insertable

LEMMA StoredIs ==
    \A net, strategy, new : Stored(net, strategy, new) = Filled(Table, net, strategy, new)[Len(net)]
  BY DEF Stored, Filled, Table

(* The call ends and nothing is open. *)
LEMMA DoneKeeps ==
    ASSUME StackInv, Returned, Done PROVE StackInv' /\ Idle'
  BY DEF StackInv, Stack, Returned, Done, Idle

LEMMA FailKeeps ==
    ASSUME InsertInv, Fail PROVE InsertInv'
<1>1. StackInv' /\ Idle'
  BY DoneKeeps DEF Fail, InsertInv
<1>2. UNCHANGED <<values, ids, request, inserts>>
  BY DEF Fail
<1> QED
  BY <1>1, <1>2 DEF InsertInv, Table, TableOf

(* What is stored, when the data of the call has become a value. *)
LEMMA StoreFills ==
    ASSUME InsertInv, Store
    PROVE  /\ Projection(data) = out /\ out.value \in AnyValue
           /\ FilledTo(Table, Table', ToSet(request.net), request.strategy, out.value)
<1>1. Returned /\ out.is = "some" /\ ~Idle
  BY DEF Store, Returned, Idle
<1>2. Projection(data) = out /\ out.value \in AnyValue
  <2>1. Projected
    BY ReturnedRight DEF InsertInv
  <2> QED
    BY <1>1, <2>1 DEF Projected, InsertInv, Insertable
<1>3. PICK net, strategy, new : net = request.net /\ strategy = request.strategy /\ new = out.value
  OBVIOUS
<1>4. net \in Seq(Addresses) /\ IsInjective(net) /\ strategy \in Strategies /\ new \in AnyValue
  BY <1>1, <1>2, <1>3, ValueInsertAssumption DEF InsertInv
<1>5. PICK t : t = Stored(net, strategy, new)
  OBVIOUS
<1>6. PICK start : start = Table
  OBVIOUS
<1>7. TableOf(start)
  BY <1>6 DEF InsertInv
<1>8. t = Filled(start, net, strategy, new)[Len(net)]
  BY <1>5, <1>6, StoredIs
<1>9. FilledTo(start, t, ToSet(net), strategy, new)
  BY <1>4, <1>7, <1>8, NetworkStored
<1>10. values' = t.pool /\ ids' = t.ids
  BY <1>3, <1>5 DEF Store
<1>11. PICK u : u = [pool |-> t.pool, ids |-> t.ids]
  OBVIOUS
<1>12. Table' = u
  BY <1>10, <1>11 DEF Table
<1>13. FilledTo(start, u, ToSet(net), strategy, new)
  BY <1>9, <1>11 DEF FilledTo, TableOf
<1> QED
  BY <1>2, <1>3, <1>6, <1>12, <1>13

LEMMA StoreKeeps ==
    ASSUME InsertInv, Store PROVE InsertInv'
<1>1. StackInv' /\ Idle'
  BY DoneKeeps DEF Store, InsertInv
<1>2. UNCHANGED <<request, inserts>>
  BY DEF Store
<1>3. TableOf(Table)' /\ IsInjective(values)'
  <2>1. FilledTo(Table, Table', ToSet(request.net), request.strategy, out.value)
    BY StoreFills
  <2>2. Table.pool = values /\ Table'.pool = values'
    BY DEF Table
  <2>3. TableOf(Table') /\ (IsInjective(values) => IsInjective(values'))
    BY <2>1, <2>2 DEF FilledTo
  <2>4. IsInjective(values)
    BY DEF InsertInv
  <2> QED
    BY <2>3, <2>4
<1> QED
  BY <1>1, <1>2, <1>3 DEF InsertInv

LEMMA NextInv ==
    ASSUME InsertInv, [Next]_vars PROVE InsertInv'
<1>1. ASSUME NEW net \in Nets, NEW strategy \in Strategies, NEW t \in Data, Insert(t, net, strategy)
      PROVE  InsertInv'
  <2>1. Insertable(t)
    BY ValueInsertAssumption DEF Insertable
  <2> QED
    BY <1>1, <2>1, InsertKeeps
<1>2. ASSUME NEW net \in Nets, NEW strategy \in Strategies, NEW a \in Addresses,
             InsertCopy(a, net, strategy)
      PROVE  InsertInv'
  BY <1>2, InsertCopyKeeps
<1>3. CASE UNCHANGED vars
  <2>1. /\ data' = data /\ focus' = focus /\ frames' = frames /\ out' = out
        /\ values' = values /\ ids' = ids /\ request' = request /\ inserts' = inserts
    BY <1>3 DEF vars
  <2>2. StackInv'
    BY <2>1 DEF InsertInv, StackInv
  <2> QED
    BY <2>1, <2>2 DEF InsertInv, Table, TableOf, Idle, Insertable
<1> QED
  BY <1>1, <1>2, <1>3, SerializeKeeps, FailKeeps, StoreKeeps DEF Next

LEMMA InvHolds == Spec => []InsertInv
  BY InitInv, NextInv, PTL DEF Spec

(***************************************************************************)
(* The ids of the tree are those of the pool, every open frame is within   *)
(* its compound, and only a map has a key that waits.                      *)
(***************************************************************************)
THEOREM InsertTypes == Spec => []TypeOK
<1>1. ASSUME InsertInv PROVE TypeOK
  <2>1. StackInv /\ Stack(frames, data)
    BY <1>1 DEF InsertInv, StackInv
  <2>2. /\ frames \in Seq(FrameType)
        /\ \A i \in 1 .. Len(frames) - 1 : Serves(frames[i], frames[i + 1].of)
    BY <2>1 DEF Stack
  <2>3. ASSUME frames # << >>
        PROVE  \/ focus # None /\ Busy(Last(frames))
               \/ focus = None /\ (Busy(Last(frames)) \/ Resting1(Last(frames)))
    <3>1. focus # None => Serves(Last(frames), focus)
      BY <2>1, <2>3 DEF StackInv, Asks
    <3>2. focus = None /\ out # Nothing => Busy(Last(frames))
      BY <2>1, <2>3 DEF StackInv, Answers, Serves
    <3> QED
      BY <2>1, <2>3, <3>1, <3>2 DEF StackInv, Serves
  <2>4. ASSUME NEW i \in DOMAIN frames
        PROVE  /\ Busy(frames[i]) \/ Resting1(frames[i])
               /\ i < Len(frames) => Busy(frames[i])
    <3>1. i \in 1 .. Len(frames) /\ Len(frames) \in Nat
      BY <2>2
    <3>2. CASE i < Len(frames)
      <4>1. i \in 1 .. Len(frames) - 1
        BY <3>1, <3>2
      <4> QED
        BY <2>2, <4>1 DEF Serves
    <3>3. CASE i = Len(frames)
      BY <2>3, <3>1, <3>3 DEF Last
    <3> QED
      BY <3>1, <3>2, <3>3
  <2>5. ASSUME NEW i \in DOMAIN frames
        PROVE  LET f == frames[i]
               IN  /\ f.at \in 0 .. Len(f.of.parts)
                   /\ f.pending_key # None => f.of.call = "map" /\ f.items = << >>
                   /\ f.items # << >> => f.entries = NoEntries
                   /\ i < Len(frames) => f.at > 0
    <3>1. PICK m : Holds(frames[i], m)
      BY <2>4 DEF Busy, Resting1
    <3> QED
      BY <2>4, <3>1 DEF Holds, Busy, Sequential, Keyed, Lists, Maps
  <2>6. focus # None /\ frames # << >> => Frame.at > 0
    BY <2>3 DEF Busy, Frame
  <2>7. \A a \in Addresses : ids[a] \in DOMAIN values \cup {None}
    BY <1>1 DEF InsertInv, TableOf, Table
  <2> QED
    BY <1>1, <2>5, <2>6, <2>7 DEF TypeOK, InsertInv
<1> QED
  BY <1>1, InvHolds, PTL

(***************************************************************************)
(* Whatever a Serialize impl calls, in whatever order: the serializer ends *)
(* with the value the constructors would build, or the first error.        *)
(***************************************************************************)
THEOREM SerializerProjects == Spec => []Projected
<1>1. InsertInv => Projected
  BY ReturnedRight DEF InsertInv
<1> QED
  BY <1>1, InvHolds, PTL

(***************************************************************************)
(* The pool never holds one value twice, by any insert of any data.        *)
(***************************************************************************)
THEOREM ValuesStoredOnce == Spec => []StoredOnce
<1>1. InsertInv => StoredOnce
  BY DEF InsertInv, StoredOnce
<1> QED
  BY <1>1, InvHolds, PTL

(***************************************************************************)
(* What is stored comes back bit for bit through the serializer and        *)
(* through the visitor.                                                    *)
(***************************************************************************)
THEOREM ValuesTransparent == Spec => []Transparent
<1>1. ASSUME InsertInv PROVE Transparent
  <2>1. values \in Seq(AnyValue)
    BY <1>1 DEF InsertInv, TableOf, Table
  <2>2. \A id \in DOMAIN values : values[id] \in AnyValue
    BY <2>1
  <2> QED
    BY <2>2, RoundTrip DEF Transparent
<1> QED
  BY <1>1, InvHolds, PTL


-----------------------------------------------------------------------------
(***************************************************************************)
(* The deep merge, path by path.  A path is followed in the old value, in  *)
(* the new one and in what is made of them.                                *)
(***************************************************************************)
Walk(v, path) ==
    LET Step[i \in 0 .. Len(path)] == IF i = 0 THEN v ELSE Step[i - 1].items[path[i]]
    IN  Step

Longer(v, paths) ==
    UNION {{Append(p, k) : k \in KeysOf(At(v, p))} : p \in {p \in paths : IsMapAt(v, p)}}

PathsTo(v) ==
    LET Paths[n \in 0 .. Nesting + 1] == IF n = 0 THEN {<< >>} ELSE Longer(v, Paths[n - 1])
    IN  Paths

LEMMA WalkStep ==
    ASSUME NEW v, NEW path, Len(path) \in Nat
    PROVE  /\ Walk(v, path)[0] = v
           /\ \A k \in 0 .. Len(path) - 1 :
                  Walk(v, path)[k + 1] = Walk(v, path)[k].items[path[k + 1]]
<1> DEFINE Turn(h, k) == IF k = 0 THEN v ELSE h[k - 1].items[path[k]]
           Eq(h) == h = [k \in 0 .. Len(path) |-> Turn(h, k)]
           T == {m \in Nat : \E h : h = [k \in 0 .. m |-> Turn(h, k)]}
<1>0. Len(path) \in Nat
  OBVIOUS
<1>1. 0 \in T
  <2>1. PICK g : g = [k \in 0 .. 0 |-> v]
    OBVIOUS
  <2>2. g = [k \in 0 .. 0 |-> Turn(g, k)]
    BY <2>1
  <2> QED
    BY <2>2
<1>2. ASSUME NEW m \in Nat, m \in T PROVE m + 1 \in T
  <2>1. PICK e : e = [k \in 0 .. m |-> Turn(e, k)]
    BY <1>2
  <2>2. PICK z : z = e[m].items[path[m + 1]]
    OBVIOUS
  <2>3. PICK g : g = [k \in 0 .. m + 1 |-> IF k <= m THEN e[k] ELSE z]
    OBVIOUS
  <2>4. \A k \in 0 .. m + 1 : g[k] = Turn(g, k)
    <3>1. \A k \in 0 .. m : g[k] = e[k] /\ e[k] = Turn(e, k)
      <4>1. \A k \in 0 .. m : g[k] = e[k]
        BY <2>3
      <4>2. \A k \in 0 .. m : e[k] = Turn(e, k)
        <5> HIDE DEF Turn
        <5> QED
          BY ONLY <2>1
      <4> QED
        BY <4>1, <4>2
    <3>2. \A k \in 1 .. m + 1 : g[k - 1] = e[k - 1]
      BY <3>1
    <3>3. g[m + 1] = z
      BY <2>3
    <3>4. ASSUME NEW k \in 0 .. m PROVE Turn(g, k) = Turn(e, k)
      <4>1. CASE k = 0
        BY <4>1
      <4>2. CASE k # 0
        <5>1. g[k - 1] = e[k - 1]
          BY <3>2, <4>2
        <5> QED
          BY <4>2, <5>1
      <4> QED
        BY <4>1, <4>2
    <3>5. g[m + 1] = Turn(g, m + 1)
      <4>1. m + 1 # 0 /\ (m + 1) - 1 = m /\ g[m] = e[m]
        BY <3>1
      <4> QED
        BY <2>2, <3>3, <4>1
    <3>6. \A k \in 0 .. m : g[k] = Turn(g, k)
      BY <3>1, <3>4
    <3>7. \A k \in 0 .. m + 1 : k \in 0 .. m \/ k = m + 1
      OBVIOUS
    <3> HIDE DEF Turn
    <3> QED
      BY <3>5, <3>6, <3>7
  <2>5. g = [k \in 0 .. m + 1 |-> Turn(g, k)]
    <3> HIDE DEF Turn
    <3> QED
      BY <2>3, <2>4
  <2>6. \E h : h = [k \in 0 .. m + 1 |-> Turn(h, k)]
    BY Zenon, <2>5
  <2> QED
    BY <2>6
<1>3. Len(path) \in T
  <2> HIDE DEF T
  <2> QED
    BY <1>0, <1>1, <1>2, Induction
<1>4. Walk(v, path) = CHOOSE h : Eq(h)
  BY DEF Walk
<1>5. Eq(Walk(v, path))
  <2>1. \E h : Eq(h)
    BY <1>3
  <2> HIDE DEF Eq
  <2> QED
    BY Zenon, <1>4, <2>1
<1>6. PICK W : W = Walk(v, path) /\ W = [k \in 0 .. Len(path) |-> Turn(W, k)]
  BY <1>5
<1>7. 0 \in 0 .. Len(path) /\ \A k \in 0 .. Len(path) - 1 : k + 1 \in 0 .. Len(path) /\ k + 1 # 0 /\ (k + 1) - 1 = k
  BY <1>0
<1>8. \A k \in 0 .. Len(path) : W[k] = Turn(W, k)
  <2> HIDE DEF Turn
  <2> QED
    BY ONLY <1>6
<1>9. W[0] = v
  BY <1>7, <1>8
<1>10. ASSUME NEW k \in 0 .. Len(path) - 1 PROVE W[k + 1] = W[k].items[path[k + 1]]
  <2>1. k + 1 \in 0 .. Len(path) /\ k + 1 # 0 /\ (k + 1) - 1 = k
    BY <1>7
  <2>2. W[k + 1] = Turn(W, k + 1)
    BY <1>8, <2>1
  <2> QED
    BY <2>1, <2>2
<1> QED
  BY <1>6, <1>9, <1>10

LEMMA PathsStep ==
    ASSUME NEW v
    PROVE  /\ PathsTo(v)[0] = {<< >>}
           /\ \A k \in 0 .. (Nesting + 1) - 1 :
                  PathsTo(v)[k + 1] = Longer(v, PathsTo(v)[k])
<1> DEFINE Turn(h, k) == IF k = 0 THEN {<< >>} ELSE Longer(v, h[k - 1])
           Eq(h) == h = [k \in 0 .. (Nesting + 1) |-> Turn(h, k)]
           T == {m \in Nat : \E h : h = [k \in 0 .. m |-> Turn(h, k)]}
<1>0. (Nesting + 1) \in Nat
  BY ValuesAssumption
<1>1. 0 \in T
  <2>1. PICK g : g = [k \in 0 .. 0 |-> {<< >>}]
    OBVIOUS
  <2>2. g = [k \in 0 .. 0 |-> Turn(g, k)]
    BY <2>1
  <2> QED
    BY <2>2
<1>2. ASSUME NEW m \in Nat, m \in T PROVE m + 1 \in T
  <2>1. PICK e : e = [k \in 0 .. m |-> Turn(e, k)]
    BY <1>2
  <2>2. PICK z : z = Longer(v, e[m])
    OBVIOUS
  <2>3. PICK g : g = [k \in 0 .. m + 1 |-> IF k <= m THEN e[k] ELSE z]
    OBVIOUS
  <2>4. \A k \in 0 .. m + 1 : g[k] = Turn(g, k)
    <3>1. \A k \in 0 .. m : g[k] = e[k] /\ e[k] = Turn(e, k)
      <4>1. \A k \in 0 .. m : g[k] = e[k]
        BY <2>3
      <4>2. \A k \in 0 .. m : e[k] = Turn(e, k)
        <5> HIDE DEF Turn
        <5> QED
          BY ONLY <2>1
      <4> QED
        BY <4>1, <4>2
    <3>2. \A k \in 1 .. m + 1 : g[k - 1] = e[k - 1]
      BY <3>1
    <3>3. g[m + 1] = z
      BY <2>3
    <3>4. ASSUME NEW k \in 0 .. m PROVE Turn(g, k) = Turn(e, k)
      <4>1. CASE k = 0
        BY <4>1
      <4>2. CASE k # 0
        <5>1. g[k - 1] = e[k - 1]
          BY <3>2, <4>2
        <5> QED
          BY <4>2, <5>1
      <4> QED
        BY <4>1, <4>2
    <3>5. g[m + 1] = Turn(g, m + 1)
      <4>1. m + 1 # 0 /\ (m + 1) - 1 = m /\ g[m] = e[m]
        BY <3>1
      <4> QED
        BY <2>2, <3>3, <4>1
    <3>6. \A k \in 0 .. m : g[k] = Turn(g, k)
      BY <3>1, <3>4
    <3>7. \A k \in 0 .. m + 1 : k \in 0 .. m \/ k = m + 1
      OBVIOUS
    <3> HIDE DEF Turn
    <3> QED
      BY <3>5, <3>6, <3>7
  <2>5. g = [k \in 0 .. m + 1 |-> Turn(g, k)]
    <3> HIDE DEF Turn
    <3> QED
      BY <2>3, <2>4
  <2>6. \E h : h = [k \in 0 .. m + 1 |-> Turn(h, k)]
    BY Zenon, <2>5
  <2> QED
    BY <2>6
<1>3. (Nesting + 1) \in T
  <2> HIDE DEF T
  <2> QED
    BY <1>0, <1>1, <1>2, Induction
<1>4. PathsTo(v) = CHOOSE h : Eq(h)
  BY DEF PathsTo
<1>5. Eq(PathsTo(v))
  <2>1. \E h : Eq(h)
    BY <1>3
  <2> HIDE DEF Eq
  <2> QED
    BY Zenon, <1>4, <2>1
<1>6. PICK W : W = PathsTo(v) /\ W = [k \in 0 .. (Nesting + 1) |-> Turn(W, k)]
  BY <1>5
<1>7. 0 \in 0 .. (Nesting + 1) /\ \A k \in 0 .. (Nesting + 1) - 1 : k + 1 \in 0 .. (Nesting + 1) /\ k + 1 # 0 /\ (k + 1) - 1 = k
  BY <1>0
<1>8. \A k \in 0 .. (Nesting + 1) : W[k] = Turn(W, k)
  <2> HIDE DEF Turn
  <2> QED
    BY ONLY <1>6
<1>9. W[0] = {<< >>}
  BY <1>7, <1>8
<1>10. ASSUME NEW k \in 0 .. (Nesting + 1) - 1 PROVE W[k + 1] = Longer(v, W[k])
  <2>1. k + 1 \in 0 .. (Nesting + 1) /\ k + 1 # 0 /\ (k + 1) - 1 = k
    BY <1>7
  <2>2. W[k + 1] = Turn(W, k + 1)
    BY <1>8, <2>1
  <2> QED
    BY <2>1, <2>2
<1> QED
  BY <1>6, <1>9, <1>10

(* The first i keys of path lead from map to map. *)
Reach(v, path, i) ==
    \A j \in 1 .. i : Walk(v, path)[j - 1].type = "Map" /\ path[j] \in KeysOf(Walk(v, path)[j - 1])

LEMMA AtIsWalk ==
    /\ \A v, path : At(v, path) = Walk(v, path)[Len(path)]
    /\ \A v : KeyPaths(v) = UNION {PathsTo(v)[n] : n \in 0 .. Nesting + 1}
  BY DEF At, Walk, KeyPaths, PathsTo, Longer

LEMMA ReachStep ==
    ASSUME NEW v, NEW path, NEW i \in Nat
    PROVE  /\ Reach(v, path, 0)
           /\ Reach(v, path, i + 1) <=> /\ Reach(v, path, i)
                                        /\ Walk(v, path)[i].type = "Map"
                                        /\ path[i + 1] \in KeysOf(Walk(v, path)[i])
<1>1. \A j : j \in 1 .. i + 1 <=> j \in 1 .. i \/ j = i + 1
  OBVIOUS
<1>2. (i + 1) - 1 = i
  OBVIOUS
<1> QED
  BY <1>1, <1>2 DEF Reach

(* Two paths that begin alike lead the same way. *)
LEMMA SameWay ==
    ASSUME NEW v, NEW p, NEW q, Len(p) \in Nat, Len(q) \in Nat,
           NEW m \in Nat, m <= Len(p), m <= Len(q), \A j \in 1 .. m : p[j] = q[j]
    PROVE  \A i \in 0 .. m : /\ Walk(v, p)[i] = Walk(v, q)[i]
                             /\ Reach(v, p, i) <=> Reach(v, q, i)
<1> DEFINE T == {i \in Nat : i <= m => /\ Walk(v, p)[i] = Walk(v, q)[i]
                                       /\ Reach(v, p, i) <=> Reach(v, q, i)}
<1>1. /\ Walk(v, p)[0] = v /\ Walk(v, q)[0] = v
      /\ \A k \in 0 .. Len(p) - 1 : Walk(v, p)[k + 1] = Walk(v, p)[k].items[p[k + 1]]
      /\ \A k \in 0 .. Len(q) - 1 : Walk(v, q)[k + 1] = Walk(v, q)[k].items[q[k + 1]]
  BY WalkStep
<1>2. 0 \in T
  BY <1>1, ReachStep
<1>3. ASSUME NEW i \in Nat, i \in T PROVE i + 1 \in T
  <2> SUFFICES ASSUME i + 1 <= m
               PROVE  /\ Walk(v, p)[i + 1] = Walk(v, q)[i + 1]
                      /\ Reach(v, p, i + 1) <=> Reach(v, q, i + 1)
    OBVIOUS
  <2>1. i \in 0 .. Len(p) - 1 /\ i \in 0 .. Len(q) - 1 /\ i + 1 \in 1 .. m /\ i <= m
    OBVIOUS
  <2>2. Walk(v, p)[i] = Walk(v, q)[i] /\ (Reach(v, p, i) <=> Reach(v, q, i)) /\ p[i + 1] = q[i + 1]
    BY <1>3, <2>1
  <2>3. Walk(v, p)[i + 1] = Walk(v, q)[i + 1]
    BY <1>1, <2>1, <2>2
  <2>4. /\ Reach(v, p, i + 1) <=> /\ Reach(v, p, i) /\ Walk(v, p)[i].type = "Map"
                                  /\ p[i + 1] \in KeysOf(Walk(v, p)[i])
        /\ Reach(v, q, i + 1) <=> /\ Reach(v, q, i) /\ Walk(v, q)[i].type = "Map"
                                  /\ q[i + 1] \in KeysOf(Walk(v, q)[i])
    BY ReachStep
  <2> QED
    BY ONLY <2>2, <2>3, <2>4
<1> HIDE DEF T
<1>4. \A i \in Nat : i \in T
  BY <1>2, <1>3, Induction
<1> QED
  BY <1>4 DEF T

(* A value that is reached nests less, key by key. *)
LEMMA ReachedIsValue ==
    ASSUME NEW v \in AnyValue, NEW p \in Seq(Texts), NEW i \in 0 .. Len(p), Reach(v, p, i)
    PROVE  i <= Nesting /\ Walk(v, p)[i] \in ValuesWithin[Nesting - i]
<1> DEFINE T == {k \in Nat : k <= i => k <= Nesting /\ Walk(v, p)[k] \in ValuesWithin[Nesting - k]}
<1>1. Len(p) \in Nat /\ i \in Nat /\ Nesting \in Nat
  BY ValuesAssumption
<1>2. /\ Walk(v, p)[0] = v
      /\ \A k \in 0 .. Len(p) - 1 : Walk(v, p)[k + 1] = Walk(v, p)[k].items[p[k + 1]]
  BY <1>1, WalkStep
<1>3. 0 \in T
  BY <1>1, <1>2 DEF AnyValue
<1>4. ASSUME NEW k \in Nat, k \in T PROVE k + 1 \in T
  <2> SUFFICES ASSUME k + 1 <= i
               PROVE  k + 1 <= Nesting /\ Walk(v, p)[k + 1] \in ValuesWithin[Nesting - (k + 1)]
    OBVIOUS
  <2>1. k \in 0 .. Len(p) - 1 /\ k + 1 \in 1 .. i /\ k + 1 \in 1 .. Len(p) /\ (k + 1) - 1 = k
    BY <1>1
  <2>2. PICK u : u = Walk(v, p)[k]
    OBVIOUS
  <2>3. k <= Nesting /\ u \in ValuesWithin[Nesting - k]
    BY <1>1, <1>4, <2>2
  <2>4. u.type = "Map" /\ p[k + 1] \in KeysOf(u)
    BY <2>1, <2>2 DEF Reach
  <2>5. PICK n : n = Nesting - k
    OBVIOUS
  <2>6. n \in 0 .. Nesting /\ u \in ValuesWithin[n]
    BY <1>1, <2>3, <2>5
  <2>7. u.items \in [Texts -> Inner(n) \cup {None}]
    BY <2>4, <2>6, ValueCases DEF Plain, Floating
  <2>8. u.items[p[k + 1]] \in Inner(n)
    BY <2>4, <2>7 DEF KeysOf
  <2>9. n # 0 /\ u.items[p[k + 1]] \in ValuesWithin[n - 1]
    BY <2>8 DEF Inner
  <2>10. n - 1 = Nesting - (k + 1) /\ k + 1 <= Nesting
    BY <1>1, <2>5, <2>6, <2>9
  <2> QED
    BY <1>2, <2>1, <2>2, <2>9, <2>10
<1> HIDE DEF T
<1>5. i \in T
  BY <1>1, <1>3, <1>4, Induction
<1> QED
  BY <1>1, <1>5 DEF T

IsPath(v, p) == p \in Seq(Texts) /\ Reach(v, p, Len(p))

(* A path of n keys and one key more. *)
LEMMA LongerPath ==
    ASSUME NEW v, NEW p \in Seq(Texts), NEW k
    PROVE  IsPath(v, Append(p, k)) <=> k \in Texts /\ IsPath(v, p) /\ IsMapAt(v, p) /\ k \in KeysOf(At(v, p))
<1>1. Len(p) \in Nat /\ At(v, p) = Walk(v, p)[Len(p)]
  BY AtIsWalk
<1>2. PICK q : q = Append(p, k)
  OBVIOUS
<1>3. Len(q) = Len(p) + 1 /\ q[Len(p) + 1] = k /\ \A j \in 1 .. Len(p) : p[j] = q[j]
  BY <1>2
<1>4. q \in Seq(Texts) <=> k \in Texts
  <2>1. k \in Texts => q \in Seq(Texts)
    BY <1>2
  <2>2. ASSUME q \in Seq(Texts) PROVE k \in Texts
    BY <1>1, <1>3, <2>2
  <2> QED
    BY <2>1, <2>2
<1>5. Walk(v, p)[Len(p)] = Walk(v, q)[Len(p)] /\ (Reach(v, p, Len(p)) <=> Reach(v, q, Len(p)))
  <2>1. PICK m \in Nat : m = Len(p)
    BY <1>1
  <2>2. Len(q) \in Nat /\ m <= Len(p) /\ m <= Len(q) /\ m \in 0 .. m
    BY <1>3, <2>1
  <2>3. \A j \in 1 .. m : p[j] = q[j]
    BY <1>3, <2>1
  <2>4. \A i \in 0 .. m : Walk(v, p)[i] = Walk(v, q)[i] /\ (Reach(v, p, i) <=> Reach(v, q, i))
    BY <1>1, <2>2, <2>3, SameWay
  <2> QED
    BY <2>1, <2>2, <2>4
<1>6. Reach(v, q, Len(p) + 1) <=> /\ Reach(v, q, Len(p)) /\ Walk(v, q)[Len(p)].type = "Map"
                                  /\ q[Len(p) + 1] \in KeysOf(Walk(v, q)[Len(p)])
  BY <1>1, ReachStep
<1> QED
  BY <1>1, <1>2, <1>3, <1>4, <1>5, <1>6 DEF IsPath, IsMapAt

LEMMA PathsOfLength ==
    ASSUME NEW v
    PROVE  \A n \in 0 .. Nesting + 1 : PathsTo(v)[n] = {p \in Seq(Texts) : IsPath(v, p) /\ Len(p) = n}
<1> DEFINE Those(n) == {p \in Seq(Texts) : IsPath(v, p) /\ Len(p) = n}
           T == {n \in Nat : n <= Nesting + 1 => PathsTo(v)[n] = Those(n)}
<1>1. /\ PathsTo(v)[0] = {<< >>} /\ Nesting + 1 \in Nat
      /\ \A k \in 0 .. (Nesting + 1) - 1 : PathsTo(v)[k + 1] = Longer(v, PathsTo(v)[k])
  BY PathsStep, ValuesAssumption
<1>2. 0 \in T
  <2>1. << >> \in Seq(Texts) /\ Len(<< >>) = 0 /\ Reach(v, << >>, 0)
    BY DEF Reach
  <2>2. << >> \in Those(0)
    BY <2>1 DEF IsPath
  <2>3. \A p \in Those(0) : p = << >>
    OBVIOUS
  <2>4. Those(0) = {<< >>}
    <3> HIDE DEF Those
    <3> QED
      BY <2>2, <2>3
  <2> HIDE DEF Those
  <2> QED
    BY <1>1, <2>4
<1>3. ASSUME NEW n \in Nat, n \in T PROVE n + 1 \in T
  <2> SUFFICES ASSUME n + 1 <= Nesting + 1 PROVE PathsTo(v)[n + 1] = Those(n + 1)
    OBVIOUS
  <2>1. n \in 0 .. (Nesting + 1) - 1 /\ n <= Nesting + 1
    BY <1>1, ValuesAssumption
  <2>2. PathsTo(v)[n] = Those(n) /\ PathsTo(v)[n + 1] = Longer(v, Those(n))
    BY <1>1, <1>3, <2>1
  <2>3. ASSUME NEW q \in Longer(v, Those(n)) PROVE q \in Those(n + 1)
    <3>1. PICK p \in Those(n) : IsMapAt(v, p) /\ \E k \in KeysOf(At(v, p)) : q = Append(p, k)
      BY <2>3 DEF Longer
    <3>2. PICK k \in KeysOf(At(v, p)) : q = Append(p, k)
      BY <3>1
    <3>3. k \in Texts /\ p \in Seq(Texts) /\ IsPath(v, p) /\ Len(p) = n
      BY <3>2 DEF KeysOf
    <3>4. IsPath(v, q)
      BY <3>1, <3>2, <3>3, LongerPath
    <3>5. q \in Seq(Texts) /\ Len(q) = n + 1
      BY <3>2, <3>3
    <3> QED
      BY <3>4, <3>5
  <2>4. ASSUME NEW q \in Those(n + 1) PROVE q \in Longer(v, Those(n))
    <3>1. q \in Seq(Texts) /\ IsPath(v, q) /\ Len(q) = n + 1
      OBVIOUS
    <3>2. PICK p : p = [j \in 1 .. n |-> q[j]]
      OBVIOUS
    <3>3. p \in [1 .. n -> Texts]
      BY <3>1, <3>2
    <3>4. p \in Seq(Texts)
      BY <3>3, SeqDef
    <3>5. Len(p) = n
      BY <3>3, <3>4
    <3>6. q = Append(p, q[n + 1])
      BY <3>1, <3>2, <3>4, <3>5
    <3>7. PICK k : k = q[n + 1]
      OBVIOUS
    <3>8. IsPath(v, p) /\ IsMapAt(v, p) /\ k \in KeysOf(At(v, p))
      BY <3>1, <3>4, <3>6, <3>7, LongerPath
    <3>9. p \in Those(n)
      BY <3>4, <3>5, <3>8
    <3> HIDE DEF Those
    <3> QED
      BY <3>6, <3>7, <3>8, <3>9 DEF Longer
  <2> HIDE DEF Those
  <2> QED
    BY <2>2, <2>3, <2>4
<1> HIDE DEF T
<1>4. \A n \in Nat : n \in T
  BY <1>2, <1>3, Induction
<1> QED
  BY <1>1, <1>4 DEF T

LEMMA PathsAre ==
    ASSUME NEW v \in AnyValue
    PROVE  \A p : p \in KeyPaths(v) <=> IsPath(v, p)
<1>1. KeyPaths(v) = UNION {PathsTo(v)[n] : n \in 0 .. Nesting + 1}
  BY AtIsWalk
<1>2. \A n \in 0 .. Nesting + 1 : PathsTo(v)[n] = {p \in Seq(Texts) : IsPath(v, p) /\ Len(p) = n}
  BY PathsOfLength
<1>3. ASSUME NEW p \in KeyPaths(v) PROVE IsPath(v, p)
  <2>1. PICK n \in 0 .. Nesting + 1 : p \in PathsTo(v)[n]
    BY <1>1, <1>3
  <2> QED
    BY <1>2, <2>1
<1>4. ASSUME NEW p, IsPath(v, p) PROVE p \in KeyPaths(v)
  <2>1. p \in Seq(Texts) /\ Reach(v, p, Len(p)) /\ Len(p) \in 0 .. Len(p)
    BY <1>4 DEF IsPath
  <2>2. Len(p) <= Nesting
    BY <2>1, ReachedIsValue
  <2>3. Len(p) \in 0 .. Nesting + 1
    BY <2>1, <2>2, ValuesAssumption
  <2>4. p \in PathsTo(v)[Len(p)]
    BY <1>2, <1>4, <2>1, <2>3
  <2> QED
    BY <1>1, <2>3, <2>4
<1> QED
  BY <1>3, <1>4

(* A value that is no map, at or before the ith key. *)
Blocked(w, path, i) == \E j \in 0 .. i : Reach(w, path, j) /\ Walk(w, path)[j].type # "Map"

LEMMA HiddenIs ==
    ASSUME NEW w \in AnyValue, NEW p \in Seq(Texts)
    PROVE  Hidden(w, p) <=> Blocked(w, p, Len(p))
<1>1. ASSUME NEW n \in 0 .. Len(p)
      PROVE  LET q == SubSeq(p, 1, n)
             IN  q \in KeyPaths(w) /\ ~IsMapAt(w, q) <=> Reach(w, p, n) /\ Walk(w, p)[n].type # "Map"
  <2>1. n \in Nat /\ Len(p) \in Nat /\ n <= Len(p)
    OBVIOUS
  <2>2. PICK q : q = SubSeq(p, 1, n)
    OBVIOUS
  <2>3. q \in Seq(Texts) /\ Len(q) = n /\ \A j \in 1 .. n : q[j] = p[j]
    BY <2>1, <2>2
  <2>4. Walk(w, q)[n] = Walk(w, p)[n] /\ (Reach(w, q, n) <=> Reach(w, p, n))
    <3>1. Len(q) \in Nat /\ n <= Len(q) /\ Len(p) \in Nat /\ n <= Len(p)
      BY <2>1, <2>3
    <3>2. \A i \in 0 .. n : Walk(w, q)[i] = Walk(w, p)[i] /\ (Reach(w, q, i) <=> Reach(w, p, i))
      BY <2>1, <2>3, <3>1, SameWay
    <3> QED
      BY <2>1, <3>2
  <2>5. q \in KeyPaths(w) <=> Reach(w, q, n)
    BY <2>3, PathsAre DEF IsPath
  <2>6. At(w, q) = Walk(w, q)[n]
    BY <2>3, AtIsWalk
  <2> QED
    BY <2>2, <2>4, <2>5, <2>6 DEF IsMapAt
<1> QED
  BY <1>1 DEF Hidden, Blocked

LEMMA BlockedStep ==
    ASSUME NEW w, NEW p, NEW i \in Nat
    PROVE  /\ Blocked(w, p, i + 1) <=> Blocked(w, p, i) \/ (Reach(w, p, i + 1) /\ Walk(w, p)[i + 1].type # "Map")
           /\ Reach(w, p, i) => (Blocked(w, p, i) <=> Walk(w, p)[i].type # "Map")
<1>1. \A j : j \in 0 .. i + 1 <=> j \in 0 .. i \/ j = i + 1
  OBVIOUS
<1>2. ASSUME Reach(w, p, i), NEW j \in 0 .. i, Walk(w, p)[j].type # "Map" PROVE j = i
  <2>1. j + 1 \in 1 .. i \/ j = i
    OBVIOUS
  <2>2. CASE j + 1 \in 1 .. i
    <3>1. (j + 1) - 1 = j
      OBVIOUS
    <3>2. Walk(w, p)[(j + 1) - 1].type = "Map"
      BY <1>2, <2>2 DEF Reach
    <3> QED
      BY <1>2, <3>1, <3>2
  <2> QED
    BY <2>1, <2>2
<1>3. i \in 0 .. i
  OBVIOUS
<1> QED
  BY <1>1, <1>2, <1>3 DEF Blocked

(* Where the ith key leads in what is made of v and w. *)
Mirrors(v, w, r, p, i) ==
    IF Reach(w, p, i)
    THEN /\ Reach(r, p, i)
         /\ Walk(r, p)[i] = IF Reach(v, p, i) THEN MergeWithin[Nesting - i][Walk(v, p)[i]][Walk(w, p)[i]]
                            ELSE Walk(w, p)[i]
    ELSE IF Reach(v, p, i) /\ ~Blocked(w, p, i) THEN Reach(r, p, i) /\ Walk(r, p)[i] = Walk(v, p)[i]
    ELSE ~Reach(r, p, i)

LEMMA MergedMap ==
    ASSUME NEW n \in 0 .. Nesting, NEW a \in ValuesWithin[n], NEW b \in ValuesWithin[n],
           a.type = "Map", b.type = "Map"
    PROVE  MergeWithin[n][a][b].type = "Map"
<1>1. PICK f : f = Over([k \in Texts |-> BothOf(MergeBelow(n), a.items[k], b.items[k])], a.items)
  OBVIOUS
<1>2. MergeWithin[n][a][b] = MapOf(f)
  BY <1>1, MergeCases
<1> QED
  BY <1>2 DEF MapOf

(* The entry of a key in two maps that are merged. *)
LEMMA EntryMerged ==
    ASSUME NEW n \in 0 .. Nesting, NEW a \in ValuesWithin[n], NEW b \in ValuesWithin[n],
           a.type = "Map", b.type = "Map", NEW k \in Texts
    PROVE  LET c == MergeWithin[n][a][b]
           IN  /\ c.type = "Map"
               /\ b.items[k] = None => c.items[k] = a.items[k]
               /\ b.items[k] # None /\ a.items[k] = None => c.items[k] = b.items[k]
               /\ b.items[k] # None /\ a.items[k] # None =>
                      c.items[k] = MergeWithin[n - 1][a.items[k]][b.items[k]] /\ c.items[k] # None
<1>1. a.items \in [Texts -> Inner(n) \cup {None}] /\ b.items \in [Texts -> Inner(n) \cup {None}]
  BY ValueCases DEF Plain, Floating
<1>2. PICK z : z = BothOf(MergeBelow(n), a.items[k], b.items[k])
  OBVIOUS
<1>3. PICK c : c = MergeWithin[n][a][b]
  OBVIOUS
<1>4. c = MapOf(Over([x \in Texts |-> BothOf(MergeBelow(n), a.items[x], b.items[x])], a.items))
  BY <1>3, MergeCases
<1>5. c.type = "Map" /\ c.items[k] = IF z = None THEN a.items[k] ELSE z
  <2>1. PICK f : f = [x \in Texts |-> BothOf(MergeBelow(n), a.items[x], b.items[x])]
    OBVIOUS
  <2>2. f[k] = z
    BY <1>2, <2>1
  <2>3. c = MapOf(Over(f, a.items))
    BY <1>4, <2>1
  <2> QED
    BY <2>2, <2>3 DEF MapOf, Over
<1>6. b.items[k] = None => z = None
  BY <1>2 DEF BothOf
<1>7. a.items[k] = None => z = b.items[k]
  BY <1>2 DEF BothOf
<1>8. ASSUME a.items[k] # None, b.items[k] # None
      PROVE  z = MergeWithin[n - 1][a.items[k]][b.items[k]] /\ z # None
  <2>1. a.items[k] \in Inner(n) /\ b.items[k] \in Inner(n)
    BY <1>1, <1>8
  <2>2. n # 0 /\ n - 1 \in 0 .. Nesting /\ Inner(n) = ValuesWithin[n - 1]
    BY <2>1, ValuesAssumption DEF Inner
  <2>3. z = MergeWithin[n - 1][a.items[k]][b.items[k]]
    BY <1>2, <1>8, <2>2 DEF BothOf, MergeBelow
  <2>4. MergeStays(n - 1)
    BY <2>2, MergeStaysEvery
  <2>5. z \in ValuesWithin[n - 1]
    BY <2>1, <2>2, <2>3, <2>4 DEF MergeStays
  <2>6. z \in AnyValue
    BY <2>2, <2>5, ValuesNested
  <2> QED
    BY <2>3, <2>6, ValuesAssumption
<1> QED
  BY <1>3, <1>5, <1>6, <1>7, <1>8

LEMMA MirrorsStep ==
    ASSUME NEW v \in AnyValue, NEW w \in AnyValue, NEW r, NEW p \in Seq(Texts), NEW i \in 0 .. Len(p) - 1,
           Mirrors(v, w, r, p, i)
    PROVE  Mirrors(v, w, r, p, i + 1)
<1>0. /\ Len(p) \in Nat /\ i \in Nat /\ i + 1 \in Nat /\ Nesting \in Nat
      /\ i \in 0 .. Len(p) /\ i + 1 \in 1 .. Len(p) /\ i \in 0 .. Len(p) - 1
  BY ValuesAssumption
<1>1. PICK k : k = p[i + 1]
  OBVIOUS
<1>2. k \in Texts
  BY <1>0, <1>1
<1>3. PICK a, b, c : a = Walk(v, p)[i] /\ b = Walk(w, p)[i] /\ c = Walk(r, p)[i]
  OBVIOUS
<1>4. /\ Walk(v, p)[i + 1] = a.items[k] /\ Walk(w, p)[i + 1] = b.items[k] /\ Walk(r, p)[i + 1] = c.items[k]
  BY <1>0, <1>1, <1>3, WalkStep
<1>5. /\ Reach(v, p, i + 1) <=> Reach(v, p, i) /\ a.type = "Map" /\ a.items[k] # None
      /\ Reach(w, p, i + 1) <=> Reach(w, p, i) /\ b.type = "Map" /\ b.items[k] # None
      /\ Reach(r, p, i + 1) <=> Reach(r, p, i) /\ c.type = "Map" /\ c.items[k] # None
  BY <1>0, <1>1, <1>2, <1>3, ReachStep DEF KeysOf
<1>6. /\ Blocked(w, p, i + 1) <=> Blocked(w, p, i) \/ (Reach(w, p, i + 1) /\ Walk(w, p)[i + 1].type # "Map")
      /\ Reach(w, p, i) => (Blocked(w, p, i) <=> b.type # "Map")
  BY <1>0, <1>3, BlockedStep
<1>7. CASE Reach(w, p, i) /\ Reach(v, p, i)
  <2>1. PICK n \in 0 .. Nesting : n = Nesting - i /\ a \in ValuesWithin[n] /\ b \in ValuesWithin[n]
    <3>1. i <= Nesting /\ a \in ValuesWithin[Nesting - i] /\ b \in ValuesWithin[Nesting - i]
      BY <1>0, <1>3, <1>7, ReachedIsValue
    <3> QED
      BY <1>0, <3>1
  <2>2. Reach(r, p, i) /\ c = MergeWithin[n][a][b]
    BY <1>3, <1>7, <2>1 DEF Mirrors
  <2>3. Nesting - (i + 1) = n - 1
    BY <1>0, <2>1
  <2>4. CASE a.type = "Map" /\ b.type = "Map"
    <3>1. /\ c.type = "Map"
          /\ b.items[k] = None => c.items[k] = a.items[k]
          /\ b.items[k] # None /\ a.items[k] = None => c.items[k] = b.items[k]
          /\ b.items[k] # None /\ a.items[k] # None =>
                 c.items[k] = MergeWithin[n - 1][a.items[k]][b.items[k]] /\ c.items[k] # None
      BY <1>2, <2>1, <2>2, <2>4, EntryMerged
    <3>2. CASE b.items[k] # None
      BY <1>4, <1>5, <1>7, <2>2, <2>3, <2>4, <3>1, <3>2 DEF Mirrors
    <3>3. CASE b.items[k] = None
      BY <1>4, <1>5, <1>6, <1>7, <2>2, <2>4, <3>1, <3>3 DEF Mirrors
    <3> QED
      BY <3>2, <3>3
  <2>5. CASE a.type = "Array" /\ b.type = "Array"
    <3>1. c.type = "Array"
      <4>1. c = ArrayOf(a.items \o b.items)
        BY <2>1, <2>2, <2>5, MergeCases
      <4> QED
        BY <4>1 DEF ArrayOf
    <3> QED
      BY <1>5, <2>5, <3>1 DEF Mirrors
  <2>6. CASE ~(a.type = "Map" /\ b.type = "Map") /\ ~(a.type = "Array" /\ b.type = "Array")
    <3>1. c = b
      BY <2>1, <2>2, <2>6, MergeCases
    <3> QED
      BY <1>4, <1>5, <1>6, <1>7, <2>2, <2>6, <3>1 DEF Mirrors
  <2> QED
    BY <2>4, <2>5, <2>6
<1>8. CASE Reach(w, p, i) /\ ~Reach(v, p, i)
  <2>1. Reach(r, p, i) /\ c = b
    BY <1>3, <1>8 DEF Mirrors
  <2> QED
    BY <1>4, <1>5, <1>8, <2>1 DEF Mirrors
<1>9. CASE ~Reach(w, p, i)
  <2>1. ~Reach(w, p, i + 1) /\ (Blocked(w, p, i + 1) <=> Blocked(w, p, i))
    BY <1>5, <1>6, <1>9
  <2>2. CASE Reach(v, p, i) /\ ~Blocked(w, p, i)
    <3>1. Reach(r, p, i) /\ c = a
      BY <1>3, <1>9, <2>2 DEF Mirrors
    <3> QED
      BY <1>4, <1>5, <2>1, <2>2, <3>1 DEF Mirrors
  <2>3. CASE ~(Reach(v, p, i) /\ ~Blocked(w, p, i))
    <3>1. ~Reach(r, p, i)
      BY <1>9, <2>3 DEF Mirrors
    <3> QED
      BY <1>5, <2>1, <2>3, <3>1 DEF Mirrors
  <2> QED
    BY <2>2, <2>3
<1> QED
  BY <1>7, <1>8, <1>9

LEMMA PathMirrored ==
    ASSUME NEW v \in AnyValue, NEW w \in AnyValue, NEW p \in Seq(Texts)
    PROVE  Mirrors(v, w, MergeDeep(v, w), p, Len(p))
<1> DEFINE T == {i \in Nat : i <= Len(p) => Mirrors(v, w, MergeDeep(v, w), p, i)}
<1>1. Len(p) \in Nat
  OBVIOUS
<1>2. 0 \in T
  <2>1. \A u : Walk(u, p)[0] = u
    BY <1>1, WalkStep
  <2>2. \A u : Reach(u, p, 0)
    BY DEF Reach
  <2>3. MergeDeep(v, w) = MergeWithin[Nesting - 0][v][w]
    BY ValuesAssumption DEF MergeDeep
  <2> QED
    BY <2>1, <2>2, <2>3 DEF Mirrors
<1>3. ASSUME NEW i \in Nat, i \in T PROVE i + 1 \in T
  BY <1>1, <1>3, MirrorsStep
<1> HIDE DEF T
<1>4. Len(p) \in T
  BY <1>1, <1>2, <1>3, Induction
<1> QED
  BY <1>1, <1>4 DEF T

(***************************************************************************)
(* The deep merge of any two values has every path of the new one and each *)
(* path of the old one that nothing new hides, with the value promised.    *)
(***************************************************************************)
THEOREM DeepIsPathwise ==
    ASSUME NEW v \in AnyValue, NEW w \in AnyValue
    PROVE  DeeplyMerged(v, w, MergeDeep(v, w))
<1>1. PICK r : r = MergeDeep(v, w)
  OBVIOUS
<1>2. r \in AnyValue
  BY <1>1, MergeStaysValue DEF MergeDeep, MergeStays, AnyValue
<1>3. ASSUME NEW p \in Seq(Texts)
      PROVE  /\ p \in KeyPaths(v) <=> Reach(v, p, Len(p))
             /\ p \in KeyPaths(w) <=> Reach(w, p, Len(p))
             /\ p \in KeyPaths(r) <=> Reach(r, p, Len(p))
             /\ Hidden(w, p) <=> Blocked(w, p, Len(p))
             /\ Mirrors(v, w, r, p, Len(p))
  BY <1>1, <1>2, PathsAre, HiddenIs, PathMirrored DEF IsPath
<1>4. \A u \in AnyValue : \A p \in KeyPaths(u) : p \in Seq(Texts)
  BY PathsAre DEF IsPath
<1>5. KeyPaths(r) = KeyPaths(w) \cup {p \in KeyPaths(v) : ~Hidden(w, p)}
  <2>1. ASSUME NEW p \in Seq(Texts)
        PROVE  p \in KeyPaths(r) <=> p \in KeyPaths(w) \/ (p \in KeyPaths(v) /\ ~Hidden(w, p))
    BY <1>3 DEF Mirrors
  <2>2. \A p \in KeyPaths(r) \cup KeyPaths(w) \cup KeyPaths(v) : p \in Seq(Texts)
    BY <1>2, <1>4
  <2> QED
    BY <2>1, <2>2
<1>6. ASSUME NEW p \in KeyPaths(r)
      PROVE  LET both == p \in KeyPaths(v) \cap KeyPaths(w)
                 won  == IF p \in KeyPaths(w) THEN At(w, p) ELSE At(v, p)
                 x    == At(r, p)
             IN  /\ x.type = won.type
                 /\ IF both /\ {At(v, p).type, won.type} = {"Array"}
                    THEN x.items = At(v, p).items \o won.items
                    ELSE won.type # "Map" => x = won
  <2>1. p \in Seq(Texts) /\ Len(p) \in Nat /\ Len(p) \in 0 .. Len(p)
    BY <1>2, <1>4
  <2>2. PICK a, b, x : a = At(v, p) /\ b = At(w, p) /\ x = At(r, p)
    OBVIOUS
  <2>3. a = Walk(v, p)[Len(p)] /\ b = Walk(w, p)[Len(p)] /\ x = Walk(r, p)[Len(p)]
    BY <2>2, AtIsWalk
  <2>4. CASE p \in KeyPaths(w) /\ p \in KeyPaths(v)
    <3>1. PICK n \in 0 .. Nesting : n = Nesting - Len(p) /\ a \in ValuesWithin[n] /\ b \in ValuesWithin[n]
      <4>1. Reach(v, p, Len(p)) /\ Reach(w, p, Len(p))
        BY <1>3, <2>1, <2>4
      <4>2. Len(p) <= Nesting /\ a \in ValuesWithin[Nesting - Len(p)] /\ b \in ValuesWithin[Nesting - Len(p)]
        BY <2>1, <2>3, <4>1, ReachedIsValue
      <4> QED
        BY <2>1, <4>2, ValuesAssumption
    <3>2. x = MergeWithin[n][a][b]
      BY <1>3, <2>1, <2>3, <2>4, <3>1 DEF Mirrors
    <3>3. CASE a.type = "Map" /\ b.type = "Map"
      <4>1. x.type = "Map"
        BY <3>1, <3>2, <3>3, MergedMap
      <4>2. {a.type, b.type} # {"Array"}
        BY <3>3
      <4> QED
        BY <2>2, <2>4, <3>3, <4>1, <4>2
    <3>4. CASE a.type = "Array" /\ b.type = "Array"
      <4>1. x = ArrayOf(a.items \o b.items)
        BY <3>1, <3>2, <3>4, MergeCases
      <4>2. x.type = "Array" /\ x.items = a.items \o b.items
        BY <4>1 DEF ArrayOf
      <4> QED
        BY <2>2, <2>4, <3>4, <4>2
    <3>5. CASE ~(a.type = "Map" /\ b.type = "Map") /\ ~(a.type = "Array" /\ b.type = "Array")
      <4>1. x = b
        BY <3>1, <3>2, <3>5, MergeCases
      <4>2. {a.type, b.type} # {"Array"}
        BY <3>5
      <4> QED
        BY <2>2, <2>4, <4>1, <4>2
    <3> QED
      BY <3>3, <3>4, <3>5
  <2>5. CASE p \in KeyPaths(w) /\ p \notin KeyPaths(v)
    <3>1. x = b
      BY <1>3, <2>1, <2>3, <2>5 DEF Mirrors
    <3> QED
      BY <2>2, <2>5, <3>1
  <2>6. CASE p \notin KeyPaths(w)
    <3>1. x = a
      BY <1>3, <2>1, <2>3, <2>6 DEF Mirrors
    <3> QED
      BY <2>2, <2>6, <3>1
  <2> QED
    BY <2>4, <2>5, <2>6
<1> QED
  BY <1>1, <1>5, <1>6 DEF DeeplyMerged


(* What one step does to the value at an address. *)
Pathwise ==
    \A a \in Addresses :
        LET new == Projection(data)
            old == Get(a)
        IN  IF ~(Returned /\ new.is = "some" /\ a \in ToSet(request.net)) THEN Get(a)' = old
            ELSE CASE old = None \/ request.strategy = "Replace" -> Get(a)' = new.value
                   [] old # None /\ request.strategy = "TopLevelMerge" ->
                          TopMerged(old, new.value, Get(a)')
                   [] old # None /\ request.strategy = "DeepMerge" ->
                          DeeplyMerged(old, new.value, Get(a)')

LEMMA TopIsPathwise ==
    ASSUME NEW v \in AnyValue, NEW w \in AnyValue
    PROVE  TopMerged(v, w, MergeTopLevel(v, w))
<1>1. CASE v.type = "Map" /\ w.type = "Map"
  <2>1. PICK E : E = [Texts -> Inner(Nesting) \cup {None}]
    OBVIOUS
  <2>2. v.items \in E /\ w.items \in E
    BY <1>1, <2>1, ValueCases, ValuesAssumption DEF AnyValue, Plain, Floating
  <2>3. PICK f : f = Over(w.items, v.items)
    OBVIOUS
  <2>4. PICK r : r = MapOf(f)
    OBVIOUS
  <2>5. r = MergeTopLevel(v, w)
    BY <1>1, <2>3, <2>4 DEF MergeTopLevel
  <2>6. \A k \in Texts : f[k] = IF w.items[k] = None THEN v.items[k] ELSE w.items[k]
    BY <2>3 DEF Over
  <2>7. r.type = "Map" /\ r.items = f
    BY <2>4 DEF MapOf
  <2>8. KeysOf(r) = KeysOf(v) \cup KeysOf(w)
    BY <2>6, <2>7 DEF KeysOf
  <2>9. \A k \in KeysOf(r) : r.items[k] = (IF k \in KeysOf(w) THEN w ELSE v).items[k]
    BY <2>6, <2>7 DEF KeysOf
  <2>10. {v.type, w.type} = {"Map"}
    BY <1>1
  <2> QED
    BY <2>5, <2>7, <2>8, <2>9, <2>10 DEF TopMerged
<1>2. CASE ~(v.type = "Map" /\ w.type = "Map")
  <2>1. {v.type, w.type} # {"Map"} /\ MergeTopLevel(v, w) = w
    BY <1>2 DEF MergeTopLevel
  <2> QED
    BY <2>1 DEF TopMerged
<1> QED
  BY <1>1, <1>2

LEMMA StorePathwise ==
    ASSUME InsertInv, Store PROVE Pathwise
<1>1. /\ Returned /\ out.is = "some" /\ Projection(data) = out /\ out.value \in AnyValue
      /\ FilledTo(Table, Table', ToSet(request.net), request.strategy, out.value)
  BY StoreFills DEF Store
<1>2. request.strategy \in Strategies
  BY <1>1 DEF InsertInv, Idle, Returned
<1>3. ASSUME NEW a \in Addresses
      PROVE  /\ Get(a)' = Held(Table'.pool, Table'.ids[a])
             /\ Get(a) = Held(Table.pool, Table.ids[a]) /\ Get(a) \in AnyValue \cup {None}
  BY GetIsValue DEF Get, Table, Held
<1>4. ASSUME NEW a \in Addresses
      PROVE  Get(a)' = IF a \in ToSet(request.net) THEN Merged(request.strategy, Get(a), out.value) ELSE Get(a)
  BY <1>1, <1>3 DEF FilledTo
<1> SUFFICES ASSUME NEW a \in Addresses, a \in ToSet(request.net)
             PROVE  CASE Get(a) = None \/ request.strategy = "Replace" -> Get(a)' = out.value
                      [] Get(a) # None /\ request.strategy = "TopLevelMerge" ->
                             TopMerged(Get(a), out.value, Get(a)')
                      [] Get(a) # None /\ request.strategy = "DeepMerge" ->
                             DeeplyMerged(Get(a), out.value, Get(a)')
  BY <1>1, <1>4 DEF Pathwise
<1>5. CASE Get(a) = None \/ request.strategy = "Replace"
  <2>1. Get(a)' = out.value
    BY <1>4, <1>5 DEF Merged
  <2> QED
    BY <1>5, <2>1
<1>6. CASE Get(a) # None /\ request.strategy = "TopLevelMerge"
  <2>1. Get(a)' = MergeTopLevel(Get(a), out.value)
    BY <1>4, <1>6 DEF Merged
  <2>2. TopMerged(Get(a), out.value, Get(a)')
    BY <1>1, <1>3, <1>6, <2>1, TopIsPathwise
  <2> QED
    BY <1>6, <2>2
<1>7. CASE Get(a) # None /\ request.strategy = "DeepMerge"
  <2>1. Get(a)' = MergeDeep(Get(a), out.value)
    BY <1>4, <1>7 DEF Merged
  <2>2. DeeplyMerged(Get(a), out.value, Get(a)')
    BY <1>1, <1>3, <1>7, <2>1, DeepIsPathwise
  <2> QED
    BY <1>7, <2>2
<1> QED
  BY <1>2, <1>5, <1>6, <1>7 DEF Strategies

(* Every other step leaves the values where they are. *)
LEMMA OtherPathwise ==
    ASSUME InsertInv, Next, ~Store PROVE Pathwise
<1>1. values' = values /\ ids' = ids
  BY DEF Next, Insert, InsertCopy, Serialize, Fail
<1>2. \A a \in Addresses : Get(a)' = Get(a)
  BY <1>1 DEF Get, Held
<1>3. ~(Returned /\ Projection(data).is = "some")
  <2> SUFFICES ASSUME Returned PROVE Projection(data).is # "some"
    OBVIOUS
  <2>1. ~Idle /\ ~Serializing
    BY DEF Returned, Idle, Serializing, SerializeScalar, SerializeUnit, SerializeUnsupported, SerializeWrapper,
       Open, NextPart, NextValue, ValueWithoutKey, KeyReturned, ElementKept, EntryKept, PartDropped, PartFailed,
       Close, Entering, More, Resting, PartReturned
  <2>2. Fail
    BY <2>1 DEF Next, Insert, InsertCopy, Serialize
  <2>3. Projection(data) = out
    BY ReturnedRight DEF InsertInv, Projected
  <2> QED
    BY <2>2, <2>3 DEF Fail
<1> QED
  BY <1>2, <1>3 DEF Pathwise

(***************************************************************************)
(* Every insert merges as its strategy promises, for every path of every   *)
(* value of the network, and touches nothing else.                         *)
(***************************************************************************)
THEOREM InsertsMergePathwise == Spec => MergesPathwise
<1>1. ASSUME InsertInv, [Next]_vars PROVE [Pathwise]_vars
  BY <1>1, StorePathwise, OtherPathwise
<1> QED
  BY <1>1, InvHolds, PTL DEF Spec, MergesPathwise, Pathwise

=============================================================================
