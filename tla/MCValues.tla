------------------------------ MODULE MCValues ------------------------------
(* Instances of ValueInsert for TLC: two addresses, and data in which every  *)
(* method of the serializer is called, also in ways that only a hand-written *)
(* Serialize calls it.                                                       *)
EXTENDS ValueInsert

CONSTANTS a, b      \* texts, names and keys, as numbers

Num(rust, n) == Datum(rust, n, << >>)
Text(t)      == Datum("str", t, << >>)
Unit(call)   == Datum(call, 0, << >>)
Wrap(call, t) == Datum(call, 0, <<Part("inner", None, t)>>)

Elements(ts) == [i \in DOMAIN ts |-> Part("element", None, ts[i])]
Entry(k, t)  == <<Part("key", None, k), Part("value", None, t)>>
Field(k, t)  == Part("field", k, t)
Seq1(call, ts)    == Datum(call, 0, Elements(ts))
Struct(k, t)      == Datum("struct", 0, <<Field(k, t)>>)
MapOf1(parts)     == Datum("map", 0, parts)

One == Num("u8", 1)

(* Scalars; the two kinds of one width, floats that are no numbers' twins, and refusals. *)
Scalars == {One, Num("i8", 1), Num("u64", 1), Num("f64", NegZero), Num("f32", Zero), Unit("none"),
            Num("i64", 1), Wrap("some", Datum("char", a, << >>)), Wrap("newtype_struct", Unit("unit"))}

(* Nested maps and arrays for the strategies to merge. *)
Mergeable == {
    MapOf1(Entry(Text(a), One)),
    MapOf1(Entry(Text(a), MapOf1(Entry(Text(b), Num("f64", NaN))))),
    Struct(a, MapOf1(Entry(Text(a), One) \o Entry(Text(b), Num("i16", 2)))),
    Struct(a, Seq1("seq", <<One, Unit("none"), Num("f64", Zero)>>)),
    Seq1("tuple", <<Wrap("some", Num("bool", 1)), Unit("unit_struct")>>),
    MapOf1(Entry(Datum("unit_variant", b, << >>), Seq1("tuple_struct", <<Datum("bytes", a, << >>)>>)))}

(* Enums, one of them without its payload. *)
Variants == {
    Datum("newtype_variant", b, <<Field(b, Unit("none"))>>),
    Datum("tuple_variant", a, Elements(<<Num("u16", 1), Unit("unit")>>)),
    Datum("struct_variant", a, <<Field(a, Num("u32", 3)), Field(b, Unit("none"))>>)}

(* Keys twice, a key that is never used, values and keys out of turn, errors deep inside. *)
HandWritten == {
    MapOf1(Entry(Text(a), One) \o Entry(Text(a), Unit("none"))),
    MapOf1(<<Part("key", None, Text(a))>> \o Entry(Text(b), One)),
    MapOf1(Entry(Text(a), One) \o <<Part("key", None, Text(b))>>),
    MapOf1(Entry(Text(a), One) \o <<Part("value", None, Num("u128", 2))>>),
    MapOf1(Entry(Unit("none"), One)),
    MapOf1(Entry(Num("i32", 1), One)),
    MapOf1(Entry(Text(a), Seq1("seq", <<One, Num("i128", 1)>>)))}

AllData == Scalars \cup Mergeable \cup Variants \cup HandWritten

Both == {1, 2}
Strings == {a, b}
Networks == {<<1, 2>>, <<2>>}
=============================================================================
