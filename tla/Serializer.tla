----------------------------- MODULE Serializer -----------------------------
(***************************************************************************)
(* ValueSerializer of ser.rs, one trait method at a time, and Serialize    *)
(* and Deserialize of Value in serde_impls.rs.  The caller's data is a     *)
(* tree of calls: the method its Serialize impl calls and, for a compound, *)
(* the parts it then hands over in order.  A caller's impl is taken to     *)
(* return an error it gets from a part, as derived ones do.                *)
(***************************************************************************)
EXTENDS Values

Datum(call, atom, parts) == [call |-> call, atom |-> atom, parts |-> parts]
Part(op, key, of) == [op |-> op, key |-> key, of |-> of]

(* Result<Option<Value>, Error>, and the state in which there is none. *)
Nothing == [is |-> "nothing"]
Absent  == [is |-> "none"]
Some(v) == [is |-> "some", value |-> v]
Err(e)  == [is |-> "error", error |-> e]

(* The type of Value that each scalar becomes, here by the method called. *)
ScalarType ==
    [bool |-> "Bool", i8 |-> "I32", i16 |-> "I32", i32 |-> "I32",
     u8 |-> "U16", u16 |-> "U16", u32 |-> "U32", u64 |-> "U64", u128 |-> "U128",
     f32 |-> "Float", f64 |-> "Double", char |-> "String", str |-> "String",
     bytes |-> "Bytes", unit_variant |-> "String"]

(* Methods that only fail; i128 is serde's default, with an error of its own. *)
Refusal == [i64 |-> "UnsupportedValue", i128 |-> "Serialize"]

Units     == {"none", "unit", "unit_struct"}
Wrappers  == {"some", "newtype_struct"}
Lists     == {"seq", "tuple", "tuple_struct"}
Maps      == {"map", "struct", "newtype_variant"}
Compounds == Lists \cup Maps \cup {"tuple_variant", "struct_variant"}

(* The calls that nest at most n deep, as the traits of serde let a caller make them. *)
CallsWithin[n \in 0 .. Nesting] ==
    LET inner == IF n = 0 THEN {} ELSE CallsWithin[n - 1]
        parts(ops, keys) == [op : ops, key : keys, of : inner]
        calls(names, atoms, sequences) == [call : names, atom : atoms, parts : sequences]
        textual  == {"char", "str", "unit_variant"}
        elements == Seq(parts({"element"}, {None}))
        fields   == Seq(parts({"field"}, Texts))
    IN  calls(textual, Texts, {<< >>})
            \cup calls(((DOMAIN ScalarType) \ textual) \cup DOMAIN Refusal \cup Units, Int, {<< >>})
            \cup calls(Wrappers, {0}, [1 .. 1 -> parts({"inner"}, {None})])
            \cup calls(Lists, {0}, elements) \cup calls({"tuple_variant"}, Texts, elements)
            \cup calls({"map"}, {0}, Seq(parts({"key", "value"}, {None})))
            \cup calls({"struct"}, {0}, fields)
            \cup calls({"struct_variant"}, Texts, fields)
            \cup calls({"newtype_variant"}, Texts, [1 .. 1 -> parts({"field"}, Texts)])

AnyCall == CallsWithin[Nesting]

VARIABLES data,    \* the caller's value
          focus,   \* the datum that is serialized next, or None
          frames,  \* SeqSer, MapSer and the others that are open, outermost first
          out      \* what the last serialize call returned, until it is used

-----------------------------------------------------------------------------
Entering(calls) == focus # None /\ focus.call \in calls

Return(result) == out' = result /\ focus' = None

SerializeScalar ==
    /\ Entering(DOMAIN ScalarType)
    /\ Return(Some(Leaf(ScalarType[focus.call], focus.atom)))
    /\ UNCHANGED frames

SerializeUnit == Entering(Units) /\ Return(Absent) /\ UNCHANGED frames

SerializeUnsupported ==
    /\ Entering(DOMAIN Refusal)
    /\ Return(Err(Refusal[focus.call]))
    /\ UNCHANGED frames

SerializeWrapper ==
    /\ Entering(Wrappers)
    /\ focus' = focus.parts[1].of
    /\ UNCHANGED <<frames, out>>

(* serialize_seq, _tuple, _map, _struct and the variants; at counts the parts begun. *)
Open ==
    /\ Entering(Compounds)
    /\ frames' = Append(frames, [of |-> focus, at |-> 0, key |-> None, items |-> << >>,
                                 entries |-> NoEntries, pending_key |-> None])
    /\ focus' = None
    /\ UNCHANGED out

-----------------------------------------------------------------------------
Frame == Last(frames)
InFrame(f) == frames' = [frames EXCEPT ![Len(frames)] = f]

(* The caller goes on with the frame on top. *)
Resting == frames # << >> /\ focus = None /\ out = Nothing

More(op) == Resting /\ Frame.at < Len(Frame.of.parts) /\ Frame.of.parts[Frame.at + 1].op \in op

Enter(key, pending) ==
    /\ InFrame([Frame EXCEPT !.at = @ + 1, !.key = key, !.pending_key = pending])
    /\ focus' = Frame.of.parts[Frame.at + 1].of

(* serialize_element, serialize_field and serialize_key. *)
NextPart ==
    /\ More({"element", "field", "key"})
    /\ Enter(Frame.of.parts[Frame.at + 1].key, Frame.pending_key)
    /\ UNCHANGED out

(* Fault: the pending key stays there for the next value. *)
NextValueKeepingKey ==
    /\ More({"value"}) /\ Frame.pending_key # None
    /\ Enter(Frame.pending_key, Frame.pending_key)
    /\ UNCHANGED out

(* serialize_value takes the pending key before it serializes. *)
NextValue ==
    /\ More({"value"}) /\ Frame.pending_key # None
    /\ Enter(Frame.pending_key, None)
    /\ UNCHANGED out

ValueWithoutKey ==
    /\ More({"value"}) /\ Frame.pending_key = None
    /\ Return(Err("UnsupportedValue"))
    /\ InFrame([Frame EXCEPT !.at = @ + 1])

-----------------------------------------------------------------------------
(* The part that a frame is waiting for has returned. *)
PartReturned(results) == frames # << >> /\ out.is \in results /\ focus = None
AtKey == Frame.of.parts[Frame.at].op = "key"

(* A key is a string; it replaces a key that had no value. *)
KeyReturned ==
    /\ PartReturned({"some", "none"}) /\ AtKey
    /\ IF out.is = "some" /\ out.value.type = "String"
       THEN InFrame([Frame EXCEPT !.pending_key = out.value.atom]) /\ out' = Nothing
       ELSE out' = Err("UnsupportedValue") /\ UNCHANGED frames
    /\ UNCHANGED focus

(* An element of SeqSer or TupleVariantSer. *)
ElementKept ==
    /\ PartReturned({"some"}) /\ Frame.of.parts[Frame.at].op = "element"
    /\ InFrame([Frame EXCEPT !.items = Append(@, out.value)])
    /\ out' = Nothing
    /\ UNCHANGED focus

(* A value or a field of MapSer or StructVariantSer. *)
EntryKept ==
    /\ PartReturned({"some"}) /\ Frame.of.parts[Frame.at].op \in {"value", "field"}
    /\ InFrame([Frame EXCEPT !.entries[Frame.key] = out.value])
    /\ out' = Nothing
    /\ UNCHANGED focus

(* An absent part is dropped: no element, no entry. *)
PartDropped ==
    /\ PartReturned({"none"}) /\ ~AtKey
    /\ out' = Nothing
    /\ UNCHANGED <<focus, frames>>

(* `?' *)
PartFailed ==
    /\ PartReturned({"error"})
    /\ frames' = Front(frames)
    /\ UNCHANGED <<focus, out>>

Tagged(variant, v) == MapOf([NoEntries EXCEPT ![variant] = v])

Ended(f) ==
    CASE f.of.call \in Lists           -> ArrayOf(f.items)
      [] f.of.call \in Maps            -> MapOf(f.entries)
      [] f.of.call = "tuple_variant"   -> Tagged(f.of.atom, ArrayOf(f.items))
      [] f.of.call = "struct_variant"  -> Tagged(f.of.atom, MapOf(f.entries))

(* end *)
Close ==
    /\ Resting /\ Frame.at = Len(Frame.of.parts)
    /\ out' = Some(Ended(Frame))
    /\ frames' = Front(frames)
    /\ UNCHANGED focus

Serializing ==
    /\ \/ SerializeScalar \/ SerializeUnit \/ SerializeUnsupported \/ SerializeWrapper \/ Open
       \/ NextPart \/ NextValue \/ ValueWithoutKey
       \/ KeyReturned \/ ElementKept \/ EntryKept \/ PartDropped \/ PartFailed \/ Close
    /\ UNCHANGED data

Idle     == focus = None /\ frames = << >> /\ out = Nothing
Returned == focus = None /\ frames = << >> /\ out # Nothing

Begin(t) == data' = t /\ focus' = t /\ UNCHANGED <<frames, out>>
Done     == out' = Nothing /\ UNCHANGED <<data, focus, frames>>

-----------------------------------------------------------------------------
(***************************************************************************)
(* Value itself as a caller's data, and as what a reader's data becomes.   *)
(***************************************************************************)

(* Fault: a float is serialized as the wider one. *)
SerializedAsWide ==
    [String |-> "str", Double |-> "f64", Bytes |-> "bytes", U16 |-> "u16", U32 |-> "u32",
     I32 |-> "i32", U64 |-> "u64", U128 |-> "u128", Bool |-> "bool", Float |-> "f64"]

SerializedAs ==
    [String |-> "str", Double |-> "f64", Bytes |-> "bytes", U16 |-> "u16", U32 |-> "u32",
     I32 |-> "i32", U64 |-> "u64", U128 |-> "u128", Bool |-> "bool", Float |-> "f32"]

(* Serialize for Value. *)
DataWithin[n \in 0 .. Nesting] ==
    LET below == IF n = 0 THEN << >> ELSE DataWithin[n - 1]
        key(k)    == Part("key", None, Datum("str", k, << >>))
        value(v, k) == Part("value", None, below[v.items[k]])
        entries(v, keys) == [i \in 1 .. 2 * Len(keys) |->
                                IF i % 2 = 1 THEN key(keys[(i + 1) \div 2]) ELSE value(v, keys[i \div 2])]
    IN  [v \in ValuesWithin[n] |->
            CASE v.type = "Map"   -> Datum("map", 0, entries(v, SetToSeq(KeysOf(v))))
              [] v.type = "Array" ->
                     Datum("seq", 0, [i \in DOMAIN v.items |-> Part("element", None, below[v.items[i]])])
              [] OTHER -> Datum(SerializedAs[v.type], v.atom, << >>)]

AsData(v) == DataWithin[Nesting][v]

CONSTANT I32Max     \* i32::MAX

VisitType ==
    [bool |-> "Bool", i8 |-> "I32", i16 |-> "I32", i32 |-> "I32", u8 |-> "U16", u16 |-> "U16",
     u32 |-> "U32", u64 |-> "U64", u128 |-> "U128", f32 |-> "Float", f64 |-> "Double",
     char |-> "String", str |-> "String", bytes |-> "Bytes"]

(***************************************************************************)
(* next_entry::<String, _> asks for a String as the key: text is one, and  *)
(* nothing else here is (bytes are numbers, so none of them are UTF-8).    *)
(***************************************************************************)
VisitedPart(part, result) ==
    IF part.op = "key" /\ part.of.call \notin {"char", "str"} THEN Err("custom") ELSE result

Failures(results) == {i \in DOMAIN results : results[i].is = "error"}
FirstError(results) == results[Min(Failures(results))]

(* ValueVisitor on data that describes itself; a char reaches visit_str by serde's default, *)
(* and what neither has a method for is an error.                                           *)
VisitedWithin[n \in 0 .. Nesting] ==
    LET below == IF n = 0 THEN << >> ELSE VisitedWithin[n - 1]
        results(t) == [i \in DOMAIN t.parts |-> VisitedPart(t.parts[i], below[t.parts[i].of])]
        pair(t, i) == [key |-> t.parts[2 * i - 1].of.atom, value |-> results(t)[2 * i].value]
    IN  [t \in CallsWithin[n] |->
            CASE t.call \in DOMAIN VisitType -> Some(Leaf(VisitType[t.call], t.atom))
              [] t.call = "i64" -> IF t.atom \in (0 - I32Max) - 1 .. I32Max
                                   THEN Some(Leaf("I32", t.atom)) ELSE Err("custom")
              [] t.call \in {"seq", "map"} /\ Failures(results(t)) # {} -> FirstError(results(t))
              [] t.call = "seq" /\ Failures(results(t)) = {} ->
                     Some(ArrayOf([i \in DOMAIN t.parts |-> results(t)[i].value]))
              [] t.call = "map" /\ Failures(results(t)) = {} ->
                     Some(ValueMap([i \in 1 .. Len(t.parts) \div 2 |-> pair(t, i)]))
              [] OTHER -> Err("custom")]

Visited(t) == VisitedWithin[Nesting][t]

-----------------------------------------------------------------------------
(***************************************************************************)
(* Properties.                                                             *)
(***************************************************************************)

(* The key that waits for a value before part i: no value has come after it. *)
KeyBefore(below, t, i) ==
    LET before == {j \in 1 .. i - 1 : t.parts[j].op \in {"key", "value"}}
        last   == t.parts[Max(before)]
        key    == below[last.of]
    IN  IF before # {} /\ last.op = "key" /\ key.is = "some" THEN key.value.atom ELSE None

PartResult(below, t, i) ==
    LET result == below[t.parts[i].of]
        isKey  == result.is = "some" /\ result.value.type = "String"
    IN  CASE t.parts[i].op = "value" /\ KeyBefore(below, t, i) = None -> Err("UnsupportedValue")
          [] t.parts[i].op = "key" /\ ~isKey /\ result.is # "error" -> Err("UnsupportedValue")
          [] OTHER -> result

(* The values of the first parts, without those that are absent. *)
Kept(sofar, result) == IF result.is = "some" THEN Append(sofar, result.value) ELSE sofar

KeptOf(results) ==
    LET Upto[m \in 0 .. Len(results)] ==
            IF m = 0 THEN << >> ELSE Kept(Upto[m - 1], results[m])
    IN  Upto

(* What a compound becomes, by the results of its parts and the key of each. *)
Assembled(t, results, keys) ==
    LET present  == {i \in DOMAIN results : results[i].is = "some" /\ t.parts[i].op # "key"}
        list     == ValueArray(KeptOf(results)[Len(results)])
        map      == ValueMap([i \in present |-> [key |-> keys[i], value |-> results[i].value]])
        tagged(v) == ValueMap(<<[key |-> t.atom, value |-> v]>>)
    IN  IF Failures(results) # {} THEN FirstError(results)
        ELSE Some(CASE t.call \in Lists          -> list
                    [] t.call \in Maps           -> map
                    [] t.call = "tuple_variant"  -> tagged(list)
                    [] t.call = "struct_variant" -> tagged(map))

(***************************************************************************)
(* What Writer::insert promises: scalars are what From makes of them, and  *)
(* maps and arrays what Value::map and Value::array make of the entries    *)
(* and the elements that are there, each value under its own key.          *)
(***************************************************************************)
ProjectionWithin[n \in 0 .. Nesting] ==
    LET below == IF n = 0 THEN << >> ELSE ProjectionWithin[n - 1]
        results(t) == [i \in DOMAIN t.parts |-> PartResult(below, t, i)]
        keys(t) == [i \in DOMAIN t.parts |->
                       IF t.parts[i].op = "value" THEN KeyBefore(below, t, i) ELSE t.parts[i].key]
    IN  [t \in CallsWithin[n] |->
            CASE t.call \in DOMAIN FromType            -> Some(ValueFrom(t.call, t.atom))
              [] t.call \in {"char", "unit_variant"}   -> Some(ValueFrom("str", t.atom))
              [] t.call = "i64"                        -> Err("UnsupportedValue")
              [] t.call = "i128"                       -> Err("Serialize")
              [] t.call \in Units                      -> Absent
              [] t.call \in Wrappers                   -> below[t.parts[1].of]
              [] t.call \in Compounds                  -> Assembled(t, results(t), keys(t))]

Projection(t) == ProjectionWithin[Nesting][t]

(***************************************************************************)
(* Whatever the caller's impl does, the serializer ends with the value     *)
(* that the constructors would build, or with the first part's error: keys *)
(* meet their own values, absent parts vanish, nothing of a frame leaks.   *)
(***************************************************************************)
Projected == Returned => out = Projection(data)
=============================================================================
