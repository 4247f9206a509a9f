------------------------------- MODULE Values -------------------------------
(***************************************************************************)
(* Value of value.rs: its constructors, its equality and hash, and the two *)
(* ways to merge.  An atom is an integer: the number itself, a float's     *)
(* bits, or the name of a text, a blob or a key.                           *)
(***************************************************************************)
EXTENDS Integers, SequencesExt

CONSTANTS None,       \* Option::None
          Texts,      \* the texts, and so the keys of maps
          Nesting     \* bound on how deep values and calls nest

(* Every value has the same three parts: items are an array's, or for each key what a map has. *)
Leaf(type, atom) == [type |-> type, atom |-> atom, items |-> << >>]
MapOf(entries)   == [type |-> "Map", atom |-> 0, items |-> entries]
ArrayOf(items)   == [type |-> "Array", atom |-> 0, items |-> items]

NoEntries  == [k \in Texts |-> None]
KeysOf(v)  == {k \in Texts : v.items[k] # None}

Floating == {"Float", "Double"}
Plain    == Floating \cup {"Bytes", "U16", "U32", "I32", "U64", "U128", "Bool"}

(* The values that nest at most n deep: a function so that recursion has its domains. *)
ValuesWithin[n \in 0 .. Nesting] ==
    LET inner == IF n = 0 THEN {} ELSE ValuesWithin[n - 1]
    IN  [type : Plain, atom : Int, items : {<< >>}]
            \cup [type : {"String"}, atom : Texts, items : {<< >>}]
            \cup [type : {"Map"}, atom : {0}, items : [Texts -> inner \cup {None}]]
            \cup [type : {"Array"}, atom : {0}, items : Seq(inner)]

AnyValue == ValuesWithin[Nesting]

ASSUME ValuesAssumption ==
    /\ Texts \subseteq Int /\ IsFiniteSet(Texts)
    /\ Nesting \in Nat
    /\ None \notin Int \cup AnyValue

(* As TLC compares bits: negative zero, and one of the bit patterns of NaN. *)
Zero == 0
NegZero == 0 - 1
NaN == 9

-----------------------------------------------------------------------------
(* From, by the Rust type that is converted; there is none for i64. *)
FromType ==
    [u8 |-> "U16", u16 |-> "U16", u32 |-> "U32", u64 |-> "U64", u128 |-> "U128",
     i8 |-> "I32", i16 |-> "I32", i32 |-> "I32", f32 |-> "Float", f64 |-> "Double",
     bool |-> "Bool", str |-> "String", bytes |-> "Bytes"]

ValueFrom(rust, atom) == Leaf(FromType[rust], atom)

(* Value::map, of pairs that numbers put in order: the last value of a key is kept. *)
ValueMap(pairs) ==
    LET with(k) == {i \in DOMAIN pairs : pairs[i].key = k}
    IN  MapOf([k \in Texts |-> IF with(k) = {} THEN None ELSE pairs[Max(with(k))].value])

ValueArray(items) == ArrayOf(items)

-----------------------------------------------------------------------------
(* Fault: floats are compared as numbers. *)
SameAtomNumeric(type, a, b) ==
    IF type \notin Floating THEN a = b
    ELSE a # NaN /\ b # NaN /\ (a = b \/ {a, b} = {Zero, NegZero})

(* Floats are compared by their bits, and so is everything else. *)
SameAtom(type, a, b) == a = b

(* PartialEq: values of two types are never equal. *)
SameWithin[n \in 0 .. Nesting] ==
    LET below == IF n = 0 THEN << >> ELSE SameWithin[n - 1]
        same(x, y) == IF None \in {x, y} THEN x = y ELSE below[x][y]
    IN  [v \in ValuesWithin[n] |-> [w \in ValuesWithin[n] |->
            /\ v.type = w.type
            /\ SameAtom(v.type, v.atom, w.atom)
            /\ DOMAIN v.items = DOMAIN w.items
            /\ \A k \in DOMAIN v.items : same(v.items[k], w.items[k])]]

SameValue(v, w) == SameWithin[Nesting][v][w]

(* What a hash is fed with: the discriminant, the bits, and the same of every item. *)
Hashed(v) == <<v.type, v.atom, v.items>>

-----------------------------------------------------------------------------
(* The entries of a map over those of another. *)
Over(new, old) == [k \in Texts |-> IF new[k] = None THEN old[k] ELSE new[k]]

MergeTopLevel(existing, new) ==
    IF existing.type = "Map" /\ new.type = "Map"
    THEN MapOf(Over(new.items, existing.items)) ELSE new

(* Fault: an array that is already there is replaced. *)
MergeDeepReplacing(existing, new) ==
    IF existing.type = "Array" /\ new.type = "Array" THEN new ELSE MergeTopLevel(existing, new)

MergeWithin[n \in 0 .. Nesting] ==
    LET below == IF n = 0 THEN << >> ELSE MergeWithin[n - 1]
        both(x, y) == IF None \in {x, y} THEN y ELSE below[x][y]
    IN  [existing \in ValuesWithin[n] |-> [new \in ValuesWithin[n] |->
            CASE existing.type = "Map" /\ new.type = "Map" ->
                     MapOf(Over([k \in Texts |-> both(existing.items[k], new.items[k])],
                                existing.items))
              [] existing.type = "Array" /\ new.type = "Array" ->
                     ArrayOf(existing.items \o new.items)
              [] OTHER -> new]]

MergeDeep(existing, new) == MergeWithin[Nesting][existing][new]
=============================================================================
