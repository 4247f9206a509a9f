----------------------------- MODULE DataReader -----------------------------
(***************************************************************************)
(* A reader of the section that DataSection writes: it decodes the value   *)
(* at an offset, following pointers, as the maxminddb crate that the tests *)
(* and load.rs use does.  Recursion is written as functions, so that       *)
(* DataReaderProofs can reason about it: the reader of depth d leaves what *)
(* is nested to the reader of depth d - 1.                                 *)
(***************************************************************************)
EXTENDS DataSection

CONSTANTS Height,       \* how deep a value is nested
          DepthLimit    \* as deep as the reader goes

(* What the reader does not take for a value. *)
NoValue == [name |-> "invalid", head |-> 0, items |-> << >>]

(* Values are finite: what a value contains is nested less deep than it. *)
ASSUME DataReaderAssumption ==
    /\ \A v \in Values : v = [name |-> v.name, head |-> v.head, items |-> v.items]
    /\ DepthLimit \in Nat
    /\ Height \in [Values -> 1 .. DepthLimit]
    /\ \A v \in Values : \A k \in 1 .. Len(v.items) : Height[v.items[k]] < Height[v]

-----------------------------------------------------------------------------
(* s is a section, a sequence of tokens. *)
Starts(s)          == {s[k].at : k \in DOMAIN s}
HeaderStarts(s)    == {s[k].at : k \in {j \in DOMAIN s : s[j].to = NoTarget}}
TokenAt(s, offset) == s[CHOOSE k \in DOMAIN s : s[k].at = offset]

(* Where the header is that is read at an offset: there, or where the pointer leads. *)
Follow(s, offset) ==
    IF TokenAt(s, offset).to = NoTarget THEN offset ELSE TokenAt(s, offset).to

(* The items of the value whose header is h. *)
ItemsOf(inner, h) == inner[h.at + h.len][h.count]

ValueAt(s, inner, offset) ==
    IF offset \notin Starts(s) \/ Follow(s, offset) \notin HeaderStarts(s) THEN NoValue
    ELSE LET h == TokenAt(s, Follow(s, offset))
             v == [name |-> h.name, head |-> h.len, items |-> ItemsOf(inner, h).values]
         IN  IF v \in Values THEN v ELSE NoValue

(* A pointer has no items of its own, wherever it leads. *)
EndAt(s, inner, offset) ==
    IF offset \notin Starts(s) THEN offset
    ELSE LET t == TokenAt(s, offset)
         IN  IF t.to # NoTarget THEN offset + t.len ELSE ItemsOf(inner, t).end

(* n values in a row from an offset on, whose items `inner' reads. *)
Row(s, inner) ==
    [offset \in Nat |->
        LET Read[n \in Nat] ==
                IF n = 0 THEN [values |-> << >>, end |-> offset]
                ELSE LET before == Read[n - 1]
                     IN  [values |-> Append(before.values, ValueAt(s, inner, before.end)),
                          end    |-> EndAt(s, inner, before.end)]
        IN  Read]

(* Deeper than the reader goes. *)
TooDeep == [offset \in Nat |-> [n \in Nat |-> [values |-> [k \in 1 .. n |-> NoValue],
                                               end    |-> offset]]]

Reader(s) ==
    LET Read[depth \in Nat] == IF depth = 0 THEN TooDeep ELSE Row(s, Read[depth - 1])
    IN  Read

(* The value at an offset, and the offset after it. *)
Decode(offset) == Reader(section)[DepthLimit][offset][1]

-----------------------------------------------------------------------------
(* The bytes of a value, written out in full, in front of item n + 1. *)
Spelt(inner) ==
    [v \in Values |->
        LET Bytes[n \in Nat] ==
                IF n \notin DOMAIN v.items THEN v.head
                ELSE Bytes[n - 1] + inner[v.items[n]][Len(v.items[n].items)]
        IN  Bytes]

Spelling ==
    LET Nested[depth \in Nat] ==
            IF depth = 0 THEN [v \in Values |-> [n \in Nat |-> 0]] ELSE Spelt(Nested[depth - 1])
    IN  Nested

(* Bytes of a value that is written out in full. *)
Plain(v) == Spelling[DepthLimit][v][Len(v.items)]

(* Bytes of what was pushed and not found in the section already. *)
PlainPushes ==
    LET Bytes[k \in Nat] ==
            IF k \notin DOMAIN returned THEN 0
            ELSE Bytes[k - 1] + (IF returned[k].fresh THEN Plain(returned[k].value) ELSE 0)
    IN  Bytes[Len(returned)]

-----------------------------------------------------------------------------
(***************************************************************************)
(* The offset that push returned for a value decodes to that value, and    *)
(* so does, at its length, everything that the table may be pointed at,    *)
(* also in the middle of a later value.                                    *)
(***************************************************************************)
DecodesBack ==
    /\ \A k \in DOMAIN returned : Decode(returned[k].offset).values = <<returned[k].value>>
    /\ \A e \in dedup : Decode(e.offset) = [values |-> <<e.value>>, end |-> e.offset + e.len]

(***************************************************************************)
(* Pointers only ever save bytes: what was pushed takes no more room than  *)
(* it does without pointers, and a section without pointers is that large. *)
(***************************************************************************)
PointersPay ==
    stack = << >> => size <= PlainPushes /\ (noPointers => size = PlainPushes)
=============================================================================
