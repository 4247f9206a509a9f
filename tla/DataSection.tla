----------------------------- MODULE DataSection -----------------------------
(***************************************************************************)
(* DataSection of data_section.rs: values are encoded depth first at the   *)
(* end of the section, and a value met before is replaced by a pointer     *)
(* where that is shorter.  One step writes one header; the frames of the   *)
(* recursion between encode and emit_inline are `stack'.  Module Wire      *)
(* models the bytes of a header; here a token has a length only.           *)
(***************************************************************************)
EXTENDS Integers, Sequences

CONSTANTS Values,         \* values, with everything that they contain
          Pushed,         \* the values that build pushes
          ClassEnds,      \* where the pointer classes end: 2048, 526_336 and 134_744_064
          MaxPushes       \* bound on the number of pushes

(***************************************************************************)
(* A value: a name for its type and payload, the bytes of its header and   *)
(* payload, and what it contains, in the order in which it is written; a   *)
(* map contains its keys, which are string values, before their values.    *)
(***************************************************************************)
ASSUME DataSectionAssumption ==
    /\ \A v \in Values : v.head \in Nat \ {0} /\ v.items \in Seq(Values)
    /\ Pushed \subseteq Values
    /\ ClassEnds \in [1 .. 3 -> Nat]
    /\ ClassEnds[1] < ClassEnds[2] /\ ClassEnds[2] < ClassEnds[3]
    /\ MaxPushes \in Nat

VARIABLES section,        \* the tokens of self.bytes: [at, name, count, to, len]
          size,           \* self.bytes.len()
          dedup,          \* self.dedup: entries [value, offset, len]
          noPointers,     \* self.no_pointers, set by without_pointers
          stack,          \* values being encoded: [value, offset, next]
          returned        \* what push returned: [value, offset, fresh]

vars == <<section, size, dedup, noPointers, stack, returned>>

NoTarget == -1

(* pointer_bytes *)
PointerBytes(offset) ==
    IF offset < ClassEnds[1] THEN 2
    ELSE IF offset < ClassEnds[2] THEN 3
    ELSE IF offset < ClassEnds[3] THEN 4 ELSE 5

Known(v) == \E e \in dedup : e.value = v
Entry(v) == CHOOSE e \in dedup : e.value = v

Init ==
    /\ section = << >> /\ size = 0
    /\ dedup = {}
    /\ noPointers \in BOOLEAN
    /\ stack = << >> /\ returned = << >>

Write(token) ==
    /\ section' = Append(section, token)
    /\ size' = size + token.len

(* encode writes the header of v; below is the stack that v's frame is put on. *)
Open(v, below) ==
    /\ Write([at |-> size, name |-> v.name, count |-> Len(v.items),
              to |-> NoTarget, len |-> v.head])
    /\ stack' = Append(below, [value |-> v, offset |-> size, next |-> 1])

Top       == stack[Len(stack)]
Below     == SubSeq(stack, 1, Len(stack) - 1)
Advanced  == [stack EXCEPT ![Len(stack)].next = @ + 1]

-----------------------------------------------------------------------------
CanPush == stack = << >> /\ Len(returned) < MaxPushes

(* push of a value that is in the section already. *)
PushKnown(v) ==
    /\ CanPush
    /\ Known(v)
    /\ returned' = Append(returned, [value |-> v, offset |-> Entry(v).offset, fresh |-> FALSE])
    /\ UNCHANGED <<section, size, dedup, noPointers, stack>>

PushNew(v) ==
    /\ CanPush
    /\ ~Known(v)
    /\ Open(v, << >>)
    /\ UNCHANGED <<dedup, noPointers, returned>>

(* Fault: any value met before is pointed at, whatever that costs. *)
PointerAlways(v) == ~noPointers /\ Known(v)

PointerWins(v) ==
    ~noPointers /\ Known(v) /\ Entry(v).len > PointerBytes(Entry(v).offset)

HasItem == stack # << >> /\ Top.next <= Len(Top.value.items)
Item    == Top.value.items[Top.next]

(* emit_inline of the next item: a pointer is shorter. *)
EmitPointer ==
    /\ HasItem
    /\ PointerWins(Item)
    /\ Write([at |-> size, name |-> "pointer", count |-> 0,
              to |-> Entry(Item).offset, len |-> PointerBytes(Entry(Item).offset)])
    /\ stack' = Advanced
    /\ UNCHANGED <<dedup, noPointers, returned>>

(* emit_inline of the next item, spelt out. *)
EmitInline ==
    /\ HasItem
    /\ ~PointerWins(Item)
    /\ Open(Item, Advanced)
    /\ UNCHANGED <<dedup, noPointers, returned>>

(* Fault: the entry records where the value ends. *)
RememberEnd(frame) ==
    IF Known(frame.value) THEN dedup
    ELSE dedup \cup {[value |-> frame.value, offset |-> size, len |-> size - frame.offset]}

(* Fault: only the header is counted. *)
RememberHead(frame) ==
    IF Known(frame.value) THEN dedup
    ELSE dedup \cup {[value |-> frame.value, offset |-> frame.offset, len |-> frame.value.head]}

(* The first emission's offset and length are kept. *)
Remember(frame) ==
    IF Known(frame.value) THEN dedup
    ELSE dedup \cup {[value |-> frame.value, offset |-> frame.offset, len |-> size - frame.offset]}

(* encode is done with a value; push returns when it was the outermost. *)
Close ==
    /\ stack # << >>
    /\ ~HasItem
    /\ dedup' = Remember(Top)
    /\ stack' = Below
    /\ returned' = IF Below = << >>
                   THEN Append(returned, [value |-> Top.value, offset |-> Top.offset, fresh |-> TRUE])
                   ELSE returned
    /\ UNCHANGED <<section, size, noPointers>>

Next == \/ \E v \in Pushed : PushKnown(v) \/ PushNew(v)
        \/ EmitPointer \/ EmitInline \/ Close

Spec == Init /\ [][Next]_vars

-----------------------------------------------------------------------------
(***************************************************************************)
(* Properties.                                                             *)
(***************************************************************************)

EndOf(k) == IF k = 0 THEN 0 ELSE section[k].at + section[k].len

(* The header of v was written at offset. *)
HeaderOf(v, offset) ==
    \E k \in DOMAIN section :
        /\ section[k].at = offset /\ section[k].to = NoTarget
        /\ section[k].name = v.name /\ section[k].len = v.head

(* The tokens tile the section; a value has one entry, at a header of its own, as what push returns is. *)
TypeOK ==
    /\ \A k \in DOMAIN section : section[k].at = EndOf(k - 1)
    /\ size = EndOf(Len(section))
    /\ \A e, f \in dedup : e.value = f.value => e = f
    /\ \A e \in dedup : HeaderOf(e.value, e.offset)
    /\ \A i \in DOMAIN returned : HeaderOf(returned[i].value, returned[i].offset)

(***************************************************************************)
(* A pointer leads to a header in front of it, never to another pointer:   *)
(* a reader follows one pointer at a time and cannot run in a circle.      *)
(***************************************************************************)
PointersAim ==
    \A p \in DOMAIN section : section[p].to # NoTarget =>
        \E t \in 1 .. p - 1 : section[t].at = section[p].to /\ section[t].to = NoTarget

(***************************************************************************)
(* A value that is written again costs what its entry says: the length of  *)
(* the first emission, by which pointer and copy are compared, is that of  *)
(* every emission, although the items of a copy may have become known.     *)
(***************************************************************************)
CopiesCostTheSame ==
    stack # << >> /\ ~HasItem /\ Known(Top.value) => size - Top.offset = Entry(Top.value).len
=============================================================================
