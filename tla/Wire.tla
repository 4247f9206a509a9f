-------------------------------- MODULE Wire --------------------------------
(***************************************************************************)
(* The bytes of data_section.rs: control bytes with their four size        *)
(* layouts, the type byte of the extended types, integers without their    *)
(* leading zeros, and pointers with their four size classes.  The machine  *)
(* writes them one after another, as the encoder does, and a reader reads  *)
(* them back; payloads other than integers are left out.                   *)
(***************************************************************************)
EXTENDS Integers, Sequences

CONSTANTS Tags,         \* TypeTag of the plain types that are written
          Extensions,   \* ExtendedType of the others
          Sizes,        \* payload sizes and element counts that are written
          Numbers,      \* integers that are written: [type, digits]
          Offsets,      \* data offsets that are pointed at
          MaxHeaders    \* bound on the headers written

Byte == 0 .. 255
U32  == {n \in Nat : n \div 16777216 < 256}       \* below 2^32

ExtendedTag == 0
PointerTag  == 1

(* The integer types by their numbers in the format, with the bytes of each. *)
IntTypes == {5, 6, 8, 9, 10}
Width(type) == IF type = 5 THEN 2 ELSE IF type \in {6, 8} THEN 4 ELSE IF type = 9 THEN 8 ELSE 16

(* An integer is what to_be_bytes makes of it; an i32 counts as the u32 of its bits. *)
IsNumber(n) == n.type \in IntTypes /\ n.digits \in [1 .. Width(n.type) -> Byte]

(* 65_821 + 2^24: the first size that the widest layout cannot hold. *)
SizeLimit == 16843037

ASSUME WireAssumption ==
    /\ Tags \subseteq {2, 3, 4, 7} /\ Extensions \subseteq {4, 7, 8}
    /\ Sizes \subseteq Nat
    /\ \A n \in Numbers : IsNumber(n)
    /\ Offsets \subseteq U32
    /\ MaxHeaders \in Nat

VARIABLES bytes,        \* self.bytes
          headers       \* what was written: [at, type, arg, digits], at counted from 1

vars == <<bytes, headers>>

-----------------------------------------------------------------------------
(* Fault: the second class ends one late, and its field overflows. *)
ControlBytesWide(tag, size) ==
    IF size < 29 THEN <<tag * 32 + size>>
    ELSE IF size <= 285 THEN <<tag * 32 + 29, size - 29>>
    ELSE IF size < 65821 THEN <<tag * 32 + 30, (size - 285) \div 256, (size - 285) % 256>>
    ELSE LET d == size - 65821
         IN  <<tag * 32 + 31, (d \div 65536) % 256, (d \div 256) % 256, d % 256>>

(***************************************************************************)
(* write_control_byte.  The widest layout writes the low three bytes of    *)
(* the u32, whatever the fourth is.                                        *)
(***************************************************************************)
ControlBytes(tag, size) ==
    IF size < 29 THEN <<tag * 32 + size>>
    ELSE IF size < 285 THEN <<tag * 32 + 29, size - 29>>
    ELSE IF size < 65821 THEN <<tag * 32 + 30, (size - 285) \div 256, (size - 285) % 256>>
    ELSE LET d == size - 65821
         IN  <<tag * 32 + 31, (d \div 65536) % 256, (d \div 256) % 256, d % 256>>

(* Fault: the bias of the third class leaves out that of the second. *)
PointerCodeBias(addr) ==
    IF addr < 2048 THEN <<32 + addr \div 256, addr % 256>>
    ELSE IF addr < 526336
    THEN LET b == addr - 2048
         IN  <<40 + b \div 65536, (b \div 256) % 256, b % 256>>
    ELSE IF addr < 134744064
    THEN LET b == addr - 524288
         IN  <<48 + ((b \div 16777216) % 8), (b \div 65536) % 256, (b \div 256) % 256, b % 256>>
    ELSE <<56, addr \div 16777216, (addr \div 65536) % 256, (addr \div 256) % 256, addr % 256>>

(* write_pointer: the bias of a class is the end of the class below it. *)
PointerCode(addr) ==
    IF addr < 2048 THEN <<32 + addr \div 256, addr % 256>>
    ELSE IF addr < 526336
    THEN LET b == addr - 2048
         IN  <<40 + b \div 65536, (b \div 256) % 256, b % 256>>
    ELSE IF addr < 134744064
    THEN LET b == addr - 526336
         IN  <<48 + b \div 16777216, (b \div 65536) % 256, (b \div 256) % 256, b % 256>>
    ELSE <<56, addr \div 16777216, (addr \div 65536) % 256, (addr \div 256) % 256, addr % 256>>

(* Fault: a bound of the classes is off by one. *)
PointerBytesEarly(addr) ==
    IF addr < 2047 THEN 2 ELSE IF addr < 526336 THEN 3 ELSE IF addr < 134744064 THEN 4 ELSE 5

(* pointer_bytes, which decides between a pointer and a copy. *)
PointerBytes(addr) ==
    IF addr < 2048 THEN 2 ELSE IF addr < 526336 THEN 3 ELSE IF addr < 134744064 THEN 4 ELSE 5

(* write_extended_header: the size is written in front of the type. *)
ExtendedHeader(ext, size) == ControlBytes(ExtendedTag, size) \o <<ext>>

(* The header of a type by its number, which is 7 more for the extended ones. *)
HeaderBytes(type, size) ==
    IF type < 8 THEN ControlBytes(type, size) ELSE ExtendedHeader(type - 7, size)

(* take_while(|b| **b == 0).count() *)
LeadingZeros(digits) ==
    CHOOSE z \in 0 .. Len(digits) :
        /\ \A i \in 1 .. z : digits[i] = 0
        /\ z < Len(digits) => digits[z + 1] # 0

(* Fault: a negative number is cut to its last byte that differs from its sign. *)
TrimmedSigned(digits) ==
    IF Len(digits) = 4 /\ digits[1] = 255 /\ digits[2] = 255 THEN SubSeq(digits, 3, 4)
    ELSE SubSeq(digits, LeadingZeros(digits) + 1, Len(digits))

(* encode_uint_trimmed and, on the bits of an i32, encode_i32_trimmed. *)
Trimmed(digits) == SubSeq(digits, LeadingZeros(digits) + 1, Len(digits))

-----------------------------------------------------------------------------
Init == bytes = << >> /\ headers = << >>

Emit(code, header) ==
    /\ Len(headers) < MaxHeaders
    /\ bytes' = bytes \o code
    /\ headers' = Append(headers, header)

Entry(type, arg, digits) ==
    [at |-> Len(bytes) + 1, type |-> type, arg |-> arg, digits |-> digits]

(* The header of a string, a blob, a double or a map. *)
WriteControlByte(tag, size) == Emit(HeaderBytes(tag, size), Entry(tag, size, << >>))

(* That of an array, a boolean or a float. *)
WriteExtendedHeader(ext, size) == Emit(HeaderBytes(ext + 7, size), Entry(ext + 7, size, << >>))

(* write_uint, or write_extended: the size is known once the digits are trimmed. *)
WriteInteger(n) ==
    LET size == Len(Trimmed(n.digits))
    IN  Emit(HeaderBytes(n.type, size) \o Trimmed(n.digits), Entry(n.type, size, n.digits))

WritePointer(offset) == Emit(PointerCode(offset), Entry(PointerTag, offset, << >>))

Next == \/ \E tag \in Tags, size \in Sizes : WriteControlByte(tag, size)
        \/ \E ext \in Extensions, size \in Sizes : WriteExtendedHeader(ext, size)
        \/ \E n \in Numbers : WriteInteger(n)
        \/ \E offset \in Offsets : WritePointer(offset)

Spec == Init /\ [][Next]_vars

-----------------------------------------------------------------------------
(***************************************************************************)
(* A reader at position i of a byte sequence: section 3.5 of the format as *)
(* the tests of data_section.rs spell it out.                              *)
(***************************************************************************)
Header(type, arg, next) == [type |-> type, arg |-> arg, next |-> next]

ReadPointer(s, i) ==
    LET class == (s[i] % 32) \div 8
        high  == s[i] % 8
    IN  IF class = 0 THEN Header(PointerTag, high * 256 + s[i + 1], i + 2)
        ELSE IF class = 1
        THEN Header(PointerTag, 2048 + high * 65536 + s[i + 1] * 256 + s[i + 2], i + 3)
        ELSE IF class = 2
        THEN Header(PointerTag,
                    526336 + high * 16777216 + s[i + 1] * 65536 + s[i + 2] * 256 + s[i + 3], i + 4)
        ELSE Header(PointerTag,
                    s[i + 1] * 16777216 + s[i + 2] * 65536 + s[i + 3] * 256 + s[i + 4], i + 5)

(* The size in the control byte at i, whose further bytes begin at j. *)
ReadSize(s, i, type, j) ==
    LET size == s[i] % 32
    IN  IF size < 29 THEN Header(type, size, j)
        ELSE IF size = 29 THEN Header(type, 29 + s[j], j + 1)
        ELSE IF size = 30 THEN Header(type, 285 + s[j] * 256 + s[j + 1], j + 2)
        ELSE Header(type, 65821 + s[j] * 65536 + s[j + 1] * 256 + s[j + 2], j + 3)

(* An extended type is named by the byte behind the control byte. *)
Read(s, i) ==
    LET tag == s[i] \div 32
    IN  IF tag = PointerTag THEN ReadPointer(s, i)
        ELSE IF tag = ExtendedTag THEN ReadSize(s, i, s[i + 1] + 7, i + 2)
        ELSE ReadSize(s, i, tag, i + 1)

(* The digits of an integer of some width whose size bytes begin at j: zeros are put back in front. *)
ReadDigits(s, j, size, width) ==
    [i \in 1 .. width |-> IF i <= width - size THEN 0 ELSE s[j + i - 1 - (width - size)]]

-----------------------------------------------------------------------------
(***************************************************************************)
(* Properties.                                                             *)
(***************************************************************************)

(* Everything written is a byte: no field spills into the tag beside it. *)
TypeOK ==
    /\ bytes \in Seq(Byte)
    /\ Len(headers) <= MaxHeaders

EndOf(k) == IF k < Len(headers) THEN headers[k + 1].at ELSE Len(bytes) + 1

(* Only integers have their payload here. *)
ReadBack(h, end) ==
    Read(bytes, h.at) = Header(h.type, h.arg, end - IF h.type \in IntTypes THEN h.arg ELSE 0)

(***************************************************************************)
(* Every header that was written reads back as the type and the size, or   *)
(* the offset, that it was written for, and ends where what it announces   *)
(* begins ("All MMDB data types", for any reader).                         *)
(***************************************************************************)
SizesKept == \A k \in DOMAIN headers : ReadBack(headers[k], EndOf(k))

(* The sizes that the format holds, where the type stands right behind the control byte. *)
Holds(h) == h.type = PointerTag \/ h.arg < (IF h.type < 8 THEN SizeLimit ELSE 29)

(***************************************************************************)
(* The same for pointers, for the plain types up to the widest size and    *)
(* for the extended types as long as the size needs no byte of its own.    *)
(***************************************************************************)
HeadersReadBack == \A k \in DOMAIN headers : Holds(headers[k]) => ReadBack(headers[k], EndOf(k))

(***************************************************************************)
(* An integer reads back digit by digit, whichever zeros it lost; all four *)
(* bytes of a negative i32 are there.                                      *)
(***************************************************************************)
NumbersReadBack ==
    \A k \in DOMAIN headers :
        LET h == headers[k]
            r == Read(bytes, h.at)
        IN  h.type \in IntTypes => ReadDigits(bytes, r.next, r.arg, Width(h.type)) = h.digits

(***************************************************************************)
(* The price that emit_inline compares is the length that write_pointer    *)
(* then writes.                                                            *)
(***************************************************************************)
PricedExactly ==
    \A k \in DOMAIN headers :
        headers[k].type = PointerTag => EndOf(k) - headers[k].at = PointerBytes(headers[k].arg)
=============================================================================
