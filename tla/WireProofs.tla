----------------------------- MODULE WireProofs -----------------------------
(***************************************************************************)
(* Every header and integer that data_section.rs writes reads back, for    *)
(* every offset of u32, every size the format can hold and every number:   *)
(* what TLC checks at the boundaries of the classes, here for all of them. *)
(***************************************************************************)
EXTENDS Wire, NodeBytes, SequenceTheorems, WellFoundedInduction, TLAPS

(* The bytes of c stand in s from position i on. *)
StandsAt(s, i, c) == \A j \in 1 .. Len(c) : s[i + j - 1] = c[j]

-----------------------------------------------------------------------------
(* A control byte is read as its type and size, and no further than it goes. *)
LEMMA ControlReads ==
    ASSUME NEW tag \in 2 .. 7, NEW size \in Nat, size < SizeLimit,
           NEW s, NEW i \in Nat, StandsAt(s, i, ControlBytes(tag, size))
    PROVE  Read(s, i) = Header(tag, size, i + Len(ControlBytes(tag, size)))
<1> DEFINE c == ControlBytes(tag, size)
<1>1. tag \in Int /\ 2 <= tag /\ tag <= 7
  OBVIOUS
<1>2. CASE size < 29
  <2>1. c = <<tag * 32 + size>>
    BY SMT, <1>2 DEF ControlBytes
  <2>2. s[i] = tag * 32 + size
    BY SMT, <2>1 DEF StandsAt
  <2>3. s[i] \div 32 = tag /\ s[i] % 32 = size
    BY SMT, <2>2, <1>1, <1>2
  <2> QED
    BY SMT, <2>1, <2>3, <1>1, <1>2 DEF Read, ReadSize, Header, PointerTag, ExtendedTag
<1>3. CASE size >= 29 /\ size < 285
  <2>1. c = <<tag * 32 + 29, size - 29>>
    BY SMT, <1>3 DEF ControlBytes
  <2>2. s[i] = tag * 32 + 29 /\ s[i + 1] = size - 29
    BY SMT, <2>1 DEF StandsAt
  <2>3. s[i] \div 32 = tag /\ s[i] % 32 = 29
    BY SMT, <2>2, <1>1
  <2> QED
    BY SMT, <2>1, <2>2, <2>3, <1>1, <1>3 DEF Read, ReadSize, Header, PointerTag, ExtendedTag
<1>4. CASE size >= 285 /\ size < 65821
  <2>1. c = <<tag * 32 + 30, (size - 285) \div 256, (size - 285) % 256>>
    BY SMT, <1>4 DEF ControlBytes
  <2>2. s[i] = tag * 32 + 30 /\ s[i + 1] = (size - 285) \div 256 /\ s[i + 2] = (size - 285) % 256
    BY SMT, <2>1 DEF StandsAt
  <2>3. s[i] \div 32 = tag /\ s[i] % 32 = 30
    BY SMT, <2>2, <1>1
  <2>4. 285 + s[i + 1] * 256 + s[i + 2] = size
    BY SMT, <2>2, <1>4
  <2> QED
    BY SMT, <2>1, <2>3, <2>4, <1>1 DEF Read, ReadSize, Header, PointerTag, ExtendedTag
<1>5. CASE size >= 65821
  <2> DEFINE d == size - 65821
  <2>1. c = <<tag * 32 + 31, (d \div 65536) % 256, (d \div 256) % 256, d % 256>>
    BY SMT, <1>5 DEF ControlBytes
  <2>2. /\ s[i] = tag * 32 + 31
        /\ s[i + 1] = (d \div 65536) % 256 /\ s[i + 2] = (d \div 256) % 256 /\ s[i + 3] = d % 256
    BY SMT, <2>1 DEF StandsAt
  <2>3. s[i] \div 32 = tag /\ s[i] % 32 = 31
    BY SMT, <2>2, <1>1
  <2>4. d \in Nat /\ d < 16777216
    BY SMT, <1>5 DEF SizeLimit
  <2>5. (d \div 65536) % 256 = d \div 65536
    BY SMT, <2>4
  <2>6. s[i + 1] * 65536 + s[i + 2] * 256 + s[i + 3] = d
    BY SMT, <2>2, <2>4, <2>5
  <2>7. 65821 + s[i + 1] * 65536 + s[i + 2] * 256 + s[i + 3] = size
    BY SMT, <2>6, <2>2, <2>4
  <2> QED
    BY SMT, <2>1, <2>3, <2>7, <1>1 DEF Read, ReadSize, Header, PointerTag, ExtendedTag
<1> QED
  BY SMT, <1>2, <1>3, <1>4, <1>5

(* A pointer is read as its offset, in every class. *)
LEMMA PointerReads ==
    ASSUME NEW addr \in U32, NEW s, NEW i \in Nat, StandsAt(s, i, PointerCode(addr))
    PROVE  Read(s, i) = Header(PointerTag, addr, i + Len(PointerCode(addr)))
<1> DEFINE c == PointerCode(addr)
<1>1. addr \in Nat /\ addr \div 16777216 < 256
  BY SMT DEF U32
<1>2. CASE addr < 2048
  <2>1. c = <<32 + addr \div 256, addr % 256>>
    BY SMT, <1>1, <1>2 DEF PointerCode
  <2>2. s[i] = 32 + addr \div 256 /\ s[i + 1] = addr % 256
    BY SMT, <2>1 DEF StandsAt
  <2>3. s[i] \div 32 = 1 /\ (s[i] % 32) \div 8 = 0 /\ s[i] % 8 = addr \div 256
    BY SMT, <2>2, <1>1, <1>2
  <2>4. (s[i] % 8) * 256 + s[i + 1] = addr
    BY SMT, <2>2, <2>3, <1>1
  <2> QED
    BY SMT, <2>1, <2>3, <2>4 DEF Read, ReadPointer, Header, PointerTag
<1>3. CASE addr >= 2048 /\ addr < 526336
  <2> DEFINE b == addr - 2048
  <2>1. c = <<40 + b \div 65536, (b \div 256) % 256, b % 256>>
    BY SMT, <1>1, <1>3 DEF PointerCode
  <2>2. s[i] = 40 + b \div 65536 /\ s[i + 1] = (b \div 256) % 256 /\ s[i + 2] = b % 256
    BY SMT, <2>1 DEF StandsAt
  <2>3. b \in Nat /\ b \div 65536 \in 0 .. 7
    BY SMT, <1>1, <1>3
  <2>4. s[i] \div 32 = 1 /\ (s[i] % 32) \div 8 = 1 /\ s[i] % 8 = b \div 65536
    BY SMT, <2>2, <2>3
  <2>5. 2048 + (s[i] % 8) * 65536 + s[i + 1] * 256 + s[i + 2] = addr
    BY SMT, <2>2, <2>3, <2>4, <1>1
  <2> QED
    BY SMT, <2>1, <2>4, <2>5 DEF Read, ReadPointer, Header, PointerTag
<1>4. CASE addr >= 526336 /\ addr < 134744064
  <2> DEFINE b == addr - 526336
  <2>1. c = <<48 + b \div 16777216, (b \div 65536) % 256, (b \div 256) % 256, b % 256>>
    BY SMT, <1>1, <1>4 DEF PointerCode
  <2>2. /\ s[i] = 48 + b \div 16777216 /\ s[i + 1] = (b \div 65536) % 256
        /\ s[i + 2] = (b \div 256) % 256 /\ s[i + 3] = b % 256
    BY SMT, <2>1 DEF StandsAt
  <2>3. b \in Nat /\ b \div 16777216 \in 0 .. 7
    BY SMT, <1>1, <1>4
  <2>4. s[i] \div 32 = 1 /\ (s[i] % 32) \div 8 = 2 /\ s[i] % 8 = b \div 16777216
    BY SMT, <2>2, <2>3
  <2>5. 526336 + (s[i] % 8) * 16777216 + s[i + 1] * 65536 + s[i + 2] * 256 + s[i + 3] = addr
    BY SMT, <2>2, <2>3, <2>4, <1>1
  <2> QED
    BY SMT, <2>1, <2>4, <2>5 DEF Read, ReadPointer, Header, PointerTag
<1>5. CASE addr >= 134744064
  <2>1. c = <<56, addr \div 16777216, (addr \div 65536) % 256, (addr \div 256) % 256, addr % 256>>
    BY SMT, <1>1, <1>5 DEF PointerCode
  <2>2. /\ s[i] = 56 /\ s[i + 1] = addr \div 16777216 /\ s[i + 2] = (addr \div 65536) % 256
        /\ s[i + 3] = (addr \div 256) % 256 /\ s[i + 4] = addr % 256
    BY SMT, <2>1 DEF StandsAt
  <2>3. s[i] \div 32 = 1 /\ (s[i] % 32) \div 8 = 3
    BY SMT, <2>2
  <2>4. s[i + 1] * 16777216 + s[i + 2] * 65536 + s[i + 3] * 256 + s[i + 4] = addr
    BY SMT, <2>2, <1>1
  <2> QED
    BY SMT, <2>1, <2>3, <2>4 DEF Read, ReadPointer, Header, PointerTag
<1> QED
  BY SMT, <1>1, <1>2, <1>3, <1>4, <1>5

(* Every field stays inside its byte. *)
LEMMA ControlIsBytes ==
    ASSUME NEW tag \in 0 .. 7 \ {PointerTag}, NEW size \in Nat
    PROVE  ControlBytes(tag, size) \in Seq(Byte) /\ Len(ControlBytes(tag, size)) \in 1 .. 4
<1>1. CASE size < 29
  <2>1. tag * 32 + size \in Byte
    BY SMT, <1>1 DEF Byte
  <2> QED
    BY SMT, <1>1, <2>1 DEF ControlBytes
<1>2. CASE size >= 29 /\ size < 285
  <2>1. tag * 32 + 29 \in Byte /\ size - 29 \in Byte
    BY SMT, <1>2 DEF Byte
  <2> QED
    BY SMT, <1>2, <2>1 DEF ControlBytes
<1>3. CASE size >= 285 /\ size < 65821
  <2>1. (size - 285) \div 256 \in Byte /\ (size - 285) % 256 \in Byte
    BY SMT, <1>3 DEF Byte
  <2>2. tag * 32 + 30 \in Byte
    BY SMT DEF Byte
  <2> QED
    BY SMT, <1>3, <2>1, <2>2 DEF ControlBytes
<1>4. CASE size >= 65821
  <2> DEFINE d == size - 65821
  <2>1. d \in Nat
    BY SMT, <1>4
  <2>2. /\ (d \div 65536) % 256 \in Byte /\ (d \div 256) % 256 \in Byte /\ d % 256 \in Byte
    BY SMT, <2>1 DEF Byte
  <2>3. tag * 32 + 31 \in Byte
    BY SMT DEF Byte
  <2>4. ControlBytes(tag, size)
          = <<tag * 32 + 31, (d \div 65536) % 256, (d \div 256) % 256, d % 256>>
    BY SMT, <1>4 DEF ControlBytes
  <2> HIDE DEF d
  <2> QED
    BY SMT, <2>2, <2>3, <2>4
<1> QED
  BY SMT, <1>1, <1>2, <1>3, <1>4

LEMMA PointerIsBytes ==
    ASSUME NEW addr \in U32
    PROVE  /\ PointerCode(addr) \in Seq(Byte)
           /\ Len(PointerCode(addr)) = PointerBytes(addr)
           /\ PointerBytes(addr) \in 2 .. 5
<1>1. addr \in Nat /\ addr \div 16777216 < 256
  BY SMT DEF U32
<1>2. CASE addr < 2048
  BY SMT, <1>1, <1>2 DEF PointerCode, PointerBytes, Byte
<1>3. CASE addr >= 2048 /\ addr < 526336
  <2> DEFINE b == addr - 2048
  <2>1. b \in Nat /\ b \div 65536 \in 0 .. 7
    BY SMT, <1>1, <1>3
  <2>2. 40 + b \div 65536 \in Byte /\ (b \div 256) % 256 \in Byte /\ b % 256 \in Byte
    BY SMT, <2>1 DEF Byte
  <2>3. PointerCode(addr) = <<40 + b \div 65536, (b \div 256) % 256, b % 256>>
    BY SMT, <1>1, <1>3 DEF PointerCode
  <2>4. PointerBytes(addr) = 3
    BY SMT, <1>1, <1>3 DEF PointerBytes
  <2> HIDE DEF b
  <2> QED
    BY SMT, <2>2, <2>3, <2>4
<1>4. CASE addr >= 526336 /\ addr < 134744064
  <2> DEFINE b == addr - 526336
  <2>1. b \in Nat /\ b \div 16777216 \in 0 .. 7
    BY SMT, <1>1, <1>4
  <2>2. /\ 48 + b \div 16777216 \in Byte /\ (b \div 65536) % 256 \in Byte
        /\ (b \div 256) % 256 \in Byte /\ b % 256 \in Byte
    BY SMT, <2>1 DEF Byte
  <2>3. PointerCode(addr)
          = <<48 + b \div 16777216, (b \div 65536) % 256, (b \div 256) % 256, b % 256>>
    BY SMT, <1>1, <1>4 DEF PointerCode
  <2>4. PointerBytes(addr) = 4
    BY SMT, <1>1, <1>4 DEF PointerBytes
  <2> HIDE DEF b
  <2> QED
    BY SMT, <2>2, <2>3, <2>4
<1>5. CASE addr >= 134744064
  <2>1. /\ addr \div 16777216 \in Byte /\ (addr \div 65536) % 256 \in Byte
        /\ (addr \div 256) % 256 \in Byte /\ addr % 256 \in Byte
    BY SMT, <1>1 DEF Byte
  <2>2. 56 \in Byte
    BY SMT DEF Byte
  <2>3. PointerCode(addr)
          = <<56, addr \div 16777216, (addr \div 65536) % 256, (addr \div 256) % 256, addr % 256>>
    BY SMT, <1>1, <1>5 DEF PointerCode
  <2>4. PointerBytes(addr) = 5
    BY SMT, <1>1, <1>5 DEF PointerBytes
  <2> QED
    BY SMT, <2>1, <2>2, <2>3, <2>4
<1> QED
  BY SMT, <1>1, <1>2, <1>3, <1>4, <1>5

-----------------------------------------------------------------------------
(***************************************************************************)
(* Headers of all types, and integers.                                     *)
(***************************************************************************)

(* What stands in a sequence, stands there part by part. *)
LEMMA StandsInParts ==
    ASSUME NEW a \in Seq(Byte), NEW b \in Seq(Byte), NEW s, NEW i \in Nat, StandsAt(s, i, a \o b)
    PROVE  StandsAt(s, i, a) /\ StandsAt(s, i + Len(a), b)
<1>1. /\ Len(a) \in Nat /\ Len(b) \in Nat /\ Len(a \o b) = Len(a) + Len(b)
      /\ \A j \in 1 .. Len(a) : (a \o b)[j] = a[j]
      /\ \A j \in 1 .. Len(b) : (a \o b)[Len(a) + j] = b[j]
  BY SMT
<1>2. StandsAt(s, i, a)
  BY SMT, <1>1 DEF StandsAt
<1>3. ASSUME NEW j \in 1 .. Len(b) PROVE s[(i + Len(a)) + j - 1] = b[j]
  <2>1. Len(a) + j \in 1 .. Len(a \o b) /\ i + (Len(a) + j) - 1 = (i + Len(a)) + j - 1
    BY SMT, <1>1
  <2>2. s[i + (Len(a) + j) - 1] = (a \o b)[Len(a) + j]
    BY <2>1 DEF StandsAt
  <2> QED
    BY <1>1, <2>1, <2>2
<1> QED
  BY <1>2, <1>3 DEF StandsAt

LEMMA HeaderIsBytes ==
    ASSUME NEW type \in 2 .. 15, NEW size \in Nat
    PROVE  HeaderBytes(type, size) \in Seq(Byte) /\ Len(HeaderBytes(type, size)) \in 1 .. 5
<1>1. CASE type < 8
  <2>1. type \in 0 .. 7 \ {PointerTag}
    BY SMT, <1>1 DEF PointerTag
  <2> QED
    BY SMT, <1>1, <2>1, ControlIsBytes DEF HeaderBytes
<1>2. CASE type >= 8
  <2>1. ExtendedTag \in 0 .. 7 \ {PointerTag} /\ type - 7 \in Byte
    BY SMT, <1>2 DEF ExtendedTag, PointerTag, Byte
  <2>2. HeaderBytes(type, size) = ControlBytes(ExtendedTag, size) \o <<type - 7>>
    BY SMT, <1>2 DEF HeaderBytes, ExtendedHeader
  <2>3. ControlBytes(ExtendedTag, size) \in Seq(Byte) /\ Len(ControlBytes(ExtendedTag, size)) \in 1 .. 4
    BY <2>1, ControlIsBytes
  <2> DEFINE c == ControlBytes(ExtendedTag, size)
  <2> HIDE DEF c
  <2>4. c \in Seq(Byte) /\ Len(c) \in 1 .. 4 /\ <<type - 7>> \in Seq(Byte) /\ Len(<<type - 7>>) = 1
    BY <2>1, <2>3 DEF c
  <2>5. c \o <<type - 7>> \in Seq(Byte) /\ Len(c \o <<type - 7>>) = Len(c) + 1
    BY SMT, <2>4
  <2>6. HeaderBytes(type, size) = c \o <<type - 7>>
    BY Zenon, <2>2 DEF c
  <2>7. Len(c) + 1 \in 1 .. 5
    <3>1. \A n \in 1 .. 4 : n + 1 \in 1 .. 5
      OBVIOUS
    <3> QED
      BY Zenon, <2>4, <3>1
  <2> QED
    BY Zenon, <2>5, <2>6, <2>7
<1> QED
  BY SMT, <1>1, <1>2

(* A header is read as its type and size: of an extended type, while the size fits in the control byte. *)
LEMMA HeaderReads ==
    ASSUME NEW type \in 2 .. 15, NEW size \in Nat,
           size < (IF type < 8 THEN SizeLimit ELSE 29),
           NEW s, NEW i \in Nat, StandsAt(s, i, HeaderBytes(type, size))
    PROVE  Read(s, i) = Header(type, size, i + Len(HeaderBytes(type, size)))
<1>1. CASE type < 8
  <2>1. type \in 2 .. 7 /\ size < SizeLimit /\ HeaderBytes(type, size) = ControlBytes(type, size)
    BY SMT, <1>1 DEF HeaderBytes
  <2> QED
    BY <2>1, ControlReads
<1>2. CASE type >= 8
  <2>1. size < 29
    BY SMT, <1>2
  <2>2. ControlBytes(ExtendedTag, size) = <<size>>
    BY SMT, <2>1 DEF ControlBytes, ExtendedTag
  <2>3. HeaderBytes(type, size) = <<size>> \o <<type - 7>>
    BY SMT, <1>2, <2>2 DEF HeaderBytes, ExtendedHeader
  <2>4. <<size>> \in Seq(Byte) /\ Len(<<size>>) = 1 /\ <<type - 7>> \in Seq(Byte) /\ Len(<<type - 7>>) = 1
    <3>1. size \in Byte /\ type - 7 \in Byte
      BY SMT, <1>2, <2>1 DEF Byte
    <3> QED
      BY SMT, <3>1
  <2>5. Len(HeaderBytes(type, size)) = 2
    BY <2>3, <2>4, ConcatProperties
  <2>6. StandsAt(s, i, <<size>>) /\ StandsAt(s, i + 1, <<type - 7>>)
    <3>1. StandsAt(s, i, <<size>> \o <<type - 7>>)
      BY Zenon, <2>3
    <3>2. StandsAt(s, i, <<size>>) /\ StandsAt(s, i + Len(<<size>>), <<type - 7>>)
      BY <2>4, <3>1, StandsInParts
    <3> QED
      BY Zenon, <2>4, <3>2
  <2>7. s[i] = size
    BY SMT, <2>6 DEF StandsAt
  <2>8. s[i + 1] = type - 7
    BY SMT, <2>6 DEF StandsAt
  <2>9. s[i] \div 32 = 0 /\ s[i] % 32 = size
    BY SMT, <2>1, <2>7
  <2>10. (type - 7) + 7 = type
    OBVIOUS
  <2>11. ExtendedTag # PointerTag /\ ExtendedTag = 0
    BY DEF PointerTag, ExtendedTag
  <2>12. Read(s, i) = ReadSize(s, i, s[i + 1] + 7, i + 2)
    BY Zenon, <2>9, <2>11 DEF Read
  <2>13. s[i + 1] + 7 = type
    BY Zenon, <2>8, <2>10
  <2>14. ReadSize(s, i, type, i + 2) = Header(type, size, i + 2)
    <3>1. s[i] % 32 < 29
      BY Zenon, <2>1, <2>9
    <3>2. ReadSize(s, i, type, i + 2) = Header(type, s[i] % 32, i + 2)
      BY SMT, <3>1 DEF ReadSize
    <3> QED
      BY Zenon, <2>9, <3>2
  <2> QED
    BY Zenon, <2>5, <2>12, <2>13, <2>14
<1> QED
  BY SMT, <1>1, <1>2

(* A nonempty set of naturals has a least element. *)
LEMMA LeastNatural ==
    ASSUME NEW T \in SUBSET Nat, T # {}
    PROVE  \E k \in T : \A j \in T : k <= j
<1> DEFINE R == OpToRel(<, Nat)
<1>1. IsWellFoundedOn(R, Nat)
  BY NatLessThanWellFounded
<1>2. R = {ss \in Nat \X Nat : ss[1] < ss[2]}
  BY DEF OpToRel
<1> HIDE DEF R
<1>3. PICK k \in T : \A j \in T : <<j, k>> \notin R
  BY <1>1, WFMin
<1>4. ASSUME NEW j \in T PROVE k <= j
  <2>1. <<j, k>> \in Nat \X Nat /\ <<j, k>>[1] = j /\ <<j, k>>[2] = k
    OBVIOUS
  <2> QED
    BY <1>2, <1>3, <2>1
<1> QED
  BY <1>4

(* The count of leading zeros is one. *)
LEMMA ZerosLead ==
    ASSUME NEW d \in Seq(Byte)
    PROVE  LeadingZeros(d) \in 0 .. Len(d) /\ \A i \in 1 .. LeadingZeros(d) : d[i] = 0
<1> DEFINE T == {i \in 1 .. Len(d) : d[i] # 0}
           Counts(z) == (\A i \in 1 .. z : d[i] = 0) /\ (z < Len(d) => d[z + 1] # 0)
<1>0. Len(d) \in Nat
  OBVIOUS
<1>1. \E z \in 0 .. Len(d) : Counts(z)
  <2>1. CASE T = {}
    <3>1. Counts(Len(d))
      BY <1>0, <2>1
    <3> QED
      BY <1>0, <3>1
  <2>2. CASE T # {}
    <3>1. T \in SUBSET Nat
      BY <1>0
    <3>2. PICK k \in T : \A j \in T : k <= j
      BY <2>2, <3>1, LeastNatural
    <3>3. k \in 1 .. Len(d) /\ d[k] # 0
      BY <3>2
    <3>4. ASSUME NEW i \in 1 .. k - 1 PROVE d[i] = 0
      <4>1. i \in 1 .. Len(d) /\ ~(k <= i)
        BY <1>0, <3>3
      <4> QED
        BY <3>2, <4>1
    <3>5. k - 1 \in 0 .. Len(d) /\ (k - 1) + 1 = k
      BY <1>0, <3>3
    <3> QED
      BY <3>3, <3>4, <3>5
  <2> QED
    BY <2>1, <2>2
<1>2. LeadingZeros(d) = CHOOSE z \in 0 .. Len(d) : Counts(z)
  BY DEF LeadingZeros
<1>3. LeadingZeros(d) \in 0 .. Len(d) /\ Counts(LeadingZeros(d))
  <2> HIDE DEF Counts
  <2> QED
    BY Zenon, <1>1, <1>2
<1> QED
  BY <1>3

(* Trimming takes the zeros from the front and nothing else. *)
LEMMA TrimmedKeeps ==
    ASSUME NEW d \in Seq(Byte)
    PROVE  /\ Trimmed(d) \in Seq(Byte)
           /\ Len(Trimmed(d)) = Len(d) - LeadingZeros(d)
           /\ \A i \in 1 .. Len(Trimmed(d)) : Trimmed(d)[i] = d[LeadingZeros(d) + i]
<1>1. PICK z \in Int : z = LeadingZeros(d) /\ z \in 0 .. Len(d)
  BY ZerosLead
<1>2. Len(d) \in Int /\ \A i \in z + 1 .. Len(d) : d[i] \in Byte
  BY <1>1
<1>3. /\ SubSeq(d, z + 1, Len(d)) \in Seq(Byte)
      /\ Len(SubSeq(d, z + 1, Len(d)))
           = IF z + 1 <= Len(d) THEN Len(d) - (z + 1) + 1 ELSE 0
      /\ \A i \in 1 .. Len(d) - (z + 1) + 1 : SubSeq(d, z + 1, Len(d))[i] = d[(z + 1) + i - 1]
  <2>1. z + 1 \in Int
    BY <1>1
  <2> QED
    BY <1>2, <2>1, SubSeqProperties
<1>4. Trimmed(d) = SubSeq(d, z + 1, Len(d))
  BY <1>1 DEF Trimmed
<1>5. Len(Trimmed(d)) = Len(d) - z
  BY <1>1, <1>2, <1>3, <1>4
<1>6. ASSUME NEW i \in 1 .. Len(Trimmed(d)) PROVE Trimmed(d)[i] = d[z + i]
  <2>1. i \in 1 .. Len(d) - (z + 1) + 1 /\ (z + 1) + i - 1 = z + i
    BY <1>1, <1>2, <1>5
  <2> QED
    BY <1>3, <1>4, <2>1
<1> QED
  BY <1>1, <1>3, <1>4, <1>5, <1>6

(* Zeros put back in front of the trimmed digits make the digits again. *)
LEMMA DigitsRead ==
    ASSUME NEW w \in Nat, NEW d \in [1 .. w -> Byte], NEW s, NEW j \in Nat,
           StandsAt(s, j, Trimmed(d))
    PROVE  ReadDigits(s, j, Len(Trimmed(d)), w) = d
<1>1. d \in Seq(Byte) /\ Len(d) = w
  BY SMT
<1>2. PICK z \in 0 .. w : z = LeadingZeros(d) /\ \A i \in 1 .. z : d[i] = 0
  BY <1>1, ZerosLead
<1>3. Len(Trimmed(d)) = w - z /\ \A i \in 1 .. w - z : Trimmed(d)[i] = d[z + i]
  BY <1>1, <1>2, TrimmedKeeps
<1>4. \A i \in 1 .. w - z : s[j + i - 1] = d[z + i]
  BY <1>3 DEF StandsAt
<1>5. ASSUME NEW i \in 1 .. w
      PROVE  (IF i <= w - (w - z) THEN 0 ELSE s[j + i - 1 - (w - (w - z))]) = d[i]
  <2>1. w - (w - z) = z
    BY <1>2
  <2>2. CASE i <= z
    BY <1>2, <2>1, <2>2
  <2>3. CASE i > z
    <3>1. i - z \in 1 .. w - z /\ z + (i - z) = i /\ j + (i - z) - 1 = j + i - 1 - z
      BY <1>2, <1>5, <2>3
    <3>2. s[j + (i - z) - 1] = d[z + (i - z)]
      BY <1>4, <3>1
    <3>3. s[j + i - 1 - z] = d[i]
      BY <3>1, <3>2
    <3>4. ~(i <= z)
      BY <1>2, <1>5, <2>3
    <3> QED
      BY <2>1, <3>3, <3>4
  <2> QED
    BY <1>2, <2>2, <2>3
<1>6. ReadDigits(s, j, Len(Trimmed(d)), w)
        = [i \in 1 .. w |-> IF i <= w - (w - z) THEN 0 ELSE s[j + i - 1 - (w - (w - z))]]
  BY Zenon, <1>3 DEF ReadDigits
<1>7. d = [i \in 1 .. w |-> d[i]]
  OBVIOUS
<1> QED
  BY Zenon, <1>5, <1>6, <1>7

-----------------------------------------------------------------------------
(***************************************************************************)
(* The inductive invariant: the section is the codes of its headers, one   *)
(* after another.  HeadersReadBack alone is not inductive: it does not say *)
(* what the bytes are that the next header must leave alone.               *)
(***************************************************************************)
HeaderRec == [at : Nat \ {0}, type : 1 .. 15, arg : Nat, digits : Seq(Byte)]

Code(h) ==
    IF h.type = PointerTag THEN PointerCode(h.arg)
    ELSE IF h.type \in IntTypes THEN HeaderBytes(h.type, h.arg) \o Trimmed(h.digits)
    ELSE HeaderBytes(h.type, h.arg)

(* What an entry says of a pointer or of an integer. *)
WellFormed(h) ==
    /\ h.type = PointerTag => h.arg \in U32
    /\ h.type \in IntTypes =>
           h.digits \in [1 .. Width(h.type) -> Byte] /\ h.arg = Len(Trimmed(h.digits))

Typed ==
    /\ bytes \in Seq(Byte)
    /\ headers \in Seq(HeaderRec)
    /\ Len(headers) <= MaxHeaders
    /\ \A k \in DOMAIN headers : WellFormed(headers[k])

Laid ==
    \A k \in DOMAIN headers :
        /\ EndOf(k) = headers[k].at + Len(Code(headers[k]))
        /\ EndOf(k) <= Len(bytes) + 1
        /\ StandsAt(bytes, headers[k].at, Code(headers[k]))

IInv == Typed /\ Laid

LEMMA InitIInv == Init => IInv
BY WireAssumption DEF Init, IInv, Typed, Laid

(* An entry's code is made of bytes. *)
LEMMA CodeIsBytes ==
    ASSUME NEW h \in HeaderRec, WellFormed(h)
    PROVE  Code(h) \in Seq(Byte)
<1>0. h.type \in 1 .. 15 /\ h.arg \in Nat /\ h.digits \in Seq(Byte)
  BY DEF HeaderRec
<1>1. CASE h.type = PointerTag
  BY <1>1, PointerIsBytes DEF Code, WellFormed
<1>2. CASE h.type # PointerTag
  <2>1. h.type \in 2 .. 15
    BY <1>0, <1>2 DEF PointerTag
  <2>2. HeaderBytes(h.type, h.arg) \in Seq(Byte) /\ Trimmed(h.digits) \in Seq(Byte)
    BY <1>0, <2>1, HeaderIsBytes, TrimmedKeeps
  <2>3. HeaderBytes(h.type, h.arg) \o Trimmed(h.digits) \in Seq(Byte)
    BY <2>2, ConcatProperties
  <2> QED
    BY <1>2, <2>2, <2>3 DEF Code
<1> QED
  BY <1>1, <1>2

(* A header is laid down behind the ones that are there. *)
LEMMA EmitIInv ==
    ASSUME IInv, NEW h \in HeaderRec, h.at = Len(bytes) + 1,
           WellFormed(h),
           Emit(Code(h), h)
    PROVE  IInv'
<1> DEFINE c == Code(h)
<1>0. PICK n \in Nat : n = Len(headers)
  BY DEF IInv, Typed
<1>1. bytes \in Seq(Byte) /\ headers \in Seq(HeaderRec) /\ c \in Seq(Byte) /\ n = Len(headers)
  BY <1>0, CodeIsBytes DEF IInv, Typed
<1>2. bytes' = bytes \o c /\ headers' = Append(headers, h) /\ n < MaxHeaders
  BY <1>0 DEF Emit
<1> HIDE DEF c
<1>3. /\ bytes' \in Seq(Byte) /\ Len(bytes') = Len(bytes) + Len(c)
      /\ \A i \in 1 .. Len(bytes) : bytes'[i] = bytes[i]
      /\ \A j \in 1 .. Len(c) : bytes'[Len(bytes) + j] = c[j]
  BY <1>0, <1>1, <1>2
<1>4. /\ headers' \in Seq(HeaderRec) /\ Len(headers') = n + 1
      /\ \A k \in 1 .. n : headers'[k] = headers[k]
      /\ headers'[n + 1] = h
  BY <1>0, <1>1, <1>2
<1>5. Typed'
  <2>1. ASSUME NEW k \in DOMAIN headers'
        PROVE  WellFormed(headers'[k])
    <3>1. CASE k \in 1 .. n
      BY <1>0, <1>1, <1>4, <2>1, <3>1 DEF IInv, Typed
    <3>2. CASE k = n + 1
      BY <1>0, <1>4, <2>1, <3>2
    <3>3. k \in 1 .. n + 1
      BY <1>0, <1>4
    <3> QED
      BY <1>0, <3>1, <3>2, <3>3
  <2>2. Len(headers') <= MaxHeaders
    BY <1>0, <1>1, <1>2, <1>4, WireAssumption
  <2> QED
    BY <1>3, <1>4, <2>1, <2>2 DEF Typed
<1>6. ASSUME NEW k \in 1 .. n
      PROVE  /\ EndOf(k)' = headers'[k].at + Len(Code(headers'[k]))
             /\ EndOf(k)' <= Len(bytes') + 1
             /\ StandsAt(bytes', headers'[k].at, Code(headers'[k]))
  <2>0. headers[k] \in HeaderRec
    BY <1>0, <1>1, <1>6
  <2>1. /\ EndOf(k) = headers[k].at + Len(Code(headers[k]))
        /\ EndOf(k) <= Len(bytes) + 1
        /\ StandsAt(bytes, headers[k].at, Code(headers[k]))
    BY <1>0, <1>1, <1>6 DEF IInv, Laid
  <2>2. EndOf(k)' = EndOf(k)
    <3>1. CASE k < n
      <4>1. k + 1 \in 1 .. n /\ k < Len(headers') /\ k < Len(headers)
        BY <1>0, <1>1, <1>4, <3>1
      <4>2. headers'[k + 1] = headers[k + 1]
        BY <1>4, <4>1
      <4> QED
        BY <4>1, <4>2 DEF EndOf
    <3>2. CASE k = n
      <4>1. EndOf(k) = Len(bytes) + 1
        BY <1>0, <1>1, <3>2 DEF EndOf
      <4>2. EndOf(k)' = h.at
        BY <1>0, <1>1, <3>2, <1>4 DEF EndOf
      <4> QED
        BY <4>1, <4>2
    <3> QED
      BY <1>0, <3>1, <3>2, <1>6
  <2>3. headers'[k] = headers[k] /\ headers[k].at \in Nat \ {0}
    BY <1>0, <1>4, <1>6, <2>0 DEF HeaderRec
  <2>4. Len(c) \in Nat /\ Len(bytes) \in Nat
    BY <1>0, <1>1
  <2>5. StandsAt(bytes', headers[k].at, Code(headers[k]))
    <3> DEFINE d == Code(headers[k])
               a == headers[k].at
    <3>1. Len(d) \in Nat
      <4>1. WellFormed(headers[k])
        BY <1>0, <1>1, <1>6 DEF IInv, Typed
      <4> QED
        BY <2>0, <4>1, CodeIsBytes
    <3>2. a + Len(d) <= Len(bytes) + 1 /\ StandsAt(bytes, a, d)
      BY <2>1
    <3>3. a \in Nat \ {0}
      BY <2>3
    <3> HIDE DEF a, d
    <3>4. \A j \in 1 .. Len(d) : a + j - 1 \in 1 .. Len(bytes)
      BY <3>1, <3>2, <3>3, <2>4
    <3>5. StandsAt(bytes', a, d)
      BY <3>2, <3>4, <1>3 DEF StandsAt
    <3> QED
      BY <3>5 DEF a, d
  <2>6. EndOf(k) <= Len(bytes') + 1
    <3>1. EndOf(k) <= Len(bytes) + 1 /\ Len(bytes') = Len(bytes) + Len(c)
      BY <2>1, <1>3
    <3>2. EndOf(k) \in Int
      <4>1. CASE k < n
        <5>1. headers[k + 1] \in HeaderRec
          BY <1>0, <1>1, <1>6, <4>1
        <5> QED
          BY <1>1, <4>1, <5>1 DEF EndOf, HeaderRec
      <4>2. CASE ~(k < n)
        BY <1>1, <2>4, <4>2 DEF EndOf
      <4> QED
        BY <4>1, <4>2
    <3> QED
      BY <3>1, <3>2, <2>4
  <2> QED
    BY <2>1, <2>2, <2>3, <2>5, <2>6
<1>7. /\ EndOf(n + 1)' = headers'[n + 1].at + Len(Code(headers'[n + 1]))
      /\ EndOf(n + 1)' <= Len(bytes') + 1
      /\ StandsAt(bytes', headers'[n + 1].at, Code(headers'[n + 1]))
  <2>1. EndOf(n + 1)' = Len(bytes') + 1
    BY <1>0, <1>1, <1>4 DEF EndOf
  <2>2. Len(c) \in Nat /\ Len(bytes) \in Nat
    BY <1>0, <1>1
  <2>3. \A j \in 1 .. Len(c) : bytes'[h.at + j - 1] = c[j]
    <3> SUFFICES ASSUME NEW j \in 1 .. Len(c) PROVE bytes'[h.at + j - 1] = c[j]
      OBVIOUS
    <3>1. h.at + j - 1 = Len(bytes) + j
      BY <2>2
    <3> QED
      BY <3>1, <1>3
  <2>4. Code(headers'[n + 1]) = c /\ headers'[n + 1].at = Len(bytes) + 1
    BY <1>0, <1>4 DEF c
  <2>5. StandsAt(bytes', headers'[n + 1].at, c)
    BY <2>3, <1>4 DEF StandsAt
  <2> QED
    BY <2>1, <2>2, <2>4, <2>5, <1>3
<1>8. Laid'
  <2>1. DOMAIN headers' = 1 .. n + 1
    BY <1>0, <1>4
  <2> SUFFICES ASSUME NEW k \in 1 .. n + 1
               PROVE  /\ EndOf(k)' = headers'[k].at + Len(Code(headers'[k]))
                      /\ EndOf(k)' <= Len(bytes') + 1
                      /\ StandsAt(bytes', headers'[k].at, Code(headers'[k]))
    BY <2>1 DEF Laid
  <2>2. CASE k \in 1 .. n
    BY <1>6, <2>2
  <2>3. CASE k = n + 1
    BY <1>7, <2>3 DEF EndOf
  <2>4. k \in 1 .. n \/ k = n + 1
    BY <1>0, <1>1
  <2> QED
    BY <2>2, <2>3, <2>4
<1> QED
  BY <1>5, <1>8 DEF IInv

LEMMA StepIInv == IInv /\ [Next]_vars => IInv'
<1> SUFFICES ASSUME IInv, [Next]_vars PROVE IInv'
  OBVIOUS
<1>0. Len(bytes) \in Nat
  BY DEF IInv, Typed
<1>1. ASSUME NEW tag \in Tags, NEW size \in Sizes, WriteControlByte(tag, size)
      PROVE  IInv'
  <2> DEFINE h == Entry(tag, size, << >>)
  <2>1. tag \in 2 .. 7 /\ tag \notin IntTypes /\ size \in Nat
    BY WireAssumption DEF IntTypes
  <2>2. h \in HeaderRec /\ h.at = Len(bytes) + 1 /\ WellFormed(h) /\ Code(h) = HeaderBytes(tag, size)
    BY <1>0, <2>1 DEF HeaderRec, Entry, WellFormed, Code, PointerTag
  <2>3. Emit(Code(h), h)
    BY <1>1, <2>2 DEF WriteControlByte
  <2> HIDE DEF h
  <2> QED
    BY <2>2, <2>3, EmitIInv
<1>2. ASSUME NEW ext \in Extensions, NEW size \in Sizes, WriteExtendedHeader(ext, size)
      PROVE  IInv'
  <2> DEFINE h == Entry(ext + 7, size, << >>)
  <2>1. ext + 7 \in 8 .. 15 /\ ext + 7 \notin IntTypes /\ size \in Nat
    BY WireAssumption DEF IntTypes
  <2>2. h \in HeaderRec /\ h.at = Len(bytes) + 1 /\ WellFormed(h) /\ Code(h) = HeaderBytes(ext + 7, size)
    BY <1>0, <2>1 DEF HeaderRec, Entry, WellFormed, Code, PointerTag
  <2>3. Emit(Code(h), h)
    BY <1>2, <2>2 DEF WriteExtendedHeader
  <2> HIDE DEF h
  <2> QED
    BY <2>2, <2>3, EmitIInv
<1>3. ASSUME NEW n \in Numbers, WriteInteger(n)
      PROVE  IInv'
  <2> DEFINE h == Entry(n.type, Len(Trimmed(n.digits)), n.digits)
  <2>1. n.type \in IntTypes /\ n.digits \in [1 .. Width(n.type) -> Byte]
    BY WireAssumption DEF IsNumber
  <2>2. n.type \in 2 .. 15 /\ Width(n.type) \in Nat
    BY <2>1 DEF IntTypes, Width
  <2>3. n.digits \in Seq(Byte)
    BY <2>1, <2>2
  <2>4. Len(Trimmed(n.digits)) \in Nat
    BY <2>3, TrimmedKeeps
  <2>5. h \in HeaderRec /\ h.at = Len(bytes) + 1 /\ WellFormed(h)
    <3>1. /\ h.at = Len(bytes) + 1 /\ h.type = n.type /\ h.arg = Len(Trimmed(n.digits))
          /\ h.digits = n.digits
      BY DEF Entry
    <3>2. WellFormed(h)
      <4> HIDE DEF h
      <4> QED
        BY SMTT(20), <2>1, <2>2, <3>1 DEF WellFormed, PointerTag
    <3>3. h = [at |-> Len(bytes) + 1, type |-> n.type, arg |-> Len(Trimmed(n.digits)), digits |-> n.digits]
      BY DEF Entry
    <3>4. Len(bytes) + 1 \in Nat \ {0} /\ n.type \in 1 .. 15
      BY <1>0, <2>2
    <3>5. h \in HeaderRec
      <4> HIDE DEF h
      <4> QED
        BY <2>3, <2>4, <3>3, <3>4 DEF HeaderRec
    <3> QED
      BY <3>1, <3>2, <3>5
  <2>6. Code(h) = HeaderBytes(n.type, Len(Trimmed(n.digits))) \o Trimmed(n.digits)
    <3>1. h.type = n.type /\ h.arg = Len(Trimmed(n.digits)) /\ h.digits = n.digits
      BY DEF Entry
    <3>2. n.type # PointerTag
      BY <2>2 DEF PointerTag
    <3> HIDE DEF h
    <3> QED
      BY Zenon, <2>1, <3>1, <3>2 DEF Code
  <2>7. Emit(Code(h), h)
    BY <1>3, <2>6 DEF WriteInteger
  <2> HIDE DEF h
  <2> QED
    BY <2>5, <2>7, EmitIInv
<1>4. ASSUME NEW offset \in Offsets, WritePointer(offset)
      PROVE  IInv'
  <2> DEFINE h == Entry(PointerTag, offset, << >>)
  <2>1. offset \in U32 /\ offset \in Nat
    BY WireAssumption DEF U32
  <2>2. h \in HeaderRec /\ h.at = Len(bytes) + 1 /\ WellFormed(h) /\ Code(h) = PointerCode(offset)
    BY <1>0, <2>1 DEF HeaderRec, Entry, WellFormed, Code, PointerTag, IntTypes
  <2>3. Emit(Code(h), h)
    BY <1>4, <2>2 DEF WritePointer
  <2> HIDE DEF h
  <2> QED
    BY <2>2, <2>3, EmitIInv
<1>5. CASE UNCHANGED vars
  <2>1. bytes' = bytes /\ headers' = headers
    BY <1>5 DEF vars
  <2>2. Typed'
    BY <2>1 DEF IInv, Typed, WellFormed
  <2>3. Laid'
    BY <2>1 DEF IInv, Laid, EndOf, StandsAt, Code
  <2> QED
    BY <2>2, <2>3 DEF IInv
<1> QED
  BY <1>1, <1>2, <1>3, <1>4, <1>5 DEF Next

(* What the invariant says of one entry. *)
LEMMA EntryLaid ==
    ASSUME IInv, NEW k \in DOMAIN headers
    PROVE  /\ headers[k].at \in Nat \ {0} /\ headers[k].type \in 1 .. 15
           /\ headers[k].arg \in Nat /\ headers[k].digits \in Seq(Byte)
           /\ WellFormed(headers[k])
           /\ EndOf(k) = headers[k].at + Len(Code(headers[k]))
           /\ StandsAt(bytes, headers[k].at, Code(headers[k]))
<1>1. headers[k] \in HeaderRec
  BY DEF IInv, Typed
<1> QED
  BY <1>1 DEF IInv, Typed, Laid, HeaderRec

(* An integer's header reads back, and its digits stand behind it. *)
LEMMA IntegerLaid ==
    ASSUME IInv, NEW k \in DOMAIN headers, headers[k].type \in IntTypes
    PROVE  LET h == headers[k]
               j == h.at + Len(HeaderBytes(h.type, h.arg))
           IN  /\ Read(bytes, h.at) = Header(h.type, h.arg, j)
               /\ StandsAt(bytes, j, Trimmed(h.digits))
               /\ EndOf(k) = j + h.arg /\ j \in Nat
<1> DEFINE h == headers[k]
           a == HeaderBytes(h.type, h.arg)
           b == Trimmed(h.digits)
<1>1. /\ h.at \in Nat \ {0} /\ h.arg \in Nat /\ h.digits \in Seq(Byte) /\ WellFormed(h)
      /\ EndOf(k) = h.at + Len(Code(h)) /\ StandsAt(bytes, h.at, Code(h))
  BY EntryLaid
<1>2. h.type \in 2 .. 15 /\ h.type # PointerTag /\ Width(h.type) \in 0 .. 16
  BY DEF IntTypes, PointerTag, Width
<1>3. Code(h) = a \o b
  BY <1>2 DEF Code
<1>4. a \in Seq(Byte) /\ Len(a) \in 1 .. 5 /\ b \in Seq(Byte) /\ Len(b) = Len(h.digits) - LeadingZeros(h.digits)
  BY <1>1, <1>2, HeaderIsBytes, TrimmedKeeps
<1>5. h.arg = Len(b) /\ h.arg < 29
  <2>1. h.digits \in [1 .. Width(h.type) -> Byte] /\ h.arg = Len(b)
    BY <1>1 DEF WellFormed
  <2>2. Len(h.digits) = Width(h.type)
    <3>1. PICK w \in Nat : w = Width(h.type)
      BY <1>2
    <3>2. PICK d \in Seq(Byte) : d = h.digits /\ d \in [1 .. w -> Byte]
      BY <1>1, <2>1, <3>1
    <3>3. DOMAIN d = 1 .. w /\ DOMAIN d = 1 .. Len(d) /\ Len(d) \in Nat
      BY <3>2
    <3>4. Len(d) = w
      BY SMT, <3>1, <3>3
    <3> QED
      BY <3>1, <3>2, <3>4
  <2>3. LeadingZeros(h.digits) \in 0 .. Len(h.digits)
    BY <1>1, ZerosLead
  <2> HIDE DEF h, b
  <2>4. ASSUME NEW w \in 0 .. 16, NEW z \in 0 .. w PROVE w - z < 29
    OBVIOUS
  <2>5. Len(b) = Width(h.type) - LeadingZeros(h.digits)
    BY Zenon, <1>4, <2>2
  <2> QED
    BY Zenon, <1>2, <2>1, <2>2, <2>3, <2>4, <2>5
<1>6. StandsAt(bytes, h.at, a) /\ StandsAt(bytes, h.at + Len(a), b)
  BY <1>1, <1>3, <1>4, StandsInParts
<1>7. h.arg < (IF h.type < 8 THEN SizeLimit ELSE 29)
  BY <1>2, <1>5 DEF SizeLimit
<1>8. Read(bytes, h.at) = Header(h.type, h.arg, h.at + Len(a))
  BY <1>1, <1>2, <1>6, <1>7, HeaderReads
<1>9. EndOf(k) = h.at + Len(a) + h.arg /\ h.at + Len(a) \in Nat
  <2>1. Len(a \o b) = Len(a) + Len(b)
    BY <1>4, ConcatProperties
  <2> QED
    BY <1>1, <1>3, <1>4, <1>5, <2>1
<1> QED
  BY <1>6, <1>8, <1>9

(***************************************************************************)
(* Every pointer and every header of a size the format can hold reads back *)
(* as it was written, whatever is written before and after it.             *)
(***************************************************************************)
LEMMA LaidReadsBack == IInv => HeadersReadBack
<1> SUFFICES ASSUME IInv, NEW k \in DOMAIN headers, Holds(headers[k])
             PROVE  ReadBack(headers[k], EndOf(k))
  BY DEF HeadersReadBack
<1> DEFINE h == headers[k]
<1>1. /\ h.at \in Nat /\ h.type \in 1 .. 15 /\ h.arg \in Nat /\ WellFormed(h)
      /\ EndOf(k) = h.at + Len(Code(h)) /\ StandsAt(bytes, h.at, Code(h))
  BY EntryLaid
<1>2. CASE h.type = PointerTag
  <2>1. Code(h) = PointerCode(h.arg) /\ h.arg \in U32 /\ h.type \notin IntTypes
    BY <1>1, <1>2 DEF Code, WellFormed, PointerTag, IntTypes
  <2>2. Read(bytes, h.at) = Header(h.type, h.arg, EndOf(k))
    BY <1>1, <1>2, <2>1, PointerReads
  <2>3. EndOf(k) - 0 = EndOf(k)
    <3>1. Len(PointerCode(h.arg)) \in Nat
      BY <2>1, PointerIsBytes
    <3> QED
      BY <1>1, <2>1, <3>1
  <2> QED
    BY <2>1, <2>2, <2>3 DEF ReadBack
<1>3. CASE h.type \in IntTypes
  <2> DEFINE j == h.at + Len(HeaderBytes(h.type, h.arg))
  <2>1. Read(bytes, h.at) = Header(h.type, h.arg, j) /\ EndOf(k) = j + h.arg /\ j \in Nat
    BY <1>3, IntegerLaid
  <2> HIDE DEF j
  <2>2. EndOf(k) - h.arg = j
    BY <1>1, <2>1
  <2> QED
    BY <1>3, <2>1, <2>2 DEF ReadBack
<1>4. CASE h.type # PointerTag /\ h.type \notin IntTypes
  <2>1. Code(h) = HeaderBytes(h.type, h.arg) /\ h.type \in 2 .. 15
    BY <1>1, <1>4 DEF Code, PointerTag
  <2>2. h.arg < (IF h.type < 8 THEN SizeLimit ELSE 29)
    BY <1>4 DEF Holds
  <2>3. Read(bytes, h.at) = Header(h.type, h.arg, EndOf(k))
    BY <1>1, <2>1, <2>2, HeaderReads
  <2>4. EndOf(k) - 0 = EndOf(k)
    <3>1. Len(HeaderBytes(h.type, h.arg)) \in Nat
      BY <1>1, <2>1, HeaderIsBytes
    <3> QED
      BY <1>1, <2>1, <3>1
  <2> QED
    BY <1>4, <2>3, <2>4 DEF ReadBack
<1> QED
  BY <1>2, <1>3, <1>4

LEMMA LaidNumbers == IInv => NumbersReadBack
<1> SUFFICES ASSUME IInv, NEW k \in DOMAIN headers, headers[k].type \in IntTypes
             PROVE  ReadDigits(bytes, Read(bytes, headers[k].at).next, Read(bytes, headers[k].at).arg,
                               Width(headers[k].type)) = headers[k].digits
  BY Zenon DEF NumbersReadBack
<1> DEFINE h == headers[k]
           j == h.at + Len(HeaderBytes(h.type, h.arg))
<1>1. Read(bytes, h.at) = Header(h.type, h.arg, j) /\ StandsAt(bytes, j, Trimmed(h.digits)) /\ j \in Nat
  BY IntegerLaid
<1>2. h.digits \in [1 .. Width(h.type) -> Byte] /\ h.arg = Len(Trimmed(h.digits))
  BY EntryLaid DEF WellFormed
<1>3. Width(h.type) \in Nat
  BY DEF IntTypes, Width
<1>4. Read(bytes, h.at).next = j /\ Read(bytes, h.at).arg = h.arg
  BY <1>1 DEF Header
<1> HIDE DEF j, h
<1>5. ReadDigits(bytes, j, Len(Trimmed(h.digits)), Width(h.type)) = h.digits
  BY <1>1, <1>2, <1>3, DigitsRead
<1> QED
  BY <1>2, <1>4, <1>5 DEF h

(* HeadersReadBack, for every choice of sizes, offsets and number of headers. *)
THEOREM ReadsBack == Spec => []HeadersReadBack
<1>1. Init => IInv
  BY InitIInv
<1>2. IInv /\ [Next]_vars => IInv'
  BY StepIInv
<1>3. IInv => HeadersReadBack
  BY LaidReadsBack
<1> QED
  BY <1>1, <1>2, <1>3, PTL DEF Spec

(***************************************************************************)
(* Every integer of every width reads back: what trimming takes are zeros, *)
(* which the reader puts back, and never a byte of a negative number.      *)
(***************************************************************************)
THEOREM NumbersKept == Spec => []NumbersReadBack
BY InitIInv, StepIInv, LaidNumbers, PTL DEF Spec

(* Only bytes are ever written. *)
THEOREM WritesBytes == Spec => []TypeOK
<1>1. IInv => TypeOK
  BY DEF IInv, Typed, TypeOK
<1> QED
  BY <1>1, InitIInv, StepIInv, PTL DEF Spec

(* A pointer costs what pointer_bytes said it would, in every class. *)
THEOREM Priced == Spec => []PricedExactly
<1>1. IInv => PricedExactly
  <2> SUFFICES ASSUME IInv, NEW k \in DOMAIN headers, headers[k].type = PointerTag
               PROVE  EndOf(k) - headers[k].at = PointerBytes(headers[k].arg)
    BY DEF PricedExactly
  <2>1. headers[k].at \in Nat /\ headers[k].arg \in U32
    BY EntryLaid DEF WellFormed
  <2>2. EndOf(k) = headers[k].at + Len(PointerCode(headers[k].arg))
    BY EntryLaid DEF Code
  <2>3. /\ Len(PointerCode(headers[k].arg)) = PointerBytes(headers[k].arg)
        /\ PointerBytes(headers[k].arg) \in 2 .. 5
    BY <2>1, PointerIsBytes
  <2> QED
    BY <2>1, <2>2, <2>3
<1> QED
  BY <1>1, InitIInv, StepIInv, PTL DEF Spec

-----------------------------------------------------------------------------
(***************************************************************************)
(* The node section reads back in every record size, for every tree and    *)
(* every record that encode_record lets through, up to the last of 2^32,   *)
(* which is out of reach of TLC's integers.                                *)
(***************************************************************************)

(* A record is its four bytes. *)
LEMMA BytesHold ==
    ASSUME NEW n \in Nat
    PROVE  /\ High(n) \in Nat
           /\ (n \div 65536) % 256 \in Octet /\ (n \div 256) % 256 \in Octet /\ n % 256 \in Octet
           /\ Record(High(n), (n \div 65536) % 256, (n \div 256) % 256, n % 256) = n
<1>1. /\ n \div 16777216 \in Nat /\ n \div 65536 \in Nat /\ n \div 256 \in Nat
  BY SMT
<1>2. (n \div 65536) % 256 = n \div 65536 - 256 * (n \div 16777216)
  BY SMT, <1>1
<1>3. (n \div 256) % 256 = n \div 256 - 256 * (n \div 65536)
  BY SMT, <1>1
<1>4. n % 256 = n - 256 * (n \div 256)
  BY SMT, <1>1
<1>5. /\ (n \div 65536) % 256 \in Octet /\ (n \div 256) % 256 \in Octet /\ n % 256 \in Octet
  <2>1. \A q \in Nat : q % 256 \in Octet
    BY SMT DEF Octet
  <2> QED
    BY <1>1, <2>1
<1>6. (n \div 16777216) * 16777216 + ((n \div 65536) % 256) * 65536
           + ((n \div 256) % 256) * 256 + (n % 256) = n
  BY SMT, <1>1, <1>2, <1>3, <1>4
<1> QED
  BY SMT, <1>1, <1>5, <1>6 DEF High, Record

(* Two halves of a byte come apart again. *)
LEMMA HalvesHold ==
    ASSUME NEW a \in Nat, a < 16, NEW b \in Nat, b < 16
    PROVE  /\ (a % 16) * 16 + (b % 16) \in Octet
           /\ ((a % 16) * 16 + (b % 16)) \div 16 = a
           /\ ((a % 16) * 16 + (b % 16)) % 16 = b
<1>1. a % 16 = a /\ b % 16 = b
  BY SMT
<1>2. a * 16 + b \in Octet
  BY SMT DEF Octet
<1>3. (a * 16 + b) \div 16 = a /\ (a * 16 + b) % 16 = b
  BY SMT
<1> QED
  BY <1>1, <1>2, <1>3

(* Where the bytes of a node agree, its records do. *)
LEMMA SameBytes ==
    ASSUME NEW s \in RecordSizes, NEW o, NEW p, NEW j \in Nat, NEW k \in Nat,
           \A i \in 1 .. NodeLength(s) : o[j + i] = p[k + i]
    PROVE  /\ LeftRecord(o, j, s) = LeftRecord(p, k, s)
           /\ RightRecord(o, j, s) = RightRecord(p, k, s)
<1>1. CASE s = 24
  BY SMT, <1>1 DEF LeftRecord, RightRecord, NodeLength
<1>2. CASE s = 28
  BY SMT, <1>2 DEF LeftRecord, RightRecord, NodeLength
<1>3. CASE s = 32
  BY SMT, <1>3 DEF LeftRecord, RightRecord, NodeLength
<1> QED
  BY <1>1, <1>2, <1>3 DEF RecordSizes

(* A node takes the bytes that node_bytes says, and both records read back from them. *)
LEMMA PairReads ==
    ASSUME NEW s \in RecordSizes, NEW l \in Encodable(s), NEW r \in Encodable(s)
    PROVE  /\ RecordPair(l, r, s) \in [1 .. NodeLength(s) -> Octet]
           /\ LeftRecord(RecordPair(l, r, s), 0, s) = l
           /\ RightRecord(RecordPair(l, r, s), 0, s) = r
<1> DEFINE c == RecordPair(l, r, s)
           l1 == (l \div 65536) % 256
           l2 == (l \div 256) % 256
           l3 == l % 256
           r1 == (r \div 65536) % 256
           r2 == (r \div 256) % 256
           r3 == r % 256
           lh == High(l)
           rh == High(r)
<1>1. /\ l \in Nat /\ lh < HighEnd(s)
      /\ r \in Nat /\ rh < HighEnd(s)
  BY DEF Encodable
<1>2. /\ lh \in Nat /\ l1 \in Octet /\ l2 \in Octet /\ l3 \in Octet /\ Record(lh, l1, l2, l3) = l
      /\ rh \in Nat /\ r1 \in Octet /\ r2 \in Octet /\ r3 \in Octet /\ Record(rh, r1, r2, r3) = r
  BY <1>1, BytesHold
<1>3. c = IF s = 24 THEN <<l1, l2, l3, r1, r2, r3>>
          ELSE IF s = 28 THEN <<l1, l2, l3, (lh % 16) * 16 + (rh % 16), r1, r2, r3>>
          ELSE <<lh % 256, l1, l2, l3, rh % 256, r1, r2, r3>>
  BY DEF RecordPair
<1> HIDE DEF c, l1, l2, l3, r1, r2, r3, lh, rh
<1>5. CASE s = 24
  <2>1. c = <<l1, l2, l3, r1, r2, r3>> /\ NodeLength(s) = 6
    BY SMT, <1>3, <1>5 DEF NodeLength
  <2>2. lh = 0 /\ rh = 0
    BY SMT, <1>1, <1>2, <1>5 DEF HighEnd
  <2>3. c \in [1 .. 6 -> Octet]
    BY SMT, <1>2, <2>1
  <2>4. /\ c[1] = l1 /\ c[2] = l2 /\ c[3] = l3
        /\ c[4] = r1 /\ c[5] = r2 /\ c[6] = r3
    BY SMT, <2>1
  <2>5. LeftRecord(c, 0, s) = Record(lh, l1, l2, l3) /\ RightRecord(c, 0, s) = Record(rh, r1, r2, r3)
    BY SMT, <1>5, <2>2, <2>4 DEF LeftRecord, RightRecord
  <2> QED
    BY <1>2, <2>1, <2>3, <2>5 DEF c
<1>6. CASE s = 28
  <2> DEFINE m == (lh % 16) * 16 + (rh % 16)
  <2>1. c = <<l1, l2, l3, m, r1, r2, r3>> /\ NodeLength(s) = 7
    BY SMT, <1>3, <1>6 DEF NodeLength
  <2>2. m \in Octet /\ m \div 16 = lh /\ m % 16 = rh
    <3>1. lh < 16 /\ rh < 16
      BY SMT, <1>1, <1>6 DEF HighEnd
    <3> QED
      BY <1>2, <3>1, HalvesHold
  <2> HIDE DEF m
  <2>3. c \in [1 .. 7 -> Octet]
    BY SMT, <1>2, <2>1, <2>2
  <2>4. /\ c[1] = l1 /\ c[2] = l2 /\ c[3] = l3 /\ c[4] = m
        /\ c[5] = r1 /\ c[6] = r2 /\ c[7] = r3
    BY SMT, <2>1
  <2>5. LeftRecord(c, 0, s) = Record(lh, l1, l2, l3) /\ RightRecord(c, 0, s) = Record(rh, r1, r2, r3)
    <3>1. s # 24
      BY SMT, <1>6
    <3> QED
      BY SMT, <1>6, <2>2, <2>4, <3>1 DEF LeftRecord, RightRecord
  <2> QED
    BY <1>2, <2>1, <2>3, <2>5 DEF c
<1>7. CASE s = 32
  <2>1. c = <<lh % 256, l1, l2, l3, rh % 256, r1, r2, r3>> /\ NodeLength(s) = 8
    BY SMT, <1>3, <1>7 DEF NodeLength
  <2>2. lh % 256 = lh /\ rh % 256 = rh /\ lh \in Octet /\ rh \in Octet
    BY SMT, <1>1, <1>2, <1>7 DEF HighEnd, Octet
  <2>3. c \in [1 .. 8 -> Octet]
    BY SMT, <1>2, <2>1, <2>2
  <2>4. /\ c[1] = lh /\ c[2] = l1 /\ c[3] = l2 /\ c[4] = l3
        /\ c[5] = rh /\ c[6] = r1 /\ c[7] = r2 /\ c[8] = r3
    BY SMT, <2>1, <2>2
  <2>5. LeftRecord(c, 0, s) = Record(lh, l1, l2, l3) /\ RightRecord(c, 0, s) = Record(rh, r1, r2, r3)
    <3>1. s # 24 /\ s # 28
      BY SMT, <1>7
    <3> QED
      BY SMT, <2>4, <3>1 DEF LeftRecord, RightRecord
  <2> QED
    BY <1>2, <2>1, <2>3, <2>5 DEF c
<1> QED
  BY SMT, <1>5, <1>6, <1>7 DEF RecordSizes

-----------------------------------------------------------------------------
(* A node goes behind the nodes that are there, which stay where they are. *)
LEMMA WriteNodeKeeps ==
    ASSUME NodesAligned, NodesReadBack, NEW l \in Nat, NEW r \in Nat, WriteNode(l, r)
    PROVE  NodesAligned' /\ NodesReadBack'
<1> DEFINE c == RecordPair(l, r, recordSize)
           n == NodeLength(recordSize)
<1>1. /\ recordSize \in RecordSizes /\ recordSize' = recordSize /\ failed' \in BOOLEAN
      /\ l \in Encodable(recordSize) /\ r \in Encodable(recordSize)
      /\ nodes \in Seq(Nat \X Nat) /\ nodes' = Append(nodes, <<l, r>>)
      /\ out \in Seq(Octet) /\ out' = out \o c /\ Len(out) = Len(nodes) * n
  BY DEF NodesAligned, WriteNode
<1>2. n \in {6, 7, 8}
  BY DEF NodeLength
<1>3. c \in [1 .. n -> Octet]
  BY <1>1, PairReads
<1> HIDE DEF c, n
<1>4. c \in Seq(Octet) /\ Len(c) = n
  BY SMT, <1>2, <1>3
<1>5. /\ out' \in Seq(Octet) /\ Len(out') = Len(out) + n
      /\ \A i \in 1 .. Len(out) : out'[i] = out[i]
      /\ \A i \in 1 .. n : out'[Len(out) + i] = c[i]
  <2>1. /\ out' \in Seq(Octet) /\ Len(out') = Len(out) + n
        /\ \A i \in 1 .. Len(out) + n :
              out'[i] = IF i <= Len(out) THEN out[i] ELSE c[i - Len(out)]
    BY <1>1, <1>4, ConcatProperties
  <2>2. Len(out) \in Nat /\ \A i \in 1 .. Len(out) : i <= Len(out) /\ i \in 1 .. Len(out) + n
    BY SMT, <1>1, <1>2
  <2>3. \A i \in 1 .. n : /\ Len(out) + i \in 1 .. Len(out) + n
                          /\ ~(Len(out) + i <= Len(out)) /\ Len(out) + i - Len(out) = i
    BY SMT, <1>2, <2>2
  <2> QED
    BY <2>1, <2>2, <2>3
<1>6. /\ nodes' \in Seq(Nat \X Nat) /\ Len(nodes') = Len(nodes) + 1
      /\ \A k \in 1 .. Len(nodes) : nodes'[k] = nodes[k]
      /\ nodes'[Len(nodes) + 1] = <<l, r>>
  BY SMT, <1>1
<1>7. NodesAligned'
  <2>1. Len(out') = Len(nodes') * n
    BY SMT, <1>1, <1>2, <1>5, <1>6
  <2> QED
    BY <1>1, <1>5, <1>6, <2>1 DEF NodesAligned, n
<1>8. NodesReadBack'
  <2> SUFFICES ASSUME NEW k \in 1 .. Len(nodes')
               PROVE  nodes'[k] = <<LeftRecord(out', (k - 1) * n, recordSize),
                                    RightRecord(out', (k - 1) * n, recordSize)>>
    <3>1. DOMAIN nodes' = 1 .. Len(nodes')
      BY <1>6
    <3>2. recordSize' = recordSize
      BY <1>1
    <3> QED
      BY <3>1, <3>2 DEF NodesReadBack, n
  <2> DEFINE j == (k - 1) * n
  <2>0. recordSize \in RecordSizes
    BY <1>1
  <2>1. CASE k = Len(nodes) + 1
    <3>1. j = Len(out) /\ j \in Nat
      BY SMT, <1>1, <1>2, <2>1
    <3>2. LeftRecord(out', j, recordSize) = l /\ RightRecord(out', j, recordSize) = r
      <4>1. \A i \in 1 .. n : 0 + i = i
        BY SMT, <1>2
      <4>2. Len(out) \in Nat /\ 0 \in Nat
            /\ \A i \in 1 .. NodeLength(recordSize) : out'[Len(out) + i] = c[0 + i]
        BY <1>5, <3>1, <4>1 DEF n
      <4>3. /\ LeftRecord(out', Len(out), recordSize) = LeftRecord(c, 0, recordSize)
            /\ RightRecord(out', Len(out), recordSize) = RightRecord(c, 0, recordSize)
        BY <2>0, <4>2, SameBytes, Zenon
      <4>4. LeftRecord(c, 0, recordSize) = l /\ RightRecord(c, 0, recordSize) = r
        BY <1>1, PairReads DEF c
      <4> QED
        BY <3>1, <4>3, <4>4
    <3> QED
      BY <1>6, <2>1, <3>2
  <2>2. CASE k \in 1 .. Len(nodes)
    <3>0. j \in Nat
      BY SMT, <1>2, <2>2
    <3>1. j + n <= Len(out)
      BY SMT, <1>1, <1>2, <2>2
    <3>2. \A i \in 1 .. n : out'[j + i] = out[j + i]
      <4> HIDE DEF j
      <4>1. \A i \in 1 .. n : j + i \in 1 .. Len(out)
        BY SMT, <1>1, <1>2, <3>0, <3>1
      <4> QED
        BY <1>5, <4>1
    <3>3. /\ LeftRecord(out', j, recordSize) = LeftRecord(out, j, recordSize)
          /\ RightRecord(out', j, recordSize) = RightRecord(out, j, recordSize)
      <4> HIDE DEF j
      <4>1. \A i \in 1 .. NodeLength(recordSize) : out'[j + i] = out[j + i]
        BY <3>2 DEF n
      <4> QED
        BY <2>0, <3>0, <4>1, SameBytes, Zenon
    <3>4. nodes[k] = <<LeftRecord(out, j, recordSize), RightRecord(out, j, recordSize)>>
      <4>1. k \in DOMAIN nodes
        BY <1>1, <2>2
      <4>2. j = (k - 1) * NodeLength(recordSize)
        BY DEF n
      <4> HIDE DEF j
      <4> QED
        BY <4>1, <4>2 DEF NodesReadBack
    <3> QED
      BY <1>6, <2>2, <3>3, <3>4
  <2>3. k = Len(nodes) + 1 \/ k \in 1 .. Len(nodes)
    BY SMT, <1>1, <1>6
  <2> QED
    BY <2>1, <2>2, <2>3
<1> QED
  BY <1>7, <1>8

(***************************************************************************)
(* Tree::serialize keeps every record: in every record recordSize and for every  *)
(* number that encode_record lets through, a reader that seeks a node by   *)
(* its index finds the two records that were written for it.               *)
(***************************************************************************)
THEOREM RecordsKept == NodesSpec => [](NodesAligned /\ NodesReadBack)
<1>1. NodesInit => NodesAligned /\ NodesReadBack
  <2> SUFFICES ASSUME NodesInit PROVE NodesAligned /\ NodesReadBack
    OBVIOUS
  <2>1. Len(nodes) = 0 /\ Len(out) = 0 /\ Len(nodes) * NodeLength(recordSize) = 0
    BY SMT DEF NodesInit, NodeLength
  <2> QED
    <3>1. NodesAligned
      <4>1. nodes \in Seq(Nat \X Nat) /\ out \in Seq(Octet)
        BY SMT DEF NodesInit
      <4> QED
        BY <2>1, <4>1 DEF NodesInit, NodesAligned
    <3>2. NodesReadBack
      BY SMT, <2>1 DEF NodesInit, NodesReadBack
    <3> QED
      BY <3>1, <3>2
<1>2. NodesAligned /\ NodesReadBack /\ [NodesNext]_nodeVars => NodesAligned' /\ NodesReadBack'
  <2> SUFFICES ASSUME NodesAligned, NodesReadBack, [NodesNext]_nodeVars
               PROVE  NodesAligned' /\ NodesReadBack'
    OBVIOUS
  <2>1. ASSUME NEW l \in Records, NEW r \in Records, WriteNode(l, r)
        PROVE  NodesAligned' /\ NodesReadBack'
    <3>1. l \in Nat /\ r \in Nat
      BY NodeBytesAssumption
    <3> QED
      BY <2>1, <3>1, WriteNodeKeeps
  <2>2. ASSUME NEW l \in Records, NEW r \in Records, TreeTooLarge(l, r)
        PROVE  NodesAligned' /\ NodesReadBack'
    <3>1. Len(nodes') = 0 /\ Len(out') = 0 /\ Len(nodes') * NodeLength(recordSize) = 0
      BY SMT, <2>2 DEF TreeTooLarge, NodeLength
    <3> QED
      BY SMT, <2>2, <3>1 DEF TreeTooLarge, NodesAligned, NodesReadBack
  <2>3. CASE UNCHANGED nodeVars
    BY <2>3 DEF nodeVars, NodesAligned, NodesReadBack
  <2> QED
    BY <2>1, <2>2, <2>3 DEF NodesNext
<1> QED
  BY <1>1, <1>2, PTL DEF NodesSpec

(* A node is where its index puts it: nodes are of one length, in whole bytes. *)
THEOREM NodesInWholeBytes == NodesSpec => []NodesAligned
BY RecordsKept, PTL
=============================================================================
