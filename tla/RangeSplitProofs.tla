-------------------------- MODULE RangeSplitProofs --------------------------
(***************************************************************************)
(* Proofs about RangeSplit, for words and spaces of every width: what is   *)
(* emitted is gap free at every moment, and is the minimal cover at the    *)
(* end, whenever the range does not begin at ::.                           *)
(***************************************************************************)
EXTENDS RangeSplit, InductionLemmas

-----------------------------------------------------------------------------
(***************************************************************************)
(* Powers of two.                                                          *)
(***************************************************************************)
LEMMA Pow2Def ==
    /\ Pow2 \in [Nat -> Nat \ {0}] /\ Pow2[0] = 1
    /\ \A k \in Nat : Pow2[k + 1] = 2 * Pow2[k]
<1> DEFINE P == Nat \ {0}
           h == [n \in Nat |-> [x \in P |-> 2 * x]]
<1>1. h \in [Nat -> [P -> P]] /\ 1 \in P
  OBVIOUS
<1>2. PICK f \in [Nat -> P] : f[0] = 1 /\ \A n \in Nat : f[n + 1] = h[n][f[n]]
  <2> HIDE DEF P, h
  <2>1. \E f : Iterates(P, 1, h, f)
    BY <1>1, Recursion
  <2> QED
    BY <2>1 DEF Iterates
<1>3. \A n \in Nat : f[n + 1] = 2 * f[n]
  BY <1>2
<1>4. f = [k \in Nat |-> IF k = 0 THEN 1 ELSE 2 * f[k - 1]]
  <2>1. \A k \in Nat : k # 0 => f[k] = 2 * f[k - 1]
    BY <1>3
  <2> QED
    BY <1>2, <2>1
<1>5. Pow2 = [k \in Nat |-> IF k = 0 THEN 1 ELSE 2 * Pow2[k - 1]]
  BY <1>4 DEF Pow2
<1>6. Pow2[0] = 1 /\ \A k \in Nat : Pow2[k + 1] = 2 * Pow2[k]
  BY <1>5
<1>7. \A k \in Nat : Pow2[k] = f[k]
  <2> DEFINE S == {k \in Nat : Pow2[k] = f[k]}
  <2>1. 0 \in S
    BY <1>2, <1>6
  <2>2. \A n \in Nat : n \in S => n + 1 \in S
    BY <1>3, <1>6
  <2> HIDE DEF S
  <2>3. \A n \in Nat : n \in S
    BY <2>1, <2>2, Induction
  <2> QED
    BY <2>3 DEF S
<1>8. \A k \in Nat : Pow2[k] \in Nat \ {0}
  BY <1>2, <1>7
<1> QED
  BY <1>5, <1>6, <1>8

LEMMA Quotient ==
    ASSUME NEW m \in Nat \ {0}, NEW a \in Nat, a % m = 0
    PROVE  \E q \in Nat : a = q * m
BY SMT

(* What is a multiple of m comes at least m before the next multiple of m. *)
LEMMA MultipleGap ==
    ASSUME NEW m \in Nat \ {0}, NEW a \in Nat, NEW b \in Nat,
           a % m = 0, b % m = 0, a < b
    PROVE  a + m <= b
<1>1. PICK q \in Nat : a = q * m
  BY Quotient
<1>2. PICK r \in Nat : b = r * m
  BY Quotient
<1>3. q < r
  BY SMT, <1>1, <1>2
<1>4. q + 1 <= r
  BY <1>3
<1>5. (q + 1) * m <= r * m
  BY SMT, <1>4
<1>6. (q + 1) * m = a + m
  BY SMT, <1>1
<1> QED
  BY <1>2, <1>5, <1>6

LEMMA MultipleSum ==
    ASSUME NEW m \in Nat \ {0}, NEW a \in Nat, NEW b \in Nat, a % m = 0, b % m = 0
    PROVE  (a + b) % m = 0
<1>1. PICK q \in Nat : a = q * m
  BY Quotient
<1>2. PICK r \in Nat : b = r * m
  BY Quotient
<1>3. a + b = (q + r) * m
  BY SMT, <1>1, <1>2
<1>4. PICK s \in Nat : s = q + r
  OBVIOUS
<1>5. (s * m) % m = 0
  BY SMT
<1> QED
  BY <1>3, <1>4, <1>5

(* A larger power is a multiple of a smaller one. *)
LEMMA Pow2Factor ==
    ASSUME NEW i \in Nat, NEW j \in Nat, i <= j
    PROVE  \E q \in Nat \ {0} : Pow2[j] = q * Pow2[i]
<1> DEFINE S == {d \in Nat : \E q \in Nat \ {0} : Pow2[i + d] = q * Pow2[i]}
<1>1. 0 \in S
  <2>1. Pow2[i + 0] = 1 * Pow2[i]
    BY Pow2Def
  <2> QED
    BY <2>1
<1>2. ASSUME NEW d \in Nat, d \in S PROVE d + 1 \in S
  <2>1. PICK q \in Nat \ {0} : Pow2[i + d] = q * Pow2[i]
    BY <1>2
  <2>2. Pow2[i + (d + 1)] = 2 * Pow2[i + d]
    <3>1. i + d \in Nat /\ i + (d + 1) = (i + d) + 1
      OBVIOUS
    <3> QED
      BY <3>1, Pow2Def
  <2>3. PICK p \in Nat \ {0} : p = Pow2[i]
    BY Pow2Def
  <2>4. 2 * (q * p) = (2 * q) * p /\ 2 * q \in Nat \ {0}
    BY SMT
  <2> QED
    BY <2>1, <2>2, <2>3, <2>4
<1> HIDE DEF S
<1>3. j - i \in S
  BY <1>1, <1>2, Induction
<1>4. i + (j - i) = j
  OBVIOUS
<1> QED
  BY <1>3, <1>4 DEF S

LEMMA Pow2Divides ==
    ASSUME NEW i \in Nat, NEW j \in Nat, i <= j, NEW n \in Nat, n % Pow2[j] = 0
    PROVE  n % Pow2[i] = 0
<1>1. PICK p \in Nat \ {0}, r \in Nat \ {0} : p = Pow2[i] /\ r = Pow2[j]
  BY Pow2Def
<1>2. PICK q \in Nat \ {0} : r = q * p
  BY <1>1, Pow2Factor
<1>3. PICK k \in Nat : n = k * r
  <2>1. n % r = 0
    BY <1>1
  <2> QED
    BY <2>1, Quotient
<1>4. n = (k * q) * p
  BY SMT, <1>2, <1>3
<1>5. PICK c \in Nat : c = k * q
  BY SMT
<1>6. (c * p) % p = 0
  BY SMT
<1> QED
  BY <1>1, <1>4, <1>5, <1>6

LEMMA Pow2Aligned ==
    ASSUME NEW i \in Nat, NEW j \in Nat, i <= j
    PROVE  Pow2[j] % Pow2[i] = 0
<1>1. PICK r \in Nat \ {0} : r = Pow2[j]
  BY Pow2Def
<1>2. r % r = 0
  BY SMT
<1> QED
  BY <1>1, <1>2, Pow2Divides

LEMMA Pow2Grows ==
    ASSUME NEW i \in Nat, NEW j \in Nat, i < j
    PROVE  Pow2[i] < Pow2[j]
<1>1. PICK p \in Nat \ {0}, r \in Nat \ {0} :
          p = Pow2[i] /\ r = Pow2[i + 1] /\ r = 2 * p
  BY Pow2Def
<1>2. PICK q \in Nat \ {0} : Pow2[j] = q * r
  <2>1. i + 1 \in Nat /\ i + 1 <= j
    OBVIOUS
  <2>2. \E q \in Nat \ {0} : Pow2[j] = q * Pow2[i + 1]
    BY <2>1, Pow2Factor
  <2> QED
    BY <1>1, <2>2
<1>3. r <= q * r
  BY SMT
<1> QED
  BY <1>1, <1>2, <1>3

(* Blocks that meet are one inside the other. *)
LEMMA Nested ==
    ASSUME NEW i \in Nat, NEW j \in Nat, i <= j, NEW a \in Nat, NEW b \in Nat,
           a % Pow2[i] = 0, b % Pow2[j] = 0,
           a < b + Pow2[j], b < a + Pow2[i]
    PROVE  b <= a /\ a + Pow2[i] <= b + Pow2[j]
<1>1. PICK p \in Nat \ {0}, r \in Nat \ {0} : p = Pow2[i] /\ r = Pow2[j]
  BY Pow2Def
<1>2. b % p = 0 /\ r % p = 0
  BY <1>1, Pow2Divides, Pow2Aligned
<1>3. (b + r) % p = 0
  BY <1>2, MultipleSum
<1>4. b <= a
  BY <1>1, <1>2, MultipleGap
<1>5. a + p <= b + r
  <2>1. b + r \in Nat /\ a < b + r
    BY <1>1
  <2> QED
    BY <1>1, <1>3, <2>1, MultipleGap
<1> QED
  BY <1>1, <1>4, <1>5

-----------------------------------------------------------------------------
(***************************************************************************)
(* The inductive invariant.                                                *)
(***************************************************************************)
Blocks == [base : Nat, prefix : 0 .. TotalBits]

(* No larger block of the space begins at base and stays inside the range. *)
Greedy(base, exponent) ==
    \A m \in 0 .. TotalBits :
        base % Pow2[m] = 0 /\ base + Pow2[m] - 1 <= hi.addr => m <= exponent

(* The blocks emitted so far. *)
Emitted ==
    /\ cidrs \in Seq(Blocks)
    /\ \A i \in DOMAIN cidrs :
        /\ NetworkInside(cidrs[i])
        /\ cidrs[i].base = IF i = 1 THEN lo.addr ELSE Last(cidrs[i - 1]) + 1
        /\ Greedy(cidrs[i].base, TotalBits - cidrs[i].prefix)

(* The first address that they leave uncovered. *)
Frontier == IF cidrs = << >> THEN lo.addr ELSE Last(cidrs[Len(cidrs)]) + 1

ValidRange ==
    /\ lo.family = hi.family /\ lo.addr <= hi.addr /\ ~WholeSpace

AtAlign ==
    ValidRange /\ start = Frontier /\ start \in lo.addr .. hi.addr

AtShrink ==
    /\ AtAlign
    /\ size \in 0 .. TotalBits /\ size < WordBits
    /\ start % Pow2[size] = 0
    /\ Greedy(start, size)

AtAdvance ==
    /\ ValidRange /\ start \in lo.addr .. hi.addr
    /\ size \in 0 .. TotalBits /\ size < WordBits
    /\ cidrs # << >>
    /\ cidrs[Len(cidrs)] = [base |-> start, prefix |-> TotalBits - size]

Scan ==
    /\ pc \in {"call", "error", "align", "shrink", "advance", "done"}
    /\ pc \in {"call", "error"} => cidrs = << >>
    /\ pc = "align" => AtAlign
    /\ pc = "shrink" => AtShrink
    /\ pc = "advance" => AtAdvance
    /\ pc = "done" => Frontier = hi.addr + 1 /\ cidrs # << >>

IInv ==
    /\ lo \in Endpoint /\ hi \in Endpoint
    /\ ~FromZeroV6 => Emitted /\ Scan
-----------------------------------------------------------------------------
(***************************************************************************)
(* The blocks and the range.                                               *)
(***************************************************************************)
Ends == lo \in Endpoint /\ hi \in Endpoint

LEMMA EndTypes ==
    ASSUME NEW x \in Endpoint
    PROVE  /\ x.family \in {"V4", "V6"} /\ Bits(x.family) \in Nat
           /\ Bits(x.family) \in 1 .. WordBits
           /\ x.addr \in Nat /\ x.addr < Pow2[Bits(x.family)]
<1>1. PICK f \in {"V4", "V6"} : \E a \in 0 .. Pow2[Bits(f)] - 1 : x = [family |-> f, addr |-> a]
  BY DEF Endpoint
<1>2. Bits(f) \in 1 .. WordBits /\ Bits(f) \in Nat
  BY WidthAssumption DEF Bits
<1>3. Pow2[Bits(f)] \in Nat
  BY <1>2, Pow2Def
<1> QED
  BY <1>1, <1>2, <1>3

LEMMA RangeTypes ==
    ASSUME Ends
    PROVE  /\ TotalBits \in 1 .. WordBits /\ TotalBits \in Nat
           /\ lo.addr \in Nat /\ hi.addr \in Nat
           /\ lo.addr < Pow2[TotalBits] /\ Pow2[TotalBits] \in Nat
           /\ Pow2[WordBits] \in Nat /\ Pow2[TotalBits] <= Pow2[WordBits]
           /\ lo.family = hi.family => hi.addr < Pow2[TotalBits]
<1>1. /\ TotalBits \in 1 .. WordBits /\ TotalBits \in Nat
      /\ lo.addr \in Nat /\ hi.addr \in Nat /\ lo.addr < Pow2[TotalBits]
      /\ lo.family = hi.family => hi.addr < Pow2[TotalBits]
  BY EndTypes DEF Ends, TotalBits
<1>2. WordBits \in Nat
  BY WidthAssumption
<1>3. Pow2[TotalBits] \in Nat /\ Pow2[WordBits] \in Nat
  BY <1>1, <1>2, Pow2Def
<1>4. TotalBits = WordBits \/ TotalBits < WordBits
  BY <1>1, <1>2
<1>5. Pow2[TotalBits] <= Pow2[WordBits]
  BY <1>1, <1>2, <1>3, <1>4, Pow2Grows
<1> QED
  BY <1>1, <1>3, <1>5

LEMMA BlockTypes ==
    ASSUME Ends, NEW c \in Blocks
    PROVE  /\ c.base \in Nat /\ c.prefix \in 0 .. TotalBits
           /\ TotalBits - c.prefix \in Nat /\ TotalBits - c.prefix \in 0 .. TotalBits
           /\ SizeOf(c) \in Nat /\ SizeOf(c) > 0
           /\ SizeOf(c) = Pow2[TotalBits - c.prefix]
           /\ Last(c) \in Nat /\ Last(c) = c.base + SizeOf(c) - 1 /\ c.base <= Last(c)
<1>1. c.base \in Nat /\ c.prefix \in 0 .. TotalBits
  BY DEF Blocks
<1>2. TotalBits - c.prefix \in Nat /\ TotalBits - c.prefix \in 0 .. TotalBits
  BY <1>1, RangeTypes
<1>3. SizeOf(c) \in Nat /\ SizeOf(c) > 0 /\ SizeOf(c) = Pow2[TotalBits - c.prefix]
  BY <1>2, Pow2Def DEF SizeOf
<1> QED
  BY <1>1, <1>2, <1>3 DEF Last

(* A block is determined by its first address and its length. *)
LEMMA SameBlock ==
    ASSUME Ends, NEW c \in Blocks, NEW d \in Blocks, c.base = d.base, SizeOf(c) = SizeOf(d)
    PROVE  c = d
<1>1. PICK i \in Nat, j \in Nat : i = TotalBits - c.prefix /\ j = TotalBits - d.prefix
  BY BlockTypes
<1>2. Pow2[i] = Pow2[j] /\ Pow2[i] \in Nat /\ Pow2[j] \in Nat
  BY <1>1, BlockTypes, Pow2Def
<1>3. ~(i < j) /\ ~(j < i)
  <2>1. i < j => Pow2[i] < Pow2[j]
    BY Pow2Grows
  <2>2. j < i => Pow2[j] < Pow2[i]
    BY Pow2Grows
  <2> QED
    BY <1>2, <2>1, <2>2
<1>4. c.prefix = d.prefix
  BY <1>1, <1>3, BlockTypes, RangeTypes
<1> QED
  BY <1>4 DEF Blocks

(* What has been emitted, index by index. *)
LEMMA EmittedAt ==
    ASSUME Ends, Emitted, NEW i \in 1 .. Len(cidrs)
    PROVE  /\ cidrs[i] \in Blocks /\ NetworkInside(cidrs[i])
           /\ Greedy(cidrs[i].base, TotalBits - cidrs[i].prefix)
           /\ i = 1 => cidrs[i].base = lo.addr
           /\ i # 1 => i - 1 \in 1 .. Len(cidrs) /\ cidrs[i].base = Last(cidrs[i - 1]) + 1
<1>1. cidrs \in Seq(Blocks) /\ DOMAIN cidrs = 1 .. Len(cidrs) /\ Len(cidrs) \in Nat
  BY DEF Emitted
<1>2. /\ NetworkInside(cidrs[i]) /\ Greedy(cidrs[i].base, TotalBits - cidrs[i].prefix)
      /\ cidrs[i].base = IF i = 1 THEN lo.addr ELSE Last(cidrs[i - 1]) + 1
  BY <1>1 DEF Emitted
<1>3. cidrs[i] \in Blocks /\ (i # 1 => i - 1 \in 1 .. Len(cidrs))
  BY <1>1
<1> QED
  BY <1>2, <1>3

(* Blocks follow one another. *)
LEMMA Apart ==
    ASSUME Ends, Emitted
    PROVE  \A i, j \in 1 .. Len(cidrs) : i < j => Last(cidrs[i]) < cidrs[j].base
<1> DEFINE S == {d \in Nat : \A i \in 1 .. Len(cidrs) :
                    i + d + 1 \in 1 .. Len(cidrs) => Last(cidrs[i]) < cidrs[i + d + 1].base}
<1>1. Len(cidrs) \in Nat
  BY DEF Emitted
<1>2. 0 \in S
  <2>1. ASSUME NEW i \in 1 .. Len(cidrs), i + 0 + 1 \in 1 .. Len(cidrs)
        PROVE  Last(cidrs[i]) < cidrs[i + 0 + 1].base
    <3>1. PICK k \in 1 .. Len(cidrs) : k = i + 0 + 1 /\ k # 1 /\ k - 1 = i
      BY <1>1, <2>1
    <3>2. cidrs[k].base = Last(cidrs[i]) + 1 /\ Last(cidrs[i]) \in Nat
      BY <3>1, EmittedAt, BlockTypes
    <3> QED
      BY <3>1, <3>2
  <2> QED
    BY <2>1
<1>3. ASSUME NEW d \in Nat, d \in S PROVE d + 1 \in S
  <2>1. ASSUME NEW i \in 1 .. Len(cidrs), i + (d + 1) + 1 \in 1 .. Len(cidrs)
        PROVE  Last(cidrs[i]) < cidrs[i + (d + 1) + 1].base
    <3>1. PICK k \in 1 .. Len(cidrs) : k = i + d + 1 /\ k + 1 = i + (d + 1) + 1
      BY <1>1, <2>1
    <3>2. Last(cidrs[i]) < cidrs[k].base
      BY <1>3, <3>1
    <3>3. PICK n \in 1 .. Len(cidrs) : n = k + 1 /\ n # 1 /\ n - 1 = k
      BY <2>1, <3>1
    <3>4. cidrs[n].base = Last(cidrs[k]) + 1
      BY <3>3, EmittedAt
    <3>5. /\ cidrs[k].base <= Last(cidrs[k]) /\ cidrs[k].base \in Nat
          /\ Last(cidrs[i]) \in Nat /\ Last(cidrs[k]) \in Nat
      BY EmittedAt, BlockTypes
    <3>6. Last(cidrs[i]) < cidrs[n].base
      BY <3>2, <3>4, <3>5
    <3> QED
      BY <3>1, <3>3, <3>6
  <2> QED
    BY <2>1
<1> HIDE DEF S
<1>4. \A d \in Nat : d \in S
  BY <1>2, <1>3, Induction
<1>5. ASSUME NEW i \in 1 .. Len(cidrs), NEW j \in 1 .. Len(cidrs), i < j
      PROVE  Last(cidrs[i]) < cidrs[j].base
  <2>1. PICK d \in Nat : j = i + d + 1
    <3>1. j - i - 1 \in Nat /\ j = i + (j - i - 1) + 1
      BY <1>1, <1>5
    <3> QED
      BY <3>1
  <2> QED
    BY <1>4, <2>1 DEF S
<1> QED
  BY <1>5
Finished == Emitted /\ cidrs # << >> /\ Frontier = hi.addr + 1

LEMMA LastBlock ==
    ASSUME Ends, Finished
    PROVE  /\ Len(cidrs) \in 1 .. Len(cidrs) /\ Len(cidrs) \in Nat
           /\ Last(cidrs[Len(cidrs)]) = hi.addr
<1>1. Len(cidrs) \in Nat /\ Len(cidrs) # 0 /\ cidrs # << >>
  BY DEF Finished, Emitted
<1>2. Len(cidrs) \in 1 .. Len(cidrs)
  BY <1>1
<1>3. Last(cidrs[Len(cidrs)]) + 1 = hi.addr + 1
  BY <1>1 DEF Finished, Frontier
<1>4. Last(cidrs[Len(cidrs)]) \in Nat /\ hi.addr \in Nat
  BY <1>2, EmittedAt, BlockTypes, RangeTypes DEF Finished
<1> QED
  BY <1>1, <1>2, <1>3, <1>4

(* Every address of the range is in a block. *)
LEMMA Covered ==
    ASSUME Ends, Finished, NEW x \in Nat, lo.addr <= x, x <= hi.addr
    PROVE  \E k \in 1 .. Len(cidrs) : cidrs[k].base <= x /\ x <= Last(cidrs[k])
<1> DEFINE D == {k \in 1 .. Len(cidrs) : x <= Last(cidrs[k])}
<1>1. Len(cidrs) \in D /\ D \subseteq Nat
  BY LastBlock
<1>2. PICK k \in D : \A j \in D : k <= j
  BY <1>1, Least
<1>3. k \in 1 .. Len(cidrs) /\ x <= Last(cidrs[k])
  BY <1>2
<1>4. CASE k = 1
  BY <1>3, <1>4, EmittedAt DEF Finished
<1>5. CASE k # 1
  <2>1. k - 1 \in 1 .. Len(cidrs) /\ cidrs[k].base = Last(cidrs[k - 1]) + 1
    BY <1>3, <1>5, EmittedAt DEF Finished
  <2>2. k - 1 \notin D
    BY <1>2, <1>3
  <2>3. Last(cidrs[k - 1]) \in Nat /\ ~(x <= Last(cidrs[k - 1]))
    BY <2>1, <2>2, EmittedAt, BlockTypes DEF Finished
  <2> QED
    BY <1>3, <2>1, <2>3
<1> QED
  BY <1>4, <1>5

(* A network inside the range lies within one of the blocks. *)
LEMMA InBlock ==
    ASSUME Ends, Finished, NEW d \in Blocks, NetworkInside(d)
    PROVE  \E k \in 1 .. Len(cidrs) : Within(d, cidrs[k])
<1>1. lo.addr <= d.base /\ Last(d) <= hi.addr /\ d.base % SizeOf(d) = 0
  BY DEF NetworkInside
<1>2. d.base \in Nat /\ d.base <= Last(d) /\ Last(d) \in Nat /\ hi.addr \in Nat /\ d.base <= hi.addr
  BY <1>1, BlockTypes, RangeTypes
<1>3. PICK k \in 1 .. Len(cidrs) : cidrs[k].base <= d.base /\ d.base <= Last(cidrs[k])
  BY <1>1, <1>2, Covered
<1>4. PICK c \in Blocks : c = cidrs[k]
  BY EmittedAt DEF Finished
<1>5. NetworkInside(c) /\ Greedy(c.base, TotalBits - c.prefix)
  BY <1>4, EmittedAt DEF Finished
<1>6. c.base <= d.base /\ d.base <= Last(c)
  BY <1>3, <1>4
<1>7. PICK i \in Nat, j \in Nat :
        /\ i = TotalBits - c.prefix /\ j = TotalBits - d.prefix
        /\ SizeOf(c) = Pow2[i] /\ SizeOf(d) = Pow2[j] /\ j \in 0 .. TotalBits
  BY BlockTypes
<1>8. PICK a \in Nat, b \in Nat, p \in Nat \ {0}, r \in Nat \ {0} :
        /\ a = c.base /\ b = d.base /\ p = Pow2[i] /\ r = Pow2[j]
        /\ Last(c) = a + p - 1 /\ Last(d) = b + r - 1
  <2>1. c.base \in Nat /\ d.base \in Nat /\ Pow2[i] \in Nat \ {0} /\ Pow2[j] \in Nat \ {0}
    BY BlockTypes, Pow2Def
  <2>2. Last(c) = c.base + Pow2[i] - 1 /\ Last(d) = d.base + Pow2[j] - 1
    BY <1>7, BlockTypes
  <2> QED
    BY Zenon, <2>1, <2>2
<1>9. a <= b /\ b < a + p /\ a < b + r /\ a % Pow2[i] = 0 /\ b % Pow2[j] = 0
  <2>1. a <= b /\ b <= a + p - 1
    BY <1>6, <1>8
  <2>2. c.base % SizeOf(c) = 0 /\ d.base % SizeOf(d) = 0
    BY <1>5 DEF NetworkInside
  <2>3. a % Pow2[i] = 0 /\ b % Pow2[j] = 0
    BY <1>7, <1>8, <2>2
  <2>4. b < a + p /\ a < b + r
    BY <2>1
  <2> QED
    BY <2>1, <2>3, <2>4
<1>10. j <= i
  <2>1. SUFFICES ASSUME i < j PROVE FALSE
    OBVIOUS
  <2>2. i <= j /\ a < b + Pow2[j] /\ b < a + Pow2[i]
    BY <1>8, <1>9, <2>1
  <2>3. b <= a
    BY <1>9, <2>2, Nested
  <2>4. a = b
    BY <1>9, <2>3
  <2>5. c.base % Pow2[j] = 0 /\ c.base + Pow2[j] - 1 <= hi.addr
    <3>1. c.base + Pow2[j] - 1 = Last(d)
      BY <1>8, <2>4
    <3>2. c.base % Pow2[j] = 0
      BY <1>8, <1>9, <2>4
    <3> QED
      BY <1>1, <3>1, <3>2
  <2>6. j <= i
    BY <1>5, <1>7, <2>5 DEF Greedy
  <2> QED
    BY <2>1, <2>6
<1>11. b + Pow2[j] <= a + Pow2[i]
  <2>1. b < a + Pow2[i] /\ a < b + Pow2[j]
    BY <1>8, <1>9
  <2> QED
    BY <1>9, <1>10, <2>1, Nested
<1>12. Within(d, c)
  <2>1. b + r <= a + p
    BY <1>8, <1>11
  <2>2. b + r - 1 <= a + p - 1
    BY <2>1
  <2> QED
    BY <1>8, <1>9, <2>2 DEF Within
<1> QED
  BY <1>4, <1>12

(* When the frontier has passed the end, the blocks are the minimal cover. *)
LEMMA FinishedCover ==
    ASSUME Ends, Finished
    PROVE  {cidrs[i] : i \in DOMAIN cidrs} = MaximalNetworks /\ Ascending
<1>1. DOMAIN cidrs = 1 .. Len(cidrs) /\ Emitted
  BY DEF Finished, Emitted
<1> DEFINE Inside == {c \in [base : lo.addr .. hi.addr, prefix : 0 .. TotalBits] :
                        NetworkInside(c)}
<1>2. \A c : c \in Inside <=> c \in Blocks /\ NetworkInside(c)
  <2>1. ASSUME NEW c \in Inside PROVE c \in Blocks /\ NetworkInside(c)
    BY <2>1, RangeTypes DEF Blocks
  <2>2. ASSUME NEW c \in Blocks, NetworkInside(c) PROVE c \in Inside
    <3>1. c.base \in lo.addr .. hi.addr
      BY <2>2, BlockTypes, RangeTypes DEF NetworkInside
    <3>2. c = [base |-> c.base, prefix |-> c.prefix] /\ c.prefix \in 0 .. TotalBits
      BY DEF Blocks
    <3> QED
      BY <2>2, <3>1, <3>2
  <2> QED
    BY <2>1, <2>2
<1>3. MaximalNetworks = {c \in Inside : \A d \in Inside : Within(c, d) => c = d}
  BY DEF MaximalNetworks
<1> HIDE DEF Inside
<1>4. \A i \in 1 .. Len(cidrs) : cidrs[i] \in Blocks /\ cidrs[i] \in Inside
  BY <1>1, <1>2, EmittedAt
<1>5. ASSUME NEW i \in 1 .. Len(cidrs), NEW j \in 1 .. Len(cidrs),
             Last(cidrs[i]) <= Last(cidrs[j]), cidrs[j].base <= cidrs[i].base
      PROVE  i = j
  <2>1. /\ cidrs[i].base \in Nat /\ cidrs[j].base \in Nat
        /\ Last(cidrs[i]) \in Nat /\ Last(cidrs[j]) \in Nat
        /\ cidrs[i].base <= Last(cidrs[i]) /\ cidrs[j].base <= Last(cidrs[j])
    BY <1>4, BlockTypes
  <2>2. i < j => Last(cidrs[i]) < cidrs[j].base
    BY <1>1, Apart
  <2>3. j < i => Last(cidrs[j]) < cidrs[i].base
    BY <1>1, Apart
  <2>4. ~(i < j) /\ ~(j < i)
    BY <1>5, <2>1, <2>2, <2>3
  <2> QED
    BY <2>4
<1>6. ASSUME NEW c \in Blocks, NEW d \in Blocks, Within(c, d), Within(d, c)
      PROVE  c = d
  <2>1. c.base <= d.base /\ d.base <= c.base /\ Last(c) <= Last(d) /\ Last(d) <= Last(c)
    BY <1>6 DEF Within
  <2>2. c.base = d.base /\ SizeOf(c) = SizeOf(d)
    BY <2>1, BlockTypes
  <2> QED
    BY <2>2, SameBlock
<1>7. ASSUME NEW c \in Blocks, NEW d \in Blocks, NEW e \in Blocks, Within(c, d), Within(d, e)
      PROVE  Within(c, e)
  BY <1>7, BlockTypes DEF Within
<1>8. ASSUME NEW i \in 1 .. Len(cidrs) PROVE cidrs[i] \in MaximalNetworks
  <2>1. ASSUME NEW d \in Inside, Within(cidrs[i], d) PROVE cidrs[i] = d
    <3>1. d \in Blocks /\ NetworkInside(d)
      BY <1>2
    <3>2. PICK k \in 1 .. Len(cidrs) : Within(d, cidrs[k])
      BY <3>1, InBlock
    <3>3. Within(cidrs[i], cidrs[k])
      BY <1>4, <1>7, <2>1, <3>1, <3>2
    <3>4. i = k
      BY <1>5, <3>3 DEF Within
    <3> QED
      BY <1>4, <1>6, <2>1, <3>1, <3>2, <3>4
  <2> QED
    BY <1>3, <1>4, <2>1
<1>9. ASSUME NEW d \in MaximalNetworks PROVE \E i \in 1 .. Len(cidrs) : d = cidrs[i]
  <2>1. d \in Inside /\ d \in Blocks /\ NetworkInside(d)
    BY <1>2, <1>3
  <2>2. PICK k \in 1 .. Len(cidrs) : Within(d, cidrs[k])
    BY <2>1, InBlock
  <2> QED
    BY <1>3, <1>4, <2>2
<1>10. Ascending
  <2>1. ASSUME NEW i \in 1 .. Len(cidrs), NEW j \in 1 .. Len(cidrs), i < j
        PROVE  cidrs[i].base < cidrs[j].base
    <3>1. Last(cidrs[i]) < cidrs[j].base
      BY <1>1, <2>1, Apart
    <3>2. cidrs[i].base <= Last(cidrs[i]) /\ cidrs[i].base \in Nat /\ Last(cidrs[i]) \in Nat
      BY <1>4, BlockTypes
    <3>3. cidrs[j].base \in Nat
      BY <1>4, BlockTypes
    <3> QED
      BY <3>1, <3>2, <3>3
  <2> QED
    BY <1>1, <2>1 DEF Ascending
<1> QED
  BY <1>1, <1>8, <1>9, <1>10
-----------------------------------------------------------------------------
(***************************************************************************)
(* The invariant is inductive.                                             *)
(***************************************************************************)

(* A range that does not begin at :: is scanned from an address other than *)
(* zero, or in a space narrower than the word.                             *)
LEMMA NarrowAtZero ==
    ASSUME Ends, ~FromZeroV6, ValidRange, NEW a \in Nat, lo.addr <= a, a = 0
    PROVE  TotalBits < WordBits
<1>1. lo.addr \in Nat /\ lo.family \in {"V4", "V6"} /\ hi.family = lo.family
  BY EndTypes DEF Ends, ValidRange
<1>2. lo.addr = 0
  BY <1>1
<1>3. lo.family = "V4"
  BY <1>1, <1>2 DEF FromZeroV6, ValidRange
<1> QED
  BY <1>3, WidthAssumption DEF TotalBits, Bits

(* The largest aligned block at an address. *)
LEMMA Trailing ==
    ASSUME NEW n \in Nat
    PROVE  /\ TrailingZeros(n) \in 0 .. WordBits - 1
           /\ n % Pow2[TrailingZeros(n)] = 0
           /\ \A k \in 0 .. WordBits - 1 : n % Pow2[k] = 0 => k <= TrailingZeros(n)
<1> DEFINE T == {k \in 0 .. WordBits - 1 : n % Pow2[k] = 0}
<1>1. WordBits - 1 \in Nat
  BY WidthAssumption
<1>2. n % Pow2[0] = 0
  BY Pow2Def
<1>3. 0 \in T
  BY <1>1, <1>2
<1>4. \E x \in T : \A y \in T : y <= x
  BY <1>1, <1>3, Greatest
<1>5. TrailingZeros(n) \in T /\ \A y \in T : y <= TrailingZeros(n)
  <2>1. TrailingZeros(n) = CHOOSE x \in T : \A y \in T : x >= y
    BY DEF TrailingZeros, Max
  <2>2. \E x \in T : \A y \in T : x >= y
    BY <1>4
  <2> QED
    BY <2>1, <2>2
<1> QED
  BY <1>5

LEMMA Smaller ==
    ASSUME NEW a \in Nat, NEW b \in Nat
    PROVE  Min({a, b}) = IF a <= b THEN a ELSE b
BY DEF Min

LEMMA EmittedKept ==
    ASSUME Emitted, UNCHANGED <<lo, hi, cidrs>>
    PROVE  Emitted' /\ Frontier' = Frontier
BY DEF Emitted, Frontier, Blocks, TotalBits, NetworkInside, Last, SizeOf, Greedy

LEMMA InitIInv ==
    Init => IInv
<1> SUFFICES ASSUME Init PROVE Emitted /\ Scan /\ lo \in Endpoint /\ hi \in Endpoint
  BY DEF IInv
<1> QED
  BY DEF Init, Emitted, Scan

LEMMA AlignKeeps ==
    ASSUME Ends, ~FromZeroV6, Emitted, Scan, Align
    PROVE  Scan'
<1> USE DEF Align
<1>1. AtAlign /\ ValidRange /\ start \in Nat /\ start <= hi.addr /\ lo.addr <= start
  BY RangeTypes DEF Scan, AtAlign
<1>2. TotalBits \in Nat /\ WordBits \in Nat /\ hi.addr < Pow2[TotalBits] /\ hi.addr \in Nat
  BY <1>1, RangeTypes, WidthAssumption DEF ValidRange
<1>3. /\ size' \in 0 .. TotalBits /\ size' < WordBits /\ start % Pow2[size'] = 0
      /\ \A m \in 0 .. TotalBits : start % Pow2[m] = 0 => m <= size'
  <2>1. CASE start = 0
    <3>1. size' = TotalBits /\ TotalBits < WordBits
      BY <1>1, <2>1, NarrowAtZero
    <3>2. start % Pow2[TotalBits] = 0
      <4>1. PICK p \in Nat \ {0} : p = Pow2[TotalBits]
        BY <1>2, Pow2Def
      <4> QED
        BY <2>1, <4>1
    <3> QED
      BY <1>2, <3>1, <3>2
  <2>2. CASE start # 0
    <3>1. PICK z \in 0 .. WordBits - 1 :
            /\ z = TrailingZeros(start) /\ start % Pow2[z] = 0
            /\ \A k \in 0 .. WordBits - 1 : start % Pow2[k] = 0 => k <= z
      BY <1>1, Trailing
    <3>2. z \in Nat /\ size' = IF z <= TotalBits THEN z ELSE TotalBits
      BY <1>2, <2>2, <3>1, Smaller
    <3>3. size' \in 0 .. TotalBits /\ size' <= z /\ size' < WordBits
      BY <1>2, <3>1, <3>2
    <3>4. start % Pow2[size'] = 0
      BY <1>1, <3>1, <3>2, <3>3, Pow2Divides
    <3>5. ASSUME NEW m \in 0 .. TotalBits, start % Pow2[m] = 0 PROVE m <= size'
      <4>1. start < Pow2[TotalBits] /\ Pow2[TotalBits] \in Nat \ {0}
        BY <1>1, <1>2, Pow2Def
      <4>2. start % Pow2[TotalBits] = start
        BY <1>1, <4>1
      <4>3. m # TotalBits
        BY <2>2, <3>5, <4>2
      <4>4. m \in 0 .. WordBits - 1
        BY <1>2, <4>3, RangeTypes
      <4>5. m <= z
        BY <3>1, <3>5, <4>4
      <4> QED
        BY <1>2, <3>2, <4>5
    <3> QED
      BY <3>3, <3>4, <3>5
  <2> QED
    BY <2>1, <2>2
<1>4. Greedy(start, size')
  BY <1>3 DEF Greedy
<1>5. AtShrink'
  <2>1. TotalBits' = TotalBits /\ ValidRange' /\ Frontier' = Frontier
    BY <1>1, EmittedKept DEF TotalBits, ValidRange, WholeSpace, MaxForBits, args
  <2>2. Greedy(start, size)'
    BY <1>4, <2>1 DEF Greedy, args
  <2>3. AtAlign'
    BY <1>1, <2>1 DEF AtAlign, args
  <2> QED
    BY <1>3, <2>1, <2>2, <2>3 DEF AtShrink
<1> QED
  BY <1>5 DEF Scan
LEMMA BeginKeeps ==
    ASSUME Ends, Emitted, Scan, Begin
    PROVE  Emitted' /\ Scan'
<1> USE DEF Begin
<1>1. cidrs' = << >> /\ cidrs = << >> /\ ValidRange /\ UNCHANGED <<lo, hi>>
  BY DEF Scan, ValidCall, ValidRange, args
<1>2. Emitted' /\ Frontier' = lo.addr
  BY <1>1, EmittedKept DEF Frontier
<1>3. ValidRange'
  BY <1>1 DEF ValidRange, WholeSpace, MaxForBits, TotalBits
<1>4. start' \in lo.addr .. hi.addr
  BY <1>1, RangeTypes DEF ValidRange
<1>5. AtAlign'
  BY <1>1, <1>2, <1>3, <1>4 DEF AtAlign
<1> QED
  BY <1>2, <1>5 DEF Scan

(* In the loop the shift is in range. *)
LEMMA BlockLength ==
    ASSUME Ends, size \in 0 .. TotalBits, size < WordBits
    PROVE  Block = Pow2[size] /\ Block \in Nat \ {0} /\ size \in Nat
<1>1. size \in Nat /\ WordBits \in Nat \ {0}
  BY WidthAssumption, RangeTypes
<1>2. size % WordBits = size
  BY <1>1
<1> QED
  BY <1>1, <1>2, Pow2Def DEF Block

LEMMA ShrinkKeeps ==
    ASSUME Ends, Emitted, Scan, Shrink
    PROVE  Scan'
<1> USE DEF Shrink
<1>1. AtShrink /\ AtAlign /\ ValidRange /\ start \in Nat /\ UNCHANGED <<lo, hi, start, cidrs>>
  BY RangeTypes DEF Scan, AtShrink, AtAlign, args
<1>2. size' \in 0 .. TotalBits /\ size' < WordBits /\ size' = size - 1 /\ size' \in Nat
  BY <1>1, RangeTypes, WidthAssumption DEF AtShrink, OneSmaller
<1>3. start % Pow2[size'] = 0
  BY <1>1, <1>2, Pow2Divides, RangeTypes DEF AtShrink
<1>4. Greedy(start, size')
  <2>1. Greedy(start, size) /\ ~(start + Pow2[size] - 1 <= hi.addr)
    <3>1. Block = Pow2[size] /\ Block \in Nat
      BY <1>1, BlockLength DEF AtShrink
    <3> QED
      BY <1>1, <3>1, RangeTypes DEF AtShrink, Fits
  <2>2. ASSUME NEW m \in 0 .. TotalBits, start % Pow2[m] = 0, start + Pow2[m] - 1 <= hi.addr
        PROVE  m <= size'
    <3>1. m <= size /\ m # size
      BY <2>1, <2>2 DEF Greedy
    <3> QED
      BY <1>1, <1>2, <3>1, RangeTypes DEF AtShrink
  <2> QED
    BY <2>2 DEF Greedy
<1>5. AtShrink'
  <2>1. TotalBits' = TotalBits /\ ValidRange' /\ Frontier' = Frontier
    BY <1>1, EmittedKept DEF TotalBits, ValidRange, WholeSpace, MaxForBits
  <2>2. Greedy(start, size)'
    BY <1>1, <1>4, <2>1 DEF Greedy
  <2>3. AtAlign'
    BY <1>1, <2>1 DEF AtAlign
  <2> QED
    BY <1>1, <1>2, <1>3, <2>1, <2>2, <2>3 DEF AtShrink
<1> QED
  BY <1>5 DEF Scan

LEMMA PushKeeps ==
    ASSUME Ends, Emitted, Scan, Push
    PROVE  Emitted' /\ Scan'
<1> USE DEF Push
<1> DEFINE t == [base |-> start, prefix |-> TotalBits - size]
<1>1. AtShrink /\ AtAlign /\ ValidRange /\ start \in Nat /\ UNCHANGED <<lo, hi, start, size>>
  BY RangeTypes DEF Scan, AtShrink, AtAlign, args
<1>2. size \in 0 .. TotalBits /\ size \in Nat /\ size < WordBits /\ Greedy(start, size)
  BY <1>1, RangeTypes DEF AtShrink
<1>3. TotalBits - size \in 0 .. TotalBits /\ TotalBits - (TotalBits - size) = size
  BY <1>2, RangeTypes
<1>4. t \in Blocks /\ t.base = start /\ TotalBits - t.prefix = size /\ SizeOf(t) = Pow2[size]
  BY <1>1, <1>3 DEF Blocks, SizeOf
<1>5. Last(t) <= hi.addr /\ Last(t) = start + Pow2[size] - 1
  <2>1. Last(t) = start + Pow2[size] - 1
    BY <1>4 DEF Last
  <2>2. start + Pow2[size] - 1 <= hi.addr
    <3>1. CASE size = 0
      BY <1>1, <3>1, Pow2Def, RangeTypes DEF AtAlign
    <3>2. CASE Fits
      <4>1. Block = Pow2[size] /\ Block \in Nat
        BY <1>2, BlockLength
      <4> QED
        BY <1>1, <3>2, <4>1, RangeTypes DEF Fits
    <3> QED
      BY <3>1, <3>2
  <2> QED
    BY <2>1, <2>2
<1>6. NetworkInside(t)
  <2>1. start % Pow2[size] = 0 /\ lo.addr <= start
    BY <1>1, RangeTypes DEF AtShrink, AtAlign
  <2> QED
    BY <1>4, <1>5, <2>1 DEF NetworkInside
<1>7. Greedy(t.base, TotalBits - t.prefix)
  BY <1>2, <1>4
<1>8. t.base = IF Len(cidrs) + 1 = 1 THEN lo.addr ELSE Last(cidrs[Len(cidrs)]) + 1
  <2>1. start = Frontier /\ cidrs \in Seq(Blocks)
    BY <1>1 DEF AtAlign, Emitted
  <2> QED
    BY <1>4, <2>1 DEF Frontier
<1>9. cidrs' = Append(cidrs, t)
  OBVIOUS
<1> HIDE DEF t
<1>10. /\ cidrs \in Seq(Blocks) /\ Len(cidrs) \in Nat
       /\ cidrs' \in Seq(Blocks) /\ Len(cidrs') = Len(cidrs) + 1
       /\ \A i \in 1 .. Len(cidrs) : cidrs'[i] = cidrs[i]
       /\ cidrs'[Len(cidrs) + 1] = t /\ cidrs' # << >>
  BY <1>4, <1>9 DEF Emitted
<1>11. TotalBits' = TotalBits /\ Blocks' = Blocks /\ ValidRange'
  BY <1>1 DEF TotalBits, Blocks, ValidRange, WholeSpace, MaxForBits
<1>12. \A c : /\ NetworkInside(c)' <=> NetworkInside(c)
              /\ Last(c)' = Last(c)
              /\ Greedy(c.base, TotalBits - c.prefix)' <=> Greedy(c.base, TotalBits - c.prefix)
  BY <1>1, <1>11 DEF NetworkInside, Last, SizeOf, Greedy
<1>13. ASSUME NEW i \in 1 .. Len(cidrs) + 1
       PROVE  /\ NetworkInside(cidrs'[i])
              /\ cidrs'[i].base = IF i = 1 THEN lo.addr ELSE Last(cidrs'[i - 1]) + 1
              /\ Greedy(cidrs'[i].base, TotalBits - cidrs'[i].prefix)
  <2>1. CASE i = Len(cidrs) + 1
    <3>1. i # 1 => cidrs'[i - 1] = cidrs[Len(cidrs)]
      BY <1>10, <2>1
    <3> QED
      BY <1>6, <1>7, <1>8, <1>10, <2>1, <3>1
  <2>2. CASE i \in 1 .. Len(cidrs)
    <3>1. i # 1 => cidrs'[i - 1] = cidrs[i - 1]
      BY <1>10, <2>2
    <3> QED
      BY <1>10, <2>2, <3>1, EmittedAt
  <2> QED
    BY <1>10, <2>1, <2>2
<1>14. Emitted'
  <2>1. DOMAIN cidrs' = 1 .. Len(cidrs) + 1
    BY <1>10
  <2> QED
    BY <1>1, <1>10, <1>11, <1>12, <1>13, <2>1 DEF Emitted
<1>15. AtAdvance'
  BY <1>1, <1>2, <1>10, <1>11 DEF AtAdvance, AtAlign, t
<1> QED
  BY <1>14, <1>15 DEF Scan
(* After a block has been emitted the frontier is the address behind it. *)
LEMMA Behind ==
    ASSUME Ends, Emitted, AtAdvance
    PROVE  /\ Frontier = NextStart /\ NextStart \in Nat /\ NextStart > start
           /\ NextStart <= hi.addr + 1
<1>1. Block = Pow2[size] /\ Block \in Nat \ {0} /\ size \in Nat
  BY BlockLength DEF AtAdvance
<1>2. cidrs # << >> /\ cidrs \in Seq(Blocks) /\ Len(cidrs) \in 1 .. Len(cidrs)
  BY DEF Emitted, AtAdvance
<1>3. PICK c \in Blocks : c = cidrs[Len(cidrs)]
  BY <1>2
<1>4. c.base = start /\ c.prefix = TotalBits - size /\ NetworkInside(c)
  BY <1>2, <1>3, EmittedAt DEF AtAdvance
<1>5. TotalBits - c.prefix = size
  BY <1>1, <1>4, RangeTypes
<1>6. start \in Nat /\ Last(c) = start + Block - 1 /\ Last(c) <= hi.addr
  BY <1>1, <1>4, <1>5, RangeTypes DEF AtAdvance, Last, SizeOf, NetworkInside
<1>7. Frontier = start + Block
  BY <1>1, <1>2, <1>3, <1>6 DEF Frontier
<1> QED
  BY <1>1, <1>6, <1>7, RangeTypes DEF NextStart

LEMMA AdvanceKeeps ==
    ASSUME Ends, Emitted, Scan, Advance
    PROVE  Scan'
<1> USE DEF Advance
<1>1. AtAdvance /\ ValidRange /\ UNCHANGED <<lo, hi, cidrs>>
  BY DEF Scan, AtAdvance, args
<1>2. /\ start' = NextStart /\ Frontier = NextStart /\ NextStart \in Nat
      /\ NextStart > start /\ NextStart <= hi.addr
  BY <1>1, Behind
<1>3. start' = Frontier' /\ ValidRange'
  BY <1>1, <1>2, EmittedKept DEF ValidRange, WholeSpace, MaxForBits, TotalBits
<1>4. start' \in lo.addr .. hi.addr
  BY <1>1, <1>2, RangeTypes DEF AtAdvance
<1>5. AtAlign'
  BY <1>1, <1>3, <1>4 DEF AtAlign
<1> QED
  BY <1>5 DEF Scan

LEMMA StopKeeps ==
    ASSUME Ends, Emitted, Scan, Stop
    PROVE  Scan'
<1> USE DEF Stop
<1>1. AtAdvance /\ ValidRange /\ UNCHANGED <<lo, hi, cidrs>>
  BY DEF Scan, AtAdvance, args
<1>2. Frontier = NextStart /\ NextStart \in Nat /\ NextStart <= hi.addr + 1
  BY <1>1, Behind
<1>3. hi.addr \in Nat /\ hi.addr < Pow2[WordBits] /\ Pow2[WordBits] \in Nat
  BY <1>1, RangeTypes DEF ValidRange
<1>4. Frontier = hi.addr + 1
  BY <1>2, <1>3
<1>5. Frontier' = hi'.addr + 1 /\ cidrs' # << >>
  BY <1>1, <1>4, EmittedKept DEF AtAdvance
<1> QED
  BY <1>5 DEF Scan

LEMMA ShortcutKeeps ==
    ASSUME Ends, Emitted, Scan, Shortcut
    PROVE  Emitted' /\ Scan'
<1> USE DEF Shortcut
<1> DEFINE c == [base |-> 0, prefix |-> 0]
<1>1. /\ lo.addr = 0 /\ hi.addr = Pow2[TotalBits] - 1 /\ cidrs' = <<c>>
      /\ UNCHANGED <<lo, hi>>
  BY DEF WholeSpace, MaxForBits, args
<1>2. PICK p \in Nat \ {0} : p = Pow2[TotalBits]
  BY RangeTypes, Pow2Def
<1>3. TotalBits \in Nat /\ c \in Blocks /\ c.base = 0 /\ TotalBits - c.prefix = TotalBits
  BY RangeTypes DEF Blocks
<1>4. SizeOf(c) = p /\ Last(c) = hi.addr /\ 0 % p = 0
  BY <1>1, <1>2, <1>3 DEF SizeOf, Last
<1>5. NetworkInside(c) /\ Greedy(c.base, TotalBits - c.prefix) /\ c.base = lo.addr
  <2>1. NetworkInside(c)
    BY <1>1, <1>2, <1>3, <1>4 DEF NetworkInside
  <2>2. Greedy(0, TotalBits)
    BY <1>3 DEF Greedy
  <2> QED
    BY <1>1, <1>3, <2>1, <2>2
<1> HIDE DEF c
<1>6. /\ cidrs' \in Seq(Blocks) /\ Len(cidrs') = 1 /\ cidrs'[1] = c /\ cidrs' # << >>
      /\ DOMAIN cidrs' = {1}
  BY <1>1, <1>3
<1>7. TotalBits' = TotalBits /\ Blocks' = Blocks
  BY <1>1 DEF TotalBits, Blocks
<1>8. /\ NetworkInside(c)' /\ Greedy(c.base, TotalBits - c.prefix)' /\ Last(c)' = hi'.addr
  BY <1>1, <1>4, <1>5, <1>7 DEF NetworkInside, Last, SizeOf, Greedy, c
<1>9. Emitted'
  BY <1>1, <1>5, <1>6, <1>7, <1>8 DEF Emitted
<1>10. Frontier' = hi'.addr + 1
  BY <1>6, <1>8 DEF Frontier
<1> QED
  BY <1>6, <1>9, <1>10 DEF Scan

LEMMA NextIInv ==
    IInv /\ [Next]_vars => IInv'
<1> SUFFICES ASSUME IInv, [Next]_vars PROVE IInv'
  OBVIOUS
<1>1. UNCHANGED <<lo, hi>> /\ Ends /\ (FromZeroV6' <=> FromZeroV6)
  <2>1. UNCHANGED <<lo, hi>>
    BY DEF Next, vars, args, InvalidRange, Shortcut, Begin, Align, ShiftPanics, Shrink,
           Push, Advance, Stop
  <2> QED
    BY <2>1 DEF IInv, Ends, FromZeroV6, WholeSpace, MaxForBits, TotalBits
<1>2. SUFFICES ASSUME ~FromZeroV6 PROVE Emitted' /\ Scan'
  BY <1>1 DEF IInv, Ends
<1>3. Emitted /\ Scan
  BY <1>2 DEF IInv
<1>4. CASE InvalidRange
  BY <1>1, <1>3, <1>4, EmittedKept DEF InvalidRange, Scan
<1>5. CASE Shortcut
  BY <1>1, <1>3, <1>5, ShortcutKeeps
<1>6. CASE Begin
  BY <1>1, <1>3, <1>6, BeginKeeps
<1>7. CASE Align
  BY <1>1, <1>2, <1>3, <1>7, AlignKeeps, EmittedKept DEF Align
<1>8. CASE ShiftPanics
  <2>1. AtShrink /\ WordBits \in Nat /\ size \in Nat /\ size >= WordBits
    BY <1>1, <1>3, <1>8, WidthAssumption, RangeTypes DEF ShiftPanics, Scan, AtShrink
  <2> QED
    BY <2>1 DEF AtShrink
<1>9. CASE Shrink
  BY <1>1, <1>3, <1>9, ShrinkKeeps, EmittedKept DEF Shrink
<1>10. CASE Push
  BY <1>1, <1>3, <1>10, PushKeeps
<1>11. CASE Advance
  BY <1>1, <1>3, <1>11, AdvanceKeeps, EmittedKept DEF Advance
<1>12. CASE Stop
  BY <1>1, <1>3, <1>12, StopKeeps, EmittedKept DEF Stop
<1>13. CASE UNCHANGED vars
  <2>1. UNCHANGED <<lo, hi, start, size, cidrs, pc>>
    BY <1>13 DEF vars
  <2>2. Emitted' /\ Frontier' = Frontier
    BY <1>3, <2>1, EmittedKept
  <2>3. Scan'
    BY <1>3, <2>1, <2>2 DEF Scan, AtAlign, AtShrink, AtAdvance, ValidRange, WholeSpace,
                            MaxForBits, TotalBits, Greedy
  <2> QED
    BY <2>2, <2>3
<1> QED
  BY <1>4, <1>5, <1>6, <1>7, <1>8, <1>9, <1>10, <1>11, <1>12, <1>13 DEF Next

-----------------------------------------------------------------------------
(***************************************************************************)
(* The results.                                                            *)
(***************************************************************************)

(* What is emitted is networks inside the range, each where the one before *)
(* ended, at every moment of range_to_cidrs: the beginning of a range that *)
(* insert_range has stored when one of its inserts is refused has no gap.  *)
THEOREM GapFreeAlways ==
    Spec => []GapFree
<1>1. IInv => GapFree
  BY DEF IInv, GapFree, Emitted
<1> QED
  BY <1>1, InitIInv, NextIInv, PTL DEF Spec

(* A range that does not begin at :: comes back as its maximal networks in *)
(* ascending order, and the shift by the whole word is never reached,      *)
(* whatever the widths of the two families.                                *)
THEOREM MinimalCoverAlways ==
    Spec => []MinimalCoverElsewhere
<1>1. IInv => MinimalCoverElsewhere
  <2> SUFFICES ASSUME IInv, ~FromZeroV6, pc \in {"done", "panic"}
               PROVE  {cidrs[i] : i \in DOMAIN cidrs} = MaximalNetworks /\ Ascending
    BY DEF MinimalCoverElsewhere, MinimalCover
  <2>1. Ends /\ Finished
    BY DEF IInv, Ends, Finished, Scan
  <2> QED
    BY <2>1, FinishedCover
<1> QED
  BY <1>1, InitIInv, NextIInv, PTL DEF Spec
=============================================================================
