----------------------------- MODULE RangeSplit -----------------------------
(***************************************************************************)
(* range_to_networks and range_to_cidrs of net.rs: an inclusive address    *)
(* range taken apart into CIDR blocks, one pass of its loops at a time.    *)
(* WordBits is the width of u128; an IPv6 space is as wide as the word and *)
(* an IPv4 space is narrower, which is what the shifts depend on.          *)
(***************************************************************************)
EXTENDS Integers, Sequences, FiniteSetsExt

CONSTANTS WordBits,     \* 128
          V4Bits        \* 32

ASSUME WidthAssumption ==
    /\ WordBits \in Nat /\ V4Bits \in Nat
    /\ 0 < V4Bits /\ V4Bits < WordBits

(* 1 shifted left by k. *)
Pow2[k \in Nat] == IF k = 0 THEN 1 ELSE 2 * Pow2[k - 1]

Bits(family) == IF family = "V4" THEN V4Bits ELSE WordBits

Endpoint == UNION {{[family |-> f, addr |-> a] : a \in 0 .. Pow2[Bits(f)] - 1} :
                      f \in {"V4", "V6"}}

VARIABLES lo, hi,       \* the endpoints the caller gave
          start,        \* first address not yet covered
          size,         \* exponent of the block under trial
          cidrs,        \* <<[base, prefix]>>, the result so far
          pc

vars == <<lo, hi, start, size, cidrs, pc>>
args == <<lo, hi>>

TotalBits  == Bits(lo.family)
MaxForBits == Pow2[TotalBits] - 1

Init ==
    /\ lo \in Endpoint /\ hi \in Endpoint
    /\ start = 0 /\ size = 0 /\ cidrs = << >>
    /\ pc = "call"

(* Families differ, or the range is reversed: Error::InvalidRange. *)
InvalidRange ==
    /\ pc = "call"
    /\ lo.family # hi.family \/ lo.addr > hi.addr
    /\ pc' = "error"
    /\ UNCHANGED <<args, start, size, cidrs>>

ValidCall ==
    /\ pc = "call"
    /\ lo.family = hi.family
    /\ lo.addr <= hi.addr

(* Fault: an end at the top of the space is taken for the whole space. *)
WholeSpaceByEnd == hi.addr = MaxForBits

WholeSpace == lo.addr = 0 /\ hi.addr = MaxForBits

Shortcut ==
    /\ ValidCall
    /\ WholeSpace
    /\ cidrs' = <<[base |-> 0, prefix |-> 0]>>
    /\ pc' = "done"
    /\ UNCHANGED <<args, start, size>>

Begin ==
    /\ ValidCall
    /\ ~WholeSpace
    /\ start' = lo.addr
    /\ pc' = "align"
    /\ UNCHANGED <<args, size, cidrs>>

TrailingZeros(n) == Max({k \in 0 .. WordBits - 1 : n % Pow2[k] = 0})

(* The largest block that may begin at `start'. *)
Align ==
    /\ pc = "align"
    /\ size' = IF start = 0 THEN TotalBits ELSE Min({TrailingZeros(start), TotalBits})
    /\ pc' = "shrink"
    /\ UNCHANGED <<args, start, cidrs>>

(***************************************************************************)
(* 1u128 << size.  Shifting by the whole width panics in a build that      *)
(* checks overflow and shifts by size % WordBits in one that does not.     *)
(***************************************************************************)
Block == Pow2[size % WordBits]

ShiftPanics ==
    /\ pc = "shrink" /\ size > 0
    /\ size >= WordBits
    /\ pc' = "panic"
    /\ UNCHANGED <<args, start, size, cidrs>>

(* Fault: a block that ends exactly at the end of the range is too large. *)
FitsStrictly == start + (Block - 1) < hi.addr

Fits == start + (Block - 1) <= hi.addr

(* Fault: the exponent is not decremented. *)
SameSize == size

OneSmaller == size - 1

Shrink ==
    /\ pc = "shrink" /\ size > 0
    /\ ~Fits
    /\ size' = OneSmaller
    /\ UNCHANGED <<args, start, cidrs, pc>>

Push ==
    /\ pc = "shrink"
    /\ size = 0 \/ Fits
    /\ cidrs' = Append(cidrs, [base |-> start, prefix |-> TotalBits - size])
    /\ pc' = "advance"
    /\ UNCHANGED <<args, start, size>>

NextStart == start + Block

(* checked_add: a sum outside the word ends the loop, and so does the range. *)
Advance ==
    /\ pc = "advance"
    /\ NextStart < Pow2[WordBits] /\ NextStart <= hi.addr
    /\ start' = NextStart
    /\ pc' = "align"
    /\ UNCHANGED <<args, size, cidrs>>

Stop ==
    /\ pc = "advance"
    /\ NextStart >= Pow2[WordBits] \/ NextStart > hi.addr
    /\ pc' = "done"
    /\ UNCHANGED <<args, start, size, cidrs>>

Next == \/ InvalidRange \/ Shortcut \/ Begin \/ Align \/ ShiftPanics
        \/ Shrink \/ Push \/ Advance \/ Stop

Spec == Init /\ [][Next]_vars /\ WF_vars(Next)

-----------------------------------------------------------------------------
(***************************************************************************)
(* Properties.                                                             *)
(***************************************************************************)
SizeOf(c) == Pow2[TotalBits - c.prefix]
Last(c)   == c.base + SizeOf(c) - 1

(* A network of the space, that is with its host bits zero, inside the range. *)
NetworkInside(c) ==
    /\ c.base % SizeOf(c) = 0
    /\ lo.addr <= c.base /\ Last(c) <= hi.addr

Within(c, d) == d.base <= c.base /\ Last(c) <= Last(d)

(* The networks inside the range that no larger network inside it contains. *)
MaximalNetworks ==
    LET inside == {c \in [base : lo.addr .. hi.addr, prefix : 0 .. TotalBits] :
                      NetworkInside(c)}
    IN  {c \in inside : \A d \in inside : Within(c, d) => c = d}

Ascending == \A i, j \in DOMAIN cidrs : i < j => cidrs[i].base < cidrs[j].base

(***************************************************************************)
(* "the minimal list of CIDR networks that exactly covers it", "ordered    *)
(* from start upward": every valid range comes back as its maximal         *)
(* networks in ascending order.                                            *)
(***************************************************************************)
MinimalCover ==
    pc \in {"done", "panic"} =>
        {cidrs[i] : i \in DOMAIN cidrs} = MaximalNetworks /\ Ascending

(* The calls that the shift cannot serve: from :: to below the last address. *)
FromZeroV6 == lo.family = "V6" /\ hi.family = "V6" /\ lo.addr = 0 /\ ~WholeSpace

(* Every other range, of either family, gets its minimal ordered cover. *)
MinimalCoverElsewhere == FromZeroV6 \/ MinimalCover

(***************************************************************************)
(* At every point of the loop the blocks emitted so far are networks inside *)
(* the range, the first begins it and each begins where the one before it  *)
(* ends: what insert_range has stored when one of its inserts is refused   *)
(* is a gap-free beginning of the range.                                   *)
(***************************************************************************)
GapFree ==
    FromZeroV6 \/
        \A i \in DOMAIN cidrs :
            /\ NetworkInside(cidrs[i])
            /\ cidrs[i].base = IF i = 1 THEN lo.addr ELSE Last(cidrs[i - 1]) + 1

(* range_to_networks comes to an end, whatever the endpoints. *)
Terminates == <>(pc \in {"done", "error", "panic"})
=============================================================================
