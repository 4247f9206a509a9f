------------------------------ MODULE MCWriter ------------------------------
(* Instances of Writer and Build for TLC: a four-bit IPv6 space over a     *)
(* one-bit IPv4 space, and an IPv4 space of three bits.                    *)
EXTENDS Build

V4(bits) == [family |-> "V4", bits |-> bits]
V6(bits) == [family |-> "V6", bits |-> bits]

(* Mapped beside the IPv4 root; Teredo and 6to4 in the two halves of 2000::/3. *)
Aliases6 == << <<0, 0, 1>>, <<1, 0, 0>>, <<1, 1>> >>

Default == [aliasing |-> TRUE, excluded |-> FALSE, size |-> None, inline |-> FALSE,
            epoch |-> None, texts |-> "MMDB"]
Carving == [Default EXCEPT !.excluded = TRUE, !.epoch = 0 - 5]
Plain   == [Default EXCEPT !.aliasing = FALSE, !.inline = TRUE, !.epoch = 7]

JustDefault == {Default}
Builders6   == {Default, Carving, Plain}
Builders4   == {[Carving EXCEPT !.aliasing = FALSE]}

(* Two of the networks are halves of one, as 224.0.0.0/4 and 240.0.0.0/4 are. *)
NoReserved == << >>
Reserved6  == << V4(<<1>>), V6(<<0, 1, 0>>), V6(<<0, 1, 1>>) >>
Reserved4  == << V4(<<0, 0>>), V4(<<1, 1, 0>>), V4(<<1, 1, 1>>) >>

TwoValues == {"x", "y"}
Lengths   == [v \in TwoValues |-> 2]

(* And one that fills a section up to the last offset. *)
WithHuge    == TwoValues \cup {"huge"}
HugeLengths == [v \in WithHuge |-> IF v = "huge" THEN 13 ELSE 2]

(* A merge, a closure that clears, and one that does both, by what it finds. *)
Fill  == [o \in OptValue |-> IF o = None THEN "x" ELSE "y"]
Clear == [o \in OptValue |-> None]
Cycle == [o \in OptValue |-> IF o = None THEN "x" ELSE IF o = "x" THEN "y" ELSE None]
TwoClosures == {Fill, Clear}
OneClosure  == {Fill}
Cycling     == {Cycle}

(* Record limits that every file fits in, and some that the larger ones do not. *)
Roomy == <<9, 16, 64>>
Tight == <<9, 11, 13>>

Mixed6 == {V4(<< >>), V4(<<0>>), V4(<<1>>), V6(<< >>), V6(<<0, 0, 0, 1>>),
           V6(<<0, 1>>), V6(<<0, 1, 1, 0>>), V6(<<1>>)}
Ipv4Only == {V4(<<0>>), V4(<<1>>), V4(<< >>)}
Around6  == {V4(<<0>>), V6(<< >>), V6(<<0, 0>>), V6(<<0, 1>>), V6(<<1, 0>>)}

(* Ranges that run into alias space or reserved space, or begin in it. *)
NoRanges     == {}
OverAliases  == {<<V6(<<0, 1, 1, 1>>), V6(<<1, 0, 0>>), V6(<<1, 0, 1, 0>>)>>}
OverReserved == {<<V4(<<0, 1, 1>>), V4(<<1, 0>>), V4(<<1, 1, 0>>)>>,
                 <<V4(<<0, 0, 1>>), V4(<<0, 1>>), V4(<<1, 0, 0>>)>>}

Mixed4 == {V4(<< >>), V4(<<0, 1>>), V4(<<1, 1>>), V4(<<1, 1, 0>>), V4(<<1, 0, 1>>), V6(<<0>>)}
=============================================================================
