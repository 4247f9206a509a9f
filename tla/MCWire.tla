------------------------------- MODULE MCWire -------------------------------
(* Both sides of every boundary between the layouts and the classes.       *)
EXTENDS Wire

BoundarySizes == {0, 1, 28, 29, 30, 284, 285, 286, 540, 541, 65820, 65821, 65822, 16843036}
TooLong       == {16843036, 16843037, 16843038}

(* TLC computes with 31-bit integers; the theorem covers the whole of u32. *)
BoundaryOffsets == {0, 255, 256, 2047, 2048, 2303, 2304, 67584, 526335, 526336, 526592,
                    17303552, 134744063, 134744064, 2147483647}

AllTags  == {2, 3, 4, 7}
TwoTags  == {2, 7}
AllExtensions == {4, 7, 8}
Arrays   == {4}
Nothing  == {}

(* A list's length around the end of the first layout. *)
ListLengths == {27, 28, 29, 30}

(* Zeros in front, inside and behind, and the bits of negative numbers. *)
Digits(w) == {[i \in 1 .. w |-> IF i <= z THEN 0 ELSE IF i = z + 1 THEN f ELSE l] :
                 z \in 0 .. w, f \in {1, 128, 255}, l \in {0, 255}}
Integers16 == [type : {5}, digits : Digits(2)]
Integers32 == [type : {6, 8}, digits : Digits(4)]
Integers64 == [type : {9}, digits : Digits(8)]
Integers128 == [type : {10}, digits : {d \in Digits(16) : d[4] = d[3]}]
BoundaryNumbers == Integers16 \cup Integers32 \cup Integers64 \cup Integers128
=============================================================================
