---------------------------- MODULE MCDataReader ----------------------------
(* Values of every kind of interest to the table: shorter than a pointer,  *)
(* as long as one and longer, shared, nested and inside one another.       *)
EXTENDS DataReader

Scalar(n, bytes)       == [name |-> n, head |-> bytes, items |-> << >>]
Container(bytes, list) == [name |-> "array", head |-> bytes, items |-> list]

Empty == Scalar("empty", 1)
Flag  == Scalar("flag", 2)
Word  == Scalar("word", 4)
Text  == Scalar("text", 7)

Flags  == Container(2, <<Flag>>)
Words  == Container(2, <<Word, Word>>)
Both   == Container(2, <<Text, Flags>>)
Inner  == Container(2, <<Empty, Flag>>)
Nested == Container(2, <<Flags, Inner, Flags>>)
Tables == Container(2, <<Words, Text, Words>>)

AllValues == {Empty, Flag, Word, Text, Flags, Words, Both, Inner, Nested, Tables}

SomeValues == {Flag, Word, Text, Flags, Words, Both, Nested, Tables}

MostNested == 3

AllHeights ==
    [v \in AllValues |->
        IF v.items = << >> THEN 1 ELSE IF v \in {Nested, Tables, Both} THEN 3 ELSE 2]

(* Class ends scaled down so that a few values reach the last class. *)
NearEnds == <<5, 14, 24>>
=============================================================================
