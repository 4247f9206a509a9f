---------------------------- MODULE MCTreeInsert ----------------------------
(* Instances of TreeInsert for TLC: closures and reserved networks.        *)
EXTENDS TreeInsert

(* |_| Some(id), |_| None, and two closures that compute from the old id. *)
SetTo(i) == [o \in OptId |-> {i}]
Clear    == [o \in OptId |-> {None}]
Bump     == [o \in OptId |-> IF o = None THEN {1} ELSE {3 - o}]
Fill     == [o \in OptId |-> IF o = None THEN {2} ELSE {o}]

PureClosures == {SetTo(1), Clear, Bump, Fill}

(* Two adjacent networks, as 224.0.0.0/4 and 240.0.0.0/4 are. *)
AdjacentReserved == {<<1, 0>>, <<1, 1>>}
=============================================================================
