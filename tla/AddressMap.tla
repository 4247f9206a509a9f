----------------------------- MODULE AddressMap -----------------------------
(***************************************************************************)
(* What Writer promises of its tree, with no tree in it: a table that      *)
(* gives every address of the space a leaf, and an insert that applies a   *)
(* closure, in one step, to the leaf of every address of a network.        *)
(***************************************************************************)
EXTENDS Leaves

VARIABLE map

Init == map = [a \in Addr |->
                 IF \E n \in ReservedNets : Covers(n, a) THEN Reserved ELSE NoData]

Insert(n, f) ==
    /\ \A a \in Addr : IF Covers(n, a) THEN map'[a] \in Results(f, map[a])
                                       ELSE map'[a] = map[a]
    /\ map' \in [Addr -> Leaf]

Next == \E n \in Network, f \in Ops : Insert(n, f)

Spec == Init /\ [][Next]_map
=============================================================================
