------------------------------ MODULE BitPaths ------------------------------
(***************************************************************************)
(* Bit strings of the address space a search tree indexes.  An address, a  *)
(* network and the path of a record in the tree are all sequences of bits, *)
(* most significant first, which is the order in which tree.rs reads them  *)
(* from the u128 walk word.                                                *)
(***************************************************************************)
EXTENDS Integers, Sequences

CONSTANT Depth      \* bits of an address: 32 in a V4 tree, 128 in a V6 tree

ASSUME DepthAssumption == Depth \in Nat \ {0}

Bit == {0, 1}

Addr == [1 .. Depth -> Bit]

(***************************************************************************)
(* A network is the pair (bits, prefix_len) with its host bits dropped.    *)
(***************************************************************************)
Network == UNION {[1 .. n -> Bit] : n \in 0 .. Depth}

(***************************************************************************)
(* The path of a record: the bits followed from the root to reach it.  An  *)
(* insert whose prefix is a whole address allocates a node at depth Depth, *)
(* so records exist, for a while, one level below the last address bit.    *)
(* A point is an address together with the side of such a node.            *)
(***************************************************************************)
Path  == UNION {[1 .. n -> Bit] : n \in 1 .. Depth + 1}
Point == [1 .. Depth + 1 -> Bit]

(* q lies in the region that p names: p is a prefix of q, or q itself. *)
Covers(p, q) == /\ Len(p) <= Len(q)
                /\ \A i \in 1 .. Len(p) : p[i] = q[i]

(* The first k bits of q. *)
Cut(q, k) == [i \in 1 .. k |-> q[i]]
=============================================================================
