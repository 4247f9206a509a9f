------------------------------ MODULE TreeFile ------------------------------
(***************************************************************************)
(* What tree.rs does to the copy of the tree that is serialized: aliases,  *)
(* compaction, renumbering and the numbers that records become.            *)
(***************************************************************************)
EXTENDS Tree, SequencesExt

-----------------------------------------------------------------------------
(***************************************************************************)
(* IPv4 aliases, installed on the copy that is serialized.                 *)
(***************************************************************************)

(* The node k left turns below the root, if Record::Node leads all the way. *)
LeftSpine(nodes, k) ==
    LET Turn[m \in 0 .. k] ==
            IF m = 0 THEN 1
            ELSE LET p == Turn[m - 1]
                 IN  IF p # NoNode /\ nodes[p][0].kind = "Node" THEN nodes[p][0].arg ELSE NoNode
    IN  Turn[k]

PinRoot(nodes, root) == Put(nodes, LeftSpine(nodes, V4Depth - 1), 0, FixedNode(root))

InstallAliases(nodes) ==
    LET root == LeftSpine(nodes, V4Depth)
        Done[k \in 0 .. Len(AliasNets)] ==
            IF k = 0 THEN PinRoot(nodes, root) ELSE InstallMarker(Done[k - 1], AliasNets[k], Alias(root))
    IN  IF root = NoNode THEN nodes ELSE Done[Len(AliasNets)]

-----------------------------------------------------------------------------
(***************************************************************************)
(* compact: identical leaves collapse bottom up, then the nodes that are   *)
(* left are renumbered in pre-order.                                       *)
(***************************************************************************)
Arenas == Seq([Bit -> Record])

(* resolve_child: the tree after it, and the record that stands for child b of i. *)
ResolveChild(below, nodes, i, b) ==
    LET r == nodes[i][b]
    IN  IF r.kind = "Node" THEN below[nodes][r.arg]
        ELSE IF r.kind = "FixedNode" THEN [below[nodes][r.arg] EXCEPT !.rec = r]
        ELSE [nodes |-> nodes, rec |-> r]

(* compact_node; below does the same one level deeper. *)
CompactNode(below, nodes, i) ==
    LET left  == ResolveChild(below, nodes, i, 0)
        right == ResolveChild(below, left.nodes, i, 1)
        node  == [b \in Bit |-> IF b = 0 THEN left.rec ELSE right.rec]
    IN  [nodes |-> [right.nodes EXCEPT ![i] = node],
         rec   |-> IF BothSame(node) THEN node[0] ELSE Node(i)]

(* compact_node with so many levels of nodes left. *)
Compacting ==
    LET At[levels \in 0 .. Depth] ==
            IF levels = 0 THEN [ns \in Arenas |-> [i \in Nat |-> [nodes |-> ns, rec |-> Node(i)]]]
            ELSE [ns \in Arenas |-> [i \in Nat |-> CompactNode(At[levels - 1], ns, i)]]
    IN  At

Behind(below, r) == IF IsPointer(r) THEN below[r.arg] ELSE << >>

(* Indices that an explicit stack visits from each node, left before right. *)
Preorder(nodes) ==
    LET Visit[levels \in 0 .. Depth] ==
            IF levels = 0 THEN [i \in Nat |-> << >>]
            ELSE [i \in Nat |-> <<i>> \o Behind(Visit[levels - 1], nodes[i][0])
                                     \o Behind(Visit[levels - 1], nodes[i][1])]
    IN  Visit

(* Fault: an alias keeps the index that its target had before. *)
RemapPointers(r, order) ==
    IF ~IsPointer(r) THEN r ELSE Rec(r.kind, CHOOSE k \in DOMAIN order : order[k] = r.arg)

Remap(r, order) ==
    IF ~IsPointer(r) /\ r.kind # "Alias" THEN r
    ELSE IF Contains(order, r.arg) THEN Rec(r.kind, CHOOSE k \in DOMAIN order : order[k] = r.arg)
    ELSE NoData

RenumberReachable(nodes) ==
    LET order == Preorder(nodes)[Depth][1]
    IN  [k \in DOMAIN order |-> [b \in Bit |-> Remap(nodes[order[k]][b], order)]]

Compact(nodes) ==
    LET c == Compacting[Depth][nodes][1]
        rooted == IF IsPointer(c.rec) THEN c.nodes ELSE [c.nodes EXCEPT ![1] = [b \in Bit |-> c.rec]]
    IN  RenumberReachable(rooted)

-----------------------------------------------------------------------------
(***************************************************************************)
(* Serialization.                                                          *)
(***************************************************************************)

Noted(ids, r) == IF r.kind # "Data" \/ Contains(ids, r.arg) THEN ids ELSE Append(ids, r.arg)

(* reachable_data_ids: ids of the compacted tree, by first appearance. *)
ReachableDataIds(nodes) ==
    LET Seen[k \in 0 .. Len(nodes)] ==
            IF k = 0 THEN << >> ELSE Noted(Noted(Seen[k - 1], nodes[k][0]), nodes[k][1])
    IN  Seen[Len(nodes)]

(* Fault: data is not moved past the gap. *)
EncodeNoGap(r, count, gap, offset) ==
    IF r.kind \in {"NoData", "Reserved"} THEN count
    ELSE IF r.kind = "Data" THEN count + offset[r.arg] ELSE r.arg - 1

(* encode_record; gap is the 16 numbers the format leaves after the nodes. *)
Encode(r, count, gap, offset) ==
    IF r.kind \in {"NoData", "Reserved"} THEN count
    ELSE IF r.kind = "Data" THEN count + gap + offset[r.arg] ELSE r.arg - 1
=============================================================================
