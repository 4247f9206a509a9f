-------------------------------- MODULE Tree --------------------------------
(***************************************************************************)
(* The search tree of tree.rs as it is stored: a growing sequence of nodes *)
(* that point at each other by index, and what the calls of a writer do to *)
(* it.  Every method is an operator from the tree to the tree; module      *)
(* TreeInsert models the recursion of insert step by step and says why     *)
(* whole calls are enough here.  An index is counted from 1, so nodes[0]   *)
(* of the code is nodes[1].  The recursion is written as functions, so     *)
(* that WriterProofs can reason about it.                                  *)
(***************************************************************************)
EXTENDS BitPaths, Functions

CONSTANTS V4Depth,      \* 96: bits above the IPv4 subtree of a V6 tree
          AliasNets,    \* ::ffff:0:0/96, 2001::/32 and 2002::/16, in this order
          Values,       \* values a caller inserts
          None          \* Option::None, for a value

Record == [kind : {"NoData", "Reserved", "Node", "FixedNode", "Alias", "Data"}, arg : Nat]

Rec(k, x)    == [kind |-> k, arg |-> x]
NoData       == Rec("NoData", 0)
Reserved     == Rec("Reserved", 0)
Node(i)      == Rec("Node", i)
FixedNode(i) == Rec("FixedNode", i)
Alias(i)     == Rec("Alias", i)
Data(id)     == Rec("Data", id)

IsLeaf(r)    == r.kind \in {"NoData", "Data", "Alias", "Reserved"}
IsPointer(r) == r.kind \in {"Node", "FixedNode"}

EmptyNode == [b \in Bit |-> NoData]
NewTree   == <<EmptyNode>>

(* An insert changes the nodes and, through its closure, the pool. *)
Trees == [nodes : Seq([Bit -> Record]), values : Seq(Values)]

Put(nodes, i, b, r) == [nodes EXCEPT ![i][b] = r]

(* The index that alloc_node hands out; the u32 limit is TreeInsert's. *)
NewIndex(nodes) == Len(nodes) + 1

(* Fault: leaves are compared by kind only. *)
BothSameKind(n) == n[0].kind = n[1].kind /\ IsLeaf(n[0])

(* try_merge_node and compact_node: two children that are the same leaf. *)
BothSame(n) == n[0] = n[1] /\ IsLeaf(n[0])

-----------------------------------------------------------------------------
(***************************************************************************)
(* Insert.  A closure f maps the value at a leaf to the value to store and *)
(* interns its answer, so the walk carries the nodes and the pool.         *)
(***************************************************************************)

(* Fault: the pool hands out a new id for a value it already has. *)
InternAlways(values, v) == Append(values, v)

Intern(values, v) == IF v \in Range(values) THEN values ELSE Append(values, v)

IdOf(values, v) == CHOOSE id \in DOMAIN values : values[id] = v

ValueAt(values, r) == IF r.kind = "Data" THEN values[r.arg] ELSE None

AskLeaf(t, i, b, f) ==
    LET new  == f[ValueAt(t.values, t.nodes[i][b])]
        pool == IF new = None THEN t.values ELSE Intern(t.values, new)
    IN  [nodes  |-> Put(t.nodes, i, b, IF new = None THEN NoData ELSE Data(IdOf(pool, new))),
         values |-> pool]

(* Back in the frame that visited record b of node i, which points at node j. *)
TryMerge(t, i, b, j) ==
    IF BothSame(t.nodes[j]) THEN [t EXCEPT !.nodes = Put(t.nodes, i, b, t.nodes[j][0])] ELSE t

(* A leaf above the prefix end becomes a node whose children both carry it. *)
SplitLeaf(t, i, b) ==
    [t EXCEPT !.nodes = Append(Put(t.nodes, i, b, Node(NewIndex(t.nodes))),
                               [c \in Bit |-> t.nodes[i][b]])]

(* Fault: only aliases are left in place. *)
SkippedAlias(r) == r.kind = "Alias"

(* A broadcast leaves aliases and reserved leaves in place. *)
Skipped(r) == r.kind \in {"Alias", "Reserved"}

(* Record b of node i, d bits below the root; below[t][j] is the tree when node j was visited. *)
InsertAtRecord(below, t, i, b, d, n, f) ==
    LET r == t.nodes[i][b]
        j == NewIndex(t.nodes)
    IN  IF r.kind = "Node" THEN TryMerge(below[t][r.arg], i, b, r.arg)
        ELSE IF r.kind = "FixedNode" THEN below[t][r.arg]
        ELSE IF Skipped(r) THEN t
        ELSE IF d > Len(n) THEN AskLeaf(t, i, b, f)
        ELSE TryMerge(below[SplitLeaf(t, i, b)][j], i, b, j)

(* A node whose records are d bits below the root. *)
InsertAtNode(below, d, n, f) ==
    [t \in Trees |-> [i \in Nat |->
        IF d > Len(n)
        THEN InsertAtRecord(below, InsertAtRecord(below, t, i, 0, d, n, f), i, 1, d, n, f)
        ELSE InsertAtRecord(below, t, i, n[d], d, n, f)]]

(* insert_at_node at a node with so many levels of records; at none no node is left. *)
Inserting(n, f) ==
    LET At[levels \in 0 .. Depth + 1] ==
            IF levels = 0 THEN [t \in Trees |-> [i \in Nat |-> t]]
            ELSE InsertAtNode(At[levels - 1], Depth + 2 - levels, n, f)
    IN  At

(* A host route needs a level of records below the last bit. *)
TreeInserted(nodes, values, n, f) ==
    Inserting(n, f)[Depth + 1][[nodes |-> nodes, values |-> values]][1]

-----------------------------------------------------------------------------
(***************************************************************************)
(* Markers: reserved networks, painted by the builder, and IPv4 aliases,   *)
(* installed on the copy that is serialized.                               *)
(***************************************************************************)
NoNode == 0

(* The k-th turn of install_marker's loop, at node s.at; NoNode when it has returned. *)
MarkerStep(s, n, k, marker) ==
    LET r == s.nodes[s.at][n[k]]
        j == NewIndex(s.nodes)
    IN  IF s.at = NoNode THEN s
        ELSE IF k = Len(n)
        THEN [nodes |-> IF r = NoData THEN Put(s.nodes, s.at, n[k], marker) ELSE s.nodes,
              at    |-> NoNode]
        ELSE IF IsPointer(r) THEN [s EXCEPT !.at = r.arg]
        ELSE IF r = NoData
        THEN [nodes |-> Append(Put(s.nodes, s.at, n[k], Node(j)), EmptyNode), at |-> j]
        ELSE [s EXCEPT !.at = NoNode]

InstallMarker(nodes, n, marker) ==
    LET Turn[k \in 0 .. Len(n)] ==
            IF k = 0 THEN [nodes |-> nodes, at |-> 1] ELSE MarkerStep(Turn[k - 1], n, k, marker)
    IN  Turn[Len(n)].nodes

-----------------------------------------------------------------------------
(* get: one record per bit of the address. *)
RecordAt(nodes, a) ==
    LET Follow[k \in 0 .. Len(a)] ==
            IF k = 0 THEN Node(1)
            ELSE LET r == Follow[k - 1]
                 IN  IF IsPointer(r) \/ r.kind = "Alias" THEN nodes[r.arg][a[k]] ELSE r
    IN  Follow[Len(a)]

TreeGet(nodes, a) ==
    LET r == RecordAt(nodes, a) IN IF r.kind = "Data" THEN r.arg ELSE None
=============================================================================
