----------------------------- MODULE TreeInsert -----------------------------
(***************************************************************************)
(* Tree::insert of tree.rs, one record visit at a time.                    *)
(*                                                                         *)
(* The live tree is a forest of exclusively owned nodes, so a record is    *)
(* named by the bits that lead to it and `slot' holds the record at every  *)
(* path; the index a Record::Node carries is left out (module Tree keeps   *)
(* it).  FixedNode and Alias records are installed only on the copy that   *)
(* Writer::build serializes and never meet an insert.                      *)
(*                                                                         *)
(* The frames of the recursion insert_at_node / insert_at_record are the   *)
(* prefixes of the path being visited, and what a frame has left to do     *)
(* follows from its last bit and the network: the call stack is `at'.      *)
(***************************************************************************)
EXTENDS Leaves, FiniteSets

CONSTANT MaxNodes         \* nodes that a u32 index can number: 2^32

NodeRec == [kind |-> "Node", id |-> None]
Absent  == [kind |-> "Absent", id |-> None]     \* no record has this path
Record  == Leaf \cup {NodeRec}

Parent(p)  == Cut(p, Len(p) - 1)
Sibling(p) == Append(Parent(p), 1 - p[Len(p)])

(***************************************************************************)
(* The tree of Writer::builder: every reserved network painted, with the   *)
(* nodes that install_marker needs above it.  The nets are not nested, so  *)
(* the order of the list does not matter.                                  *)
(***************************************************************************)
AboveReserved(p) == \E n \in ReservedNets : Covers(p, n) /\ p # n

Painted(p) ==
    IF p \in ReservedNets THEN Reserved
    ELSE IF AboveReserved(p) THEN NodeRec
    ELSE IF Len(p) = 1 \/ AboveReserved(Parent(p)) THEN NoData
    ELSE Absent

PaintedNodes == 1 + Cardinality({p \in Path : AboveReserved(p)})

ASSUME MaxNodesAssumption ==
    /\ MaxNodes \in Nat
    /\ PaintedNodes \in 1 .. MaxNodes   \* .expect("reserved network fits the tree")

VARIABLES slot,           \* the record each path leads to
          allocated,      \* nodes.len(): nodes are never given back
          phase,          \* "idle", "visit" (a record) or "return" (from it)
          at,             \* path of the record that phase is about
          net, op,        \* arguments of the call
          outcome         \* what the last call returned

tree == <<slot, allocated>>
vars == <<slot, allocated, phase, at, net, op, outcome>>

Init ==
    /\ slot = [p \in Path |-> Painted(p)]
    /\ allocated = PaintedNodes
    /\ phase = "idle"
    /\ at = << >>
    /\ net = << >>
    /\ op \in Ops
    /\ outcome = "none"

(* Fault: the broadcast starts one bit above the prefix end. *)
FirstBelowEarly(n, p) ==
    Append(p, IF Len(p) + 1 >= Len(n) THEN 0 ELSE n[Len(p) + 1])

(* The first record that insert_at_node visits below the node at path p. *)
FirstBelow(n, p) ==
    Append(p, IF Len(p) + 1 > Len(n) THEN 0 ELSE n[Len(p) + 1])

Insert(n, f) ==
    /\ phase = "idle"
    /\ net' = n
    /\ op' = f
    /\ phase' = "visit"
    /\ at' = FirstBelow(n, << >>)
    /\ outcome' = "running"
    /\ UNCHANGED tree

(* Record::Node: recurse into the child node. *)
VisitNode ==
    /\ phase = "visit"
    /\ slot[at] = NodeRec
    /\ at' = FirstBelow(net, at)
    /\ UNCHANGED <<slot, allocated, phase, net, op, outcome>>

(* Record::Reserved: leave it in place. *)
VisitReserved ==
    /\ phase = "visit"
    /\ slot[at] = Reserved
    /\ phase' = "return"
    /\ UNCHANGED <<slot, allocated, at, net, op, outcome>>

Writable(leaf) == leaf \in Leaf \ {Reserved}

(* Record::NoData or Record::Data below the prefix: store the closure's answer. *)
ApplyOp ==
    /\ phase = "visit"
    /\ Writable(slot[at])
    /\ Len(at) > Len(net)
    /\ \E r \in Results(op, slot[at]) : slot' = [slot EXCEPT ![at] = r]
    /\ phase' = "return"
    /\ UNCHANGED <<allocated, at, net, op, outcome>>

(* Fault: the new node is Node::default(), as for an empty leaf. *)
SplitEmpty(p) ==
    [q \in Path |-> IF q = p THEN NodeRec
                    ELSE IF q \in {Append(p, 0), Append(p, 1)} THEN NoData
                    ELSE slot[q]]

(* The tree after the leaf at p becomes a node whose children both carry it. *)
Split(p) ==
    [q \in Path |-> IF q = p THEN NodeRec
                    ELSE IF q \in {Append(p, 0), Append(p, 1)} THEN slot[p]
                    ELSE slot[q]]

(* Fault: the index one past the last is given out. *)
NodesLeftOneMore == allocated <= MaxNodes

(* alloc_node: u32::try_from(self.nodes.len()) succeeds. *)
NodesLeft == allocated < MaxNodes

(* A leaf above the prefix end: allocate a node for it and recurse into that. *)
Descend ==
    /\ phase = "visit"
    /\ Writable(slot[at])
    /\ Len(at) <= Len(net)
    /\ NodesLeft
    /\ slot' = Split(at)
    /\ allocated' = allocated + 1
    /\ at' = FirstBelow(net, at)
    /\ UNCHANGED <<phase, net, op, outcome>>

(* alloc_node fails; `?' unwinds the whole call, past every pending merge. *)
AllocFails ==
    /\ phase = "visit"
    /\ Writable(slot[at])
    /\ Len(at) <= Len(net)
    /\ ~NodesLeft
    /\ phase' = "idle"
    /\ at' = << >>
    /\ outcome' = "TreeTooLarge"
    /\ UNCHANGED <<slot, allocated, net, op>>

(* Faults: the second child is visited above the prefix too; or again and again. *)
LeftDoneAnywhere == at[Len(at)] = 0
LeftDoneForever  == Len(at) > Len(net)

(* insert_at_node has broadcast to the left child and turns to the right one. *)
LeftDone == Len(at) > Len(net) /\ at[Len(at)] = 0

VisitRight ==
    /\ phase = "return"
    /\ LeftDone
    /\ phase' = "visit"
    /\ at' = Sibling(at)
    /\ UNCHANGED <<slot, allocated, net, op, outcome>>

(* Fault: only populated leaves count as leaves. *)
MergeableData(p) ==
    /\ slot[Append(p, 0)] = slot[Append(p, 1)]
    /\ slot[Append(p, 0)] \in {Data(i) : i \in Ids}

(* try_merge_node: both children of the node at p are the same leaf. *)
Mergeable(p) ==
    /\ slot[Append(p, 0)] = slot[Append(p, 1)]
    /\ slot[Append(p, 0)] \in Leaf

(* The tree after the pointer to the node at p is replaced by that leaf. *)
Collapse(p) ==
    [q \in Path |-> IF q = p THEN slot[Append(p, 0)]
                    ELSE IF q \in {Append(p, 0), Append(p, 1)} THEN Absent
                    ELSE slot[q]]

(* insert_at_node returns to the record that points at its node. *)
MergeNode ==
    /\ phase = "return"
    /\ ~LeftDone
    /\ Len(at) > 1
    /\ slot' = IF Mergeable(Parent(at)) THEN Collapse(Parent(at)) ELSE slot
    /\ at' = Parent(at)
    /\ UNCHANGED <<allocated, phase, net, op, outcome>>

(* insert_at_node of the root returns; the root is never merged. *)
Finish ==
    /\ phase = "return"
    /\ ~LeftDone
    /\ Len(at) = 1
    /\ phase' = "idle"
    /\ at' = << >>
    /\ outcome' = "ok"
    /\ UNCHANGED <<slot, allocated, net, op>>

Step == \/ VisitNode \/ VisitReserved \/ ApplyOp \/ Descend \/ AllocFails
        \/ VisitRight \/ MergeNode \/ Finish

Next == Step \/ \E n \in Network, f \in Ops : Insert(n, f)

(* A call that was made runs to its end: it is a loop-free recursion. *)
Spec == Init /\ [][Next]_vars /\ WF_vars(Step)

-----------------------------------------------------------------------------
(***************************************************************************)
(* Properties.                                                             *)
(***************************************************************************)

(* The state of the tree and of the call in progress is well typed. *)
TypeOK ==
    /\ slot \in [Path -> Record \cup {Absent}]
    /\ allocated \in 1 .. MaxNodes
    /\ phase \in {"idle", "visit", "return"}
    /\ at \in Path \cup {<< >>}
    /\ net \in Network
    /\ op \in Ops
    /\ outcome \in {"none", "running", "ok", "TreeTooLarge"}

(* Every record hangs below nodes only: nothing is lost under a leaf. *)
PrefixClosed ==
    \A p, q \in Path :
        slot[q] # Absent /\ Covers(p, q) /\ p # q => slot[p] = NodeRec

(* The walk of every address, on either side of a node at depth Depth, ends. *)
LeafAt(e, k) == slot[Cut(e, k)] \in Leaf
Resolves == \A e \in Point : \E k \in 1 .. Depth + 1 : LeafAt(e, k)

(* A call visits records that exist, on the path of its network or below it. *)
CursorOK ==
    /\ phase = "idle" <=> at = << >>
    /\ phase # "idle" => /\ slot[at] # Absent
                         /\ Covers(at, net) \/ Covers(net, at)

(***************************************************************************)
(* In every state, mid-insert included and whatever closure is applied,    *)
(* the live nodes form a tree in which every address has one leaf and the  *)
(* recursion stands on a record of it.                                     *)
(***************************************************************************)
TreeShape == PrefixClosed /\ Resolves /\ CursorOK

IInv == TypeOK /\ TreeShape

(* The leaf of a point, and the leaf that the call in progress will store. *)
Value(e) == slot[Cut(e, CHOOSE k \in 1 .. Depth + 1 : LeafAt(e, k))]

Result(f, leaf) == CHOOSE r \in Leaf : r \in Results(f, leaf)

(* The call has passed the end of its prefix and broadcasts. *)
Painting == phase = "return" \/ (phase = "visit" /\ Len(at) > Len(net))

(* Points that the frames of the recursion have yet to reach. *)
Pending(e) ==
    \/ phase = "visit" /\ Covers(at, e)
    \/ \E k \in Len(net) + 1 .. Len(at) :
           at[k] = 0 /\ e[k] = 1 /\ Covers(Cut(at, k - 1), e)

Promised(e) ==
    IF Painting /\ Pending(e) THEN Result(op, Value(e)) ELSE Value(e)

View == [a \in Addr |-> Promised(Append(a, 0))]

Promise == INSTANCE AddressMap WITH map <- View

(***************************************************************************)
(* The tree implements AddressMap.  With a pure closure, an insert applies *)
(* its own closure to every address of its own network and to no other,    *)
(* exactly once, at the moment its walk passes the end of the prefix:      *)
(* splits, merges and the order of the broadcast are invisible, and an     *)
(* insert that fails has changed nothing.                                  *)
(***************************************************************************)
AtomicInsert == Promise!Spec /\ [][Promise!Insert(net', op')]_View

(***************************************************************************)
(* Whatever the closure answers, no step of an insert changes the leaf of  *)
(* an address outside its network: splitting preserves the siblings.       *)
(***************************************************************************)
OutsideUntouched ==
    [][\A e \in Point : ~Covers(net, e) => Value(e)' = Value(e)]_vars

(***************************************************************************)
(* After an insert that succeeds, no node on the path of its network or    *)
(* below it has two children that are the same leaf: the merge on the way  *)
(* back "keeps the tree compact during insertion".                         *)
(***************************************************************************)
MergedWhereWalked ==
    phase = "idle" /\ outcome = "ok" =>
        \A p \in Path : slot[p] = NodeRec /\ (Covers(p, net) \/ Covers(net, p))
                           => slot[Append(p, 0)] # slot[Append(p, 1)]
                              \/ slot[Append(p, 0)] = NodeRec

(***************************************************************************)
(* Between calls every address has a leaf at a depth that Tree::get, and a *)
(* reader, walks: nodes at depth Depth never outlive the insert that makes *)
(* them.                                                                   *)
(***************************************************************************)
EveryAddressResolves ==
    phase = "idle" => \A a \in Addr : \E k \in 1 .. Depth : LeafAt(a, k)

(* Tree::insert returns, whatever the tree and the closure. *)
InsertReturns == phase # "idle" ~> phase = "idle"
=============================================================================
