------------------------------- MODULE Writer -------------------------------
(***************************************************************************)
(* Writer of writer.rs: the options it was built with, the tree and the    *)
(* value pool, and the inserts that change them.  A call has `&mut self',  *)
(* so calls do not overlap.  The file that a writer builds is in Build.    *)
(***************************************************************************)
EXTENDS Tree, FiniteSetsExt

CONSTANTS IpVersion,        \* "V4" or "V6"
          OptionSets,       \* options a writer may be built with, see Options
          ReservedList,     \* reserved::networks(ip_version), in order
          Closures,         \* closures a caller gives to insert_with
          InsertNets,       \* networks a caller inserts
          InsertRanges,     \* ranges, each as the networks that range_to_networks makes of it
          Limits,           \* record_size.max_value() of each size, ascending
          MaxCalls          \* bound on the number of inserts

V4Bits  == IF IpVersion = "V6" THEN Depth - V4Depth ELSE Depth
V4Zeros == [i \in 1 .. V4Depth |-> 0]

Families == IF IpVersion = "V6" THEN {"V4", "V6"} ELSE {"V4"}

(* An IpNet with its host bits truncated, as to_tree_prefix does first. *)
IpNet == (UNION {[family : {"V4"}, bits : [1 .. n -> Bit]] : n \in 0 .. V4Bits})
    \cup (UNION {[family : {"V6"}, bits : [1 .. n -> Bit]] : n \in 0 .. Depth})

OptValue == Values \cup {None}

(* What a builder was told: size is a record limit, inline is MetadataPointers::Disabled, *)
(* epoch a time in seconds that may lie before 1970, texts whatever load copies as it is. *)
Options == [aliasing : BOOLEAN, excluded : BOOLEAN, size : Range(Limits) \cup {None},
            inline : BOOLEAN, epoch : Int \cup {None}, texts : STRING]

(* to_tree_prefix, for a network that the tree can hold. *)
TreePrefix(net) ==
    IF net.family = "V4" /\ IpVersion = "V6" THEN V4Zeros \o net.bits ELSE net.bits

ASSUME WriterAssumption ==
    /\ IpVersion \in {"V4", "V6"} /\ None \notin Values
    /\ V4Depth \in 1 .. Depth
    /\ InsertNets \subseteq IpNet
    /\ InsertRanges \subseteq Seq(IpNet)
    /\ \A range \in InsertRanges : \A i, j \in DOMAIN range :
           Covers(TreePrefix(range[i]), TreePrefix(range[j])) => i = j
    /\ Closures \subseteq [OptValue -> OptValue]
    /\ OptionSets \subseteq Options
    /\ MaxCalls \in Nat

(* The lists of reserved.rs: no entry is the whole space, and none contains another. *)
ASSUME ReservedListAssumption ==
    /\ ReservedList \in Seq({n \in IpNet : n.family \in Families})
    /\ \A i \in DOMAIN ReservedList : TreePrefix(ReservedList[i]) # << >>
    /\ \A i, j \in DOMAIN ReservedList :
           Covers(TreePrefix(ReservedList[i]), TreePrefix(ReservedList[j])) => i = j

VARIABLES options,          \* the other fields of self
          nodes, values,    \* self.tree.nodes, self.pool.values
          calls             \* inserts so far

vars == <<options, nodes, values, calls>>

-----------------------------------------------------------------------------
(* The tree of the builder: painted when reserved networks are excluded. *)
Fresh(o) ==
    IF ~o.excluded THEN NewTree
    ELSE LET Painted[k \in 0 .. Len(ReservedList)] ==
                 IF k = 0 THEN NewTree
                 ELSE InstallMarker(Painted[k - 1], TreePrefix(ReservedList[k]), Reserved)
         IN  Painted[Len(ReservedList)]

(* IpNet::contains: a network of the other family is never inside. *)
Contained(outer, inner) ==
    outer.family = inner.family /\ Covers(outer.bits, inner.bits)

AliasBlocks(o, net) ==
    /\ IpVersion = "V6" /\ o.aliasing
    /\ \E i \in DOMAIN AliasNets : Contained([family |-> "V6", bits |-> AliasNets[i]], net)

ReservedBlocks(o, net) ==
    o.excluded /\ \E i \in DOMAIN ReservedList : Contained(ReservedList[i], net)

(* ensure_insertable, then the error of to_tree_prefix. *)
Outcome(o, net) ==
    IF AliasBlocks(o, net) THEN "AliasedNetwork"
    ELSE IF ReservedBlocks(o, net) THEN "ReservedNetwork"
    ELSE IF net.family \notin Families THEN "Ipv6InIpv4Tree"
    ELSE "ok"

(* insert_value on a network that is accepted: the value is interned first. *)
ValueStored(t, net, v) ==
    TreeInserted(t.nodes, Intern(t.values, v), TreePrefix(net), [o \in OptValue |-> v])

-----------------------------------------------------------------------------
Init ==
    /\ options \in OptionSets
    /\ nodes = Fresh(options)
    /\ values = << >>
    /\ calls = 0

Call == calls < MaxCalls /\ calls' = calls + 1 /\ UNCHANGED options

(* The caller gets an error. *)
Refused(net) ==
    /\ Call
    /\ Outcome(options, net) # "ok"
    /\ UNCHANGED <<nodes, values>>

Become(t) == nodes' = t.nodes /\ values' = t.values

InsertValue(net, v) ==
    /\ Call
    /\ Outcome(options, net) = "ok"
    /\ Become(ValueStored([nodes |-> nodes, values |-> values], net, v))

(* insert_with, and insert_value_merged, whose strategies are closures of it. *)
InsertWith(net, f) ==
    /\ Call
    /\ Outcome(options, net) = "ok"
    /\ Become(TreeInserted(nodes, values, TreePrefix(net), f))

(* Fault: the networks that are refused are left out and the rest inserted. *)
AcceptedAnywhere(range) == SelectSeq(range, LAMBDA net : Outcome(options, net) = "ok")

(* The networks of a range in front of the first that is refused. *)
Accepted(range) ==
    LET refused == {k \in DOMAIN range : Outcome(options, range[k]) # "ok"}
    IN  SubSeq(range, 1, Min({Len(range) + 1} \cup refused) - 1)

Stored(nets, v) ==
    LET Done[k \in 0 .. Len(nets)] ==
            IF k = 0 THEN [nodes |-> nodes, values |-> values] ELSE ValueStored(Done[k - 1], nets[k], v)
    IN  Done[Len(nets)]

(* insert_range: `?' on the first refusal, with no undoing of what went before. *)
InsertRange(range, v) == Call /\ Become(Stored(Accepted(range), v))

Next == \/ \E net \in InsertNets :
               \/ Refused(net)
               \/ \E v \in Values : InsertValue(net, v)
               \/ \E f \in Closures : InsertWith(net, f)
        \/ \E range \in InsertRanges, v \in Values : InsertRange(range, v)

Spec == Init /\ [][Next]_vars

-----------------------------------------------------------------------------
(***************************************************************************)
(* Properties.                                                             *)
(***************************************************************************)

(***************************************************************************)
(* A record points into the tree or the pool, every node but the root is   *)
(* the child of at most one record (what TreeInsert takes for granted when *)
(* it names a record by its path), and no value has two ids.               *)
(***************************************************************************)
TypeOK ==
    /\ calls \in 0 .. MaxCalls
    /\ \A i \in DOMAIN nodes, b \in Bit :
           LET r == nodes[i][b]
           IN  \/ r \in {NoData, Reserved}
               \/ r.kind = "Node" /\ r.arg \in 2 .. Len(nodes)
               \/ r.kind = "Data" /\ r.arg \in DOMAIN values
    /\ \A i, j \in DOMAIN nodes, b, c \in Bit :
           IsPointer(nodes[i][b]) /\ nodes[i][b] = nodes[j][c] => i = j /\ b = c
    /\ IsInjective(values)

Carved(o) == IF o.excluded THEN {TreePrefix(ReservedList[i]) : i \in DOMAIN ReservedList} ELSE {}

Constantly(v) == [o \in OptValue |-> v]

(* A closure as module Leaves has it: a relation, here with one answer each. *)
Relation(f) == [o \in OptValue |-> {f[o]}]

Table ==
    [a \in Addr |->
        LET r == RecordAt(nodes, a)
        IN  [kind |-> r.kind, id |-> ValueAt(values, r)]]

Promise(o) == INSTANCE AddressMap WITH
    Ids <- Values,
    Ops <- {Relation(f) : f \in Closures \cup {Constantly(v) : v \in Values}},
    ReservedNets <- Carved(o),
    map <- Table

(***************************************************************************)
(* Later inserts win: in every history of inserts the writer is the table  *)
(* that gives each address its last accepted value; each call changes the  *)
(* addresses of its own network, merges see the value before them, and     *)
(* reserved space is carved out of whatever covers it.                     *)
(***************************************************************************)
LaterInsertsWin ==
    /\ \A o \in OptionSets : options = o => Promise(o)!Init
    /\ [][\A o \in OptionSets, net \in InsertNets :
             options = o =>
                 /\ \A v \in Values : InsertValue(net, v) =>
                        Promise(o)!Insert(TreePrefix(net), Relation(Constantly(v)))
                 /\ \A f \in Closures : InsertWith(net, f) =>
                        Promise(o)!Insert(TreePrefix(net), Relation(f))]_vars

From(range, k) == {a \in Addr : \E j \in k .. Len(range) : Covers(TreePrefix(range[j]), a)}

(***************************************************************************)
(* insert_range gives its value to a beginning of the range: to every      *)
(* address below the first network that is refused, reserved space apart,  *)
(* and to no address from there on.                                        *)
(***************************************************************************)
RangeStopsAtRefusal ==
    [][\A range \in InsertRanges, v \in Values :
          InsertRange(range, v) =>
              LET stop == CHOOSE k \in 1 .. Len(range) + 1 :
                              /\ k = Len(range) + 1 \/ Outcome(options, range[k]) # "ok"
                              /\ \A j \in 1 .. k - 1 : Outcome(options, range[j]) = "ok"
                  done == From(range, 1) \ From(range, stop)
              IN  \A a \in Addr :
                      Table'[a] = IF a \in done /\ Table[a].kind # "Reserved"
                                  THEN [kind |-> "Data", id |-> v] ELSE Table[a]]_vars
=============================================================================
