-------------------------- MODULE TreeInsertProofs --------------------------
(***************************************************************************)
(* Proofs about TreeInsert, for every depth, every set of closures         *)
(* (stateful ones included), every set of reserved networks and every      *)
(* limit on the number of nodes.                                           *)
(***************************************************************************)
EXTENDS TreeInsert, SequenceTheorems, WellFoundedInduction, TLAPS

-----------------------------------------------------------------------------
(* Bit paths. *)

(* Paths, networks, addresses and points are bit sequences of bounded length. *)
LEMMA BitSeq ==
    ASSUME NEW n \in Nat, NEW s
    PROVE  s \in [1 .. n -> Bit] <=> s \in Seq(Bit) /\ Len(s) = n
<1>1. ASSUME s \in [1 .. n -> Bit] PROVE s \in Seq(Bit) /\ Len(s) = n
  <2>1. s \in Seq(Bit)
    BY <1>1, SeqDef
  <2>2. DOMAIN s = 1 .. n /\ DOMAIN s = 1 .. Len(s) /\ Len(s) \in Nat
    BY <1>1, <2>1, LenProperties
  <2>3. QED
    BY <2>1, <2>2
<1>2. ASSUME s \in Seq(Bit), Len(s) = n PROVE s \in [1 .. n -> Bit]
  BY <1>2, LenProperties
<1>3. QED
  BY <1>1, <1>2

LEMMA PathSeq ==
    \A s : s \in Path <=> s \in Seq(Bit) /\ Len(s) \in 1 .. Depth + 1
BY BitSeq, DepthAssumption, LenProperties DEF Path

LEMMA NetworkSeq ==
    \A s : s \in Network <=> s \in Seq(Bit) /\ Len(s) \in 0 .. Depth
BY BitSeq, DepthAssumption, LenProperties DEF Network

LEMMA PointSeq ==
    \A s : s \in Point <=> s \in Seq(Bit) /\ Len(s) = Depth + 1
BY BitSeq, DepthAssumption DEF Point

LEMMA AddrSeq ==
    \A s : s \in Addr <=> s \in Seq(Bit) /\ Len(s) = Depth
BY BitSeq, DepthAssumption DEF Addr

(* A bit sequence is determined by its length and its bits. *)
LEMMA SameBits ==
    ASSUME NEW p \in Seq(Bit), NEW q \in Seq(Bit), Len(p) = Len(q),
           \A i \in 1 .. Len(p) : p[i] = q[i]
    PROVE  p = q
BY SeqEqual

LEMMA CutSeq ==
    ASSUME NEW q \in Seq(Bit), NEW k \in 0 .. Len(q)
    PROVE  /\ Cut(q, k) \in Seq(Bit)
           /\ Len(Cut(q, k)) = k
           /\ \A i \in 1 .. k : Cut(q, k)[i] = q[i]
<1>1. Cut(q, k) \in [1 .. k -> Bit]
  BY LenProperties DEF Cut
<1>2. k \in Nat
  BY LenProperties
<1>3. QED
  BY <1>1, <1>2, BitSeq DEF Cut

LEMMA AppendSeq ==
    ASSUME NEW p \in Seq(Bit), NEW b \in Bit
    PROVE  /\ Append(p, b) \in Seq(Bit)
           /\ Len(Append(p, b)) = Len(p) + 1
           /\ \A i \in 1 .. Len(p) : Append(p, b)[i] = p[i]
           /\ Append(p, b)[Len(p) + 1] = b
BY AppendProperties

LEMMA EmptyCut == ASSUME NEW q \in Seq(Bit) PROVE Cut(q, 0) = << >>
<1>1. Cut(q, 0) \in Seq(Bit) /\ Len(Cut(q, 0)) = 0
  BY CutSeq, LenProperties
<1>2. QED
  BY <1>1, EmptySeq

(***************************************************************************)
(* Covers is the prefix order.                                             *)
(***************************************************************************)
LEMMA CoversCut ==
    ASSUME NEW q \in Seq(Bit), NEW k \in 0 .. Len(q)
    PROVE  Covers(Cut(q, k), q)
BY CutSeq, LenProperties DEF Covers

LEMMA CutOfCovered ==
    ASSUME NEW p \in Seq(Bit), NEW q \in Seq(Bit), Covers(p, q)
    PROVE  Len(p) \in 0 .. Len(q) /\ Cut(q, Len(p)) = p
<1>1. Len(p) \in 0 .. Len(q)
  BY LenProperties DEF Covers
<1>2. Cut(q, Len(p)) = p
  BY <1>1, CutSeq, SameBits DEF Covers
<1>3. QED
  BY <1>1, <1>2

LEMMA CoversTransitive ==
    ASSUME NEW p \in Seq(Bit), NEW q \in Seq(Bit), NEW r \in Seq(Bit),
           Covers(p, q), Covers(q, r)
    PROVE  Covers(p, r)
BY LenProperties DEF Covers

LEMMA CoversAntisymmetric ==
    ASSUME NEW p \in Seq(Bit), NEW q \in Seq(Bit), Covers(p, q), Len(q) <= Len(p)
    PROVE  p = q
BY SameBits, LenProperties DEF Covers

LEMMA CoversLinear ==
    ASSUME NEW p \in Seq(Bit), NEW q \in Seq(Bit), NEW r \in Seq(Bit),
           Covers(p, r), Covers(q, r), Len(p) <= Len(q)
    PROVE  Covers(p, q)
BY LenProperties DEF Covers

LEMMA CoversAppend ==
    ASSUME NEW p \in Seq(Bit), NEW q \in Seq(Bit), NEW b \in Bit
    PROVE  /\ Covers(p, Append(p, b))
           /\ Covers(Append(p, b), q) <=>
                 Covers(p, q) /\ Len(p) + 1 <= Len(q) /\ q[Len(p) + 1] = b
           /\ Covers(q, Append(p, b)) <=> Covers(q, p) \/ q = Append(p, b)
<1>1. Covers(p, Append(p, b))
  BY AppendSeq, LenProperties DEF Covers
<1>2. Covers(Append(p, b), q) <=>
         Covers(p, q) /\ Len(p) + 1 <= Len(q) /\ q[Len(p) + 1] = b
  BY AppendSeq, LenProperties DEF Covers
<1>3. ASSUME Covers(q, Append(p, b)) PROVE Covers(q, p) \/ q = Append(p, b)
  <2>1. CASE Len(q) <= Len(p)
    BY <1>3, <2>1, AppendSeq, LenProperties DEF Covers
  <2>2. CASE Len(q) = Len(p) + 1
    <3>1. Append(p, b) \in Seq(Bit) /\ Len(Append(p, b)) = Len(q)
      BY <2>2, AppendSeq
    <3>2. Len(Append(p, b)) <= Len(q)
      BY <3>1, LenProperties
    <3>3. q = Append(p, b)
      BY <1>3, <3>1, <3>2, CoversAntisymmetric, Zenon
    <3>4. QED
      BY <3>3
  <2>3. QED
    BY <1>3, <2>1, <2>2, AppendSeq, LenProperties DEF Covers
<1>4. ASSUME Covers(q, p) \/ q = Append(p, b) PROVE Covers(q, Append(p, b))
  BY <1>1, <1>4, AppendSeq, CoversTransitive, LenProperties DEF Covers
<1>5. QED
  BY <1>1, <1>2, <1>3, <1>4

(* Every nonempty path is the child of a shorter one. *)
LEMMA CutAppend ==
    ASSUME NEW q \in Seq(Bit), NEW k \in 1 .. Len(q)
    PROVE  /\ q[k] \in Bit
           /\ Cut(q, k) = Append(Cut(q, k - 1), q[k])
<1>1. q[k] \in Bit /\ k \in Nat /\ k - 1 \in 0 .. Len(q) /\ k \in 0 .. Len(q)
  BY LenProperties
<1>2. /\ Cut(q, k - 1) \in Seq(Bit)
      /\ Len(Cut(q, k - 1)) = k - 1
      /\ \A i \in 1 .. k - 1 : Cut(q, k - 1)[i] = q[i]
  BY <1>1, CutSeq
<1>3. /\ Cut(q, k) \in Seq(Bit)
      /\ Len(Cut(q, k)) = k
      /\ \A i \in 1 .. k : Cut(q, k)[i] = q[i]
  BY <1>1, CutSeq
<1>4. QED
  BY <1>1, <1>2, <1>3, AppendSeq, SameBits

LEMMA CutWhole == ASSUME NEW q \in Seq(Bit) PROVE Cut(q, Len(q)) = q
BY CutSeq, SameBits, LenProperties

LEMMA CutCut ==
    ASSUME NEW q \in Seq(Bit), NEW k \in 0 .. Len(q), NEW j \in 0 .. k
    PROVE  Cut(Cut(q, k), j) = Cut(q, j)
<1>1. j \in 0 .. Len(q) /\ j \in 0 .. Len(Cut(q, k))
  BY CutSeq, LenProperties
<1>2. QED
  BY <1>1, CutSeq, SameBits

(* Every path is on the way to some point. *)
LEMMA PointBelow ==
    ASSUME NEW p \in Seq(Bit), Len(p) <= Depth + 1
    PROVE  \E e \in Point : Covers(p, e)
<1> DEFINE e == [i \in 1 .. Depth + 1 |-> IF i <= Len(p) THEN p[i] ELSE 0]
<1>1. e \in Point
  BY LenProperties, DepthAssumption DEF Point, Bit
<1>2. Len(e) = Depth + 1
  BY <1>1, PointSeq
<1>3. Len(p) \in 0 .. Depth + 1
  BY LenProperties, DepthAssumption
<1>4. \A i \in 1 .. Len(p) : e[i] = p[i]
  BY <1>3, DepthAssumption
<1> HIDE DEF e
<1>5. Covers(p, e)
  BY <1>2, <1>3, <1>4 DEF Covers
<1>6. QED
  BY <1>1, <1>5

-----------------------------------------------------------------------------
(* Leaves and records. *)

LEMMA Kinds ==
    /\ NoData \in Leaf /\ Reserved \in Leaf
    /\ NodeRec \notin Leaf /\ Absent \notin Leaf /\ NodeRec # Absent
    /\ \A leaf \in Leaf : leaf.id \in OptId /\ leaf \in Record
    /\ \A o \in OptId : Stored(o) \in Leaf
<1>1. /\ NoData.kind = "NoData" /\ Reserved.kind = "Reserved"
      /\ NodeRec.kind = "Node" /\ Absent.kind = "Absent"
      /\ \A i \in Ids : Data(i).kind = "Data" /\ Data(i).id = i
      /\ NoData.id = None /\ Reserved.id = None
  BY DEF NoData, Reserved, NodeRec, Absent, Data
<1>2. \A leaf \in Leaf : leaf.kind \in {"NoData", "Reserved", "Data"}
                          /\ leaf.id \in OptId
  BY <1>1 DEF Leaf, OptId
<1>3. NodeRec \notin Leaf /\ Absent \notin Leaf /\ NodeRec # Absent
  BY <1>1, <1>2
<1>4. NoData \in Leaf /\ Reserved \in Leaf
  BY DEF Leaf
<1>5. \A o \in OptId : Stored(o) \in Leaf
  BY DEF Stored, OptId, Leaf
<1>6. QED
  BY <1>2, <1>3, <1>4, <1>5 DEF Record

LEMMA ResultsAreLeaves ==
    ASSUME NEW f \in Ops, NEW leaf \in Leaf, NEW r \in Results(f, leaf)
    PROVE  r \in Leaf
<1>1. CASE leaf = Reserved
  BY <1>1, Kinds DEF Results
<1>2. CASE leaf # Reserved
  <2>1. PICK o \in f[leaf.id] : r = Stored(o)
    BY <1>2 DEF Results
  <2>2. f[leaf.id] \in SUBSET OptId
    BY Kinds, OpsAssumption
  <2>3. o \in OptId
    BY <2>1, <2>2
  <2>4. QED
    BY <2>1, <2>3, Kinds
<1>3. QED
  BY <1>1, <1>2

(* Paths and networks are bit sequences; this is how the proofs use them. *)
LEMMA PathIsSeq ==
    /\ \A p \in Path : p \in Seq(Bit) /\ Len(p) \in 1 .. Depth + 1
    /\ \A n \in Network : n \in Seq(Bit) /\ Len(n) \in 0 .. Depth
    /\ \A e \in Point : e \in Seq(Bit) /\ Len(e) = Depth + 1 /\ e \in Path
    /\ << >> \in Seq(Bit) /\ Len(<< >>) = 0
BY PathSeq, NetworkSeq, PointSeq, EmptySeq, DepthAssumption

LEMMA EmptyPath == << >> \notin Path /\ << >> \in Network
<1>1. << >> \in Seq(Bit) /\ Len(<< >>) \in 0 .. Depth /\ Len(<< >>) \notin 1 .. Depth + 1
  BY PathIsSeq, DepthAssumption
<1>2. QED
  BY <1>1, NetworkSeq, PathSeq, Zenon

LEMMA CutIsPath ==
    ASSUME NEW e \in Path, NEW k \in 1 .. Len(e)
    PROVE  Cut(e, k) \in Path /\ Len(Cut(e, k)) = k /\ Covers(Cut(e, k), e)
<1>1. k \in 0 .. Len(e) /\ k \in 1 .. Depth + 1 /\ e \in Seq(Bit)
  BY PathIsSeq, DepthAssumption
<1>2. QED
  BY <1>1, CutSeq, CoversCut, PathSeq

LEMMA ChildIsPath ==
    ASSUME NEW p \in Path \cup {<< >>}, Len(p) <= Depth, NEW b \in Bit
    PROVE  /\ Append(p, b) \in Path
           /\ Len(Append(p, b)) = Len(p) + 1
           /\ Covers(p, Append(p, b))
           /\ p # Append(p, b)
<1>1. p \in Seq(Bit) /\ Len(p) \in 0 .. Depth
  <2>1. CASE p \in Path
    BY <2>1, PathIsSeq, DepthAssumption
  <2>2. CASE p = << >>
    BY <2>2, PathIsSeq, DepthAssumption
  <2>3. QED
    BY <2>1, <2>2
<1>2. Append(p, b) \in Seq(Bit) /\ Len(Append(p, b)) = Len(p) + 1
  BY <1>1, AppendSeq
<1>3. Len(Append(p, b)) \in 1 .. Depth + 1
  BY <1>1, <1>2, DepthAssumption
<1>4. Append(p, b) \in Path
  BY <1>2, <1>3, PathSeq
<1>5. Covers(p, Append(p, b))
  BY <1>1, CoversAppend
<1>6. QED
  BY <1>1, <1>2, <1>4, <1>5

-----------------------------------------------------------------------------
(***************************************************************************)
(* The shape of the tree.                                                  *)
(***************************************************************************)

(* Records above an existing one are nodes. *)
LEMMA AboveIsNode ==
    ASSUME PrefixClosed, NEW p \in Path, NEW q \in Path, slot[q] # Absent,
           Covers(p, q), p # q
    PROVE  slot[p] = NodeRec
BY DEF PrefixClosed

(* A node has both its children, and is not at the depth of a point. *)
LEMMA NodeHasChildren ==
    ASSUME TypeOK, PrefixClosed, Resolves,
           NEW p \in Path \cup {<< >>}, p = << >> \/ slot[p] = NodeRec
    PROVE  /\ Len(p) <= Depth
           /\ \A b \in Bit : /\ Append(p, b) \in Path
                             /\ slot[Append(p, b)] # Absent
<1> USE DEF LeafAt
<1>1. Len(p) <= Depth
  <2>1. SUFFICES ASSUME p \in Point, slot[p] = NodeRec PROVE FALSE
    BY PathIsSeq, PathSeq, PointSeq, DepthAssumption
  <2>2. PICK k \in 1 .. Depth + 1 : slot[Cut(p, k)] \in Leaf
    BY <2>1 DEF Resolves
  <2>3. Cut(p, k) \in Path /\ Covers(Cut(p, k), p) /\ p \in Path
    BY <2>1, CutIsPath, PathIsSeq
  <2>4. slot[Cut(p, k)] = NodeRec
    BY <2>1, <2>3, AboveIsNode, Kinds
  <2>5. QED
    BY <2>2, <2>4, Kinds
<1>2. ASSUME NEW b \in Bit
      PROVE  Append(p, b) \in Path /\ slot[Append(p, b)] # Absent
  <2> DEFINE c == Append(p, b)
  <2>1. c \in Path /\ Covers(p, c) /\ Len(c) = Len(p) + 1 /\ p \in Seq(Bit)
    BY <1>1, ChildIsPath, PathIsSeq
  <2> HIDE DEF c
  <2>2. PICK e \in Point : Covers(c, e)
    BY <2>1, PointBelow, PathIsSeq
  <2>3. PICK k \in 1 .. Depth + 1 : slot[Cut(e, k)] \in Leaf
    BY DEF Resolves
  <2> DEFINE d == Cut(e, k)
  <2>4. d \in Path /\ Len(d) = k /\ Covers(d, e) /\ d \in Seq(Bit)
    BY CutIsPath, PathIsSeq
  <2>5. Covers(p, e)
    BY <2>1, <2>2, CoversTransitive, PathIsSeq
  <2> HIDE DEF d
  <2>6. ASSUME k <= Len(p) PROVE FALSE
    <3>1. Covers(d, p) /\ p \in Path /\ slot[p] = NodeRec
      BY <2>1, <2>4, <2>5, <2>6, CoversLinear, PathIsSeq
    <3>2. slot[d] = NodeRec
      BY <3>1, <2>4, AboveIsNode, Kinds
    <3>3. QED
      BY <3>2, <2>3, Kinds DEF d
  <2>7. Covers(c, d)
    BY <2>1, <2>2, <2>4, <2>6, CoversLinear, PathIsSeq
  <2>8. slot[c] # Absent
    BY <2>1, <2>3, <2>4, <2>7, AboveIsNode, Kinds DEF d
  <2>9. QED
    BY <2>1, <2>8 DEF c
<1>3. QED
  BY <1>1, <1>2

(* Nothing hangs below a leaf. *)
LEMMA NothingBelowLeaf ==
    ASSUME PrefixClosed, NEW p \in Path, NEW q \in Path,
           slot[p] \in Leaf, Covers(p, q), p # q
    PROVE  slot[q] = Absent
BY AboveIsNode, Kinds

(* The walk of an insert stays comparable with its network. *)
Comparable(p, n) == Covers(p, n) \/ Covers(n, p)

LEMMA FirstBelowComparable ==
    ASSUME NEW p \in Path \cup {<< >>}, NEW n \in Network, Len(p) <= Depth,
           Comparable(p, n)
    PROVE  /\ \E b \in Bit : FirstBelow(n, p) = Append(p, b)
           /\ Comparable(FirstBelow(n, p), n)
<1>1. p \in Seq(Bit) /\ n \in Seq(Bit) /\ Len(p) \in Nat /\ Len(n) \in Nat
  BY PathIsSeq, LenProperties
<1>2. CASE Len(p) + 1 > Len(n)
  <2>1. FirstBelow(n, p) = Append(p, 0) /\ 0 \in Bit
    BY <1>2 DEF FirstBelow, Bit
  <2>2. Covers(n, p)
    <3>1. CASE Covers(p, n)
      BY <3>1, <1>1, <1>2 DEF Covers
    <3>2. QED
      BY <3>1 DEF Comparable
  <2>3. Covers(n, Append(p, 0))
    BY <1>1, <2>1, <2>2, CoversAppend
  <2>4. QED
    BY <2>1, <2>3 DEF Comparable
<1>3. CASE Len(p) + 1 <= Len(n)
  <2> DEFINE b == n[Len(p) + 1]
  <2>1. b \in Bit
    BY <1>1, <1>3, LenProperties
  <2>2. FirstBelow(n, p) = Append(p, b)
    BY <1>1, <1>3 DEF FirstBelow
  <2>3. Covers(p, n)
    <3>1. CASE Covers(n, p)
      BY <3>1, <1>1, <1>3 DEF Covers
    <3>2. QED
      BY <3>1 DEF Comparable
  <2>4. Covers(Append(p, b), n)
    BY <1>1, <1>3, <2>1, <2>3, CoversAppend
  <2>5. QED
    BY <2>1, <2>2, <2>4 DEF Comparable
<1>4. QED
  BY <1>1, <1>2, <1>3

-----------------------------------------------------------------------------
(***************************************************************************)
(* The tree that Writer::builder leaves.                                   *)
(***************************************************************************)

(* A nonempty set of naturals has a least element. *)
LEMMA LeastNat ==
    ASSUME NEW T \in SUBSET Nat, T # {}
    PROVE  \E k \in T : \A j \in T : k <= j
<1> DEFINE R == OpToRel(<, Nat)
<1>1. IsWellFoundedOn(R, Nat)
  BY NatLessThanWellFounded
<1>2. R = {ss \in Nat \X Nat : ss[1] < ss[2]}
  BY DEF OpToRel
<1> HIDE DEF R
<1>3. PICK k \in T : \A j \in T : <<j, k>> \notin R
  BY <1>1, WFMin
<1>4. ASSUME NEW j \in T PROVE k <= j
  <2>1. <<j, k>> \in Nat \X Nat /\ <<j, k>>[1] = j /\ <<j, k>>[2] = k
    OBVIOUS
  <2>2. ~(j < k)
    BY <1>2, <1>3, <2>1
  <2>3. QED
    BY <2>2
<1>5. QED
  BY <1>4

LEMMA AboveReservedPath ==
    ASSUME NEW p \in Path, AboveReserved(p)
    PROVE  Len(p) < Depth
<1>1. PICK n \in ReservedNets : Covers(p, n) /\ p # n
  BY DEF AboveReserved
<1>2. n \in Network
  BY ReservedNetsAssumption
<1>3. Len(p) < Len(n)
  BY <1>1, <1>2, CoversAntisymmetric, PathIsSeq DEF Covers
<1>4. QED
  BY <1>2, <1>3, PathIsSeq, DepthAssumption

LEMMA AboveAboveReserved ==
    ASSUME NEW p \in Path, NEW q \in Path, Covers(p, q), AboveReserved(q)
    PROVE  AboveReserved(p)
<1>1. PICK n \in ReservedNets : Covers(q, n) /\ q # n
  BY DEF AboveReserved
<1>2. p \in Seq(Bit) /\ q \in Seq(Bit) /\ n \in Seq(Bit)
  BY ReservedNetsAssumption, PathIsSeq
<1>3. Covers(p, n)
  BY <1>1, <1>2, CoversTransitive
<1>4. p # n
  BY <1>1, <1>2, CoversAntisymmetric DEF Covers
<1>5. QED
  BY <1>3, <1>4 DEF AboveReserved

LEMMA ReservedNotAbove ==
    ASSUME NEW n \in ReservedNets PROVE ~AboveReserved(n)
BY ReservedNetsAssumption DEF AboveReserved

LEMMA ParentOfPath ==
    ASSUME NEW p \in Path, Len(p) > 1
    PROVE  /\ Parent(p) \in Path
           /\ Len(Parent(p)) = Len(p) - 1
           /\ Covers(Parent(p), p)
           /\ p[Len(p)] \in Bit
           /\ p = Append(Parent(p), p[Len(p)])
<1>1. p \in Seq(Bit) /\ Len(p) \in 1 .. Len(p) /\ Len(p) - 1 \in 1 .. Len(p)
  BY PathIsSeq, DepthAssumption
<1>2. QED
  BY <1>1, CutIsPath, CutAppend, CutWhole DEF Parent

LEMMA PaintedKinds ==
    ASSUME NEW p \in Path
    PROVE  /\ Painted(p) \in Record \cup {Absent}
           /\ Painted(p) = NodeRec <=> AboveReserved(p)
           /\ p \in ReservedNets => Painted(p) = Reserved
           /\ Len(p) = 1 /\ ~AboveReserved(p) => Painted(p) \in Leaf
           /\ Painted(p) # Absent /\ p \notin ReservedNets /\ Len(p) # 1
                => AboveReserved(p) \/ AboveReserved(Parent(p))
           /\ AboveReserved(Parent(p)) /\ ~AboveReserved(p) => Painted(p) \in Leaf
<1>1. CASE p \in ReservedNets
  <2>1. Painted(p) = Reserved /\ ~AboveReserved(p) /\ Reserved # NodeRec
    BY <1>1, ReservedNotAbove, Kinds DEF Painted
  <2>2. QED
    BY <1>1, <2>1, Kinds
<1>2. CASE p \notin ReservedNets /\ AboveReserved(p)
  <2>1. Painted(p) = NodeRec
    BY <1>2 DEF Painted
  <2>2. QED
    BY <1>2, <2>1, Kinds DEF Record
<1>3. CASE p \notin ReservedNets /\ ~AboveReserved(p)
  <2>1. Painted(p) = IF Len(p) = 1 \/ AboveReserved(Parent(p)) THEN NoData ELSE Absent
    BY <1>3 DEF Painted
  <2>2. QED
    BY <1>3, <2>1, Kinds
<1>4. QED
  BY <1>1, <1>2, <1>3

LEMMA InitShape == Init => PrefixClosed /\ Resolves
<1> SUFFICES ASSUME Init PROVE PrefixClosed /\ Resolves
  OBVIOUS
<1> USE DEF LeafAt
<1>0. \A p \in Path : slot[p] = Painted(p)
  BY DEF Init
<1>1. ASSUME NEW p \in Path, NEW q \in Path, slot[q] # Absent, Covers(p, q), p # q
      PROVE  slot[p] = NodeRec
  <2>1. Len(p) < Len(q) /\ p \in Seq(Bit) /\ q \in Seq(Bit) /\ Len(p) >= 1
    BY <1>1, CoversAntisymmetric, PathIsSeq DEF Covers
  <2>2. CASE q \in ReservedNets
    BY <1>0, <1>1, <2>2, PaintedKinds DEF AboveReserved
  <2>3. CASE AboveReserved(q)
    BY <1>0, <1>1, <2>3, AboveAboveReserved, PaintedKinds
  <2>4. CASE AboveReserved(Parent(q))
    <3>1. /\ Parent(q) \in Path /\ Len(Parent(q)) = Len(q) - 1
          /\ Covers(Parent(q), q) /\ Parent(q) \in Seq(Bit)
      BY <2>1, ParentOfPath, PathIsSeq
    <3>2. Len(p) <= Len(Parent(q))
      BY <2>1, <3>1, PathIsSeq
    <3>3. Covers(p, Parent(q))
      BY <1>1, <2>1, <3>1, <3>2, CoversLinear
    <3>4. QED
      BY <1>0, <2>4, <3>1, <3>3, AboveAboveReserved, PaintedKinds
  <2>5. QED
    BY <1>0, <1>1, <2>1, <2>2, <2>3, <2>4, PaintedKinds, PathIsSeq
<1>2. ASSUME NEW e \in Point
      PROVE  \E k \in 1 .. Depth + 1 : slot[Cut(e, k)] \in Leaf
  <2> DEFINE T == {k \in 1 .. Depth + 1 : ~AboveReserved(Cut(e, k))}
  <2>0. e \in Path /\ e \in Seq(Bit) /\ Len(e) = Depth + 1
    BY PathIsSeq
  <2>1. Depth + 1 \in T
    <3>1. Cut(e, Depth + 1) = e /\ Depth + 1 \in 1 .. Depth + 1
      BY <2>0, CutWhole, DepthAssumption
    <3>2. ~AboveReserved(e)
      BY <2>0, AboveReservedPath, DepthAssumption
    <3>3. QED
      BY <3>1, <3>2
  <2>2. PICK k \in T : \A j \in T : k <= j
    <3>1. T \in SUBSET Nat /\ T # {}
      BY <2>1, DepthAssumption
    <3> HIDE DEF T
    <3>2. QED
      BY <3>1, LeastNat
  <2>3. Cut(e, k) \in Path /\ Len(Cut(e, k)) = k
    BY <2>0, CutIsPath
  <2>4. CASE k = 1
    BY <1>0, <2>2, <2>3, <2>4, PaintedKinds
  <2>5. CASE k # 1
    <3>1. k - 1 \in 1 .. Depth + 1 /\ k - 1 \notin T
      BY <2>2, <2>5, DepthAssumption
    <3>2. AboveReserved(Cut(e, k - 1))
      BY <3>1
    <3>3. Parent(Cut(e, k)) = Cut(e, k - 1)
      <4>1. k \in 0 .. Len(e) /\ k - 1 \in 0 .. k
        BY <2>0, <3>1, DepthAssumption
      <4>2. QED
        BY <2>0, <2>3, <4>1, CutCut DEF Parent
    <3>4. QED
      BY <1>0, <2>2, <2>3, <3>2, <3>3, PaintedKinds
  <2>6. QED
    BY <2>4, <2>5
<1>3. QED
  BY <1>1, <1>2 DEF PrefixClosed, Resolves

LEMMA InitInvariant == Init => IInv
<1> SUFFICES ASSUME Init PROVE IInv
  OBVIOUS
<1>1. TypeOK
  <2>1. slot \in [Path -> Record \cup {Absent}]
    BY PaintedKinds DEF Init
  <2>2. << >> \in Network
    BY EmptyPath
  <2>3. allocated \in 1 .. MaxNodes
    BY MaxNodesAssumption DEF Init
  <2>4. QED
    BY <2>1, <2>2, <2>3 DEF Init, TypeOK
<1>2. CursorOK
  BY DEF Init, CursorOK
<1>3. QED
  BY <1>1, <1>2, InitShape DEF IInv, TreeShape

-----------------------------------------------------------------------------
(***************************************************************************)
(* What a step does to the records.                                        *)
(***************************************************************************)

(* The two ways a step rewrites the tree, read record by record. *)
LEMMA SplitRecords ==
    ASSUME NEW p \in Path, Len(p) <= Depth, slot' = Split(p), NEW q \in Path
    PROVE  /\ slot'[p] = NodeRec
           /\ q = Append(p, 0) \/ q = Append(p, 1) => slot'[q] = slot[p]
           /\ q # p /\ q # Append(p, 0) /\ q # Append(p, 1) => slot'[q] = slot[q]
<1>1. p # Append(p, 0) /\ p # Append(p, 1)
  BY ChildIsPath DEF Bit
<1>2. QED
  BY <1>1 DEF Split

LEMMA CollapseRecords ==
    ASSUME NEW p \in Path, Len(p) <= Depth, slot' = Collapse(p), NEW q \in Path
    PROVE  /\ slot'[p] = slot[Append(p, 0)]
           /\ q = Append(p, 0) \/ q = Append(p, 1) => slot'[q] = Absent
           /\ q # p /\ q # Append(p, 0) /\ q # Append(p, 1) => slot'[q] = slot[q]
<1>1. p # Append(p, 0) /\ p # Append(p, 1)
  BY ChildIsPath DEF Bit
<1>2. QED
  BY <1>1 DEF Collapse

(* Replacing a leaf by a leaf. *)
LEMMA StoreShape ==
    ASSUME IInv, NEW r \in Leaf, NEW p \in Path, slot[p] \in Leaf,
           slot' = [slot EXCEPT ![p] = r]
    PROVE  /\ slot' \in [Path -> Record \cup {Absent}]
           /\ PrefixClosed' /\ Resolves'
<1> USE DEF IInv, TypeOK, TreeShape
<1>1. slot' \in [Path -> Record \cup {Absent}]
  BY Kinds
<1>2. \A q \in Path : slot'[q] = IF q = p THEN r ELSE slot[q]
  OBVIOUS
<1>3. PrefixClosed'
  <2>1. SUFFICES ASSUME NEW c \in Path, NEW q \in Path, slot'[q] # Absent,
                        Covers(c, q), c # q
                 PROVE  slot'[c] = NodeRec
    BY DEF PrefixClosed
  <2>2. slot[q] # Absent
    BY <1>2, <2>1, Kinds
  <2>3. slot[c] = NodeRec
    BY <2>1, <2>2, AboveIsNode
  <2>4. QED
    BY <1>2, <2>3, Kinds
<1>4. Resolves'
  <2>1. SUFFICES ASSUME NEW e \in Point
                 PROVE  \E k \in 1 .. Depth + 1 : slot'[Cut(e, k)] \in Leaf
    BY DEF Resolves, LeafAt
  <2>2. PICK k \in 1 .. Depth + 1 : slot[Cut(e, k)] \in Leaf
    BY DEF Resolves, LeafAt
  <2>3. Cut(e, k) \in Path
    BY CutIsPath, PathIsSeq
  <2>4. QED
    BY <1>2, <2>2, <2>3
<1>5. QED
  BY <1>1, <1>3, <1>4

(* Splitting a leaf above the depth of a point. *)
LEMMA SplitShape ==
    ASSUME IInv, NEW p \in Path, Len(p) <= Depth, slot[p] \in Leaf, slot' = Split(p)
    PROVE  /\ slot' \in [Path -> Record \cup {Absent}]
           /\ PrefixClosed' /\ Resolves'
           /\ \A b \in Bit : slot'[Append(p, b)] = slot[p]
<1> USE DEF IInv, TypeOK, TreeShape
<1> DEFINE c0 == Append(p, 0)
           c1 == Append(p, 1)
<1>1. /\ c0 \in Path /\ Covers(p, c0) /\ p # c0
      /\ c1 \in Path /\ Covers(p, c1) /\ p # c1
  BY ChildIsPath DEF Bit
<1>2. slot[c0] = Absent /\ slot[c1] = Absent
  BY <1>1, NothingBelowLeaf
<1>3. /\ slot'[p] = NodeRec /\ slot'[c0] = slot[p] /\ slot'[c1] = slot[p]
      /\ \A q \in Path : q # p /\ q # c0 /\ q # c1 => slot'[q] = slot[q]
  BY <1>1, SplitRecords
<1>4. slot' \in [Path -> Record \cup {Absent}]
  BY Kinds DEF Split, Record
<1>5. PrefixClosed'
  <2>1. SUFFICES ASSUME NEW c \in Path, NEW q \in Path, slot'[q] # Absent,
                        Covers(c, q), c # q
                 PROVE  slot'[c] = NodeRec
    BY DEF PrefixClosed
  <2>2. ASSUME slot[c] = NodeRec PROVE slot'[c] = NodeRec
    BY <1>2, <1>3, <2>2, Kinds
  <2>3. CASE slot[q] # Absent
    BY <2>1, <2>2, <2>3, AboveIsNode
  <2>4. CASE slot[q] = Absent
    <3>1. \E b \in Bit : q = Append(p, b)
      BY <1>3, <2>1, <2>4, Kinds DEF Bit
    <3>2. Covers(c, p)
      BY <2>1, <3>1, CoversAppend, PathIsSeq
    <3>3. QED
      BY <1>3, <2>2, <3>2, AboveIsNode, Kinds
  <2>5. QED
    BY <2>3, <2>4
<1>6. Resolves'
  <2>1. SUFFICES ASSUME NEW e \in Point
                 PROVE  \E k \in 1 .. Depth + 1 : slot'[Cut(e, k)] \in Leaf
    BY DEF Resolves, LeafAt
  <2>2. PICK k \in 1 .. Depth + 1 : slot[Cut(e, k)] \in Leaf
    BY DEF Resolves, LeafAt
  <2>3. Cut(e, k) \in Path /\ Len(Cut(e, k)) = k /\ e \in Seq(Bit) /\ Len(e) = Depth + 1
    BY CutIsPath, PathIsSeq
  <2>4. CASE Cut(e, k) # p
    BY <1>2, <1>3, <2>2, <2>3, <2>4, Kinds
  <2>5. CASE Cut(e, k) = p
    <3>1. k + 1 \in 1 .. Depth + 1 /\ (k + 1) - 1 = k
      BY <2>3, <2>5, DepthAssumption
    <3>2. e[k + 1] \in Bit /\ Cut(e, k + 1) = Append(p, e[k + 1])
      BY <2>3, <2>5, <3>1, CutAppend
    <3>3. slot'[Cut(e, k + 1)] \in Leaf
      BY <1>3, <2>2, <2>5, <3>2 DEF Bit
    <3>4. QED
      BY <3>1, <3>3
  <2>6. QED
    BY <2>4, <2>5
<1>7. QED
  BY <1>3, <1>4, <1>5, <1>6 DEF Bit

(* Collapsing a node whose children are the same leaf. *)
LEMMA CollapseShape ==
    ASSUME IInv, NEW p \in Path, slot[p] = NodeRec, Mergeable(p), slot' = Collapse(p)
    PROVE  /\ slot' \in [Path -> Record \cup {Absent}]
           /\ PrefixClosed' /\ Resolves'
           /\ slot'[p] # Absent
<1> USE DEF IInv, TypeOK, TreeShape
<1> DEFINE c0 == Append(p, 0)
           c1 == Append(p, 1)
<1>1. /\ c0 \in Path /\ c1 \in Path /\ p # c0 /\ p # c1 /\ Len(p) <= Depth
  BY NodeHasChildren, ChildIsPath DEF Bit
<1>2. slot[c0] \in Leaf /\ slot[c1] = slot[c0]
  BY DEF Mergeable
<1>3. /\ slot'[p] = slot[c0] /\ slot'[c0] = Absent /\ slot'[c1] = Absent
      /\ \A q \in Path : q # p /\ q # c0 /\ q # c1 => slot'[q] = slot[q]
  BY <1>1, CollapseRecords
<1>4. slot' \in [Path -> Record \cup {Absent}]
  BY <1>1, <1>2, Kinds DEF Collapse
<1>5. PrefixClosed'
  <2>1. SUFFICES ASSUME NEW c \in Path, NEW q \in Path, slot'[q] # Absent,
                        Covers(c, q), c # q
                 PROVE  slot'[c] = NodeRec
    BY DEF PrefixClosed
  <2>2. slot[q] # Absent /\ q # c0 /\ q # c1
    BY <1>3, <2>1, Kinds
  <2>3. slot[c] = NodeRec
    BY <2>1, <2>2, AboveIsNode
  <2>4. c # p
    <3>1. SUFFICES ASSUME c = p PROVE FALSE
      OBVIOUS
    <3>2. p \in Seq(Bit) /\ q \in Seq(Bit) /\ Len(p) + 1 <= Len(q) /\ q[Len(p) + 1] \in Bit
      BY <2>1, <3>1, PathIsSeq, CoversAntisymmetric, LenProperties DEF Covers
    <3>3. PICK b \in Bit : Covers(Append(p, b), q)
      BY <2>1, <3>1, <3>2, CoversAppend
    <3>4. slot[Append(p, b)] \in Leaf /\ Append(p, b) \in Path /\ Append(p, b) # q
      BY <1>1, <1>2, <2>2 DEF Bit
    <3>5. slot[q] = Absent
      BY <3>3, <3>4, NothingBelowLeaf
    <3>6. QED
      BY <2>2, <3>5
  <2>5. QED
    BY <1>2, <1>3, <2>3, <2>4, Kinds
<1>6. Resolves'
  <2>1. SUFFICES ASSUME NEW e \in Point
                 PROVE  \E k \in 1 .. Depth + 1 : slot'[Cut(e, k)] \in Leaf
    BY DEF Resolves, LeafAt
  <2>2. PICK k \in 1 .. Depth + 1 : slot[Cut(e, k)] \in Leaf
    BY DEF Resolves, LeafAt
  <2>3. Cut(e, k) \in Path /\ Len(Cut(e, k)) = k /\ e \in Seq(Bit) /\ Len(e) = Depth + 1
    BY CutIsPath, PathIsSeq
  <2>4. CASE Cut(e, k) # c0 /\ Cut(e, k) # c1
    BY <1>2, <1>3, <2>2, <2>3, <2>4, Kinds
  <2>5. CASE Cut(e, k) = c0 \/ Cut(e, k) = c1
    <3>1. PICK b \in Bit : Cut(e, k) = Append(p, b)
      BY <2>5 DEF Bit
    <3>2. k = Len(p) + 1 /\ Covers(p, Cut(e, k)) /\ p \in Seq(Bit)
      BY <2>3, <3>1, <1>1, ChildIsPath, PathIsSeq
    <3>3. Covers(p, e)
      BY <2>3, <3>2, CutIsPath, CoversTransitive, PathIsSeq
    <3>4. Cut(e, Len(p)) = p /\ Len(p) \in 1 .. Depth + 1
      BY <2>3, <3>2, <3>3, CutOfCovered, PathIsSeq
    <3>5. QED
      BY <1>2, <1>3, <3>4
  <2>6. QED
    BY <2>4, <2>5
<1>7. QED
  BY <1>2, <1>3, <1>4, <1>5, <1>6, Kinds

-----------------------------------------------------------------------------
(***************************************************************************)
(* Every step preserves the invariant.                                     *)
(***************************************************************************)

(* The record that the recursion visits next below a node, or the root. *)
LEMMA FirstBelowExists ==
    ASSUME IInv, NEW p \in Path \cup {<< >>}, p = << >> \/ slot[p] = NodeRec,
           NEW n \in Network, Comparable(p, n)
    PROVE  /\ FirstBelow(n, p) \in Path
           /\ slot[FirstBelow(n, p)] # Absent
           /\ Comparable(FirstBelow(n, p), n)
<1>1. Len(p) <= Depth
  BY NodeHasChildren DEF IInv, TreeShape
<1>2. PICK b \in Bit : FirstBelow(n, p) = Append(p, b)
  BY <1>1, FirstBelowComparable
<1>3. QED
  BY <1>1, <1>2, FirstBelowComparable, NodeHasChildren DEF IInv, TreeShape

(* A record that is present, and whose parent therefore is a node. *)
LEMMA ParentIsNode ==
    ASSUME IInv, NEW p \in Path, slot[p] # Absent, Len(p) > 1
    PROVE  Parent(p) \in Path /\ slot[Parent(p)] = NodeRec
<1>1. Parent(p) \in Path /\ Covers(Parent(p), p) /\ Parent(p) # p
  BY ParentOfPath, PathIsSeq
<1>2. QED
  BY <1>1, AboveIsNode DEF IInv, TreeShape

LEMMA NextInvariant == IInv /\ [Next]_vars => IInv'
<1> SUFFICES ASSUME IInv, [Next]_vars PROVE IInv'
  OBVIOUS
<1> USE DEF IInv, TreeShape
<1>0. << >> \notin Path /\ << >> \in Network
  BY EmptyPath
<1>1. ASSUME NEW n \in Network, NEW f \in Ops, Insert(n, f) PROVE IInv'
  <2>1. Comparable(<< >>, n)
    BY PathIsSeq, LenProperties DEF Comparable, Covers
  <2>2. /\ FirstBelow(n, << >>) \in Path
        /\ slot[FirstBelow(n, << >>)] # Absent
        /\ Comparable(FirstBelow(n, << >>), n)
    BY <2>1, FirstBelowExists
  <2>3. TypeOK' /\ CursorOK'
    BY <1>0, <1>1, <2>2 DEF Insert, tree, TypeOK, CursorOK, Comparable
  <2>4. PrefixClosed' /\ Resolves'
    BY <1>1 DEF Insert, tree, PrefixClosed, Resolves, LeafAt
  <2>5. QED
    BY <2>3, <2>4
<1>2. CASE VisitNode
  <2>1. /\ FirstBelow(net, at) \in Path
        /\ slot[FirstBelow(net, at)] # Absent
        /\ Comparable(FirstBelow(net, at), net)
    BY <1>2, FirstBelowExists DEF VisitNode, TypeOK, CursorOK, Comparable
  <2>2. TypeOK' /\ CursorOK'
    BY <1>0, <1>2, <2>1 DEF VisitNode, TypeOK, CursorOK, Comparable
  <2>3. PrefixClosed' /\ Resolves'
    BY <1>2 DEF VisitNode, PrefixClosed, Resolves, LeafAt
  <2>4. QED
    BY <2>2, <2>3
<1>3. CASE VisitReserved
  <2>1. TypeOK' /\ CursorOK'
    BY <1>3 DEF VisitReserved, TypeOK, CursorOK
  <2>2. PrefixClosed' /\ Resolves'
    BY <1>3 DEF VisitReserved, PrefixClosed, Resolves, LeafAt
  <2>3. QED
    BY <2>1, <2>2
<1>4. CASE ApplyOp
  <2>1. PICK r \in Results(op, slot[at]) : slot' = [slot EXCEPT ![at] = r]
    BY <1>4 DEF ApplyOp
  <2>2. at \in Path /\ slot[at] \in Leaf /\ op \in Ops
    BY <1>0, <1>4 DEF ApplyOp, Writable, TypeOK, CursorOK
  <2>3. r \in Leaf
    BY <2>2, ResultsAreLeaves
  <2>4. slot' \in [Path -> Record \cup {Absent}] /\ PrefixClosed' /\ Resolves'
    BY <2>1, <2>2, <2>3, StoreShape
  <2>5. slot'[at] # Absent
    BY <2>1, <2>2, <2>3, Kinds DEF TypeOK
  <2>6. QED
    BY <1>4, <2>4, <2>5 DEF ApplyOp, TypeOK, CursorOK
<1>5. CASE Descend
  <2>1. at \in Path /\ slot[at] \in Leaf /\ Len(at) <= Depth /\ net \in Network
    BY <1>0, <1>5, PathIsSeq, DepthAssumption DEF Descend, Writable, TypeOK, CursorOK
  <2>2. /\ slot' \in [Path -> Record \cup {Absent}] /\ PrefixClosed' /\ Resolves'
        /\ \A b \in Bit : slot'[Append(at, b)] = slot[at]
    BY <1>5, <2>1, SplitShape DEF Descend
  <2>3. Comparable(at, net)
    BY <1>5 DEF Descend, CursorOK, Comparable
  <2>4. PICK b \in Bit : FirstBelow(net, at) = Append(at, b)
    BY <2>1, <2>3, FirstBelowComparable
  <2>5. FirstBelow(net, at) \in Path /\ Comparable(FirstBelow(net, at), net)
    BY <2>1, <2>3, <2>4, FirstBelowComparable, ChildIsPath
  <2>6. slot'[FirstBelow(net, at)] # Absent
    BY <2>1, <2>2, <2>4, Kinds
  <2>7. allocated' \in 1 .. MaxNodes
    BY <1>5, MaxNodesAssumption DEF Descend, NodesLeft, TypeOK
  <2>8. QED
    BY <1>0, <1>5, <2>2, <2>5, <2>6, <2>7 DEF Descend, TypeOK, CursorOK, Comparable
<1>6. CASE AllocFails
  <2>1. TypeOK' /\ CursorOK'
    BY <1>6 DEF AllocFails, TypeOK, CursorOK
  <2>2. PrefixClosed' /\ Resolves'
    BY <1>6 DEF AllocFails, PrefixClosed, Resolves, LeafAt
  <2>3. QED
    BY <2>1, <2>2
<1>7. CASE VisitRight
  <2> DEFINE q == Parent(at)
  <2>1. at \in Path /\ slot[at] # Absent /\ at \in Seq(Bit) /\ Len(at) \in 1 .. Depth + 1
    BY <1>0, <1>7, PathIsSeq DEF VisitRight, TypeOK, CursorOK
  <2>2. q \in Path \cup {<< >>} /\ (q = << >> \/ slot[q] = NodeRec)
    <3>1. CASE Len(at) = 1
      BY <2>1, <3>1, EmptyCut DEF Parent
    <3>2. CASE Len(at) > 1
      BY <2>1, <3>2, ParentIsNode
    <3>3. \A n \in 1 .. Depth + 1 : n = 1 \/ n > 1
      BY DepthAssumption
    <3> HIDE DEF q
    <3>4. QED
      BY <2>1, <3>1, <3>2, <3>3
  <2>3. Sibling(at) = Append(q, 1)
    BY <1>7 DEF VisitRight, LeftDone, Sibling
  <2>4. Append(q, 1) \in Path /\ slot[Append(q, 1)] # Absent
    BY <2>2, NodeHasChildren DEF Bit
  <2>5. Covers(net, Append(q, 1))
    <3>1. net \in Seq(Bit) /\ Len(net) \in Nat /\ Len(net) <= Len(at) - 1
      BY <1>7, <2>1, PathIsSeq DEF VisitRight, LeftDone, TypeOK
    <3>2. Covers(net, at)
      BY <1>7, <2>1, <3>1 DEF VisitRight, CursorOK, Covers
    <3>3. q \in Seq(Bit) /\ Len(q) = Len(at) - 1 /\ Covers(q, at)
      <4>1. Len(at) - 1 \in 0 .. Len(at)
        BY <2>1, DepthAssumption
      <4>2. QED
        BY <2>1, <4>1, CutSeq, CoversCut DEF Parent
    <3>4. Covers(net, q)
      BY <2>1, <3>1, <3>2, <3>3, CoversLinear
    <3>5. 1 \in Bit
      BY DEF Bit
    <3>6. QED
      BY <3>1, <3>3, <3>4, <3>5, CoversAppend
  <2>6. TypeOK' /\ CursorOK'
    BY <1>0, <1>7, <2>3, <2>4, <2>5 DEF VisitRight, TypeOK, CursorOK
  <2>7. PrefixClosed' /\ Resolves'
    BY <1>7 DEF VisitRight, PrefixClosed, Resolves, LeafAt
  <2>8. QED
    BY <2>6, <2>7
<1>8. CASE MergeNode
  <2> DEFINE q == Parent(at)
  <2>1. at \in Path /\ slot[at] # Absent /\ Len(at) > 1 /\ net \in Network
    BY <1>0, <1>8 DEF MergeNode, TypeOK, CursorOK
  <2>2. q \in Path /\ slot[q] = NodeRec
    BY <2>1, ParentIsNode
  <2>3. Comparable(q, net)
    <3>1. Covers(q, at) /\ Len(q) = Len(at) - 1
      BY <2>1, ParentOfPath
    <3>2. CASE Covers(at, net)
      BY <2>1, <2>2, <3>1, <3>2, CoversTransitive, PathIsSeq DEF Comparable
    <3>3. CASE Covers(net, at)
      <4>1. Len(q) <= Len(net) \/ Len(net) <= Len(q)
        BY <2>1, <2>2, PathIsSeq, DepthAssumption
      <4>2. QED
        BY <2>1, <2>2, <3>1, <3>3, <4>1, CoversLinear, PathIsSeq DEF Comparable
    <3>4. QED
      BY <1>8, <3>2, <3>3 DEF MergeNode, CursorOK
  <2>4. /\ slot' \in [Path -> Record \cup {Absent}] /\ PrefixClosed' /\ Resolves'
        /\ slot'[q] # Absent
    <3>1. CASE Mergeable(q)
      BY <1>8, <2>2, <3>1, CollapseShape DEF MergeNode
    <3>2. CASE ~Mergeable(q)
      BY <1>8, <2>2, <3>2, Kinds
         DEF MergeNode, TypeOK, PrefixClosed, Resolves, LeafAt
    <3>3. QED
      BY <3>1, <3>2
  <2>5. QED
    BY <1>0, <1>8, <2>2, <2>3, <2>4 DEF MergeNode, TypeOK, CursorOK, Comparable
<1>9. CASE Finish
  <2>1. TypeOK' /\ CursorOK'
    BY <1>9 DEF Finish, TypeOK, CursorOK
  <2>2. PrefixClosed' /\ Resolves'
    BY <1>9 DEF Finish, PrefixClosed, Resolves, LeafAt
  <2>3. QED
    BY <2>1, <2>2
<1>10. CASE UNCHANGED vars
  BY <1>10 DEF vars, TypeOK, CursorOK, PrefixClosed, Resolves, LeafAt
<1>11. QED
  BY <1>1, <1>2, <1>3, <1>4, <1>5, <1>6, <1>7, <1>8, <1>9, <1>10 DEF Next, Step

(***************************************************************************)
(* In every reachable state, in the middle of an insert too and with any   *)
(* closure, the records form a tree in which every address has a leaf.     *)
(***************************************************************************)
THEOREM Invariance == Spec => []IInv
<1>1. Init => IInv
  BY InitInvariant
<1>2. IInv /\ [Next]_vars => IInv'
  BY NextInvariant
<1>3. QED
  BY <1>1, <1>2, PTL DEF Spec

(* The state of the tree and of the call in progress stays well typed. *)
THEOREM TypeCorrect == Spec => []TypeOK
<1>1. IInv => TypeOK
  BY DEF IInv
<1>2. QED
  BY <1>1, Invariance, PTL

(* The live nodes stay a tree in which every address has a leaf, mid-insert too. *)
THEOREM ShapeCorrect == Spec => []TreeShape
<1>1. IInv => TreeShape
  BY DEF IInv
<1>2. QED
  BY <1>1, Invariance, PTL

-----------------------------------------------------------------------------
(***************************************************************************)
(* The leaf of a point, and what a step does to it.                        *)
(***************************************************************************)

(* A point has one leaf only, so Value names it. *)
ValueUnique ==
    \A e \in Point : \A k \in 1 .. Depth + 1 :
        slot[Cut(e, k)] \in Leaf => Value(e) = slot[Cut(e, k)]

LEMMA OneLeaf ==
    ASSUME PrefixClosed, NEW e \in Point, NEW j \in 1 .. Depth + 1,
           NEW k \in 1 .. Depth + 1,
           slot[Cut(e, j)] \in Leaf, slot[Cut(e, k)] \in Leaf, j < k
    PROVE  FALSE
<1>1. /\ e \in Path /\ e \in Seq(Bit)
      /\ Cut(e, j) \in Path /\ Cut(e, k) \in Path /\ Len(Cut(e, j)) = j /\ Len(Cut(e, k)) = k
      /\ Covers(Cut(e, j), e) /\ Covers(Cut(e, k), e)
  BY CutIsPath, PathIsSeq
<1>2. Covers(Cut(e, j), Cut(e, k))
  BY <1>1, CoversLinear, PathIsSeq
<1>3. slot[Cut(e, k)] = Absent
  BY <1>1, <1>2, NothingBelowLeaf
<1>4. QED
  BY <1>3, Kinds

LEMMA ValueIsUnique == IInv => ValueUnique
<1> SUFFICES ASSUME IInv, NEW e \in Point, NEW k \in 1 .. Depth + 1,
                    slot[Cut(e, k)] \in Leaf
             PROVE  Value(e) = slot[Cut(e, k)]
  BY DEF ValueUnique
<1> DEFINE j == CHOOSE i \in 1 .. Depth + 1 : LeafAt(e, i)
<1>1. j \in 1 .. Depth + 1 /\ slot[Cut(e, j)] \in Leaf
  BY DEF LeafAt
<1>2. Value(e) = slot[Cut(e, j)]
  BY DEF Value
<1> HIDE DEF j
<1>3. j = k
  BY <1>1, OneLeaf, DepthAssumption DEF IInv, TreeShape
<1>4. QED
  BY <1>2, <1>3

LEMMA ValueIsUniqueAfter == IInv /\ [Next]_vars => ValueUnique /\ ValueUnique'
<1>1. IInv /\ [Next]_vars => IInv'
  BY NextInvariant
<1>2. IInv => ValueUnique
  BY ValueIsUnique
<1>3. IInv' => ValueUnique'
  BY <1>2, PTL
<1>4. QED
  BY <1>1, <1>2, <1>3

LEMMA StoreValue ==
    ASSUME IInv, ValueUnique, ValueUnique', NEW r \in Leaf, NEW p \in Path,
           slot[p] \in Leaf, slot' = [slot EXCEPT ![p] = r], NEW e \in Point
    PROVE  /\ Covers(p, e) => Value(e) = slot[p] /\ Value(e)' = r
           /\ ~Covers(p, e) => Value(e)' = Value(e)
<1>1. \A q \in Path : slot'[q] = IF q = p THEN r ELSE slot[q]
  BY DEF IInv, TypeOK
<1>2. CASE Covers(p, e)
  <2>1. Len(p) \in 1 .. Depth + 1 /\ Cut(e, Len(p)) = p
    BY <1>2, CutOfCovered, PathIsSeq
  <2>2. QED
    BY <1>1, <1>2, <2>1 DEF ValueUnique
<1>3. CASE ~Covers(p, e)
  <2>1. PICK k \in 1 .. Depth + 1 : slot[Cut(e, k)] \in Leaf
    BY DEF IInv, TreeShape, Resolves, LeafAt
  <2>2. Cut(e, k) \in Path /\ Cut(e, k) # p
    BY <1>3, CutIsPath, PathIsSeq
  <2>3. QED
    BY <1>1, <1>3, <2>1, <2>2 DEF ValueUnique
<1>4. QED
  BY <1>2, <1>3

LEMMA SplitValue ==
    ASSUME IInv, ValueUnique, ValueUnique', NEW p \in Path, Len(p) <= Depth,
           slot[p] \in Leaf, slot' = Split(p), NEW e \in Point
    PROVE  Value(e)' = Value(e)
<1>1. PICK k \in 1 .. Depth + 1 : slot[Cut(e, k)] \in Leaf
  BY DEF IInv, TreeShape, Resolves, LeafAt
<1>2. /\ Cut(e, k) \in Path /\ Len(Cut(e, k)) = k
      /\ e \in Seq(Bit) /\ Len(e) = Depth + 1
  BY CutIsPath, PathIsSeq
<1>3. Append(p, 0) \in Path /\ Append(p, 1) \in Path
  BY ChildIsPath DEF Bit
<1>4. CASE Cut(e, k) # p
  <2>1. slot[Append(p, 0)] = Absent /\ slot[Append(p, 1)] = Absent
    BY <1>3, ChildIsPath, NothingBelowLeaf DEF Bit, IInv, TreeShape
  <2>2. slot'[Cut(e, k)] = slot[Cut(e, k)]
    BY <1>1, <1>2, <1>4, <2>1, SplitRecords, Kinds
  <2>3. QED
    BY <1>1, <2>2 DEF ValueUnique
<1>5. CASE Cut(e, k) = p
  <2>1. k + 1 \in 1 .. Depth + 1 /\ (k + 1) - 1 = k
    BY <1>2, <1>5, DepthAssumption
  <2>2. e[k + 1] \in Bit /\ Cut(e, k + 1) = Append(p, e[k + 1])
    BY <1>2, <1>5, <2>1, CutAppend
  <2>3. slot'[Cut(e, k + 1)] = slot[p]
    <3>1. PICK q \in Path : q = Cut(e, k + 1) /\ (q = Append(p, 0) \/ q = Append(p, 1))
      BY <1>3, <2>2 DEF Bit
    <3>2. slot'[q] = slot[p]
      BY <3>1, SplitRecords
    <3>3. QED
      BY <3>1, <3>2
  <2>4. QED
    BY <1>1, <1>5, <2>1, <2>3 DEF ValueUnique
<1>6. QED
  BY <1>4, <1>5

LEMMA CollapseValue ==
    ASSUME IInv, ValueUnique, ValueUnique', NEW p \in Path, slot[p] = NodeRec,
           Mergeable(p), slot' = Collapse(p), NEW e \in Point
    PROVE  Value(e)' = Value(e)
<1>1. PICK k \in 1 .. Depth + 1 : slot[Cut(e, k)] \in Leaf
  BY DEF IInv, TreeShape, Resolves, LeafAt
<1>2. /\ Cut(e, k) \in Path /\ Len(Cut(e, k)) = k /\ Covers(Cut(e, k), e)
      /\ e \in Seq(Bit) /\ Len(e) = Depth + 1
  BY CutIsPath, PathIsSeq
<1>3. Len(p) <= Depth /\ Append(p, 0) \in Path /\ Append(p, 1) \in Path
  BY NodeHasChildren DEF Bit, IInv, TreeShape
<1>4. CASE Cut(e, k) # Append(p, 0) /\ Cut(e, k) # Append(p, 1)
  <2>1. slot'[Cut(e, k)] = slot[Cut(e, k)]
    BY <1>1, <1>2, <1>3, <1>4, CollapseRecords, Kinds
  <2>2. QED
    BY <1>1, <2>1 DEF ValueUnique
<1>5. CASE Cut(e, k) = Append(p, 0) \/ Cut(e, k) = Append(p, 1)
  <2>1. PICK b \in Bit : Cut(e, k) = Append(p, b)
    BY <1>5 DEF Bit
  <2>2. Covers(p, e)
    BY <1>2, <1>3, <2>1, ChildIsPath, CoversTransitive, PathIsSeq
  <2>3. Cut(e, Len(p)) = p /\ Len(p) \in 1 .. Depth + 1
    BY <1>2, <2>2, CutOfCovered, PathIsSeq
  <2>4. slot'[p] = slot[Cut(e, k)]
    BY <1>3, <1>5, CollapseRecords DEF Mergeable
  <2>5. QED
    BY <1>1, <2>3, <2>4 DEF ValueUnique
<1>6. QED
  BY <1>4, <1>5

LEMMA SameValue ==
    ASSUME IInv, ValueUnique, ValueUnique', slot' = slot, NEW e \in Point
    PROVE  Value(e)' = Value(e)
<1>1. PICK k \in 1 .. Depth + 1 : slot[Cut(e, k)] \in Leaf
  BY DEF IInv, TreeShape, Resolves, LeafAt
<1>2. QED
  BY <1>1 DEF ValueUnique

LEMMA ValueIsLeaf ==
    ASSUME IInv, ValueUnique, NEW e \in Point
    PROVE  Value(e) \in Leaf
<1>1. PICK k \in 1 .. Depth + 1 : slot[Cut(e, k)] \in Leaf
  BY DEF IInv, TreeShape, Resolves, LeafAt
<1>2. QED
  BY <1>1 DEF ValueUnique

(***************************************************************************)
(* The leaves that a step changes: those below the record that ApplyOp     *)
(* stands on, and no others.                                               *)
(***************************************************************************)
LEMMA StepValue ==
    ASSUME IInv, [Next]_vars, NEW e \in Point
    PROVE  \/ Value(e)' = Value(e)
           \/ ApplyOp /\ Covers(at, e)
<1>1. ValueUnique /\ ValueUnique'
  BY ValueIsUniqueAfter
<1>2. CASE slot' = slot
  BY <1>1, <1>2, SameValue
<1>3. CASE ApplyOp
  <2>1. PICK r \in Results(op, slot[at]) : slot' = [slot EXCEPT ![at] = r]
    BY <1>3 DEF ApplyOp
  <2>2. at \in Path /\ slot[at] \in Leaf /\ op \in Ops
    BY <1>3, EmptyPath DEF ApplyOp, Writable, IInv, TreeShape, TypeOK, CursorOK
  <2>3. r \in Leaf
    BY <2>2, ResultsAreLeaves
  <2>4. QED
    BY <1>1, <1>3, <2>1, <2>2, <2>3, StoreValue
<1>4. CASE Descend
  <2>1. at \in Path /\ slot[at] \in Leaf /\ Len(at) <= Depth
    BY <1>4, EmptyPath, PathIsSeq, DepthAssumption
       DEF Descend, Writable, IInv, TreeShape, TypeOK, CursorOK
  <2>2. QED
    BY <1>1, <1>4, <2>1, SplitValue DEF Descend
<1>5. CASE MergeNode
  <2>1. at \in Path /\ slot[at] # Absent /\ Len(at) > 1
    BY <1>5, EmptyPath DEF MergeNode, IInv, TreeShape, TypeOK, CursorOK
  <2>2. Parent(at) \in Path /\ slot[Parent(at)] = NodeRec
    BY <2>1, ParentIsNode
  <2>3. CASE Mergeable(Parent(at))
    BY <1>1, <1>5, <2>2, <2>3, CollapseValue DEF MergeNode
  <2>4. CASE ~Mergeable(Parent(at))
    BY <1>2, <1>5, <2>4 DEF MergeNode
  <2>5. QED
    BY <2>3, <2>4
<1>6. QED
  BY <1>2, <1>3, <1>4, <1>5
     DEF Next, Step, vars, tree, Insert, VisitNode, VisitReserved, AllocFails,
         VisitRight, Finish

(***************************************************************************)
(* No closure, pure or not, reaches an address outside the network that it *)
(* was given for.                                                          *)
(***************************************************************************)
THEOREM Isolation == Spec => OutsideUntouched
<1>1. ASSUME IInv, [Next]_vars
      PROVE  [\A e \in Point : ~Covers(net, e) => Value(e)' = Value(e)]_vars
  <2>1. SUFFICES ASSUME NEW e \in Point, ~Covers(net, e), ApplyOp, Covers(at, e)
                 PROVE  FALSE
    BY <1>1, StepValue
  <2>2. at \in Seq(Bit) /\ net \in Seq(Bit) /\ e \in Seq(Bit)
    BY <1>1, PathIsSeq DEF IInv, TypeOK
  <2>3. Covers(net, at)
    BY <1>1, <2>1, <2>2, LenProperties
       DEF ApplyOp, IInv, TreeShape, CursorOK, Covers
  <2>4. QED
    BY <2>1, <2>2, <2>3, CoversTransitive
<1>2. QED
  BY <1>1, Invariance, PTL DEF Spec, OutsideUntouched

-----------------------------------------------------------------------------
(***************************************************************************)
(* TreeInsert implements AddressMap.                                       *)
(***************************************************************************)

(* A pure closure answers one leaf for each leaf, and passes reserved ones by. *)
LEMMA PureResult ==
    ASSUME PureOps, NEW f \in Ops, NEW leaf \in Leaf
    PROVE  /\ Result(f, leaf) \in Leaf
           /\ Results(f, leaf) = {Result(f, leaf)}
           /\ Result(f, Reserved) = Reserved
<1>1. \A l \in Leaf : \E r \in Leaf : Results(f, l) = {r}
  <2>1. SUFFICES ASSUME NEW l \in Leaf PROVE \E r \in Leaf : Results(f, l) = {r}
    OBVIOUS
  <2>2. CASE l = Reserved
    BY <2>2, Kinds DEF Results
  <2>3. CASE l # Reserved
    <3>1. PICK o \in OptId : f[l.id] = {o}
      BY Kinds DEF PureOps
    <3>2. Results(f, l) = {Stored(o)}
      BY <2>3, <3>1 DEF Results
    <3>3. QED
      BY <3>2, Kinds
  <2>4. QED
    BY <2>2, <2>3
<1>2. \A l \in Leaf : Result(f, l) \in Leaf /\ Results(f, l) = {Result(f, l)}
  <2>1. SUFFICES ASSUME NEW l \in Leaf
                 PROVE  Result(f, l) \in Leaf /\ Results(f, l) = {Result(f, l)}
    OBVIOUS
  <2>2. PICK r \in Leaf : Results(f, l) = {r}
    BY <1>1
  <2>3. Result(f, l) \in Leaf /\ Result(f, l) \in Results(f, l)
    BY <2>2 DEF Result
  <2>4. QED
    BY <2>2, <2>3
<1>3. Results(f, Reserved) = {Reserved}
  BY DEF Results
<1>4. QED
  BY <1>2, <1>3, Kinds

(* The points right of p that a broadcast below depth n comes to after p. *)
RightOf(p, n, e) ==
    \E k \in n + 1 .. Len(p) : p[k] = 0 /\ e[k] = 1 /\ Covers(Cut(p, k - 1), e)

LEMMA PendingRight ==
    ASSUME NEW e
    PROVE  Pending(e) <=>
             (phase = "visit" /\ Covers(at, e)) \/ RightOf(at, Len(net), e)
BY DEF Pending, RightOf

LEMMA RightOfAppend ==
    ASSUME NEW p \in Seq(Bit), NEW b \in Bit, NEW n \in Nat, NEW e
    PROVE  RightOf(Append(p, b), n, e) <=>
             \/ RightOf(p, n, e)
             \/ n <= Len(p) /\ b = 0 /\ e[Len(p) + 1] = 1 /\ Covers(p, e)
<1> DEFINE q == Append(p, b)
<1>1. /\ q \in Seq(Bit) /\ Len(q) = Len(p) + 1 /\ Len(p) \in Nat
      /\ \A i \in 1 .. Len(p) : q[i] = p[i]
      /\ q[Len(p) + 1] = b
  BY AppendSeq, LenProperties
<1>2. ASSUME NEW k \in 0 .. Len(p) PROVE Cut(q, k) = Cut(p, k)
  <2>1. k \in 0 .. Len(q) /\ k \in Nat
    BY <1>1
  <2> HIDE DEF q
  <2>2. /\ Cut(q, k) \in Seq(Bit) /\ Len(Cut(q, k)) = k
        /\ \A i \in 1 .. k : Cut(q, k)[i] = q[i]
    BY <1>1, <2>1, CutSeq
  <2>3. /\ Cut(p, k) \in Seq(Bit) /\ Len(Cut(p, k)) = k
        /\ \A i \in 1 .. k : Cut(p, k)[i] = p[i]
    BY CutSeq
  <2>4. \A i \in 1 .. k : q[i] = p[i]
    BY <1>1, <2>1
  <2>5. QED
    BY <2>2, <2>3, <2>4, SameBits
<1>3. Cut(q, Len(p)) = p
  <2>1. Len(p) \in 0 .. Len(p)
    BY <1>1
  <2>2. Cut(q, Len(p)) = Cut(p, Len(p))
    BY <1>2, <2>1
  <2>3. QED
    BY <2>2, CutWhole
<1> HIDE DEF q
<1>4. \A k \in n + 1 .. Len(p) :
        (q[k] = 0 /\ e[k] = 1 /\ Covers(Cut(q, k - 1), e))
          <=> (p[k] = 0 /\ e[k] = 1 /\ Covers(Cut(p, k - 1), e))
  BY <1>1, <1>2
<1>5. (Len(p) + 1) - 1 = Len(p)
  BY <1>1
<1>6. ASSUME RightOf(q, n, e)
      PROVE  RightOf(p, n, e) \/ (n <= Len(p) /\ b = 0 /\ e[Len(p) + 1] = 1 /\ Covers(p, e))
  <2>1. PICK k \in n + 1 .. Len(p) + 1 : q[k] = 0 /\ e[k] = 1 /\ Covers(Cut(q, k - 1), e)
    BY <1>1, <1>6 DEF RightOf
  <2>2. CASE k = Len(p) + 1
    BY <1>1, <1>3, <1>5, <2>1, <2>2
  <2>3. CASE k # Len(p) + 1
    <3>1. k \in n + 1 .. Len(p)
      BY <1>1, <2>3
    <3>2. QED
      BY <1>4, <2>1, <3>1 DEF RightOf
  <2>4. QED
    BY <2>2, <2>3
<1>7. ASSUME RightOf(p, n, e) PROVE RightOf(q, n, e)
  <2>1. PICK k \in n + 1 .. Len(p) : p[k] = 0 /\ e[k] = 1 /\ Covers(Cut(p, k - 1), e)
    BY <1>7 DEF RightOf
  <2>2. k \in n + 1 .. Len(q)
    BY <1>1
  <2>3. QED
    BY <1>4, <2>1, <2>2 DEF RightOf
<1>8. ASSUME n <= Len(p), b = 0, e[Len(p) + 1] = 1, Covers(p, e) PROVE RightOf(q, n, e)
  <2>1. Len(p) + 1 \in n + 1 .. Len(q)
    BY <1>1, <1>8
  <2>2. QED
    BY <1>1, <1>3, <1>5, <1>8, <2>1 DEF RightOf
<1>9. QED
  BY <1>6, <1>7, <1>8 DEF q

LEMMA RightOfShort ==
    ASSUME NEW p \in Seq(Bit), NEW n \in Nat, Len(p) <= n, NEW e
    PROVE  ~RightOf(p, n, e)
BY LenProperties DEF RightOf

LEMMA RightOfDisjoint ==
    ASSUME NEW p \in Seq(Bit), NEW n \in Nat, NEW e \in Seq(Bit), RightOf(p, n, e)
    PROVE  ~Covers(p, e)
<1>1. PICK k \in n + 1 .. Len(p) : p[k] = 0 /\ e[k] = 1
  BY DEF RightOf
<1>2. k \in 1 .. Len(p)
  BY LenProperties
<1>3. QED
  BY <1>1, <1>2 DEF Covers

-----------------------------------------------------------------------------
(* What the abstract table does in a step, point by point. *)
Unchanged == \A e \in Point : Promised(e)' = Promised(e)

Applied(n, f) ==
    \A e \in Point :
        Promised(e)' = IF Covers(n, e) THEN Result(f, Promised(e)) ELSE Promised(e)

(* A step down the tree: the insert takes effect as it passes the prefix end. *)
LEMMA DescentStep ==
    ASSUME IInv, at \in Path, Len(at) <= Depth, phase = "visit", phase' = "visit",
           at' = FirstBelow(net, at), net' = net, op' = op,
           \A e \in Point : Value(e)' = Value(e)
    PROVE  Unchanged \/ Applied(net, op)
<1>1. /\ at \in Seq(Bit) /\ net \in Seq(Bit) /\ Len(at) \in Nat /\ Len(net) \in Nat
      /\ Covers(at, net) \/ Covers(net, at)
      /\ 0 \in Bit
      /\ \A e \in Point : e \in Seq(Bit) /\ Len(e) = Depth + 1
  BY PathIsSeq, LenProperties DEF IInv, TypeOK, TreeShape, CursorOK, Bit
<1>2. CASE Len(at) < Len(net)
  <2>1. PICK b \in Bit : at' = Append(at, b)
    BY <1>1, FirstBelowComparable DEF Comparable, IInv, TypeOK
  <2>2. ~Painting /\ ~Painting'
    BY <1>1, <1>2, <2>1, AppendSeq DEF Painting
  <2>3. QED
    BY <2>2 DEF Unchanged, Promised
<1>3. CASE Len(at) >= Len(net)
  <2>1. at' = Append(at, 0) /\ Len(at') = Len(at) + 1
    BY <1>1, <1>3, AppendSeq DEF FirstBelow
  <2>2. ASSUME NEW e \in Point
        PROVE  Pending(e)' <=> Covers(at, e) \/ RightOf(at, Len(net), e)
    <3>1. Pending(e)' <=> Covers(Append(at, 0), e) \/ RightOf(Append(at, 0), Len(net), e)
      BY <2>1 DEF Pending, RightOf
    <3>2. Covers(Append(at, 0), e) <=> Covers(at, e) /\ e[Len(at) + 1] = 0
      BY <1>1, CoversAppend, DepthAssumption
    <3>3. RightOf(Append(at, 0), Len(net), e) <=>
            RightOf(at, Len(net), e) \/ (e[Len(at) + 1] = 1 /\ Covers(at, e))
      BY <1>1, <1>3, RightOfAppend
    <3>4. e[Len(at) + 1] \in {0, 1}
      BY <1>1, LenProperties, DepthAssumption DEF Bit
    <3>5. QED
      BY <3>1, <3>2, <3>3, <3>4
  <2>3. Painting'
    BY <1>1, <1>3, <2>1 DEF Painting
  <2>4. CASE Len(at) > Len(net)
    <3>1. Painting
      BY <2>4 DEF Painting
    <3>2. \A e \in Point : Pending(e)' <=> Pending(e)
      BY <2>2, PendingRight
    <3>3. QED
      BY <2>3, <3>1, <3>2 DEF Unchanged, Promised
  <2>5. CASE Len(at) = Len(net)
    <3>1. ~Painting
      BY <1>1, <2>5 DEF Painting
    <3>2. at = net
      BY <1>1, <2>5, CoversAntisymmetric
    <3>3. \A e \in Point : Pending(e)' <=> Covers(net, e)
      BY <1>1, <2>2, <2>5, <3>2, RightOfShort
    <3>4. QED
      BY <2>3, <3>1, <3>3 DEF Applied, Promised
  <2>6. QED
    BY <1>1, <1>3, <2>4, <2>5
<1>4. QED
  BY <1>1, <1>2, <1>3

(* The visit of a leaf: what was pending below it has been done. *)
LEMMA LeafStep ==
    ASSUME IInv, at \in Path, phase = "visit", phase' = "return",
           at' = at, net' = net, op' = op, Len(at) > Len(net) ,
           \A e \in Point : ~Covers(at, e) => Value(e)' = Value(e),
           \A e \in Point : Covers(at, e) => Value(e)' = Result(op, Value(e))
    PROVE  Unchanged
<1> SUFFICES ASSUME NEW e \in Point PROVE Promised(e)' = Promised(e)
  BY DEF Unchanged
<1>1. at \in Seq(Bit) /\ e \in Seq(Bit) /\ Len(net) \in Nat
  BY PathIsSeq, LenProperties DEF IInv, TypeOK
<1>2. Painting /\ Painting'
  BY DEF Painting
<1>3. Pending(e)' <=> RightOf(at, Len(net), e)
  BY DEF Pending, RightOf
<1>4. Pending(e) <=> Covers(at, e) \/ RightOf(at, Len(net), e)
  BY PendingRight
<1>5. ~(Covers(at, e) /\ RightOf(at, Len(net), e))
  BY <1>1, RightOfDisjoint
<1>6. QED
  BY <1>2, <1>3, <1>4, <1>5 DEF Promised

LEMMA ValueBelow ==
    ASSUME IInv, ValueUnique, NEW p \in Path, slot[p] \in Leaf,
           NEW e \in Point, Covers(p, e)
    PROVE  Value(e) = slot[p]
<1>1. Len(p) \in 1 .. Depth + 1 /\ Cut(e, Len(p)) = p
  BY CutOfCovered, PathIsSeq
<1>2. QED
  BY <1>1 DEF ValueUnique

(* The last bit of the path of a record that the recursion stands on. *)
LEMMA LastStep ==
    ASSUME NEW p \in Path
    PROVE  /\ Parent(p) \in Seq(Bit) /\ Len(Parent(p)) = Len(p) - 1
           /\ Len(p) \in Nat /\ Len(p) >= 1
           /\ p[Len(p)] \in Bit
           /\ p = Append(Parent(p), p[Len(p)])
<1>1. p \in Seq(Bit) /\ Len(p) \in 1 .. Len(p) /\ Len(p) - 1 \in 0 .. Len(p)
  BY PathIsSeq, DepthAssumption
<1>2. p[Len(p)] \in Bit /\ Cut(p, Len(p)) = Append(Cut(p, Len(p) - 1), p[Len(p)])
  BY <1>1, CutAppend
<1>3. Cut(p, Len(p)) = p
  BY <1>1, CutWhole
<1>4. Cut(p, Len(p) - 1) \in Seq(Bit) /\ Len(Cut(p, Len(p) - 1)) = Len(p) - 1
  BY <1>1, CutSeq
<1>5. Len(p) \in Nat /\ Len(p) >= 1
  BY <1>1, LenProperties
<1>6. QED
  BY <1>2, <1>3, <1>4, <1>5 DEF Parent

LEMMA PromiseStep ==
    ASSUME PureOps, IInv, [Next]_vars
    PROVE  \/ Unchanged
           \/ \E n \in Network, f \in Ops : n = net' /\ f = op' /\ Applied(n, f)
<1>0. /\ ValueUnique /\ ValueUnique'
      /\ op \in Ops /\ net \in Network /\ net \in Seq(Bit) /\ Len(net) \in Nat
      /\ phase # "idle" => at \in Path /\ (Covers(at, net) \/ Covers(net, at))
      /\ phase = "idle" => at = << >>
      /\ 0 \in Bit /\ 1 \in Bit /\ 0 # 1
  BY ValueIsUniqueAfter, PathIsSeq DEF IInv, TypeOK, TreeShape, CursorOK, Bit
<1>1. ASSUME NEW n \in Network, NEW f \in Ops, Insert(n, f)
      PROVE  n = net' /\ f = op' /\ (Unchanged \/ Applied(n, f))
  <2> DEFINE root == << >>
  <2>1. /\ phase = "idle" /\ phase' = "visit" /\ net' = n /\ op' = f
        /\ at' = FirstBelow(n, root)
        /\ \A e \in Point : Value(e)' = Value(e)
    BY <1>0, <1>1, SameValue DEF Insert, tree
  <2>2. ~Painting
    BY <2>1 DEF Painting
  <2>3. root \in Seq(Bit) /\ Len(root) = 0 /\ n \in Seq(Bit) /\ Len(n) \in Nat
    BY PathIsSeq, LenProperties
  <2> HIDE DEF root
  <2>4. CASE Len(n) = 0
    <3>1. at' = Append(root, 0) /\ Len(at') = 1
      BY <1>0, <2>1, <2>3, <2>4, AppendSeq DEF FirstBelow
    <3>2. Painting'
      BY <2>1, <2>4, <3>1 DEF Painting
    <3>3. ASSUME NEW e \in Point PROVE Pending(e)' /\ Covers(n, e)
      <4>1. e \in Seq(Bit) /\ Len(e) = Depth + 1 /\ e[1] \in {0, 1}
        BY PathIsSeq, LenProperties, DepthAssumption DEF Bit
      <4>2. Covers(n, e) /\ Covers(root, e)
        BY <2>3, <2>4, <4>1, DepthAssumption DEF Covers
      <4>0. /\ Len(root) + 1 = 1 /\ Len(root) + 1 <= Len(e)
            /\ Len(n) <= Len(root) /\ Len(root) <= Len(n)
        BY <2>3, <2>4, <4>1, DepthAssumption
      <4>3. Covers(Append(root, 0), e) <=> e[1] = 0
        <5>1. root \in Seq(Bit) /\ e \in Seq(Bit) /\ 0 \in Bit
          BY <1>0, <2>3, <4>1
        <5>2. Covers(Append(root, 0), e) <=>
                Covers(root, e) /\ Len(root) + 1 <= Len(e) /\ e[Len(root) + 1] = 0
          BY <5>1, CoversAppend
        <5>3. QED
          BY <5>2, <4>0, <4>2
      <4>4. RightOf(Append(root, 0), Len(n), e) <=> e[1] = 1
        <5>1. RightOf(Append(root, 0), Len(n), e) <=>
                \/ RightOf(root, Len(n), e)
                \/ /\ Len(n) <= Len(root) /\ 0 = 0
                   /\ e[Len(root) + 1] = 1 /\ Covers(root, e)
          BY <1>0, <2>3, RightOfAppend
        <5>2. ~RightOf(root, Len(n), e)
          BY <2>3, <4>0, RightOfShort
        <5>3. QED
          BY <5>1, <5>2, <4>0, <4>2
      <4>5. Pending(e)' <=> Covers(Append(root, 0), e) \/ RightOf(Append(root, 0), Len(n), e)
        BY <2>1, <3>1 DEF Pending, RightOf
      <4>6. QED
        BY <4>1, <4>2, <4>3, <4>4, <4>5
    <3>4. QED
      BY <2>1, <2>2, <3>2, <3>3 DEF Applied, Promised
  <2>5. CASE Len(n) # 0
    <3>1. at' = Append(root, n[1])
      BY <2>1, <2>3, <2>5 DEF FirstBelow
    <3>2. n[1] \in Bit
      BY <2>3, <2>5, LenProperties
    <3>3. Len(at') = 1
      BY <2>3, <3>1, <3>2, AppendSeq
    <3>4. ~Painting'
      <4>1. ~(Len(at') > Len(n))
        BY <2>3, <2>5, <3>3
      <4>2. QED
        BY <2>1, <4>1 DEF Painting
    <3>5. QED
      BY <2>1, <2>2, <3>4 DEF Unchanged, Promised
  <2>6. QED
    BY <2>1, <2>4, <2>5
<1>2. CASE VisitNode
  <2>1. at \in Path /\ Len(at) <= Depth
    BY <1>0, <1>2, NodeHasChildren DEF VisitNode, IInv, TreeShape
  <2>2. \A e \in Point : Value(e)' = Value(e)
    BY <1>0, <1>2, SameValue DEF VisitNode
  <2>3. QED
    BY <1>0, <1>2, <2>1, <2>2, DescentStep DEF VisitNode
<1>3. CASE VisitReserved
  <2>1. \A e \in Point : Value(e)' = Value(e)
    BY <1>0, <1>3, SameValue DEF VisitReserved
  <2>2. at \in Path /\ at \in Seq(Bit) /\ Len(at) \in Nat
    BY <1>0, <1>3, PathIsSeq, LenProperties DEF VisitReserved
  <2>3. CASE Len(at) > Len(net)
    <3>1. \A e \in Point : Covers(at, e) => Value(e)' = Result(op, Value(e))
      BY <1>0, <1>3, <2>1, <2>2, ValueBelow, PureResult, Kinds DEF VisitReserved
    <3>2. QED
      BY <1>3, <2>1, <2>2, <2>3, <3>1, LeafStep DEF VisitReserved
  <2>4. CASE Len(at) <= Len(net)
    <3>1. ~Painting
      BY <1>0, <1>3, <2>2, <2>4 DEF Painting, VisitReserved
    <3>2. \A e \in Point : ~Pending(e)'
      BY <1>0, <1>3, <2>2, <2>4, RightOfShort DEF Pending, RightOf, VisitReserved
    <3>3. QED
      BY <2>1, <3>1, <3>2 DEF Unchanged, Promised
  <2>5. QED
    BY <1>0, <2>2, <2>3, <2>4
<1>4. CASE ApplyOp
  <2>1. at \in Path /\ slot[at] \in Leaf
    BY <1>0, <1>4 DEF ApplyOp, Writable
  <2>2. slot' = [slot EXCEPT ![at] = Result(op, slot[at])] /\ Result(op, slot[at]) \in Leaf
    BY <1>0, <1>4, <2>1, PureResult DEF ApplyOp
  <2>3. \A e \in Point : ~Covers(at, e) => Value(e)' = Value(e)
    BY <1>0, <2>1, <2>2, StoreValue
  <2>4. \A e \in Point : Covers(at, e) => Value(e)' = Result(op, Value(e))
    <3>1. PICK r \in Leaf : r = Result(op, slot[at]) /\ slot' = [slot EXCEPT ![at] = r]
      BY <2>2
    <3>2. ASSUME NEW e \in Point, Covers(at, e) PROVE Value(e) = slot[at] /\ Value(e)' = r
      BY ZenonT(30), <1>0, <2>1, <3>1, <3>2, StoreValue
    <3>3. QED
      BY <3>1, <3>2
  <2>5. QED
    BY <1>4, <2>1, <2>3, <2>4, LeafStep DEF ApplyOp
<1>5. CASE Descend
  <2>1. at \in Path /\ slot[at] \in Leaf /\ Len(at) <= Depth
    BY <1>0, <1>5, PathIsSeq, DepthAssumption DEF Descend, Writable
  <2>2. \A e \in Point : Value(e)' = Value(e)
    BY <1>0, <1>5, <2>1, SplitValue DEF Descend
  <2>3. QED
    BY <1>0, <1>5, <2>1, <2>2, DescentStep DEF Descend
<1>6. CASE AllocFails
  <2>1. \A e \in Point : Value(e)' = Value(e)
    BY <1>0, <1>6, SameValue DEF AllocFails
  <2>2. ~Painting
    BY <1>0, <1>6, PathIsSeq, DepthAssumption DEF AllocFails, Painting
  <2>3. ~Painting'
    BY <1>6 DEF AllocFails, Painting
  <2>4. QED
    BY <2>1, <2>2, <2>3 DEF Unchanged, Promised
<1>7. CASE VisitRight
  <2> DEFINE q == Parent(at)
  <2>1. /\ at \in Path /\ q \in Seq(Bit) /\ Len(q) = Len(at) - 1
        /\ Len(at) \in Nat /\ Len(at) >= 1 /\ at = Append(q, 0) /\ at' = Append(q, 1)
        /\ Len(net) <= Len(q) /\ Len(at') = Len(at)
    BY <1>0, <1>7, LastStep, AppendSeq DEF VisitRight, LeftDone, Sibling
  <2> HIDE DEF q
  <2>2. \A e \in Point : Value(e)' = Value(e)
    BY <1>0, <1>7, SameValue DEF VisitRight
  <2>3. Painting /\ Painting'
    BY <1>0, <1>7, <2>1 DEF VisitRight, Painting
  <2>4. ASSUME NEW e \in Point PROVE Pending(e)' <=> Pending(e)
    <3>1. e \in Seq(Bit) /\ Len(q) + 1 <= Len(e)
      <4>0. at \in Path
        BY <2>1
      <4>1. e \in Seq(Bit) /\ Len(e) = Depth + 1 /\ Len(at) <= Depth + 1
        BY <4>0, PathIsSeq, DepthAssumption
      <4>2. Len(q) + 1 = Len(at)
        BY <2>1
      <4>3. Len(q) + 1 <= Depth + 1
        BY <4>1, <4>2
      <4>4. QED
        BY <4>1, <4>3
    <3>2. Pending(e) <=> RightOf(Append(q, 0), Len(net), e)
      BY <1>7, <2>1, PendingRight DEF VisitRight
    <3>3. Pending(e)' <=> Covers(Append(q, 1), e) \/ RightOf(Append(q, 1), Len(net), e)
      BY <1>7, <2>1 DEF Pending, RightOf, VisitRight
    <3>4. RightOf(Append(q, 0), Len(net), e) <=>
            RightOf(q, Len(net), e) \/ (e[Len(q) + 1] = 1 /\ Covers(q, e))
      BY <1>0, <2>1, RightOfAppend
    <3>5. RightOf(Append(q, 1), Len(net), e) <=> RightOf(q, Len(net), e)
      BY <1>0, <2>1, RightOfAppend
    <3>6. Covers(Append(q, 1), e) <=> Covers(q, e) /\ e[Len(q) + 1] = 1
      BY <1>0, <2>1, <3>1, CoversAppend
    <3>7. QED
      BY <3>2, <3>3, <3>4, <3>5, <3>6
  <2>5. QED
    BY <1>7, <2>2, <2>3, <2>4 DEF Unchanged, Promised, VisitRight
<1>8. CASE MergeNode
  <2> DEFINE q == Parent(at)
             b == at[Len(at)]
  <2>1. /\ at \in Path /\ q \in Seq(Bit) /\ Len(q) = Len(at) - 1 /\ Len(at) \in Nat
        /\ b \in Bit /\ at = Append(q, b) /\ at' = q
        /\ ~(Len(net) <= Len(q) /\ b = 0)
    BY <1>0, <1>8, LastStep DEF MergeNode, LeftDone
  <2> HIDE DEF q, b
  <2>2. \A e \in Point : Value(e)' = Value(e)
    <3>1. ~ApplyOp
      BY <1>8 DEF MergeNode, ApplyOp
    <3>2. QED
      BY <3>1, StepValue
  <2>3. Painting /\ Painting'
    BY <1>8 DEF MergeNode, Painting
  <2>4. ASSUME NEW e \in Point PROVE Pending(e)' <=> Pending(e)
    <3>1. Pending(e) <=> RightOf(Append(q, b), Len(net), e)
      BY <1>8, <2>1, PendingRight DEF MergeNode
    <3>2. Pending(e)' <=> RightOf(q, Len(net), e)
      BY <1>8, <2>1 DEF Pending, RightOf, MergeNode
    <3>3. RightOf(Append(q, b), Len(net), e) <=> RightOf(q, Len(net), e)
      BY <1>0, <2>1, RightOfAppend
    <3>4. QED
      BY <3>1, <3>2, <3>3
  <2>5. QED
    BY <1>8, <2>2, <2>3, <2>4 DEF Unchanged, Promised, MergeNode
<1>9. CASE Finish
  <2> DEFINE q == Parent(at)
             b == at[Len(at)]
  <2>1. /\ at \in Path /\ q \in Seq(Bit) /\ Len(q) = 0
        /\ b \in Bit /\ at = Append(q, b) /\ ~(Len(net) <= Len(q) /\ b = 0)
    BY <1>0, <1>9, LastStep DEF Finish, LeftDone
  <2> HIDE DEF q, b
  <2>2. \A e \in Point : Value(e)' = Value(e)
    BY <1>0, <1>9, SameValue DEF Finish
  <2>3. ~Painting'
    BY <1>9 DEF Finish, Painting
  <2>4. ASSUME NEW e \in Point PROVE ~Pending(e)
    <3>1. Pending(e) <=> RightOf(Append(q, b), Len(net), e)
      BY <1>9, <2>1, PendingRight DEF Finish
    <3>2. RightOf(Append(q, b), Len(net), e) <=> RightOf(q, Len(net), e)
      BY <1>0, <2>1, RightOfAppend
    <3>3. ~RightOf(q, Len(net), e)
      <4>1. Len(q) <= Len(net)
        BY <1>0, <2>1
      <4>2. QED
        BY <1>0, <2>1, <4>1, RightOfShort
    <3>4. QED
      BY <3>1, <3>2, <3>3
  <2>5. QED
    BY <2>2, <2>3, <2>4 DEF Unchanged, Promised
<1>10. CASE UNCHANGED vars
  BY <1>0, <1>10, SameValue DEF vars, Unchanged, Promised, Painting, Pending
<1>11. QED
  BY <1>0, <1>1, <1>2, <1>3, <1>4, <1>5, <1>6, <1>7, <1>8, <1>9, <1>10 DEF Next, Step

(* AddressMap means the same by the names that both modules use. *)
LEMMA SameNames ==
    /\ Promise!Addr = Addr /\ Promise!Network = Network /\ Promise!Leaf = Leaf
    /\ Promise!NoData = NoData /\ Promise!Reserved = Reserved
    /\ \A p, q : Promise!Covers(p, q) <=> Covers(p, q)
    /\ \A f, leaf : Promise!Results(f, leaf) = Results(f, leaf)
<1>1. Promise!Addr = Addr /\ Promise!Network = Network
  BY DEF Promise!Addr, Addr, Promise!Network, Network, Promise!Bit, Bit
<1>2. /\ Promise!NoData = NoData /\ Promise!Reserved = Reserved
      /\ \A i : Promise!Data(i) = Data(i)
  BY DEF Promise!NoData, NoData, Promise!Reserved, Reserved, Promise!Data, Data
<1>3. Promise!Leaf = Leaf
  BY <1>2 DEF Promise!Leaf, Leaf
<1>4. \A p, q : Promise!Covers(p, q) <=> Covers(p, q)
  BY DEF Promise!Covers, Covers
<1>5. \A o : Promise!Stored(o) = Stored(o)
  BY <1>2 DEF Promise!Stored, Stored
<1>6. \A f, leaf : Promise!Results(f, leaf) = Results(f, leaf)
  BY <1>2, <1>5 DEF Promise!Results, Results
<1>7. QED
  BY <1>1, <1>2, <1>3, <1>4, <1>6

(* The point by which View reads the leaf of an address. *)
LEMMA PointOfAddr ==
    ASSUME NEW a \in Addr
    PROVE  /\ Append(a, 0) \in Point
           /\ \A n \in Network : Covers(n, Append(a, 0)) <=> Covers(n, a)
<1>1. a \in Seq(Bit) /\ Len(a) = Depth /\ 0 \in Bit
  BY AddrSeq DEF Bit
<1>2. Append(a, 0) \in Seq(Bit) /\ Len(Append(a, 0)) = Depth + 1
  BY <1>1, AppendSeq
<1>3. Append(a, 0) \in Point
  BY <1>2, PointSeq
<1>4. ASSUME NEW n \in Network PROVE Covers(n, Append(a, 0)) <=> Covers(n, a)
  <2>1. n \in Seq(Bit) /\ Len(n) # Len(Append(a, 0))
    BY <1>2, PathIsSeq, DepthAssumption
  <2>2. Covers(n, Append(a, 0)) <=> Covers(n, a) \/ n = Append(a, 0)
    BY <1>1, <2>1, CoversAppend
  <2>3. QED
    BY <2>1, <2>2
<1>5. QED
  BY <1>3, <1>4

LEMMA InitPromise == Init => Promise!Init
<1> SUFFICES ASSUME Init,
                    NEW a \in Addr
             PROVE  View[a] = IF \E n \in ReservedNets : Covers(n, a)
                              THEN Reserved ELSE NoData
  BY SameNames DEF Promise!Init, View
<1> DEFINE e == Append(a, 0)
<1>1. IInv /\ ValueUnique
  BY InitInvariant, ValueIsUnique
<1>2. e \in Point /\ \A n \in Network : Covers(n, e) <=> Covers(n, a)
  BY PointOfAddr
<1>3. View[a] = Value(e)
  BY DEF View, Promised, Painting, Init
<1>4. \A p \in Path : slot[p] = Painted(p)
  BY DEF Init
<1> HIDE DEF e
<1>5. \A n \in ReservedNets : n \in Path /\ n \in Network
  <2>1. \A n \in Network \ {<< >>} : n \in Path
    <3>1. SUFFICES ASSUME NEW n \in Network, n # << >> PROVE n \in Path
      OBVIOUS
    <3>2. n \in Seq(Bit) /\ Len(n) \in 0 .. Depth /\ Len(n) # 0
      BY <3>1, PathIsSeq, EmptySeq
    <3>3. Len(n) \in 1 .. Depth + 1
      BY <3>2, DepthAssumption
    <3>4. QED
      BY <3>2, <3>3, PathSeq
  <2>2. QED
    BY <2>1, ReservedNetsAssumption
<1>6. CASE \E n \in ReservedNets : Covers(n, a)
  <2>1. PICK n \in ReservedNets : Covers(n, a)
    BY <1>6
  <2>2. slot[n] = Reserved /\ Covers(n, e)
    BY <1>2, <1>4, <1>5, <2>1, PaintedKinds
  <2>3. Value(e) = Reserved
    BY <1>1, <1>2, <1>5, <2>2, ValueBelow, Kinds
  <2>4. QED
    BY <1>3, <1>6, <2>3
<1>7. CASE ~\E n \in ReservedNets : Covers(n, a)
  <2>1. PICK k \in 1 .. Depth + 1 : slot[Cut(e, k)] \in Leaf
    BY <1>1, <1>2 DEF IInv, TreeShape, Resolves, LeafAt
  <2>2. Cut(e, k) \in Path /\ Covers(Cut(e, k), e)
    BY <1>2, CutIsPath, PathIsSeq
  <2>3. Cut(e, k) \notin ReservedNets
    BY <1>2, <1>5, <1>7, <2>2
  <2>4. slot[Cut(e, k)] = NoData
    BY <1>4, <2>1, <2>2, <2>3, Kinds DEF Painted
  <2>5. Value(e) = NoData
    BY <1>1, <1>2, <2>1, <2>4 DEF ValueUnique
  <2>6. QED
    BY <1>3, <1>7, <2>5
<1>8. QED
  BY <1>6, <1>7

LEMMA NextPromise ==
    ASSUME PureOps, IInv, [Next]_vars
    PROVE  [Promise!Next]_View /\ [Promise!Insert(net', op')]_View
<1>1. CASE Unchanged
  <2>1. \A a \in Addr : Promised(Append(a, 0))' = Promised(Append(a, 0))
    BY <1>1, PointOfAddr DEF Unchanged
  <2>2. View' = View
    BY <2>1 DEF View
  <2>3. QED
    BY <2>2
<1>2. ASSUME NEW n \in Network, NEW f \in Ops, n = net', f = op', Applied(n, f)
      PROVE  Promise!Next /\ Promise!Insert(net', op')
  <2>1. ASSUME NEW a \in Addr
        PROVE  /\ View[a] \in Leaf /\ View'[a] \in Leaf
               /\ IF Covers(n, a) THEN View'[a] \in Results(f, View[a])
                                  ELSE View'[a] = View[a]
    <3>1. Append(a, 0) \in Point /\ (Covers(n, Append(a, 0)) <=> Covers(n, a))
      BY PointOfAddr
    <3>2. /\ View[a] = Promised(Append(a, 0))
          /\ View'[a] = Promised(Append(a, 0))'
      BY DEF View
    <3>3. ValueUnique /\ op \in Ops
      BY ValueIsUnique DEF IInv, TypeOK
    <3>4. Promised(Append(a, 0)) \in Leaf
      BY <3>1, <3>3, ValueIsLeaf, PureResult DEF Promised
    <3>5. CASE Covers(n, a)
      <4>1. View'[a] = Result(f, View[a])
        BY <1>2, <3>1, <3>2, <3>5 DEF Applied
      <4>2. QED
        BY <3>2, <3>4, <3>5, <4>1, PureResult
    <3>6. CASE ~Covers(n, a)
      BY <1>2, <3>1, <3>2, <3>4, <3>6 DEF Applied
    <3>7. QED
      BY <3>2, <3>4, <3>5, <3>6
  <2>2. View' \in [Addr -> Leaf]
    <3>1. View' = [a \in Addr |-> View'[a]]
      BY DEF View
    <3>2. QED
      BY <2>1, <3>1
  <2>3. Promise!Insert(n, f)
    BY <2>1, <2>2, SameNames DEF Promise!Insert
  <2>4. QED
    BY <1>2, <2>3, SameNames DEF Promise!Next
<1>3. QED
  BY <1>1, <1>2, PromiseStep

(***************************************************************************)
(* When closures are pure, Tree::insert is one atomic application of the   *)
(* closure to every address of the network: the bit-by-bit descent, the    *)
(* splits, the two-sided broadcast, the merges on the way back and an      *)
(* allocation failure half way are all invisible in the leaves.            *)
(***************************************************************************)
THEOREM Refinement == ASSUME PureOps PROVE Spec => AtomicInsert
<1>1. Init => Promise!Init
  BY InitPromise
<1>2. IInv /\ [Next]_vars => [Promise!Next]_View /\ [Promise!Insert(net', op')]_View
  BY NextPromise
<1>3. QED
  BY <1>1, <1>2, Invariance, PTL DEF Spec, AtomicInsert, Promise!Spec

-----------------------------------------------------------------------------
(***************************************************************************)
(* What an insert leaves behind when it returns: the merge on the way back *)
(* has met every node it walked through, for stateful closures too, and    *)
(* with pure closures no node is left below the last bit of an address.    *)
(***************************************************************************)

(* The children of the node at p are not the same leaf. *)
Merged(p) == slot[Append(p, 0)] # slot[Append(p, 1)] \/ slot[Append(p, 0)] = NodeRec

(* q lies left of a place where p turns right below depth n. *)
LeftOf(p, n, q) ==
    \E k \in n + 1 .. Len(p) : p[k] = 1 /\ k <= Len(q) /\ q[k] = 0 /\ Covers(Cut(p, k - 1), q)

(* Records that the call in progress has come back from. *)
Walked(q) == (phase = "return" /\ Covers(at, q)) \/ LeftOf(at, Len(net), q)

WalkedMerged ==
    phase # "idle" =>
        \A p \in Path : slot[p] = NodeRec /\ Walked(p) /\ Comparable(p, net) => Merged(p)

MInv == IInv /\ WalkedMerged /\ MergedWhereWalked

-----------------------------------------------------------------------------
(***************************************************************************)
(* The order of the broadcast.                                             *)
(***************************************************************************)
LEMMA LeftOfAppend ==
    ASSUME NEW p \in Seq(Bit), NEW b \in Bit, NEW n \in Nat, NEW q
    PROVE  LeftOf(Append(p, b), n, q) <=>
             \/ LeftOf(p, n, q)
             \/ n <= Len(p) /\ b = 1 /\ Len(p) + 1 <= Len(q) /\ q[Len(p) + 1] = 0 /\ Covers(p, q)
<1> DEFINE s == Append(p, b)
<1>1. /\ s \in Seq(Bit) /\ Len(s) = Len(p) + 1 /\ Len(p) \in Nat
      /\ \A i \in 1 .. Len(p) : s[i] = p[i]
      /\ s[Len(p) + 1] = b
  BY AppendSeq, LenProperties
<1>2. ASSUME NEW k \in 0 .. Len(p) PROVE Cut(s, k) = Cut(p, k)
  <2>1. k \in 0 .. Len(s) /\ k \in Nat
    BY <1>1
  <2> HIDE DEF s
  <2>2. /\ Cut(s, k) \in Seq(Bit) /\ Len(Cut(s, k)) = k
        /\ \A i \in 1 .. k : Cut(s, k)[i] = s[i]
    BY <1>1, <2>1, CutSeq
  <2>3. /\ Cut(p, k) \in Seq(Bit) /\ Len(Cut(p, k)) = k
        /\ \A i \in 1 .. k : Cut(p, k)[i] = p[i]
    BY CutSeq
  <2>4. \A i \in 1 .. k : s[i] = p[i]
    BY <1>1, <2>1
  <2>5. QED
    BY <2>2, <2>3, <2>4, SameBits
<1>3. Cut(s, Len(p)) = p
  <2>1. Len(p) \in 0 .. Len(p)
    BY <1>1
  <2>2. QED
    BY <1>2, <2>1, CutWhole
<1> HIDE DEF s
<1>4. \A k \in n + 1 .. Len(p) :
        (s[k] = 1 /\ k <= Len(q) /\ q[k] = 0 /\ Covers(Cut(s, k - 1), q))
          <=> (p[k] = 1 /\ k <= Len(q) /\ q[k] = 0 /\ Covers(Cut(p, k - 1), q))
  BY <1>1, <1>2
<1>5. (Len(p) + 1) - 1 = Len(p)
  BY <1>1
<1>6. ASSUME LeftOf(s, n, q)
      PROVE  \/ LeftOf(p, n, q)
             \/ n <= Len(p) /\ b = 1 /\ Len(p) + 1 <= Len(q) /\ q[Len(p) + 1] = 0 /\ Covers(p, q)
  <2>1. PICK k \in n + 1 .. Len(p) + 1 :
           s[k] = 1 /\ k <= Len(q) /\ q[k] = 0 /\ Covers(Cut(s, k - 1), q)
    BY <1>1, <1>6 DEF LeftOf
  <2>2. CASE k = Len(p) + 1
    BY <1>1, <1>3, <1>5, <2>1, <2>2
  <2>3. CASE k # Len(p) + 1
    <3>1. k \in n + 1 .. Len(p)
      BY <1>1, <2>3
    <3>2. QED
      BY <1>4, <2>1, <3>1 DEF LeftOf
  <2>4. QED
    BY <2>2, <2>3
<1>7. ASSUME LeftOf(p, n, q) PROVE LeftOf(s, n, q)
  <2>1. PICK k \in n + 1 .. Len(p) :
           p[k] = 1 /\ k <= Len(q) /\ q[k] = 0 /\ Covers(Cut(p, k - 1), q)
    BY <1>7 DEF LeftOf
  <2>2. k \in n + 1 .. Len(s)
    BY <1>1
  <2>3. QED
    BY <1>4, <2>1, <2>2 DEF LeftOf
<1>8. ASSUME n <= Len(p), b = 1, Len(p) + 1 <= Len(q), q[Len(p) + 1] = 0, Covers(p, q)
      PROVE  LeftOf(s, n, q)
  <2>1. Len(p) + 1 \in n + 1 .. Len(s)
    BY <1>1, <1>8
  <2>2. QED
    BY <1>1, <1>3, <1>5, <1>8, <2>1 DEF LeftOf
<1>9. QED
  BY <1>6, <1>7, <1>8 DEF s

LEMMA LeftOfShort ==
    ASSUME NEW p \in Seq(Bit), NEW n \in Nat, Len(p) <= n, NEW q
    PROVE  ~LeftOf(p, n, q)
BY LenProperties DEF LeftOf

(* What lies left of p is none of the records below p, nor the parent of one. *)
LEMMA LeftOfApart ==
    ASSUME NEW p \in Seq(Bit), NEW n \in Nat, NEW q \in Seq(Bit), LeftOf(p, n, q),
           NEW x \in Seq(Bit), Covers(p, x)
    PROVE  q # x /\ \A b \in Bit : Append(q, b) # x
<1>1. PICK k \in n + 1 .. Len(p) : p[k] = 1 /\ k <= Len(q) /\ q[k] = 0
  BY DEF LeftOf
<1>2. k \in 1 .. Len(p) /\ k \in 1 .. Len(q)
  BY <1>1, LenProperties
<1>3. x[k] = 1
  BY <1>1, <1>2 DEF Covers
<1>4. \A b \in Bit : Append(q, b)[k] = 0
  BY <1>1, <1>2, AppendSeq
<1>5. QED
  <2>1. q # x
    BY <1>1, <1>3
  <2>2. ASSUME NEW b \in Bit PROVE Append(q, b) # x
    <3>1. PICK y : y = Append(q, b)
      OBVIOUS
    <3>2. y[k] = 0
      BY <1>4, <3>1
    <3>3. y # x
      BY <1>3, <3>2
    <3>4. QED
      BY Zenon, <3>1, <3>3
  <2>3. QED
    BY <2>1, <2>2

(* Going further down turns right only above the end of the network. *)
LEMMA LeftOfFirstBelow ==
    ASSUME NEW n \in Network, NEW p \in Path \cup {<< >>}, NEW q,
           LeftOf(FirstBelow(n, p), Len(n), q)
    PROVE  LeftOf(p, Len(n), q)
<1>1. p \in Seq(Bit) /\ n \in Seq(Bit) /\ Len(p) \in Nat /\ Len(n) \in Nat
  BY PathIsSeq, LenProperties
<1>2. CASE Len(p) + 1 > Len(n)
  <2>1. FirstBelow(n, p) = Append(p, 0) /\ 0 \in Bit
    BY <1>2 DEF FirstBelow, Bit
  <2>2. QED
    BY <1>1, <2>1, LeftOfAppend
<1>3. CASE Len(p) + 1 <= Len(n)
  <2>1. n[Len(p) + 1] \in Bit /\ FirstBelow(n, p) = Append(p, n[Len(p) + 1])
    BY <1>1, <1>3, LenProperties DEF FirstBelow
  <2>2. QED
    BY <1>1, <1>3, <2>1, LeftOfAppend
<1>4. QED
  BY <1>1, <1>2, <1>3

-----------------------------------------------------------------------------
(***************************************************************************)
(* Merging.                                                                *)
(***************************************************************************)

(* The record of the call in progress, and its parent. *)
LEMMA CursorPath ==
    ASSUME IInv, phase # "idle"
    PROVE  /\ at \in Path /\ at \in Seq(Bit) /\ Len(at) \in 1 .. Depth + 1
           /\ net \in Network /\ net \in Seq(Bit) /\ Len(net) \in 0 .. Depth
           /\ slot[at] # Absent /\ Comparable(at, net)
           /\ Parent(at) \in Path \cup {<< >>} /\ Parent(at) \in Seq(Bit)
           /\ Len(Parent(at)) = Len(at) - 1
           /\ at[Len(at)] \in Bit /\ at = Append(Parent(at), at[Len(at)])
<1>1. /\ at \in Path /\ at \in Seq(Bit) /\ Len(at) \in 1 .. Depth + 1
      /\ net \in Network /\ net \in Seq(Bit) /\ Len(net) \in 0 .. Depth
      /\ slot[at] # Absent /\ Comparable(at, net)
  BY PathIsSeq, EmptyPath DEF IInv, TypeOK, TreeShape, CursorOK, Comparable
<1>2. /\ at[Len(at)] \in Bit /\ at = Append(Parent(at), at[Len(at)])
      /\ Parent(at) \in Seq(Bit) /\ Len(Parent(at)) = Len(at) - 1
  <2>1. Len(at) \in 1 .. Len(at) /\ Len(at) - 1 \in 0 .. Len(at)
    BY <1>1, DepthAssumption
  <2>2. QED
    BY <1>1, <2>1, CutAppend, CutWhole, CutSeq DEF Parent
<1>3. Parent(at) \in Path \cup {<< >>}
  <2>1. CASE Len(at) = 1
    BY <1>1, <2>1, EmptyCut DEF Parent
  <2>2. CASE Len(at) # 1
    <3>1. \A n \in 1 .. Depth + 1 : n = 1 \/ n > 1
      BY DepthAssumption
    <3>2. QED
      BY <1>1, <2>2, <3>1, ParentOfPath
  <2>3. QED
    BY <2>1, <2>2
<1>4. QED
  BY <1>1, <1>2, <1>3

(* When a frame returns, every record below it that the network has to do with was walked. *)
LEMMA FrameWalked ==
    ASSUME IInv, phase = "return", ~LeftDone, NEW q \in Path,
           Covers(Parent(at), q), q # Parent(at), Comparable(q, net)
    PROVE  Walked(q)
<1> DEFINE r == Parent(at)
           c == at[Len(at)]
<1>1. /\ at \in Seq(Bit) /\ Len(at) \in 1 .. Depth + 1
      /\ net \in Seq(Bit) /\ Len(net) \in 0 .. Depth /\ Comparable(at, net)
      /\ r \in Seq(Bit) /\ Len(r) = Len(at) - 1 /\ c \in Bit /\ at = Append(r, c)
  BY CursorPath
<1>2. q \in Seq(Bit) /\ Len(q) \in 1 .. Depth + 1
  BY PathIsSeq
<1> HIDE DEF r, c
<1>3. Covers(r, q) /\ q # r
  BY DEF r
<1>4. Len(at) <= Len(q) /\ Len(r) + 1 = Len(at)
  <2>1. Len(r) < Len(q)
    BY <1>1, <1>2, <1>3, CoversAntisymmetric DEF Covers
  <2>2. QED
    BY <1>1, <1>2, <2>1, DepthAssumption
<1>5. q[Len(at)] \in Bit
  BY <1>1, <1>2, <1>4, LenProperties
<1>6. CASE q[Len(at)] = c
  <2>1. Covers(at, q)
    BY <1>1, <1>2, <1>3, <1>4, <1>6, CoversAppend
  <2>2. QED
    BY <2>1 DEF Walked
<1>7. CASE q[Len(at)] # c
  <2>1. c = at[Len(at)]
    BY DEF c
  <2>2. Len(net) < Len(at)
    <3>1. SUFFICES ASSUME Len(at) <= Len(net) PROVE FALSE
      BY <1>1, DepthAssumption
    <3>2. net[Len(at)] = at[Len(at)]
      <4>1. Len(at) \in 1 .. Len(at) /\ Len(at) \in 1 .. Len(net)
        BY <1>1, <3>1, DepthAssumption
      <4>2. QED
        BY <1>1, <4>1 DEF Comparable, Covers
    <3>3. net[Len(at)] = q[Len(at)]
      BY <1>1, <1>2, <1>4, <3>1, DepthAssumption DEF Comparable, Covers
    <3>4. QED
      BY <1>7, <2>1, <3>2, <3>3
  <2>3. c = 1 /\ q[Len(at)] = 0
    BY <1>1, <1>5, <1>7, <2>1, <2>2, DepthAssumption DEF LeftDone, Bit
  <2>4. LeftOf(Append(r, c), Len(net), q)
    BY <1>1, <1>3, <1>4, <2>2, <2>3, LeftOfAppend, DepthAssumption
  <2>5. QED
    BY <1>1, <2>4 DEF Walked
<1>8. QED
  BY <1>6, <1>7

(* Nothing was walked yet that is a node when a step ends on a leaf or goes down. *)
LEMMA WalkedKept ==
    ASSUME MInv, phase # "idle", UNCHANGED slot, net' = net,
           \A q \in Path : slot[q] = NodeRec /\ Walked(q)' => Walked(q)
    PROVE  WalkedMerged'
BY DEF MInv, WalkedMerged, Merged, Comparable

LEMMA NextMerged == MInv /\ [Next]_vars => MInv'
<1> SUFFICES ASSUME MInv, [Next]_vars PROVE MInv'
  OBVIOUS
<1>1. IInv /\ IInv'
  BY NextInvariant DEF MInv
<1>2. WalkedMerged /\ MergedWhereWalked
  BY DEF MInv
<1>3. ASSUME NEW n \in Network, NEW f \in Ops, Insert(n, f) PROVE MInv'
  <2>1. << >> \in Path \cup {<< >>} /\ << >> \in Seq(Bit) /\ Len(<< >>) = 0 /\ Len(n) \in Nat
    BY PathIsSeq, LenProperties
  <2>2. ASSUME NEW q, LeftOf(FirstBelow(n, << >>), Len(n), q) PROVE FALSE
    <3>1. LeftOf(<< >>, Len(n), q)
      BY <2>1, <2>2, LeftOfFirstBelow
    <3>2. 0 <= Len(n)
      BY <2>1
    <3>3. QED
      BY <2>1, <3>1, <3>2, LeftOfShort
  <2>3. phase' = "visit" /\ at' = FirstBelow(n, << >>) /\ net' = n
    BY <1>3 DEF Insert
  <2>4. \A q : ~Walked(q)'
    BY <2>2, <2>3 DEF Walked
  <2>5. QED
    BY <1>1, <2>3, <2>4 DEF MInv, WalkedMerged, MergedWhereWalked
<1>4. CASE VisitNode
  <2>1. at \in Path /\ net \in Network /\ phase # "idle"
    BY <1>1, <1>4, CursorPath DEF VisitNode
  <2>2. \A q : Walked(q)' => Walked(q)
    BY <1>4, <2>1, LeftOfFirstBelow DEF VisitNode, Walked
  <2>3. WalkedMerged'
    BY <1>4, <2>1, <2>2, WalkedKept DEF VisitNode
  <2>4. QED
    BY <1>1, <1>4, <2>3 DEF VisitNode, MInv, MergedWhereWalked
<1>5. CASE VisitReserved
  <2>1. at \in Path /\ phase # "idle" /\ slot[at] \in Leaf
    BY <1>1, <1>5, CursorPath, Kinds DEF VisitReserved
  <2>2. \A q \in Path : slot[q] = NodeRec /\ Covers(at, q) => FALSE
    BY <1>1, <2>1, NothingBelowLeaf, Kinds DEF IInv, TreeShape
  <2>3. \A q \in Path : slot[q] = NodeRec /\ Walked(q)' => Walked(q)
    BY <1>5, <2>2 DEF VisitReserved, Walked
  <2>4. WalkedMerged'
    BY <1>5, <2>1, <2>3, WalkedKept DEF VisitReserved
  <2>5. QED
    BY <1>1, <1>5, <2>4 DEF VisitReserved, MInv, MergedWhereWalked
<1>6. CASE ApplyOp
  <2>1. /\ at \in Path /\ at \in Seq(Bit) /\ net \in Network /\ Len(net) \in Nat
        /\ phase = "visit" /\ phase' = "return" /\ at' = at /\ net' = net
    BY <1>1, <1>6, CursorPath, LenProperties DEF ApplyOp
  <2>2. PICK r \in Results(op, slot[at]) : slot' = [slot EXCEPT ![at] = r]
    BY <1>6 DEF ApplyOp
  <2>3. r \in Leaf
    BY <1>1, <1>6, <2>1, <2>2, ResultsAreLeaves DEF ApplyOp, Writable, IInv, TypeOK
  <2>4. \A q \in Path : slot'[q] = IF q = at THEN r ELSE slot[q]
    BY <1>1, <2>2 DEF IInv, TypeOK
  <2>5. ASSUME NEW q \in Path, slot'[q] = NodeRec, Walked(q)', Comparable(q, net)'
        PROVE  Merged(q)'
    <3>1. slot'[at] = r /\ q # at /\ slot[q] = NodeRec
      BY <2>1, <2>3, <2>4, <2>5, Kinds
    <3>2. ~Covers(at, q)
      BY <1>1, <2>1, <2>3, <2>5, <3>1, AboveIsNode, Kinds DEF IInv, TreeShape, PrefixClosed
    <3>3. LeftOf(at, Len(net), q)
      BY <2>1, <2>5, <3>2 DEF Walked
    <3>4. Merged(q)
      BY <1>2, <2>1, <2>5, <3>1, <3>3 DEF WalkedMerged, Walked, Comparable
    <3>5. \A b \in Bit : Append(q, b) # at /\ Append(q, b) \in Path
      <4>1. Covers(at, at)
        BY DEF Covers
      <4>2. q \in Seq(Bit)
        BY PathIsSeq
      <4>3. \A b \in Bit : Append(q, b) # at
        BY <2>1, <3>3, <4>1, <4>2, LeftOfApart
      <4>4. \A b \in Bit : Append(q, b) \in Path
        BY <1>1, <3>1, NodeHasChildren DEF IInv, TreeShape
      <4>5. QED
        BY <4>3, <4>4
    <3>6. QED
      BY <2>4, <3>4, <3>5 DEF Merged, Bit
  <2>6. QED
    BY <1>1, <2>1, <2>5 DEF MInv, WalkedMerged, MergedWhereWalked
<1>7. CASE Descend
  <2>1. /\ at \in Path /\ at \in Seq(Bit) /\ net \in Network /\ Len(net) \in Nat
        /\ phase' = "visit" /\ at' = FirstBelow(net, at) /\ net' = net /\ Len(at) <= Len(net)
    BY <1>1, <1>7, CursorPath, LenProperties DEF Descend
  <2>2. \A q : ~LeftOf(FirstBelow(net, at), Len(net), q)
    BY <2>1, LeftOfFirstBelow, LeftOfShort
  <2>3. \A q : ~Walked(q)'
    BY <2>1, <2>2 DEF Walked
  <2>4. QED
    BY <1>1, <2>1, <2>3 DEF MInv, WalkedMerged, MergedWhereWalked
<1>8. CASE AllocFails
  BY <1>1, <1>8 DEF AllocFails, MInv, WalkedMerged, MergedWhereWalked
<1>9. CASE VisitRight
  <2> DEFINE r == Parent(at)
  <2>1. /\ at \in Seq(Bit) /\ Len(net) \in Nat /\ r \in Seq(Bit) /\ Len(at) = Len(r) + 1
        /\ at = Append(r, 0) /\ at' = Append(r, 1) /\ 0 \in Bit /\ 1 \in Bit
        /\ phase = "return" /\ phase' = "visit" /\ net' = net
    BY <1>1, <1>9, CursorPath, LenProperties DEF VisitRight, LeftDone, Sibling, Bit
  <2> HIDE DEF r
  <2>2. ASSUME NEW q \in Path, LeftOf(Append(r, 1), Len(net), q) PROVE Walked(q)
    <3>1. q \in Seq(Bit)
      BY PathIsSeq
    <3>2. \/ LeftOf(r, Len(net), q)
          \/ Len(r) + 1 <= Len(q) /\ q[Len(r) + 1] = 0 /\ Covers(r, q)
      BY <2>1, <2>2, LeftOfAppend
    <3>3. LeftOf(Append(r, 0), Len(net), q) \/ Covers(Append(r, 0), q)
      BY <2>1, <3>1, <3>2, LeftOfAppend, CoversAppend
    <3>4. QED
      BY <2>1, <3>3 DEF Walked
  <2>3. \A q \in Path : Walked(q)' => Walked(q)
    BY <2>1, <2>2 DEF Walked
  <2>4. WalkedMerged'
    BY <1>9, <2>1, <2>3, WalkedKept DEF VisitRight
  <2>5. QED
    BY <1>1, <2>1, <2>4 DEF MInv, MergedWhereWalked
<1>10. CASE MergeNode
  <2> DEFINE r == Parent(at)
  <2>1. /\ r \in Path /\ slot[r] = NodeRec /\ r \in Seq(Bit) /\ Len(net) \in Nat
        /\ Len(r) <= Depth
        /\ at = Append(r, at[Len(at)]) /\ at[Len(at)] \in Bit
        /\ phase = "return" /\ ~LeftDone /\ phase' = "return" /\ at' = r /\ net' = net
        /\ slot' = IF Mergeable(r) THEN Collapse(r) ELSE slot
    BY <1>1, <1>10, CursorPath, ParentIsNode, LenProperties, DepthAssumption DEF MergeNode
  <2> HIDE DEF r
  <2>2. \A b \in Bit : Append(r, b) \in Path /\ slot[Append(r, b)] # Absent
    BY <1>1, <2>1, NodeHasChildren DEF IInv, TreeShape
  <2>3. ASSUME NEW q \in Path, slot'[q] = NodeRec, Walked(q)', Comparable(q, net)'
        PROVE  Merged(q)'
    <3>0. q \in Seq(Bit) /\ Comparable(q, net)
      BY <2>1, <2>3, PathIsSeq DEF Comparable
    <3>1. CASE Covers(r, q)
      <4>1. ~Mergeable(r)
        <5>1. SUFFICES ASSUME Mergeable(r) PROVE FALSE
          OBVIOUS
        <5>2. slot'[r] \in Leaf
          BY <2>1, <5>1, CollapseRecords DEF Mergeable
        <5>3. QED
          BY <1>1, <2>1, <2>3, <3>1, <5>2, Kinds DEF IInv, TreeShape, PrefixClosed
      <4>2. slot' = slot
        BY <2>1, <4>1
      <4>3. CASE q = r
        BY <1>1, <2>2, <4>1, <4>2, <4>3 DEF Mergeable, Merged, IInv, TypeOK, Record, Bit
      <4>4. CASE q # r
        <5>1. Walked(q)
          BY <1>1, <2>1, <3>0, <3>1, <4>4, FrameWalked DEF r
        <5>2. Merged(q)
          BY <1>2, <2>1, <2>3, <3>0, <4>2, <5>1 DEF WalkedMerged
        <5>3. QED
          BY <4>2, <5>2 DEF Merged
      <4>5. QED
        BY <4>3, <4>4
    <3>2. CASE LeftOf(r, Len(net), q)
      <4>1. LeftOf(at, Len(net), q)
        <5>1. LeftOf(Append(r, at[Len(at)]), Len(net), q)
          BY <2>1, <3>2, LeftOfAppend
        <5>2. QED
          BY <2>1, <5>1
      <4>2. \A x \in {r, Append(r, 0), Append(r, 1)} :
               q # x /\ \A b \in Bit : Append(q, b) # x
        <5>1. \A x \in {r, Append(r, 0), Append(r, 1)} : x \in Seq(Bit) /\ Covers(r, x)
          <6>1. Covers(r, r)
            BY <2>1, LenProperties DEF Covers
          <6>2. 0 \in Bit /\ 1 \in Bit
            BY DEF Bit
          <6>3. \A b \in Bit : Append(r, b) \in Seq(Bit) /\ Covers(r, Append(r, b))
            BY <2>1, AppendSeq, CoversAppend
          <6>4. QED
            BY <2>1, <6>1, <6>2, <6>3
        <5>2. QED
          BY <2>1, <3>0, <3>2, <5>1, LeftOfApart
      <4>3. \A x \in Path : x \notin {r, Append(r, 0), Append(r, 1)} => slot'[x] = slot[x]
        BY <2>1, CollapseRecords
      <4>4. slot[q] = NodeRec
        BY <2>3, <4>2, <4>3
      <4>5. \A b \in Bit : slot'[Append(q, b)] = slot[Append(q, b)]
        BY <1>1, <4>2, <4>3, <4>4, NodeHasChildren DEF IInv, TreeShape
      <4>6. Merged(q)
        BY <1>2, <2>1, <3>0, <4>1, <4>4 DEF WalkedMerged, Walked
      <4>7. QED
        BY <4>5, <4>6 DEF Merged, Bit
    <3>3. QED
      BY <2>1, <2>3, <3>1, <3>2 DEF Walked
  <2>4. QED
    BY <1>1, <2>1, <2>3 DEF MInv, WalkedMerged, MergedWhereWalked
<1>11. CASE Finish
  <2>1. /\ at \in Seq(Bit) /\ Len(at) = 1 /\ Parent(at) = << >>
        /\ phase = "return" /\ ~LeftDone /\ phase' = "idle" /\ slot' = slot /\ net' = net
    BY <1>1, <1>11, CursorPath, EmptyCut DEF Finish, Parent
  <2>2. ASSUME NEW q \in Path, slot[q] = NodeRec, Comparable(q, net) PROVE Merged(q)
    <3>1. Covers(<< >>, q) /\ q # << >>
      BY EmptyPath, PathIsSeq DEF Covers
    <3>2. Walked(q)
      BY <1>1, <2>1, <2>2, <3>1, FrameWalked
    <3>3. QED
      BY <1>2, <2>1, <2>2, <3>2 DEF WalkedMerged
  <2>3. MergedWhereWalked'
    BY <2>1, <2>2 DEF MergedWhereWalked, Merged, Comparable
  <2>4. QED
    BY <1>1, <2>1, <2>3 DEF MInv, WalkedMerged
<1>12. CASE UNCHANGED vars
  BY <1>1, <1>2, <1>12 DEF vars, MInv, WalkedMerged, MergedWhereWalked, Walked, Merged, Comparable
<1>13. QED
  BY <1>3, <1>4, <1>5, <1>6, <1>7, <1>8, <1>9, <1>10, <1>11, <1>12 DEF Next, Step

(***************************************************************************)
(* An insert that returns has merged every node that it walked through     *)
(* whose two children became the same leaf, whatever its closure answered. *)
(***************************************************************************)
THEOREM MergedAfterInsert == Spec => []MergedWhereWalked
<1>1. Init => MInv
  BY InitInvariant DEF Init, MInv, WalkedMerged, MergedWhereWalked
<1>2. MInv /\ [Next]_vars => MInv'
  BY NextMerged
<1>3. MInv => MergedWhereWalked
  BY DEF MInv
<1>4. QED
  BY <1>1, <1>2, <1>3, PTL DEF Spec

-----------------------------------------------------------------------------
(***************************************************************************)
(* The level below the last bit of an address.                             *)
(***************************************************************************)

(* The answers at the two records below the node of a host route. *)
LastLevel ==
    LET left  == slot[Append(net, 0)]
        right == slot[Append(net, 1)]
    IN  \/ at = Append(net, 0) /\ phase = "visit" /\ Writable(right) /\ left = right
        \/ at = Append(net, 0) /\ phase = "return" /\ Writable(right) /\ left = Result(op, right)
        \/ at = Append(net, 1) /\ phase = "visit" /\ Writable(right) /\ left = Result(op, right)
        \/ at = Append(net, 1) /\ phase = "return" /\ right \in Leaf /\ left = right

DeepNodes == \A p \in Path : Len(p) = Depth /\ slot[p] = NodeRec => p = net /\ LastLevel

DInv == IInv /\ DeepNodes

(* Where the recursion stands while there is such a node. *)
LEMMA LastLevelCursor ==
    ASSUME IInv, LastLevel, Len(net) = Depth
    PROVE  /\ phase # "idle" /\ Len(at) = Depth + 1 /\ Len(at) > 1 /\ Len(at) > Len(net)
           /\ net \in Seq(Bit) /\ Parent(at) = net
           /\ Append(net, 0) \in Path /\ Append(net, 1) \in Path
           /\ Append(net, 0) # Append(net, 1)
           /\ Append(net, 0)[Depth + 1] = 0 /\ Append(net, 1)[Depth + 1] = 1
<1>1. PICK b \in Bit : at = Append(net, b)
  BY DEF LastLevel, Bit
<1>2. phase # "idle" /\ net \in Seq(Bit)
  BY PathIsSeq DEF LastLevel, IInv, TypeOK
<1>3. /\ Append(net, b) \in Seq(Bit) /\ Len(Append(net, b)) = Depth + 1
      /\ \A i \in 1 .. Len(net) : Append(net, b)[i] = net[i]
  BY <1>2, AppendSeq
<1>4. Parent(at) = net
  <2>1. (Depth + 1) - 1 = Len(net) /\ Len(net) \in 0 .. Depth + 1
    BY DepthAssumption
  <2>2. Covers(net, Append(net, b))
    BY <1>2, CoversAppend
  <2>3. Cut(Append(net, b), Len(net)) = net
    BY <1>2, <1>3, <2>2, CutOfCovered
  <2>4. QED
    BY <1>1, <1>3, <2>1, <2>3 DEF Parent
<1>5. \A c \in Bit : /\ Append(net, c) \in Seq(Bit) /\ Len(Append(net, c)) = Depth + 1
                     /\ Append(net, c)[Depth + 1] = c
  BY <1>2, AppendSeq
<1>6. \A c \in Bit : Append(net, c) \in Path
  <2>1. Depth + 1 \in 1 .. Depth + 1
    BY DepthAssumption
  <2>2. QED
    BY <1>5, <2>1, PathSeq
<1>7. 0 \in Bit /\ 1 \in Bit
  BY DEF Bit
<1>8. Depth + 1 > 1 /\ Depth + 1 > Depth
  BY DepthAssumption
<1>9. Append(net, 0)[Depth + 1] = 0 /\ Append(net, 1)[Depth + 1] = 1
  BY <1>5, <1>7
<1>10. QED
  BY <1>1, <1>2, <1>3, <1>4, <1>6, <1>7, <1>8, <1>9

(* A step that finds no such node, or changes nothing the level depends on. *)
LEMMA NoDeepNode ==
    ASSUME \A p \in Path : Len(p) = Depth => slot'[p] # NodeRec
    PROVE  DeepNodes'
BY DEF DeepNodes

LEMMA NextDeep == ASSUME PureOps PROVE DInv /\ [Next]_vars => DInv'
<1> SUFFICES ASSUME DInv, [Next]_vars PROVE DInv'
  OBVIOUS
<1>1. IInv /\ IInv' /\ DeepNodes
  BY NextInvariant DEF DInv
<1>2. SUFFICES DeepNodes'
  BY <1>1 DEF DInv
<1>3. ASSUME NEW n \in Network, NEW f \in Ops, Insert(n, f) PROVE DeepNodes'
  <2>1. phase = "idle" /\ slot' = slot
    BY <1>3 DEF Insert, tree
  <2>2. ~LastLevel
    BY <2>1 DEF LastLevel
  <2>3. QED
    BY <1>1, <2>1, <2>2, NoDeepNode DEF DeepNodes
<1>4. ASSUME NEW p \in Path, Len(p) = Depth, slot[p] = NodeRec
      PROVE  /\ p = net /\ LastLevel /\ op \in Ops
             /\ phase # "idle" /\ Len(at) = Depth + 1 /\ Len(at) > 1 /\ Len(at) > Len(net)
             /\ net \in Seq(Bit) /\ Parent(at) = net
             /\ Append(net, 0) \in Path /\ Append(net, 1) \in Path
             /\ Append(net, 0) # Append(net, 1)
             /\ Append(net, 0)[Depth + 1] = 0 /\ Append(net, 1)[Depth + 1] = 1
             /\ phase = "visit" => slot[at] \in Leaf \ {Reserved}
  <2>1. p = net /\ LastLevel
    BY <1>1, <1>4 DEF DeepNodes
  <2>2. phase = "visit" => slot[at] \in Leaf \ {Reserved}
    <3>1. CASE at = Append(net, 0) /\ phase = "visit" /\ Writable(slot[Append(net, 1)])
                 /\ slot[Append(net, 0)] = slot[Append(net, 1)]
      BY <3>1 DEF Writable
    <3>2. CASE at = Append(net, 1) /\ phase = "visit" /\ Writable(slot[Append(net, 1)])
      BY <3>2 DEF Writable
    <3>3. QED
      BY <2>1, <3>1, <3>2 DEF LastLevel
  <2>3. op \in Ops
    BY <1>1 DEF IInv, TypeOK
  <2>4. QED
    BY <1>1, <1>4, <2>1, <2>2, <2>3, LastLevelCursor
<1>5. CASE VisitNode
  BY <1>4, <1>5, NoDeepNode, Kinds DEF VisitNode
<1>6. CASE VisitReserved
  BY <1>4, <1>6, NoDeepNode DEF VisitReserved
<1>7. CASE ApplyOp
  <2>1. PICK r \in Results(op, slot[at]) : slot' = [slot EXCEPT ![at] = r]
    BY <1>7 DEF ApplyOp
  <2>2. at \in Path /\ slot[at] \in Leaf /\ op \in Ops
    BY <1>1, <1>7, CursorPath DEF ApplyOp, Writable, IInv, TypeOK
  <2>3. r \in Leaf /\ r = Result(op, slot[at])
    BY <2>1, <2>2, PureResult
  <2>4. \A q \in Path : slot'[q] = IF q = at THEN r ELSE slot[q]
    BY <1>1, <2>1 DEF IInv, TypeOK
  <2>5. SUFFICES ASSUME NEW p \in Path, Len(p) = Depth, slot'[p] = NodeRec
                 PROVE  p = net' /\ LastLevel'
    BY DEF DeepNodes
  <2>6. slot[p] = NodeRec
    BY <2>3, <2>4, <2>5, Kinds
  <2>7. /\ phase = "visit" /\ phase' = "return" /\ at' = at /\ net' = net /\ op' = op
    BY <1>7 DEF ApplyOp
  <2> DEFINE c0 == Append(net, 0)
             c1 == Append(net, 1)
  <2>8. p = net /\ LastLevel /\ c0 \in Path /\ c1 \in Path /\ c0 # c1
    BY <1>4, <2>5, <2>6
  <2>9. CASE at = c0 /\ Writable(slot[c1]) /\ slot[c0] = slot[c1]
    <3>1. slot'[c1] = slot[c1] /\ slot'[c0] = Result(op, slot[c1])
      BY <2>3, <2>4, <2>8, <2>9
    <3>2. QED
      BY <2>7, <2>8, <2>9, <3>1 DEF LastLevel, Writable, Result
  <2>10. CASE at = c1 /\ Writable(slot[c1]) /\ slot[c0] = Result(op, slot[c1])
    <3>1. slot'[c0] = r /\ slot'[c1] = r
      BY <2>3, <2>4, <2>8, <2>10
    <3>2. QED
      BY <2>3, <2>7, <2>8, <2>10, <3>1 DEF LastLevel
  <2>11. QED
    BY <2>7, <2>8, <2>9, <2>10 DEF LastLevel
<1>8. CASE Descend
  <2>1. /\ at \in Path /\ at \in Seq(Bit) /\ Writable(slot[at]) /\ Len(at) <= Len(net)
        /\ net \in Network /\ Len(net) \in 0 .. Depth /\ net \in Seq(Bit)
        /\ Comparable(at, net) /\ Len(at) <= Depth
    BY <1>1, <1>8, CursorPath, DepthAssumption DEF Descend
  <2>2. SUFFICES ASSUME NEW p \in Path, Len(p) = Depth, slot'[p] = NodeRec
                 PROVE  p = net' /\ LastLevel'
    BY DEF DeepNodes
  <2>3. slot[p] # NodeRec
    BY <1>4, <2>1, <2>2, DepthAssumption
  <2>4. /\ \A b \in Bit : Append(at, b) \in Path /\ slot'[Append(at, b)] = slot[at]
        /\ \A q \in Path : q # at /\ q # Append(at, 0) /\ q # Append(at, 1)
                             => slot'[q] = slot[q]
    BY <1>8, <2>1, SplitRecords, ChildIsPath DEF Descend, Bit
  <2>5. p = at
    BY <2>1, <2>2, <2>3, <2>4, Kinds DEF Writable, Bit
  <2>6. at = net
    <3>1. Len(at) = Len(net)
      BY <2>1, <2>2, <2>5, DepthAssumption
    <3>2. QED
      BY <2>1, <3>1, CoversAntisymmetric DEF Comparable
  <2>7. at' = Append(net, 0) /\ net' = net /\ phase' = "visit" /\ op' = op
    <3>1. Len(net) + 1 > Len(net)
      BY <2>1
    <3>2. QED
      BY <1>8, <2>6, <3>1 DEF Descend, FirstBelow
  <2>8. slot'[Append(net, 0)] = slot[at] /\ slot'[Append(net, 1)] = slot[at]
    BY <2>4, <2>6 DEF Bit
  <2>9. QED
    BY <2>1, <2>5, <2>6, <2>7, <2>8 DEF LastLevel, Writable
<1>9. CASE AllocFails
  BY <1>4, <1>9, NoDeepNode, PathIsSeq, DepthAssumption DEF AllocFails, IInv, TypeOK
<1>10. CASE VisitRight
  <2>1. SUFFICES ASSUME NEW p \in Path, Len(p) = Depth, slot[p] = NodeRec
                 PROVE  p = net' /\ LastLevel'
    BY <1>10 DEF VisitRight, DeepNodes
  <2>2. /\ p = net /\ LastLevel /\ Len(at) = Depth + 1 /\ Parent(at) = net
        /\ Append(net, 1)[Depth + 1] = 1
    BY <1>4, <2>1
  <2>3. /\ phase = "return" /\ at[Len(at)] = 0 /\ phase' = "visit" /\ at' = Sibling(at)
        /\ slot' = slot /\ net' = net /\ op' = op
    BY <1>10 DEF VisitRight, LeftDone
  <2>4. at' = Append(net, 1)
    BY <2>2, <2>3 DEF Sibling
  <2>5. at # Append(net, 1)
    BY <2>2, <2>3
  <2>6. Writable(slot[Append(net, 1)]) /\ slot[Append(net, 0)] = Result(op, slot[Append(net, 1)])
    BY <2>2, <2>3, <2>5 DEF LastLevel
  <2>7. QED
    BY <2>2, <2>3, <2>4, <2>6 DEF LastLevel, Writable, Result
<1>11. CASE MergeNode
  <2>1. SUFFICES ASSUME NEW p \in Path, Len(p) = Depth, slot'[p] = NodeRec PROVE FALSE
    BY NoDeepNode
  <2> DEFINE r == Parent(at)
  <2>2. /\ r \in Path /\ slot[r] = NodeRec /\ Len(r) <= Depth
        /\ slot' = IF Mergeable(r) THEN Collapse(r) ELSE slot
    BY <1>1, <1>11, CursorPath, ParentIsNode, DepthAssumption DEF MergeNode
  <2> HIDE DEF r
  <2>3. slot[p] = NodeRec
    <3>1. CASE Mergeable(r)
      BY <2>1, <2>2, <3>1, CollapseRecords, Kinds DEF Mergeable
    <3>2. CASE ~Mergeable(r)
      BY <2>1, <2>2, <3>2
    <3>3. QED
      BY <3>1, <3>2
  <2>4. /\ p = net /\ r = net /\ LastLevel /\ Len(at) = Depth + 1 /\ Len(at) > Len(net)
        /\ Append(net, 0)[Depth + 1] = 0
    BY <1>4, <2>1, <2>3 DEF r
  <2>5. phase = "return" /\ at # Append(net, 0)
    BY <1>11, <2>4 DEF MergeNode, LeftDone
  <2>6. slot[Append(net, 1)] \in Leaf /\ slot[Append(net, 0)] = slot[Append(net, 1)]
    BY <2>4, <2>5 DEF LastLevel
  <2>7. slot'[net] = slot[Append(net, 0)]
    BY <2>2, <2>4, <2>6, CollapseRecords DEF Mergeable
  <2>8. QED
    BY <2>1, <2>4, <2>6, <2>7, Kinds
<1>12. CASE Finish
  BY <1>4, <1>12, NoDeepNode DEF Finish
<1>13. CASE UNCHANGED vars
  BY <1>1, <1>13 DEF vars, DeepNodes, LastLevel, Writable, Result
<1>14. QED
  BY <1>3, <1>5, <1>6, <1>7, <1>8, <1>9, <1>10, <1>11, <1>12, <1>13 DEF Next, Step

LEMMA InitDeep == Init => DInv
<1> SUFFICES ASSUME Init PROVE DInv
  OBVIOUS
<1>1. IInv
  BY InitInvariant
<1>2. \A p \in Path : slot[p] = NodeRec => Len(p) < Depth
  BY PaintedKinds, AboveReservedPath DEF Init
<1>3. \A p \in Path : Len(p) = Depth => slot[p] # NodeRec
  BY <1>2, DepthAssumption
<1>4. QED
  BY <1>1, <1>3 DEF DInv, DeepNodes

(* Without a node at depth Depth, an address has a leaf at no more than that. *)
LEMMA DeepResolves == DInv => EveryAddressResolves
<1> SUFFICES ASSUME DInv, phase = "idle", NEW a \in Addr
             PROVE  \E k \in 1 .. Depth : LeafAt(a, k)
  BY DEF EveryAddressResolves
<1>1. \A p \in Path : Len(p) = Depth => slot[p] # NodeRec
  BY DEF DInv, DeepNodes, LastLevel
<1> DEFINE e == Append(a, 0)
<1>2. a \in Seq(Bit) /\ Len(a) = Depth /\ 0 \in Bit
  BY AddrSeq DEF Bit
<1>3. e \in Point /\ e \in Seq(Bit) /\ Len(e) = Depth + 1 /\ e \in Path /\ Covers(a, e)
  <2>1. e \in Seq(Bit) /\ Len(e) = Depth + 1
    BY <1>2, AppendSeq
  <2>2. e \in Point
    BY <2>1, PointSeq
  <2>3. e \in Path
    BY <2>2, PathIsSeq
  <2>4. Covers(a, e)
    BY <1>2, CoversAppend
  <2>5. QED
    BY <2>1, <2>2, <2>3, <2>4
<1> HIDE DEF e
<1>4. PICK k \in 1 .. Depth + 1 : slot[Cut(e, k)] \in Leaf
  BY <1>3 DEF DInv, IInv, TreeShape, Resolves, LeafAt
<1>5. k # Depth + 1
  <2>1. SUFFICES ASSUME k = Depth + 1 PROVE FALSE
    OBVIOUS
  <2>2. Cut(e, Len(e)) = e
    BY <1>3, CutWhole
  <2>3. slot[e] # Absent
    BY <1>3, <1>4, <2>1, <2>2, Kinds
  <2>4. a \in Path /\ a # e
    BY <1>2, <1>3, PathSeq, DepthAssumption
  <2>5. slot[a] = NodeRec
    BY <1>3, <2>3, <2>4, AboveIsNode DEF DInv, IInv, TreeShape
  <2>6. QED
    BY <1>1, <1>2, <2>4, <2>5
<1>6. k \in 1 .. Depth /\ k \in 0 .. Len(a) /\ Len(a) \in 0 .. Len(e)
  BY <1>2, <1>3, <1>5, DepthAssumption
<1>7. Cut(e, k) = Cut(a, k)
  <2>1. Cut(e, Len(a)) = a
    BY <1>2, <1>3, CutOfCovered
  <2>2. QED
    BY <1>3, <1>6, <2>1, CutCut
<1>8. QED
  BY <1>4, <1>6, <1>7 DEF LeafAt

(***************************************************************************)
(* With pure closures every address has, between calls, a leaf within its  *)
(* own bits: the node that a host route needs below its last bit is merged *)
(* away before the insert returns, and a failed insert has not made it.    *)
(***************************************************************************)
THEOREM AddressesResolve == ASSUME PureOps PROVE Spec => []EveryAddressResolves
<1>1. Init => DInv
  BY InitDeep
<1>2. DInv /\ [Next]_vars => DInv'
  BY NextDeep
<1>3. DInv => EveryAddressResolves
  BY DeepResolves
<1>4. QED
  BY <1>1, <1>2, <1>3, PTL DEF Spec
=============================================================================
