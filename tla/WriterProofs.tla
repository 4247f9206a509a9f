---------------------------- MODULE WriterProofs ----------------------------
(***************************************************************************)
(* Proofs about Writer, for every depth, list of reserved networks, set of *)
(* values and set of closures: the arena stays a tree, and every call does *)
(* to the addresses what AddressMap promises.                              *)
(***************************************************************************)
EXTENDS Writer, SequenceTheorems, InductionLemmas

-----------------------------------------------------------------------------
(***************************************************************************)
(* Records, and the walk to the record of an address.                      *)
(***************************************************************************)
LEMMA Kinds ==
    /\ NoData.kind = "NoData" /\ Reserved.kind = "Reserved"
    /\ \A i : Node(i).kind = "Node" /\ Node(i).arg = i
    /\ \A i : Data(i).kind = "Data" /\ Data(i).arg = i
    /\ NoData \in Record /\ Reserved \in Record
    /\ \A i \in Nat : Node(i) \in Record /\ Data(i) \in Record
BY DEF NoData, Reserved, Node, Data, Rec, Record

(* Where a walk goes from record r at the next bit b. *)
Onward(ns, r, b) == IF IsPointer(r) \/ r.kind = "Alias" THEN ns[r.arg][b] ELSE r

(* The records on the way to an address, one for each bit. *)
Walk(ns, a) ==
    LET Follow[k \in 0 .. Len(a)] ==
            IF k = 0 THEN Node(1)
            ELSE LET r == Follow[k - 1]
                 IN  IF IsPointer(r) \/ r.kind = "Alias" THEN ns[r.arg][a[k]] ELSE r
    IN  Follow

LEMMA WalkDef ==
    ASSUME NEW ns, NEW a, Len(a) \in Nat
    PROVE  /\ RecordAt(ns, a) = Walk(ns, a)[Len(a)]
           /\ Walk(ns, a)[0] = Node(1)
           /\ \A k \in 0 .. Len(a) - 1 :
                  Walk(ns, a)[k + 1] = Onward(ns, Walk(ns, a)[k], a[k + 1])
<1> DEFINE Turn(h, k) == IF k = 0 THEN Node(1) ELSE Onward(ns, h[k - 1], a[k])
           Eq(h) == h = [k \in 0 .. Len(a) |-> Turn(h, k)]
           T == {m \in Nat : \E h : h = [k \in 0 .. m |-> Turn(h, k)]}
<1>1. 0 \in T
  <2>1. PICK f : f = [k \in 0 .. 0 |-> Node(1)]
    OBVIOUS
  <2>2. f = [k \in 0 .. 0 |-> Turn(f, k)]
    BY <2>1
  <2> QED
    BY <2>2
<1>2. ASSUME NEW n \in Nat, n \in T PROVE n + 1 \in T
  <2>1. PICK f : f = [k \in 0 .. n |-> Turn(f, k)]
    BY <1>2
  <2>2. PICK g : g = [k \in 0 .. n + 1 |-> IF k <= n THEN f[k] ELSE Onward(ns, f[n], a[n + 1])]
    OBVIOUS
  <2>3. \A k \in 0 .. n + 1 : g[k] = Turn(g, k)
    <3>1. \A k \in 0 .. n : g[k] = f[k] /\ f[k] = Turn(f, k)
      BY <2>1, <2>2
    <3>2. \A k \in 1 .. n + 1 : g[k - 1] = f[k - 1]
      BY <3>1
    <3>3. g[n + 1] = Onward(ns, f[n], a[n + 1])
      BY <2>2
    <3>4. \A k \in 0 .. n : Turn(g, k) = Turn(f, k)
      BY <3>2
    <3>5. g[n + 1] = Turn(g, n + 1)
      BY <3>2, <3>3
    <3>6. \A k \in 0 .. n : g[k] = Turn(g, k)
      BY <3>1, <3>4
    <3>7. \A k \in 0 .. n + 1 : k \in 0 .. n \/ k = n + 1
      OBVIOUS
    <3> HIDE DEF Turn
    <3> QED
      BY <3>5, <3>6, <3>7
  <2>4. g = [k \in 0 .. n + 1 |-> Turn(g, k)]
    BY <2>2, <2>3
  <2>5. \E h : h = [k \in 0 .. n + 1 |-> Turn(h, k)]
    BY Zenon, <2>4
  <2> QED
    BY <2>5
<1>3. Len(a) \in T
  <2> HIDE DEF T
  <2> QED
    BY <1>1, <1>2, Induction
<1>4. Walk(ns, a) = CHOOSE h : Eq(h)
  BY DEF Walk, Onward
<1>5. Eq(Walk(ns, a))
  <2>1. \E h : Eq(h)
    BY <1>3
  <2> HIDE DEF Eq
  <2> QED
    BY Zenon, <1>4, <2>1
<1>6. PICK W : W = Walk(ns, a) /\ W = [k \in 0 .. Len(a) |-> Turn(W, k)]
  BY <1>5
<1>7. \A k \in 0 .. Len(a) - 1 : k + 1 \in 0 .. Len(a) /\ k + 1 # 0 /\ (k + 1) - 1 = k
  OBVIOUS
<1>8. W[0] = Node(1) /\ \A k \in 0 .. Len(a) - 1 : W[k + 1] = Onward(ns, W[k], a[k + 1])
  BY <1>6, <1>7
<1>9. RecordAt(ns, a) = Walk(ns, a)[Len(a)]
  BY DEF RecordAt, Walk
<1> QED
  BY <1>6, <1>8, <1>9

-----------------------------------------------------------------------------
(***************************************************************************)
(* What makes an arena a tree.  D gives each node its depth.               *)
(***************************************************************************)

(* A record d bits below the root is a leaf, or leads to a node at that depth. *)
RecordSound(t, D, r, d) ==
    \/ r \in {NoData, Reserved}
    \/ \E id \in 1 .. Len(t.values) : r = Data(id)
    \/ \E j \in 1 .. Len(t.nodes) : r = Node(j) /\ D[j] = d /\ d < Depth

(* No node is the child of two records. *)
Separate(ns) ==
    \A i, j \in 1 .. Len(ns) : \A b, c \in Bit :
        ns[i][b].kind = "Node" /\ ns[i][b] = ns[j][c] => i = j /\ b = c

Sound(t, D) ==
    /\ t \in Trees /\ 1 <= Len(t.nodes)
    /\ D \in [1 .. Len(t.nodes) -> 0 .. Depth] /\ D[1] = 0
    /\ \A i \in 1 .. Len(t.nodes) : \A b \in Bit : RecordSound(t, D, t.nodes[i][b], D[i] + 1)
    /\ Separate(t.nodes)
    /\ IsInjective(t.values)

(* The walk of an address goes through node i. *)
Through(t, D, i, a) == Walk(t.nodes, a)[D[i]] = Node(i)

(* What an address holds, by its value. *)
View(t, r) == [kind |-> r.kind, id |-> ValueAt(t.values, r)]
See(t, a)  == View(t, RecordAt(t.nodes, a))

Still(r) == r.kind \in {"NoData", "Reserved", "Data"}

LEMMA SoundTypes ==
    ASSUME NEW t, NEW D, Sound(t, D)
    PROVE  /\ t = [nodes |-> t.nodes, values |-> t.values]
           /\ t.nodes \in Seq([Bit -> Record]) /\ t.values \in Seq(Values)
           /\ Len(t.nodes) \in Nat \ {0} /\ Len(t.values) \in Nat
           /\ \A i \in 1 .. Len(t.nodes) : t.nodes[i] \in [Bit -> Record] /\ D[i] \in 0 .. Depth
           /\ \A id \in 1 .. Len(t.values) : t.values[id] \in Values
           /\ \A i \in 1 .. Len(t.nodes) : \A b \in Bit : t.nodes[i][b] \in Record
BY DEF Sound, Trees

LEMMA AddrBits ==
    ASSUME NEW a \in Addr
    PROVE  Len(a) = Depth /\ Depth \in Nat \ {0} /\ \A k \in 0 .. Depth - 1 : a[k + 1] \in Bit
<1>1. a \in Seq(Bit) /\ Len(a) = Depth
  <2>1. a \in Seq(Bit)
    BY DepthAssumption, SeqDef DEF Addr
  <2>2. DOMAIN a = 1 .. Depth /\ DOMAIN a = 1 .. Len(a) /\ Len(a) \in Nat
    BY <2>1, LenProperties DEF Addr
  <2> QED
    BY <2>1, <2>2, DepthAssumption
<1> QED
  BY <1>1, DepthAssumption

LEMMA NetworkBits ==
    ASSUME NEW n \in Network
    PROVE  n \in Seq(Bit) /\ Len(n) \in 0 .. Depth /\ \A k \in 1 .. Len(n) : n[k] \in Bit
<1>1. PICK m \in 0 .. Depth : n \in [1 .. m -> Bit]
  BY DEF Network
<1>2. n \in Seq(Bit) /\ m \in Nat
  BY <1>1, SeqDef, DepthAssumption
<1>3. DOMAIN n = 1 .. m /\ DOMAIN n = 1 .. Len(n) /\ Len(n) \in Nat
  BY <1>1, <1>2, LenProperties
<1> QED
  BY <1>1, <1>2, <1>3

LEMMA StillIsLeaf ==
    ASSUME NEW r, Still(r)
    PROVE  ~IsPointer(r) /\ r.kind # "Alias" /\ r.kind # "Node" /\ \A ns, b : Onward(ns, r, b) = r
BY DEF Still, IsPointer, Onward

LEMMA SoundRecord ==
    ASSUME NEW t, NEW D, NEW r, NEW d, RecordSound(t, D, r, d)
    PROVE  \/ Still(r)
           \/ \E j \in 1 .. Len(t.nodes) : r = Node(j) /\ D[j] = d /\ d < Depth
BY Kinds DEF RecordSound, Still

LEMMA OnwardFromNode == \A ns, j, b : Onward(ns, Node(j), b) = ns[j][b]
BY Kinds DEF Onward, IsPointer

LEMMA WalkSound ==
    ASSUME NEW t, NEW D, Sound(t, D), NEW a \in Addr
    PROVE  \A k \in 0 .. Depth : RecordSound(t, D, Walk(t.nodes, a)[k], k)
<1> DEFINE S == {k \in Nat : k <= Depth => RecordSound(t, D, Walk(t.nodes, a)[k], k)}
<1>0. Len(a) = Depth /\ Depth \in Nat \ {0} /\ \A k \in 0 .. Depth - 1 : a[k + 1] \in Bit
  BY AddrBits
<1>1. 0 \in S
  <2>1. Walk(t.nodes, a)[0] = Node(1)
    BY <1>0, WalkDef
  <2>2. RecordSound(t, D, Node(1), 0)
    BY <1>0, SoundTypes DEF RecordSound, Sound
  <2> QED
    BY <2>1, <2>2
<1>2. ASSUME NEW k \in Nat, k \in S PROVE k + 1 \in S
  <2> SUFFICES ASSUME k + 1 <= Depth PROVE RecordSound(t, D, Walk(t.nodes, a)[k + 1], k + 1)
    OBVIOUS
  <2>1. PICK r : r = Walk(t.nodes, a)[k]
    OBVIOUS
  <2>2. RecordSound(t, D, r, k) /\ k \in 0 .. Depth - 1
    BY <1>0, <1>2, <2>1
  <2>3. Walk(t.nodes, a)[k + 1] = Onward(t.nodes, r, a[k + 1]) /\ a[k + 1] \in Bit
    BY <1>0, <2>1, <2>2, WalkDef
  <2>4. CASE Still(r)
    <3>1. Onward(t.nodes, r, a[k + 1]) = r
      BY <2>4, StillIsLeaf
    <3>2. RecordSound(t, D, r, k + 1)
      BY <2>2, <2>4, Kinds DEF RecordSound, Still
    <3> QED
      BY <2>3, <3>1, <3>2
  <2>5. CASE \E j \in 1 .. Len(t.nodes) : r = Node(j) /\ D[j] = k
    <3>1. PICK j \in 1 .. Len(t.nodes) : r = Node(j) /\ D[j] = k
      BY <2>5
    <3>2. RecordSound(t, D, t.nodes[j][a[k + 1]], D[j] + 1)
      BY <2>3 DEF Sound
    <3> QED
      BY <2>3, <3>1, <3>2, OnwardFromNode
  <2> QED
    BY <2>2, <2>4, <2>5, SoundRecord
<1> HIDE DEF S
<1>3. \A k \in Nat : k \in S
  BY <1>1, <1>2, Induction
<1> QED
  BY <1>0, <1>3 DEF S

LEMMA WalkRests ==
    ASSUME NEW ns, NEW a \in Addr, NEW k \in 0 .. Depth, Still(Walk(ns, a)[k])
    PROVE  RecordAt(ns, a) = Walk(ns, a)[k]
<1> DEFINE S == {m \in Nat : k + m <= Depth => Walk(ns, a)[k + m] = Walk(ns, a)[k]}
<1>0. Len(a) = Depth /\ Depth \in Nat
  BY AddrBits
<1>1. 0 \in S
  BY <1>0
<1>2. ASSUME NEW m \in Nat, m \in S PROVE m + 1 \in S
  <2>0. k + m <= Depth => Walk(ns, a)[k + m] = Walk(ns, a)[k]
    BY <1>2
  <2> SUFFICES ASSUME k + (m + 1) <= Depth PROVE Walk(ns, a)[k + (m + 1)] = Walk(ns, a)[k]
    OBVIOUS
  <2>1. k + m \in 0 .. Depth - 1 /\ (k + m) + 1 = k + (m + 1) /\ k + m <= Depth
    BY <1>0
  <2>2. Walk(ns, a)[k + m] = Walk(ns, a)[k]
    BY <2>0, <2>1
  <2>3. Walk(ns, a)[(k + m) + 1] = Onward(ns, Walk(ns, a)[k + m], a[(k + m) + 1])
    BY <1>0, <2>1, WalkDef
  <2> QED
    BY <2>1, <2>2, <2>3, StillIsLeaf
<1> HIDE DEF S
<1>3. \A m \in Nat : m \in S
  BY <1>1, <1>2, Induction
<1>4. Depth - k \in Nat /\ k + (Depth - k) = Depth
  BY <1>0
<1>5. Walk(ns, a)[Depth] = Walk(ns, a)[k]
  BY <1>3, <1>4 DEF S
<1> QED
  BY <1>0, <1>5, WalkDef

-----------------------------------------------------------------------------
(***************************************************************************)
(* Two arenas: how a change of records shows in the walks.                 *)
(***************************************************************************)
LEMMA SameWalk ==
    ASSUME NEW ns, NEW ms, NEW a \in Addr, NEW m \in 0 .. Depth,
           \A k \in 0 .. m - 1 :
               Onward(ms, Walk(ns, a)[k], a[k + 1]) = Onward(ns, Walk(ns, a)[k], a[k + 1])
    PROVE  \A k \in 0 .. m : Walk(ms, a)[k] = Walk(ns, a)[k]
<1> DEFINE S == {k \in Nat : k <= m => Walk(ms, a)[k] = Walk(ns, a)[k]}
<1>0. Len(a) = Depth /\ Depth \in Nat
  BY AddrBits
<1>1. 0 \in S
  BY <1>0, WalkDef
<1>2. ASSUME NEW k \in Nat, k \in S PROVE k + 1 \in S
  <2>0. k <= m => Walk(ms, a)[k] = Walk(ns, a)[k]
    BY <1>2
  <2> SUFFICES ASSUME k + 1 <= m PROVE Walk(ms, a)[k + 1] = Walk(ns, a)[k + 1]
    OBVIOUS
  <2>1. k \in 0 .. m - 1 /\ k \in 0 .. Len(a) - 1
    BY <1>0
  <2>2. Walk(ms, a)[k + 1] = Onward(ms, Walk(ms, a)[k], a[k + 1])
    BY <1>0, <2>1, WalkDef
  <2>3. Walk(ns, a)[k + 1] = Onward(ns, Walk(ns, a)[k], a[k + 1])
    BY <1>0, <2>1, WalkDef
  <2>4. Onward(ms, Walk(ns, a)[k], a[k + 1]) = Onward(ns, Walk(ns, a)[k], a[k + 1])
    BY <2>1
  <2> QED
    BY <2>0, <2>1, <2>2, <2>3, <2>4
<1> HIDE DEF S
<1>3. \A k \in Nat : k \in S
  BY <1>1, <1>2, Induction
<1> QED
  BY <1>3 DEF S

(* The arena only grew, nodes kept their depth and values their id. *)
Grown(t, D, u, E) ==
    /\ Len(t.nodes) <= Len(u.nodes) /\ \A k \in 1 .. Len(t.nodes) : E[k] = D[k]
    /\ Len(t.values) <= Len(u.values) /\ \A id \in 1 .. Len(t.values) : u.values[id] = t.values[id]

(* Nodes above depth m are what they were. *)
Kept(t, D, u, m) == \A k \in 1 .. Len(t.nodes) : D[k] < m => u.nodes[k] = t.nodes[k]

LEMMA KeptWalk ==
    ASSUME NEW t, NEW D, Sound(t, D), NEW u, NEW m \in 0 .. Depth, Kept(t, D, u, m), NEW a \in Addr
    PROVE  \A k \in 0 .. m : Walk(u.nodes, a)[k] = Walk(t.nodes, a)[k]
<1>0. Len(a) = Depth /\ Depth \in Nat
  BY AddrBits
<1>1. ASSUME NEW k \in 0 .. m - 1
      PROVE  Onward(u.nodes, Walk(t.nodes, a)[k], a[k + 1])
                 = Onward(t.nodes, Walk(t.nodes, a)[k], a[k + 1])
  <2>1. PICK r : r = Walk(t.nodes, a)[k]
    OBVIOUS
  <2>2. k \in 0 .. Depth /\ k < m
    BY <1>0
  <2>3. RecordSound(t, D, r, k)
    BY <2>1, <2>2, WalkSound
  <2>4. CASE Still(r)
    BY <2>1, <2>4, StillIsLeaf
  <2>5. CASE \E j \in 1 .. Len(t.nodes) : r = Node(j) /\ D[j] = k
    <3>1. PICK j \in 1 .. Len(t.nodes) : r = Node(j) /\ D[j] = k
      BY <2>5
    <3>2. u.nodes[j] = t.nodes[j]
      BY <2>2, <3>1 DEF Kept
    <3> QED
      BY <2>1, <3>1, <3>2, OnwardFromNode
  <2> QED
    BY <2>3, <2>4, <2>5, SoundRecord
<1> QED
  BY <1>1, SameWalk

LEMMA KeptThrough ==
    ASSUME NEW t, NEW D, Sound(t, D), NEW u, NEW E, Grown(t, D, u, E),
           NEW i \in 1 .. Len(t.nodes), Kept(t, D, u, D[i]), NEW a \in Addr
    PROVE  Through(u, E, i, a) <=> Through(t, D, i, a)
<1>1. D[i] \in 0 .. Depth /\ D[i] \in 0 .. D[i] /\ E[i] = D[i]
  BY SoundTypes, DepthAssumption DEF Grown
<1>2. Walk(u.nodes, a)[D[i]] = Walk(t.nodes, a)[D[i]]
  BY <1>1, KeptWalk
<1> QED
  BY <1>1, <1>2 DEF Through

(* The walk of an address comes to record b of node i. *)
Meets(t, D, i, b, a) == Through(t, D, i, a) /\ a[D[i] + 1] = b

(* Among the nodes of t only record b of node i has changed. *)
Edited(t, u, i, b, r) ==
    /\ u.nodes[i][b] = r
    /\ \A k \in 1 .. Len(t.nodes) : \A c \in Bit : k # i \/ c # b => u.nodes[k][c] = t.nodes[k][c]

LEMMA EditedWalk ==
    ASSUME NEW t, NEW D, Sound(t, D), NEW i \in 1 .. Len(t.nodes), NEW b \in Bit, D[i] < Depth,
           NEW u, NEW r, Edited(t, u, i, b, r), NEW a \in Addr
    PROVE  /\ \A k \in 0 .. D[i] : Walk(u.nodes, a)[k] = Walk(t.nodes, a)[k]
           /\ ~Meets(t, D, i, b, a) => \A k \in 0 .. Depth : Walk(u.nodes, a)[k] = Walk(t.nodes, a)[k]
           /\ Meets(t, D, i, b, a) => Walk(u.nodes, a)[D[i] + 1] = r
<1>0. Len(a) = Depth /\ Depth \in Nat /\ D[i] \in 0 .. Depth /\ \A k \in 0 .. Depth - 1 : a[k + 1] \in Bit
  BY AddrBits, SoundTypes
<1>1. ASSUME NEW k \in 0 .. Depth - 1, k < D[i] \/ ~Meets(t, D, i, b, a)
      PROVE  Onward(u.nodes, Walk(t.nodes, a)[k], a[k + 1])
                 = Onward(t.nodes, Walk(t.nodes, a)[k], a[k + 1])
  <2>1. PICK s : s = Walk(t.nodes, a)[k]
    OBVIOUS
  <2>2. k \in 0 .. Depth /\ a[k + 1] \in Bit
    BY <1>0
  <2>3. RecordSound(t, D, s, k)
    BY <2>1, <2>2, WalkSound
  <2>4. CASE Still(s)
    BY <2>1, <2>4, StillIsLeaf
  <2>5. CASE \E j \in 1 .. Len(t.nodes) : s = Node(j) /\ D[j] = k
    <3>1. PICK j \in 1 .. Len(t.nodes) : s = Node(j) /\ D[j] = k
      BY <2>5
    <3>2. j # i \/ a[k + 1] # b
      <4> SUFFICES ASSUME j = i, a[k + 1] = b PROVE FALSE
        OBVIOUS
      <4>1. D[i] = k
        BY <3>1
      <4>2. Meets(t, D, i, b, a)
        BY <2>1, <3>1, <4>1 DEF Meets, Through
      <4>3. ~(k < D[i])
        BY <1>0, <4>1
      <4> QED
        BY <1>1, <4>2, <4>3
    <3>3. u.nodes[j][a[k + 1]] = t.nodes[j][a[k + 1]]
      BY <2>2, <3>2 DEF Edited
    <3> QED
      BY <2>1, <3>1, <3>3, OnwardFromNode
  <2> QED
    BY <2>3, <2>4, <2>5, SoundRecord
<1>2. \A k \in 0 .. D[i] : Walk(u.nodes, a)[k] = Walk(t.nodes, a)[k]
  <2>1. \A k \in 0 .. D[i] - 1 : k \in 0 .. Depth - 1 /\ k < D[i]
    BY <1>0
  <2>2. PICK m : m = D[i] /\ m \in 0 .. Depth
    BY <1>0
  <2>3. \A k \in 0 .. m - 1 : Onward(u.nodes, Walk(t.nodes, a)[k], a[k + 1])
                 = Onward(t.nodes, Walk(t.nodes, a)[k], a[k + 1])
    BY <1>1, <2>1, <2>2
  <2> QED
    <3>1. \A k \in 0 .. m : Walk(u.nodes, a)[k] = Walk(t.nodes, a)[k]
      BY ZenonT(30), <2>2, <2>3, SameWalk
    <3> QED
      BY <2>2, <3>1
<1>3. ASSUME ~Meets(t, D, i, b, a)
      PROVE  \A k \in 0 .. Depth : Walk(u.nodes, a)[k] = Walk(t.nodes, a)[k]
  <2>1. \A k \in 0 .. Depth - 1 : Onward(u.nodes, Walk(t.nodes, a)[k], a[k + 1])
                 = Onward(t.nodes, Walk(t.nodes, a)[k], a[k + 1])
    BY <1>1, <1>3
  <2>2. Depth \in 0 .. Depth
    BY <1>0
  <2> QED
    BY <2>1, <2>2, SameWalk
<1>4. ASSUME Meets(t, D, i, b, a) PROVE Walk(u.nodes, a)[D[i] + 1] = r
  <2>1. D[i] \in 0 .. Depth - 1 /\ D[i] \in 0 .. D[i]
    BY <1>0
  <2>2. Walk(u.nodes, a)[D[i]] = Node(i) /\ a[D[i] + 1] = b
    BY <1>2, <1>4, <2>1 DEF Meets, Through
  <2>3. Walk(u.nodes, a)[D[i] + 1] = Onward(u.nodes, Node(i), b)
    <3>1. PICK k \in 0 .. Depth - 1 : k = D[i]
      BY <2>1
    <3>2. Walk(u.nodes, a)[k + 1] = Onward(u.nodes, Walk(u.nodes, a)[k], a[k + 1])
      BY <1>0, WalkDef
    <3> QED
      BY <2>2, <3>1, <3>2
  <2> QED
    BY <2>3, OnwardFromNode DEF Edited
<1> QED
  BY <1>2, <1>3, <1>4

-----------------------------------------------------------------------------
(***************************************************************************)
(* What an address holds, and what a change of one record does to it.      *)
(***************************************************************************)
(* ms is ns with r as record b of node i. *)
Updated(ns, i, b, r, ms) ==
    /\ ms \in Seq([Bit -> Record]) /\ Len(ms) = Len(ns) /\ ms[i][b] = r
    /\ \A k \in 1 .. Len(ns) : \A c \in Bit : k # i \/ c # b => ms[k][c] = ns[k][c]
    /\ \A k \in 1 .. Len(ns) : k # i => ms[k] = ns[k]

LEMMA PutRecord ==
    ASSUME NEW ns \in Seq([Bit -> Record]), NEW i \in 1 .. Len(ns), NEW b \in Bit, NEW r \in Record
    PROVE  Updated(ns, i, b, r, Put(ns, i, b, r))
<1>1. Len(ns) \in Nat /\ DOMAIN ns = 1 .. Len(ns) /\ \A k \in 1 .. Len(ns) : ns[k] \in [Bit -> Record]
  BY LenProperties
<1>2. PICK m : m = [ns[i] EXCEPT ![b] = r]
  OBVIOUS
<1>3. m \in [Bit -> Record] /\ m[b] = r /\ \A c \in Bit : c # b => m[c] = ns[i][c]
  BY <1>1, <1>2
<1>4. PICK ms : ms = [ns EXCEPT ![i] = m]
  OBVIOUS
<1>5. ms \in Seq([Bit -> Record]) /\ Len(ms) = Len(ns) /\ ms[i] = m
      /\ \A k \in 1 .. Len(ns) : k # i => ms[k] = ns[k]
  BY <1>1, <1>3, <1>4, ExceptSeq
<1>6. Put(ns, i, b, r) = ms
  BY <1>2, <1>4 DEF Put
<1> QED
  BY <1>3, <1>5, <1>6 DEF Updated

LEMMA RecordAtSound ==
    ASSUME NEW t, NEW D, Sound(t, D), NEW a \in Addr, NEW r, r = RecordAt(t.nodes, a)
    PROVE  r \in {NoData, Reserved} \/ \E id \in 1 .. Len(t.values) : r = Data(id)
<1>1. Len(a) = Depth /\ Depth \in Nat \ {0}
  BY AddrBits
<1>2. RecordSound(t, D, Walk(t.nodes, a)[Depth], Depth)
  BY <1>1, WalkSound
<1>3. RecordAt(t.nodes, a) = Walk(t.nodes, a)[Depth]
  BY <1>1, WalkDef
<1> QED
  BY <1>1, <1>2, <1>3 DEF RecordSound

LEMMA ViewGrown ==
    ASSUME NEW t, NEW D, Sound(t, D), NEW u, NEW E, Grown(t, D, u, E), NEW r,
           r \in {NoData, Reserved} \/ \E id \in 1 .. Len(t.values) : r = Data(id)
    PROVE  View(u, r) = View(t, r)
<1>1. ValueAt(u.values, r) = ValueAt(t.values, r)
  BY Kinds DEF ValueAt, Grown
<1> QED
  BY <1>1 DEF View

LEMMA SeeGrown ==
    ASSUME NEW t, NEW D, Sound(t, D), NEW u, NEW E, Grown(t, D, u, E), NEW a \in Addr,
           RecordAt(u.nodes, a) = RecordAt(t.nodes, a)
    PROVE  See(u, a) = See(t, a)
<1>1. PICK r : r = RecordAt(t.nodes, a)
  OBVIOUS
<1>2. View(u, r) = View(t, r)
  BY <1>1, RecordAtSound, ViewGrown
<1> QED
  BY <1>1, <1>2 DEF See

LEMMA MeetsRecord ==
    ASSUME NEW t, NEW D, Sound(t, D), NEW i \in 1 .. Len(t.nodes), NEW b \in Bit, D[i] < Depth,
           NEW a \in Addr, Meets(t, D, i, b, a)
    PROVE  /\ Walk(t.nodes, a)[D[i] + 1] = t.nodes[i][b]
           /\ Still(t.nodes[i][b]) => RecordAt(t.nodes, a) = t.nodes[i][b]
<1>1. Edited(t, t, i, b, t.nodes[i][b])
  BY DEF Edited
<1>2. Walk(t.nodes, a)[D[i] + 1] = t.nodes[i][b]
  BY <1>1, EditedWalk
<1>3. D[i] + 1 \in 0 .. Depth
  BY SoundTypes, DepthAssumption
<1> QED
  BY <1>2, <1>3, WalkRests

LEMMA EditedSee ==
    ASSUME NEW t, NEW D, Sound(t, D), NEW i \in 1 .. Len(t.nodes), NEW b \in Bit, D[i] < Depth,
           NEW u, NEW E, Grown(t, D, u, E), NEW r, Edited(t, u, i, b, r), NEW a \in Addr
    PROVE  /\ ~Meets(t, D, i, b, a) => See(u, a) = See(t, a)
           /\ Meets(t, D, i, b, a) /\ Still(r) => RecordAt(u.nodes, a) = r
<1>0. Len(a) = Depth /\ Depth \in Nat /\ Depth \in 0 .. Depth /\ D[i] + 1 \in 0 .. Depth
  BY AddrBits, SoundTypes
<1>1. ASSUME ~Meets(t, D, i, b, a) PROVE See(u, a) = See(t, a)
  <2>1. Walk(u.nodes, a)[Depth] = Walk(t.nodes, a)[Depth]
    BY <1>0, <1>1, EditedWalk
  <2>2. RecordAt(u.nodes, a) = RecordAt(t.nodes, a)
    BY <1>0, <2>1, WalkDef
  <2> QED
    BY <2>2, SeeGrown
<1>2. ASSUME Meets(t, D, i, b, a), Still(r) PROVE RecordAt(u.nodes, a) = r
  <2>1. Walk(u.nodes, a)[D[i] + 1] = r
    BY <1>2, EditedWalk
  <2> QED
    BY <1>0, <1>2, <2>1, WalkRests
<1> QED
  BY <1>1, <1>2

(* A node is reached through its parent's record and no other way. *)
LEMMA ChildThrough ==
    ASSUME NEW t, NEW D, Sound(t, D), NEW i \in 1 .. Len(t.nodes), NEW b \in Bit,
           NEW j \in 1 .. Len(t.nodes), t.nodes[i][b] = Node(j), NEW a \in Addr
    PROVE  /\ D[j] = D[i] + 1 /\ D[j] < Depth
           /\ Through(t, D, j, a) <=> Meets(t, D, i, b, a)
<1>1. RecordSound(t, D, t.nodes[i][b], D[i] + 1)
  BY DEF Sound
<1>2. D[j] = D[i] + 1 /\ D[j] < Depth
  BY <1>1, Kinds DEF RecordSound
<1>3. Len(a) = Depth /\ Depth \in Nat /\ D[i] \in 0 .. Depth - 1 /\ \A k \in 0 .. Depth - 1 : a[k + 1] \in Bit
  BY <1>2, AddrBits, SoundTypes
<1>4. ASSUME Meets(t, D, i, b, a) PROVE Through(t, D, j, a)
  BY <1>2, <1>3, <1>4, MeetsRecord DEF Through
<1>5. ASSUME Through(t, D, j, a) PROVE Meets(t, D, i, b, a)
  <2>1. PICK k \in 0 .. Depth - 1 : k = D[i] /\ k \in 0 .. Depth
    BY <1>3
  <2>2. PICK s : s = Walk(t.nodes, a)[k]
    OBVIOUS
  <2>3. RecordSound(t, D, s, k) /\ a[k + 1] \in Bit
    BY <1>3, <2>1, <2>2, WalkSound
  <2>4. Node(j) = Onward(t.nodes, s, a[k + 1])
    BY <1>2, <1>3, <1>5, <2>1, <2>2, WalkDef DEF Through
  <2>5. ~Still(s)
    BY <2>4, StillIsLeaf, Kinds
  <2>6. PICK x \in 1 .. Len(t.nodes) : s = Node(x)
    BY <2>3, <2>5, SoundRecord
  <2>7. t.nodes[x][a[k + 1]] = t.nodes[i][b] /\ t.nodes[x][a[k + 1]].kind = "Node"
    BY <2>4, <2>6, OnwardFromNode, Kinds
  <2>8. x = i /\ a[k + 1] = b
    BY <2>3, <2>7 DEF Sound, Separate
  <2> QED
    BY <2>1, <2>2, <2>6, <2>8 DEF Meets, Through
<1> QED
  BY <1>2, <1>4, <1>5

-----------------------------------------------------------------------------
(***************************************************************************)
(* The steps of an insert, one at a time.                                  *)
(***************************************************************************)
Evolved(t, D, u, E, m) == Sound(u, E) /\ Grown(t, D, u, E) /\ Kept(t, D, u, m)

Extended(values1, values2) ==
    /\ values2 \in Seq(Values) /\ IsInjective(values2)
    /\ Len(values1) <= Len(values2) /\ \A id \in 1 .. Len(values1) : values2[id] = values1[id]

LEMMA Interned ==
    ASSUME NEW vs \in Seq(Values), IsInjective(vs), NEW v \in Values
    PROVE  /\ Extended(vs, Intern(vs, v))
           /\ IdOf(Intern(vs, v), v) \in 1 .. Len(Intern(vs, v))
           /\ Intern(vs, v)[IdOf(Intern(vs, v), v)] = v
           /\ Intern(Intern(vs, v), v) = Intern(vs, v)
<1>1. PICK ws : ws = Intern(vs, v)
  OBVIOUS
<1>2. Len(vs) \in Nat /\ DOMAIN vs = 1 .. Len(vs)
  BY LenProperties
<1>3. Extended(vs, ws) /\ \E id \in 1 .. Len(ws) : ws[id] = v
  <2>1. CASE v \in Range(vs)
    <3>1. ws = vs
      BY <1>1, <2>1 DEF Intern
    <3>2. \E id \in 1 .. Len(vs) : vs[id] = v
      BY <1>2, <2>1 DEF Range
    <3> QED
      BY <1>2, <3>1, <3>2 DEF Extended
  <2>2. CASE v \notin Range(vs)
    <3>1. ws = Append(vs, v)
      BY <1>1, <2>2 DEF Intern
    <3>2. ws \in Seq(Values) /\ Len(ws) = Len(vs) + 1 /\ ws[Len(vs) + 1] = v
          /\ \A id \in 1 .. Len(vs) : ws[id] = vs[id]
      BY <3>1, AppendProperties
    <3>3. \A id \in 1 .. Len(vs) : vs[id] # v
      BY <1>2, <2>2 DEF Range
    <3>4. DOMAIN ws = 1 .. Len(vs) + 1 /\ \A x \in 1 .. Len(vs) + 1 : x \in 1 .. Len(vs) \/ x = Len(vs) + 1
      BY <1>2, <3>2, LenProperties
    <3>5. \A x, y \in 1 .. Len(vs) : vs[x] = vs[y] => x = y
      BY <1>2 DEF IsInjective
    <3>6. IsInjective(ws)
      <4> SUFFICES ASSUME NEW x \in DOMAIN ws, NEW y \in DOMAIN ws, ws[x] = ws[y] PROVE x = y
        BY DEF IsInjective
      <4> QED
        BY <3>2, <3>3, <3>4, <3>5
    <3> QED
      BY <1>2, <3>2, <3>6 DEF Extended
  <2> QED
    BY <2>1, <2>2
<1>4. DOMAIN ws = 1 .. Len(ws)
  BY <1>3, LenProperties DEF Extended
<1>5. PICK id : id = IdOf(ws, v)
  OBVIOUS
<1>6. id \in 1 .. Len(ws) /\ ws[id] = v
  BY <1>3, <1>4, <1>5 DEF IdOf
<1>7. Intern(ws, v) = ws
  BY Zenon, <1>4, <1>6 DEF Intern, Range
<1> QED
  BY <1>1, <1>3, <1>5, <1>6, <1>7

LEMMA SetLeaf ==
    ASSUME NEW t, NEW D, Sound(t, D), NEW i \in 1 .. Len(t.nodes), NEW b \in Bit,
           NEW vs, Extended(t.values, vs),
           NEW r, r \in {NoData, Reserved} \/ \E id \in 1 .. Len(vs) : r = Data(id),
           NEW u, u = [nodes |-> Put(t.nodes, i, b, r), values |-> vs]
    PROVE  Evolved(t, D, u, D, D[i]) /\ Edited(t, u, i, b, r)
<1>0. Len(t.values) \in Nat /\ Len(vs) \in Nat
  BY SoundTypes, LenProperties DEF Extended
<1>1. r \in Record /\ r.kind # "Node"
  BY <1>0, Kinds
<1>2. PICK ms : ms = Put(t.nodes, i, b, r)
  OBVIOUS
<1>3. /\ ms \in Seq([Bit -> Record]) /\ Len(ms) = Len(t.nodes) /\ ms[i][b] = r
      /\ \A k \in 1 .. Len(t.nodes) : \A c \in Bit : k # i \/ c # b => ms[k][c] = t.nodes[k][c]
      /\ \A k \in 1 .. Len(t.nodes) : k # i => ms[k] = t.nodes[k]
  <2>1. Updated(t.nodes, i, b, r, ms)
    BY <1>1, <1>2, SoundTypes, PutRecord
  <2> QED
    BY <2>1 DEF Updated
<1>4. u.nodes = ms /\ u.values = vs /\ u \in Trees
  BY <1>2, <1>3 DEF Extended, Trees
<1>5. Edited(t, u, i, b, r)
  BY <1>3, <1>4 DEF Edited
<1>6. Grown(t, D, u, D) /\ Kept(t, D, u, D[i])
  BY <1>3, <1>4, SoundTypes DEF Grown, Extended, Kept
<1>7. ASSUME NEW k \in 1 .. Len(ms), NEW c \in Bit PROVE RecordSound(u, D, ms[k][c], D[k] + 1)
  <2>1. CASE k = i /\ c = b
    BY <1>3, <1>4, <2>1 DEF RecordSound
  <2>2. CASE ~(k = i /\ c = b)
    <3>1. ms[k][c] = t.nodes[k][c]
      BY <1>3, <2>2
    <3>2. RecordSound(t, D, t.nodes[k][c], D[k] + 1)
      BY <1>3 DEF Sound
    <3>3. \A id \in 1 .. Len(t.values) : id \in 1 .. Len(vs)
      BY <1>0 DEF Extended
    <3> QED
      BY <1>3, <1>4, <3>1, <3>2, <3>3 DEF RecordSound
  <2> QED
    BY <2>1, <2>2
<1>8. Separate(ms)
  <2> SUFFICES ASSUME NEW j \in 1 .. Len(ms), NEW k \in 1 .. Len(ms), NEW c \in Bit, NEW d \in Bit,
                      ms[j][c].kind = "Node", ms[j][c] = ms[k][d]
               PROVE  j = k /\ c = d
    BY DEF Separate
  <2>1. (j # i \/ c # b) /\ (k # i \/ d # b)
    BY <1>1, <1>3
  <2>2. /\ j \in 1 .. Len(t.nodes) /\ ms[j][c] = t.nodes[j][c]
        /\ k \in 1 .. Len(t.nodes) /\ ms[k][d] = t.nodes[k][d]
    BY <1>3, <2>1
  <2>3. PICK ns : ns = t.nodes
    OBVIOUS
  <2>4. Separate(ns)
    BY <2>3 DEF Sound
  <2>5. /\ j \in 1 .. Len(ns) /\ k \in 1 .. Len(ns)
        /\ ns[j][c].kind = "Node" /\ ns[j][c] = ns[k][d]
    BY <2>2, <2>3
  <2> QED
    BY <2>4, <2>5 DEF Separate
<1>9. Sound(u, D)
  BY <1>3, <1>4, <1>7, <1>8 DEF Sound, Extended
<1> QED
  BY <1>3, <1>4, <1>5, <1>6, <1>9 DEF Evolved

(* What a closure makes of what an address holds. *)
Answered(f, view) ==
    IF view.kind = "Reserved" THEN view
    ELSE IF f[view.id] = None THEN [kind |-> "NoData", id |-> None]
    ELSE [kind |-> "Data", id |-> f[view.id]]

(* Leaves a closure is asked about. *)
Open(t, r) == r = NoData \/ \E id \in 1 .. Len(t.values) : r = Data(id)

LEMMA OpenLeaf ==
    ASSUME NEW t, NEW D, Sound(t, D), NEW r, Open(t, r)
    PROVE  /\ Still(r) /\ r.kind # "Reserved" /\ IsLeaf(r) /\ r \in Record
           /\ ~Skipped(r) /\ ~IsPointer(r) /\ r.kind # "Node" /\ r.kind # "FixedNode"
           /\ ValueAt(t.values, r) \in OptValue
           /\ r \in {NoData, Reserved} \/ \E id \in 1 .. Len(t.values) : r = Data(id)
BY Kinds, SoundTypes DEF Open, Still, IsLeaf, Skipped, IsPointer, ValueAt, OptValue

(* The leaf and the pool after a closure has answered v. *)
AnswerPool(t, v) == IF v = None THEN t.values ELSE Intern(t.values, v)
AnswerLeaf(t, v) == IF v = None THEN NoData ELSE Data(IdOf(AnswerPool(t, v), v))

LEMMA AnswerStored ==
    ASSUME NEW t, NEW D, Sound(t, D), NEW v \in OptValue
    PROVE  /\ Extended(t.values, AnswerPool(t, v))
           /\ AnswerLeaf(t, v) = NoData \/ \E id \in 1 .. Len(AnswerPool(t, v)) : AnswerLeaf(t, v) = Data(id)
           /\ \A ns : View([nodes |-> ns, values |-> AnswerPool(t, v)], AnswerLeaf(t, v))
                  = IF v = None THEN [kind |-> "NoData", id |-> None] ELSE [kind |-> "Data", id |-> v]
           /\ v # None => Intern(AnswerPool(t, v), v) = AnswerPool(t, v)
<1>0. t.values \in Seq(Values) /\ IsInjective(t.values) /\ Len(t.values) \in Nat
  BY SoundTypes DEF Sound
<1>1. CASE v = None
  <2>1. AnswerPool(t, v) = t.values /\ AnswerLeaf(t, v) = NoData
    BY <1>1 DEF AnswerPool, AnswerLeaf
  <2> QED
    BY <1>0, <1>1, <2>1, Kinds DEF Extended, View, ValueAt
<1>2. CASE v # None
  <2>1. v \in Values
    BY <1>2 DEF OptValue
  <2>2. PICK vs, id : vs = Intern(t.values, v) /\ id = IdOf(vs, v)
    OBVIOUS
  <2>3. AnswerPool(t, v) = vs /\ AnswerLeaf(t, v) = Data(id)
    BY <1>2, <2>2 DEF AnswerPool, AnswerLeaf
  <2>4. PICK ws \in Seq(Values) : ws = t.values
    BY <1>0
  <2>5. Extended(t.values, vs) /\ id \in 1 .. Len(vs) /\ vs[id] = v /\ Intern(vs, v) = vs
    BY <1>0, <2>1, <2>2, <2>4, Interned
  <2> QED
    BY <1>2, <2>3, <2>5, Kinds DEF View, ValueAt
<1> QED
  BY <1>1, <1>2

LEMMA AskedLeaf ==
    ASSUME NEW t, NEW i, NEW b, NEW f, NEW v, v = f[ValueAt(t.values, t.nodes[i][b])]
    PROVE  AskLeaf(t, i, b, f)
               = [nodes |-> Put(t.nodes, i, b, AnswerLeaf(t, v)), values |-> AnswerPool(t, v)]
BY DEF AskLeaf, AnswerLeaf, AnswerPool

LEMMA AnsweredSee ==
    ASSUME NEW t, NEW D, Sound(t, D), NEW i \in 1 .. Len(t.nodes), NEW b \in Bit, D[i] < Depth,
           Open(t, t.nodes[i][b]), NEW f \in [OptValue -> OptValue],
           NEW v, v = f[ValueAt(t.values, t.nodes[i][b])],
           NEW u, NEW E, Grown(t, D, u, E), u.values = AnswerPool(t, v),
           Edited(t, u, i, b, AnswerLeaf(t, v)), NEW a \in Addr
    PROVE  See(u, a) = IF Meets(t, D, i, b, a) THEN Answered(f, See(t, a)) ELSE See(t, a)
<1>1. PICK r, x : r = t.nodes[i][b] /\ x = AnswerLeaf(t, v)
  OBVIOUS
<1>2. Open(t, r)
  BY <1>1
<1>3. v \in OptValue /\ Still(r) /\ r.kind # "Reserved"
  BY <1>1, <1>2, OpenLeaf
<1>4. x = NoData \/ \E id \in 1 .. Len(AnswerPool(t, v)) : x = Data(id)
  BY <1>1, <1>3, AnswerStored
<1>5. Still(x)
  BY <1>4, Kinds DEF Still
<1>6. View(u, x) = IF v = None THEN [kind |-> "NoData", id |-> None] ELSE [kind |-> "Data", id |-> v]
  <2>1. PICK w : w = [nodes |-> u.nodes, values |-> AnswerPool(t, v)]
    OBVIOUS
  <2>2. View(w, x) = IF v = None THEN [kind |-> "NoData", id |-> None] ELSE [kind |-> "Data", id |-> v]
    BY <1>1, <1>3, <2>1, AnswerStored
  <2>3. w.values = u.values
    BY <2>1
  <2> QED
    BY <2>2, <2>3 DEF View
<1>7. CASE Meets(t, D, i, b, a)
  <2>1. See(t, a) = View(t, r)
    BY <1>1, <1>3, <1>7, MeetsRecord DEF See
  <2>2. See(u, a) = View(u, x)
    BY <1>1, <1>5, <1>7, EditedSee DEF See
  <2> QED
    BY <1>1, <1>3, <1>6, <1>7, <2>1, <2>2 DEF Answered, View
<1>8. CASE ~Meets(t, D, i, b, a)
  BY <1>8, EditedSee
<1> QED
  BY <1>7, <1>8

LEMMA AskStep ==
    ASSUME NEW t, NEW D, Sound(t, D), NEW i \in 1 .. Len(t.nodes), NEW b \in Bit, D[i] < Depth,
           Open(t, t.nodes[i][b]), NEW f \in [OptValue -> OptValue],
           NEW u, u = AskLeaf(t, i, b, f)
    PROVE  /\ Evolved(t, D, u, D, D[i])
           /\ \A a \in Addr : See(u, a) = IF Meets(t, D, i, b, a) THEN Answered(f, See(t, a))
                                          ELSE See(t, a)
<1>1. PICK r, v : r = t.nodes[i][b] /\ v = f[ValueAt(t.values, r)]
  OBVIOUS
<1>2. Open(t, r)
  BY <1>1
<1>3. v \in OptValue
  BY <1>1, <1>2, OpenLeaf
<1>4. PICK x, vs : x = AnswerLeaf(t, v) /\ vs = AnswerPool(t, v)
  OBVIOUS
<1>5. u = [nodes |-> Put(t.nodes, i, b, x), values |-> vs]
  BY <1>1, <1>4, AskedLeaf
<1>6. /\ Extended(t.values, vs)
      /\ x \in {NoData, Reserved} \/ \E id \in 1 .. Len(vs) : x = Data(id)
  BY <1>3, <1>4, AnswerStored
<1>7. Evolved(t, D, u, D, D[i]) /\ Edited(t, u, i, b, x)
  BY <1>5, <1>6, SetLeaf
<1>8. Grown(t, D, u, D) /\ u.values = AnswerPool(t, v) /\ Edited(t, u, i, b, AnswerLeaf(t, v))
      /\ v = f[ValueAt(t.values, t.nodes[i][b])]
  BY SMTT(30), <1>1, <1>4, <1>5, <1>7 DEF Evolved
<1> QED
  BY <1>7, <1>8, AnsweredSee

(***************************************************************************)
(* An arena that has one node more, with twice the leaf x, e bits below    *)
(* the root, and one other record changed to y, which may lead to it.      *)
(***************************************************************************)
Deeper(t, D, e) == [k \in 1 .. Len(t.nodes) + 1 |-> IF k = Len(t.nodes) + 1 THEN e ELSE D[k]]

LEMMA NodeAdded ==
    ASSUME NEW t, NEW D, Sound(t, D), NEW i \in 1 .. Len(t.nodes), NEW b \in Bit,
           NEW u, u \in Trees, Extended(t.values, u.values),
           Len(u.nodes) = Len(t.nodes) + 1,
           NEW x, x \in {NoData, Reserved} \/ \E id \in 1 .. Len(u.values) : x = Data(id),
           \A c \in Bit : u.nodes[Len(t.nodes) + 1][c] = x,
           NEW y, Edited(t, u, i, b, y), NEW e \in 0 .. Depth,
           \/ y \in {NoData, Reserved} \/ \E id \in 1 .. Len(u.values) : y = Data(id)
           \/ y = Node(Len(t.nodes) + 1) /\ e = D[i] + 1 /\ e < Depth
    PROVE  Evolved(t, D, u, Deeper(t, D, e), D[i])
<1>0. /\ Len(t.nodes) \in Nat \ {0} /\ Len(t.values) \in Nat /\ Len(u.values) \in Nat /\ Depth \in Nat
      /\ \A k \in 1 .. Len(t.nodes) : D[k] \in 0 .. Depth
  BY SoundTypes, LenProperties, DepthAssumption DEF Extended
<1>1. PICK n \in Nat : n = Len(t.nodes) /\ n >= 1 /\ n + 1 = Len(u.nodes)
  BY <1>0
<1>2. PICK E : E = Deeper(t, D, e)
  OBVIOUS
<1>3. /\ E \in [1 .. n + 1 -> 0 .. Depth] /\ E[n + 1] = e
      /\ \A k \in 1 .. n : E[k] = D[k]
  BY SMTT(20), <1>0, <1>1, <1>2 DEF Deeper
<1>4. Grown(t, D, u, E)
  BY SMTT(20), <1>0, <1>1, <1>3 DEF Grown, Extended
<1>5. ASSUME NEW k \in 1 .. n, D[k] < D[i] PROVE u.nodes[k] = t.nodes[k]
  <2>1. k # i
    BY <1>0, <1>1, <1>5
  <2>2. u.nodes[k] \in [Bit -> Record] /\ t.nodes[k] \in [Bit -> Record]
    BY <1>1, SoundTypes DEF Trees
  <2>3. \A c \in Bit : u.nodes[k][c] = t.nodes[k][c]
    BY <1>1, <2>1 DEF Edited
  <2> QED
    BY <2>2, <2>3
<1>6. Kept(t, D, u, D[i])
  BY <1>1, <1>5 DEF Kept
<1>7. \A k \in 1 .. n + 1 : k \in 1 .. n \/ k = n + 1
  BY <1>1
<1>8. ASSUME NEW k \in 1 .. n + 1, NEW c \in Bit PROVE RecordSound(u, E, u.nodes[k][c], E[k] + 1)
  <2>1. CASE k = n + 1
    BY <1>1, <2>1 DEF RecordSound
  <2>2. CASE k = i /\ c = b
    <3>1. E[i] = D[i] /\ u.nodes[i][b] = y
      BY <1>1, <1>3 DEF Edited
    <3>2. n + 1 \in 1 .. Len(u.nodes)
      BY <1>1
    <3>3. CASE y = Node(n + 1) /\ e = D[i] + 1 /\ e < Depth
      BY <1>3, <2>2, <3>1, <3>2, <3>3 DEF RecordSound
    <3> QED
      BY <1>1, <2>2, <3>1, <3>3 DEF RecordSound
  <2>3. CASE k \in 1 .. n /\ ~(k = i /\ c = b)
    <3>1. u.nodes[k][c] = t.nodes[k][c] /\ E[k] = D[k]
      BY <1>1, <1>3, <2>3 DEF Edited
    <3>2. RecordSound(t, D, t.nodes[k][c], D[k] + 1)
      BY <1>1, <2>3 DEF Sound
    <3>3. \A id \in 1 .. Len(t.values) : id \in 1 .. Len(u.values)
      BY <1>0 DEF Extended
    <3>4. \A j \in 1 .. Len(t.nodes) : j \in 1 .. Len(u.nodes) /\ E[j] = D[j]
      BY <1>1, <1>3
    <3> QED
      BY <3>1, <3>2, <3>3, <3>4 DEF RecordSound
  <2> QED
    BY <1>7, <2>1, <2>2, <2>3
<1>9. Separate(u.nodes)
  <2>1. \A c \in Bit : u.nodes[n + 1][c].kind # "Node"
    BY <1>1, Kinds
  <2>2. \A k \in 1 .. n : \A c \in Bit : k # i \/ c # b => u.nodes[k][c] = t.nodes[k][c]
    BY <1>1 DEF Edited
  <2>3. y.kind # "Node" \/ y = Node(n + 1)
    BY <1>1, Kinds
  <2>4. u.nodes[i][b] = y
    BY DEF Edited
  <2>5. ASSUME NEW k \in 1 .. n, NEW c \in Bit PROVE t.nodes[k][c] # Node(n + 1)
    <3>1. RecordSound(t, D, t.nodes[k][c], D[k] + 1)
      BY <1>1 DEF Sound
    <3>2. n + 1 \notin 1 .. Len(t.nodes)
      BY <1>1
    <3>3. PICK r : r = t.nodes[k][c]
      OBVIOUS
    <3>4. SUFFICES ASSUME r = Node(n + 1) PROVE FALSE
      BY <3>3
    <3>5. r.kind = "Node" /\ r.arg = n + 1
      BY <3>4, Kinds
    <3>6. PICK j \in 1 .. Len(t.nodes) : r = Node(j)
      BY <3>1, <3>3, <3>5, Kinds DEF RecordSound
    <3>7. r.arg = j
      BY <3>6, Kinds
    <3> QED
      BY <3>2, <3>5, <3>6, <3>7
  <2>6. PICK us : us = u.nodes
    OBVIOUS
  <2>7. 1 .. Len(us) = 1 .. n + 1
    BY <1>1, <2>6
  <2>8. SUFFICES Separate(us)
    BY <2>6
  <2> SUFFICES ASSUME NEW k \in 1 .. Len(us), NEW m \in 1 .. Len(us), NEW c \in Bit, NEW d \in Bit,
                      us[k][c].kind = "Node", us[k][c] = us[m][d]
               PROVE  k = m /\ c = d
    BY DEF Separate
  <2>9. u.nodes[k][c].kind = "Node" /\ u.nodes[k][c] = u.nodes[m][d]
    BY <2>6
  <2>10. k \in 1 .. n /\ m \in 1 .. n
    BY <1>7, <2>1, <2>7, <2>9
  <2>11. CASE k = i /\ c = b
    <3>1. u.nodes[m][d] = Node(n + 1)
      BY <2>3, <2>4, <2>9, <2>11
    <3> QED
      BY <2>2, <2>5, <2>10, <2>11, <3>1
  <2>12. CASE m = i /\ d = b
    <3>1. u.nodes[k][c] = Node(n + 1)
      BY <2>3, <2>4, <2>9, <2>12
    <3> QED
      BY <2>2, <2>5, <2>10, <2>12, <3>1
  <2>13. CASE ~(k = i /\ c = b) /\ ~(m = i /\ d = b)
    <3>1. u.nodes[k][c] = t.nodes[k][c] /\ u.nodes[m][d] = t.nodes[m][d]
      BY <2>2, <2>10, <2>13
    <3>2. Separate(t.nodes) /\ k \in 1 .. Len(t.nodes) /\ m \in 1 .. Len(t.nodes)
      BY <1>1, <2>10 DEF Sound
    <3>3. t.nodes[k][c].kind = "Node" /\ t.nodes[k][c] = t.nodes[m][d]
      BY <2>9, <3>1
    <3> QED
      BY ONLY <3>2, <3>3, c \in Bit, d \in Bit DEF Separate
  <2> QED
    BY <2>11, <2>12, <2>13
<1>10. E[1] = 0
  BY <1>1, <1>3 DEF Sound
<1>11. Sound(u, E)
  BY <1>1, <1>3, <1>8, <1>9, <1>10 DEF Sound, Extended
<1> QED
  BY <1>2, <1>4, <1>6, <1>11 DEF Evolved

(* ms is ns with y as record b of node i and another node, with x twice. *)
Lengthened(ns, i, b, y, x, ms) ==
    /\ ms \in Seq([Bit -> Record]) /\ Len(ms) = Len(ns) + 1
    /\ \A c \in Bit : ms[Len(ns) + 1][c] = x
    /\ ms[i][b] = y
    /\ \A k \in 1 .. Len(ns) : \A c \in Bit : k # i \/ c # b => ms[k][c] = ns[k][c]

LEMMA SplitNodes ==
    ASSUME NEW ns \in Seq([Bit -> Record]), NEW i \in 1 .. Len(ns), NEW b \in Bit, NEW y \in Record,
           NEW x \in Record, NEW ms, ms = Append(Put(ns, i, b, y), [c \in Bit |-> x])
    PROVE  Lengthened(ns, i, b, y, x, ms)
<1>1. PICK ps : ps = Put(ns, i, b, y)
  OBVIOUS
<1>2. Updated(ns, i, b, y, ps)
  BY <1>1, PutRecord
<1>3. ps \in Seq([Bit -> Record]) /\ Len(ps) = Len(ns) /\ Len(ns) \in Nat
  BY <1>2, LenProperties DEF Updated
<1>4. PICK z \in [Bit -> Record] : z = [c \in Bit |-> x]
  OBVIOUS
<1>5. /\ ms \in Seq([Bit -> Record]) /\ Len(ms) = Len(ps) + 1 /\ ms[Len(ps) + 1] = z
      /\ \A k \in 1 .. Len(ps) : ms[k] = ps[k]
  <2>1. ms = Append(ps, z)
    BY <1>1, <1>4
  <2>2. PICK S : S = [Bit -> Record]
    OBVIOUS
  <2>3. ps \in Seq(S) /\ z \in S
    BY <1>3, <1>4, <2>2
  <2>4. ms \in Seq(S) /\ Len(ms) = Len(ps) + 1 /\ ms[Len(ps) + 1] = z
        /\ \A k \in 1 .. Len(ps) : ms[k] = ps[k]
    BY ONLY <2>1, <2>3, AppendProperties
  <2> QED
    BY <2>2, <2>4
<1>6. \A c \in Bit : ms[Len(ns) + 1][c] = x
  BY <1>3, <1>4, <1>5
<1>7. ms[i][b] = y
  BY <1>2, <1>3, <1>5 DEF Updated
<1>8. \A k \in 1 .. Len(ns) : \A c \in Bit : k # i \/ c # b => ms[k][c] = ns[k][c]
  BY <1>2, <1>3, <1>5 DEF Updated
<1> QED
  BY <1>3, <1>5, <1>6, <1>7, <1>8 DEF Lengthened

LEMMA SplitStep ==
    ASSUME NEW t, NEW D, Sound(t, D), NEW i \in 1 .. Len(t.nodes), NEW b \in Bit, D[i] + 1 < Depth,
           Open(t, t.nodes[i][b]),
           NEW u, u = SplitLeaf(t, i, b), NEW j, j = NewIndex(t.nodes),
           NEW E, E = Deeper(t, D, D[i] + 1)
    PROVE  /\ Evolved(t, D, u, E, D[i]) /\ Edited(t, u, i, b, Node(j))
           /\ u.nodes[i][b] = Node(j) /\ j \in 1 .. Len(u.nodes) /\ i \in 1 .. Len(u.nodes)
           /\ \A a \in Addr : See(u, a) = See(t, a)
<1>0. /\ t.nodes \in Seq([Bit -> Record]) /\ Len(t.nodes) \in Nat /\ j = Len(t.nodes) + 1
      /\ t.values \in Seq(Values) /\ Len(t.values) \in Nat
      /\ Depth \in Nat /\ D[i] \in 0 .. Depth /\ IsInjective(t.values)
  BY SoundTypes, DepthAssumption DEF NewIndex, Sound
<1>1. PICK x : x = t.nodes[i][b]
  OBVIOUS
<1>2. Open(t, x)
  BY <1>1
<1>3. /\ Still(x) /\ x \in Record
      /\ x \in {NoData, Reserved} \/ \E id \in 1 .. Len(t.values) : x = Data(id)
  BY <1>2, OpenLeaf
<1>4. PICK ms, ns : ms = u.nodes /\ ns = t.nodes
  OBVIOUS
<1>5. ms = Append(Put(ns, i, b, Node(j)), [c \in Bit |-> x]) /\ u.values = t.values
      /\ u = [nodes |-> ms, values |-> t.values]
  <2>1. u = [t EXCEPT !.nodes = Append(Put(ns, i, b, Node(j)), [c \in Bit |-> x])]
    BY <1>0, <1>1, <1>4 DEF SplitLeaf
  <2>2. PICK vs : t = [nodes |-> ns, values |-> vs]
    BY <1>4, SoundTypes
  <2>3. PICK ps : ps = Append(Put(ns, i, b, Node(j)), [c \in Bit |-> x])
    OBVIOUS
  <2>4. u = [nodes |-> ps, values |-> vs]
    BY <2>1, <2>2, <2>3
  <2> QED
    BY <1>4, <2>2, <2>3, <2>4
<1>6. Node(j) \in Record /\ ns \in Seq([Bit -> Record]) /\ i \in 1 .. Len(ns)
  BY <1>0, <1>4, Kinds
<1>7. /\ ms \in Seq([Bit -> Record]) /\ Len(ms) = Len(ns) + 1
      /\ \A c \in Bit : ms[Len(ns) + 1][c] = x
      /\ ms[i][b] = Node(j)
      /\ \A k \in 1 .. Len(ns) : \A c \in Bit : k # i \/ c # b => ms[k][c] = ns[k][c]
  <2>1. PICK y \in Record : y = Node(j)
    BY <1>6
  <2>2. ms = Append(Put(ns, i, b, y), [c \in Bit |-> x])
    BY <1>5, <2>1
  <2>3. Lengthened(ns, i, b, y, x, ms)
    BY <1>3, <1>6, <2>1, <2>2, SplitNodes
  <2> QED
    BY <2>1, <2>3 DEF Lengthened
<1>8. u \in Trees /\ Extended(t.values, u.values) /\ Edited(t, u, i, b, Node(j))
  BY <1>0, <1>4, <1>5, <1>7 DEF Trees, Extended, Edited
<1>9. Evolved(t, D, u, E, D[i])
  <2>1. PICK e \in 0 .. Depth : e = D[i] + 1
    BY <1>0
  <2>2. /\ x \in {NoData, Reserved} \/ \E id \in 1 .. Len(u.values) : x = Data(id)
        /\ Len(u.nodes) = Len(t.nodes) + 1
        /\ \A c \in Bit : u.nodes[Len(t.nodes) + 1][c] = x
        /\ Node(j) = Node(Len(t.nodes) + 1) /\ e < Depth
    BY <1>0, <1>3, <1>4, <1>5, <1>7, <2>1
  <2>3. PICK y : y = Node(j)
    OBVIOUS
  <2> QED
    BY <1>8, <2>1, <2>2, <2>3, NodeAdded
<1>10. Grown(t, D, u, E) /\ D[i] < Depth
  BY <1>0, <1>9 DEF Evolved
<1>11. ASSUME NEW a \in Addr PROVE See(u, a) = See(t, a)
  <2>1. CASE ~Meets(t, D, i, b, a)
    BY <1>8, <1>10, <2>1, EditedSee
  <2>2. CASE Meets(t, D, i, b, a)
    <3>1. RecordAt(t.nodes, a) = x
      BY <1>1, <1>3, <1>10, <2>2, MeetsRecord
    <3>2. Walk(u.nodes, a)[D[i] + 1] = Node(j)
      BY <1>8, <1>10, <2>2, EditedWalk
    <3>3. PICK d \in 0 .. Depth - 1 : d = D[i] + 1
      BY <1>0
    <3>4. Len(a) = Depth /\ a[d + 1] \in Bit /\ d + 1 \in 0 .. Depth
      BY <1>0, <3>3, AddrBits
    <3>5. Walk(u.nodes, a)[d + 1] = Onward(u.nodes, Node(j), a[d + 1])
      BY <1>0, <3>2, <3>3, <3>4, WalkDef
    <3>6. Walk(u.nodes, a)[d + 1] = x
      BY <1>0, <1>4, <1>7, <3>4, <3>5, OnwardFromNode
    <3>7. RecordAt(u.nodes, a) = x
      BY <1>3, <3>4, <3>6, WalkRests
    <3> QED
      BY <1>10, <3>1, <3>7, SeeGrown
  <2> QED
    BY <2>1, <2>2
<1> QED
  BY <1>0, <1>4, <1>7, <1>8, <1>9, <1>11

(* A walk that comes to a node with the same leaf twice ends in that leaf. *)
LEMMA SameLeaves ==
    ASSUME NEW t, NEW D, Sound(t, D), NEW j \in 1 .. Len(t.nodes), D[j] < Depth,
           BothSame(t.nodes[j]), NEW a \in Addr, Through(t, D, j, a)
    PROVE  /\ RecordAt(t.nodes, a) = t.nodes[j][0]
           /\ t.nodes[j][0] \in {NoData, Reserved} \/ \E id \in 1 .. Len(t.values) : t.nodes[j][0] = Data(id)
<1>1. PICK x : x = t.nodes[j][0]
  OBVIOUS
<1>2. \A c \in Bit : t.nodes[j][c] = x
  BY <1>1 DEF BothSame, Bit
<1>3. PICK c \in Bit : c = 0
  BY DEF Bit
<1>4. RecordSound(t, D, x, D[j] + 1)
  BY <1>1, <1>3 DEF Sound
<1>5. IsLeaf(x)
  BY <1>1 DEF BothSame
<1>6. Still(x) /\ (x \in {NoData, Reserved} \/ \E id \in 1 .. Len(t.values) : x = Data(id))
  BY <1>4, <1>5, Kinds DEF RecordSound, IsLeaf, Still
<1>7. PICK d \in 0 .. Depth - 1 : d = D[j]
  BY SoundTypes, DepthAssumption
<1>8. Len(a) = Depth /\ a[d + 1] \in Bit /\ d + 1 \in 0 .. Depth
  BY <1>7, AddrBits
<1>9. Walk(t.nodes, a)[d + 1] = Onward(t.nodes, Node(j), a[d + 1])
  BY <1>7, <1>8, WalkDef DEF Through
<1>10. Walk(t.nodes, a)[d + 1] = x
  BY <1>2, <1>8, <1>9, OnwardFromNode
<1> QED
  BY <1>1, <1>6, <1>8, <1>10, WalkRests

LEMMA MergeStep ==
    ASSUME NEW t, NEW D, Sound(t, D), NEW i \in 1 .. Len(t.nodes), NEW b \in Bit,
           NEW j \in 1 .. Len(t.nodes), t.nodes[i][b] = Node(j),
           NEW u, u = TryMerge(t, i, b, j)
    PROVE  /\ Evolved(t, D, u, D, D[i])
           /\ \A a \in Addr : See(u, a) = See(t, a)
<1>0. Depth \in Nat /\ Len(t.nodes) \in Nat /\ Len(t.values) \in Nat /\ t.values \in Seq(Values)
      /\ IsInjective(t.values) /\ t = [nodes |-> t.nodes, values |-> t.values]
  BY SoundTypes, DepthAssumption DEF Sound
<1>1. CASE ~BothSame(t.nodes[j])
  <2>1. u = t
    BY <1>1 DEF TryMerge
  <2> QED
    BY <1>0, <2>1 DEF Evolved, Grown, Kept
<1>2. CASE BothSame(t.nodes[j])
  <2>1. PICK x : x = t.nodes[j][0]
    OBVIOUS
  <2>2. u = [nodes |-> Put(t.nodes, i, b, x), values |-> t.values]
    <3>1. u = [t EXCEPT !.nodes = Put(t.nodes, i, b, x)]
      BY <1>2, <2>1 DEF TryMerge
    <3>2. PICK ns, vs : t = [nodes |-> ns, values |-> vs]
      BY <1>0
    <3> QED
      BY <3>1, <3>2
  <2>3. \A a \in Addr : D[j] = D[i] + 1 /\ D[j] < Depth /\ (Through(t, D, j, a) <=> Meets(t, D, i, b, a))
    BY ChildThrough
  <2>4. D[j] < Depth /\ D[i] < Depth /\ D[j] = D[i] + 1
    <3>1. [k \in 1 .. Depth |-> 0] \in Addr
      BY DEF Addr, Bit
    <3>2. D[j] < Depth /\ D[j] = D[i] + 1
      BY <2>3, <3>1
    <3> QED
      BY <1>0, <3>2, SoundTypes
  <2>5. Still(x) /\ (x \in {NoData, Reserved} \/ \E id \in 1 .. Len(t.values) : x = Data(id))
    <3>1. IsLeaf(x)
      BY <1>2, <2>1 DEF BothSame
    <3>2. RecordSound(t, D, x, D[j] + 1)
      BY <2>1 DEF Sound, Bit
    <3> QED
      BY <3>1, <3>2, Kinds DEF RecordSound, IsLeaf, Still
  <2>6. Extended(t.values, t.values)
    BY <1>0 DEF Extended
  <2>7. Evolved(t, D, u, D, D[i]) /\ Edited(t, u, i, b, x)
    BY <2>2, <2>5, <2>6, SetLeaf
  <2>8. ASSUME NEW a \in Addr PROVE See(u, a) = See(t, a)
    <3>1. CASE Meets(t, D, i, b, a)
      <4>1. RecordAt(t.nodes, a) = x
        BY <1>2, <2>1, <2>3, <2>4, <3>1, SameLeaves
      <4>2. RecordAt(u.nodes, a) = x
        BY <2>4, <2>5, <2>7, <3>1, EditedSee DEF Evolved
      <4> QED
        BY <2>7, <4>1, <4>2, SeeGrown DEF Evolved
    <3>2. CASE ~Meets(t, D, i, b, a)
      BY <2>4, <2>7, <3>2, EditedSee DEF Evolved
    <3> QED
      BY <3>1, <3>2
  <2> QED
    BY <2>7, <2>8
<1> QED
  BY <1>1, <1>2

(***************************************************************************)
(* A host route ends at the last bit, so its leaf is split once more, both *)
(* halves are asked, and they merge again: one leaf, and a node left over. *)
(***************************************************************************)
HostStored(t, i, b, f) ==
    LET j == NewIndex(t.nodes)
    IN  TryMerge(AskLeaf(AskLeaf(SplitLeaf(t, i, b), j, 0, f), j, 1, f), i, b, j)

LEMMA HostStep ==
    ASSUME NEW t, NEW D, Sound(t, D), NEW i \in 1 .. Len(t.nodes), NEW b \in Bit, D[i] + 1 = Depth,
           Open(t, t.nodes[i][b]), NEW f \in [OptValue -> OptValue],
           NEW u, u = HostStored(t, i, b, f)
    PROVE  /\ Evolved(t, D, u, Deeper(t, D, Depth), D[i])
           /\ \A a \in Addr : See(u, a) = IF Meets(t, D, i, b, a) THEN Answered(f, See(t, a))
                                          ELSE See(t, a)
           /\ \E x \in Record : ~IsPointer(x) /\ Lengthened(t.nodes, i, b, x, x, u.nodes)
<1>0. /\ t.nodes \in Seq([Bit -> Record]) /\ Len(t.nodes) \in Nat
      /\ t.values \in Seq(Values) /\ Len(t.values) \in Nat
      /\ Depth \in Nat /\ D[i] \in 0 .. Depth /\ IsInjective(t.values)
  BY SoundTypes, DepthAssumption DEF Sound
<1>1. PICK r, v, j : r = t.nodes[i][b] /\ v = f[ValueAt(t.values, r)] /\ j = NewIndex(t.nodes)
  OBVIOUS
<1>2. Open(t, r) /\ j = Len(t.nodes) + 1
  BY <1>1 DEF NewIndex
<1>3. /\ v \in OptValue /\ r \in Record
      /\ r \in {NoData, Reserved} \/ \E id \in 1 .. Len(t.values) : r = Data(id)
  BY <1>1, <1>2, OpenLeaf
<1>4. PICK x, vs : x = AnswerLeaf(t, v) /\ vs = AnswerPool(t, v)
  OBVIOUS
<1>5. /\ Extended(t.values, vs)
      /\ x = NoData \/ \E id \in 1 .. Len(vs) : x = Data(id)
      /\ v # None => Intern(vs, v) = vs
  BY <1>3, <1>4, AnswerStored
<1>6. x \in Record /\ IsLeaf(x)
  <2>1. Len(vs) \in Nat
    BY <1>5, LenProperties DEF Extended
  <2> QED
    BY <1>5, <2>1, Kinds DEF IsLeaf
<1>7. PICK t1, ms1, ns : t1 = SplitLeaf(t, i, b) /\ ns = t.nodes
                         /\ ms1 = Append(Put(ns, i, b, Node(j)), [c \in Bit |-> r])
  OBVIOUS
<1>8. t1 = [nodes |-> ms1, values |-> t.values]
  <2>1. t1 = [t EXCEPT !.nodes = ms1]
    BY <1>1, <1>7 DEF SplitLeaf
  <2>2. PICK ws : t = [nodes |-> ns, values |-> ws]
    BY <1>7, SoundTypes
  <2> QED
    BY <2>1, <2>2
<1>9. Lengthened(ns, i, b, Node(j), r, ms1)
  <2>1. PICK y \in Record : y = Node(j)
    BY <1>0, <1>2, Kinds
  <2>2. ms1 = Append(Put(ns, i, b, y), [c \in Bit |-> r]) /\ ns \in Seq([Bit -> Record]) /\ i \in 1 .. Len(ns)
    BY <1>0, <1>7, <2>1
  <2>3. Lengthened(ns, i, b, y, r, ms1)
    BY <1>3, <2>2, SplitNodes
  <2> QED
    BY <2>1, <2>3
<1>10. PICK l, m : l = 0 /\ m = 1 /\ l \in Bit /\ m \in Bit /\ l # m /\ \A c \in Bit : c = l \/ c = m
  BY DEF Bit
<1>11. PICK n \in Nat : n = Len(ns) /\ j = n + 1 /\ i \in 1 .. n
  BY <1>0, <1>2, <1>7
<1>12. ms1 \in Seq([Bit -> Record]) /\ Len(ms1) = j /\ j \in 1 .. Len(ms1)
       /\ ms1[j][l] = r /\ ms1[j][m] = r /\ ms1[i][b] = Node(j)
       /\ \A k \in 1 .. n : \A c \in Bit : k # i \/ c # b => ms1[k][c] = ns[k][c]
  <2>1. ms1 \in Seq([Bit -> Record]) /\ Len(ms1) = n + 1 /\ \A c \in Bit : ms1[n + 1][c] = r
    BY <1>9, <1>11 DEF Lengthened
  <2>2. ms1[i][b] = Node(j)
    BY <1>9 DEF Lengthened
  <2>3. \A k \in 1 .. n : \A c \in Bit : k # i \/ c # b => ms1[k][c] = ns[k][c]
    BY <1>9, <1>11 DEF Lengthened
  <2>4. ms1[j][l] = r /\ ms1[j][m] = r /\ j \in 1 .. Len(ms1) /\ Len(ms1) = j
    BY <1>10, <1>11, <2>1
  <2> QED
    BY <2>1, <2>2, <2>3, <2>4
<1>13. PICK t2, ms2 : t2 = AskLeaf(t1, j, l, f) /\ ms2 = Put(ms1, j, l, x)
  OBVIOUS
<1>14. t2 = [nodes |-> ms2, values |-> vs]
  <2>1. v = f[ValueAt(t1.values, t1.nodes[j][l])] /\ AnswerLeaf(t1, v) = x /\ AnswerPool(t1, v) = vs
    BY <1>1, <1>4, <1>8, <1>12 DEF AnswerLeaf, AnswerPool
  <2> QED
    BY <1>8, <1>13, <2>1, AskedLeaf
<1>15. Updated(ms1, j, l, x, ms2)
  BY <1>6, <1>10, <1>12, <1>13, PutRecord
<1>16. ms2 \in Seq([Bit -> Record]) /\ Len(ms2) = j /\ ms2[j][l] = x /\ ms2[j][m] = r
       /\ ms2[i][b] = Node(j)
       /\ \A k \in 1 .. n : \A c \in Bit : k # i \/ c # b => ms2[k][c] = ns[k][c]
  BY <1>10, <1>11, <1>12, <1>15 DEF Updated
<1>17. PICK t3, ms3 : t3 = AskLeaf(t2, j, m, f) /\ ms3 = Put(ms2, j, m, x)
  OBVIOUS
<1>18. t3 = [nodes |-> ms3, values |-> vs]
  <2>1. ValueAt(vs, r) = ValueAt(t.values, r)
    BY <1>3, <1>5, Kinds DEF ValueAt, Extended
  <2>2. v = f[ValueAt(t2.values, t2.nodes[j][m])]
    BY <1>1, <1>14, <1>16, <2>1
  <2>3. AnswerPool(t2, v) = vs
    BY <1>5, <1>14 DEF AnswerPool
  <2>4. AnswerLeaf(t2, v) = x
    BY <1>4, <2>3 DEF AnswerLeaf
  <2> QED
    BY <1>14, <1>17, <2>2, <2>3, <2>4, AskedLeaf
<1>19. Updated(ms2, j, m, x, ms3)
  BY <1>6, <1>10, <1>12, <1>16, <1>17, PutRecord
<1>20. ms3 \in Seq([Bit -> Record]) /\ Len(ms3) = j /\ ms3[j][l] = x /\ ms3[j][m] = x
       /\ ms3[i][b] = Node(j)
       /\ \A k \in 1 .. n : \A c \in Bit : k # i \/ c # b => ms3[k][c] = ns[k][c]
  BY <1>10, <1>11, <1>16, <1>19 DEF Updated
<1>21. PICK ms4 : ms4 = Put(ms3, i, b, x)
  OBVIOUS
<1>22. u = [nodes |-> ms4, values |-> vs]
  <2>1. u = TryMerge(t3, i, b, j)
    BY <1>1, <1>7, <1>10, <1>13, <1>17 DEF HostStored
  <2>2. BothSame(ms3[j])
    BY <1>6, <1>10, <1>20 DEF BothSame
  <2>3. u = [t3 EXCEPT !.nodes = ms4]
    BY <1>10, <1>18, <1>20, <1>21, <2>1, <2>2 DEF TryMerge
  <2> QED
    BY <1>18, <2>3
<1>23. Updated(ms3, i, b, x, ms4)
  <2>1. i \in 1 .. Len(ms3)
    BY <1>11, <1>20
  <2> QED
    BY <1>6, <1>20, <1>21, <2>1, PutRecord
<1>24. ms4 \in Seq([Bit -> Record]) /\ Len(ms4) = j /\ ms4[j][l] = x /\ ms4[j][m] = x
       /\ ms4[i][b] = x
       /\ \A k \in 1 .. n : \A c \in Bit : k # i \/ c # b => ms4[k][c] = ns[k][c]
  BY <1>10, <1>11, <1>20, <1>23 DEF Updated
<1>25. Edited(t, u, i, b, x) /\ u \in Trees /\ Extended(t.values, u.values)
       /\ Len(u.nodes) = Len(t.nodes) + 1 /\ \A c \in Bit : u.nodes[Len(t.nodes) + 1][c] = x
  BY <1>5, <1>7, <1>10, <1>11, <1>22, <1>24 DEF Edited, Trees, Extended
<1>26. x \in {NoData, Reserved} \/ \E id \in 1 .. Len(u.values) : x = Data(id)
  BY <1>5, <1>22
<1>27. PICK e \in 0 .. Depth : e = Depth
  BY <1>0
<1>28. Evolved(t, D, u, Deeper(t, D, e), D[i])
  BY <1>25, <1>26, NodeAdded
<1>29. PICK E : E = Deeper(t, D, e) /\ Grown(t, D, u, E)
  BY <1>28 DEF Evolved
<1>30. D[i] < Depth /\ u.values = AnswerPool(t, v) /\ v = f[ValueAt(t.values, t.nodes[i][b])]
       /\ Edited(t, u, i, b, AnswerLeaf(t, v))
  BY <1>0, <1>1, <1>4, <1>22, <1>25
<1>31. ASSUME NEW a \in Addr
       PROVE  See(u, a) = IF Meets(t, D, i, b, a) THEN Answered(f, See(t, a)) ELSE See(t, a)
  BY <1>29, <1>30, AnsweredSee
<1>32. ~IsPointer(x) /\ Lengthened(t.nodes, i, b, x, x, u.nodes)
  <2>1. Lengthened(ns, i, b, x, x, ms4)
    BY <1>10, <1>11, <1>24 DEF Lengthened
  <2> QED
    BY <1>6, <1>7, <1>22, <2>1 DEF IsLeaf, IsPointer
<1> QED
  BY <1>6, <1>27, <1>28, <1>31, <1>32

-----------------------------------------------------------------------------
(***************************************************************************)
(* One visit to a record, and to a node.                                   *)
(***************************************************************************)
LEMMA LaterTrans ==
    ASSUME NEW t, NEW D, Sound(t, D), NEW w, NEW F, NEW m \in Nat, Evolved(t, D, w, F, m),
           NEW u, NEW E, NEW k \in Nat, m <= k, Evolved(w, F, u, E, k)
    PROVE  Evolved(t, D, u, E, m)
<1>0. /\ Len(t.nodes) \in Nat /\ Len(w.nodes) \in Nat /\ Len(u.nodes) \in Nat /\ Depth \in Nat
      /\ Len(t.values) \in Nat /\ Len(w.values) \in Nat /\ Len(u.values) \in Nat
      /\ \A x \in 1 .. Len(t.nodes) : D[x] \in 0 .. Depth
  BY SoundTypes, DepthAssumption DEF Evolved
<1>1. Grown(t, D, w, F) /\ Grown(w, F, u, E)
  BY DEF Evolved
<1>2. \A x \in 1 .. Len(t.nodes) : x \in 1 .. Len(w.nodes)
  BY <1>0, <1>1 DEF Grown
<1>3. \A x \in 1 .. Len(t.values) : x \in 1 .. Len(w.values)
  BY <1>0, <1>1 DEF Grown
<1>4. Grown(t, D, u, E)
  BY <1>0, <1>1, <1>2, <1>3 DEF Grown
<1>5. ASSUME NEW x \in 1 .. Len(t.nodes), D[x] < m PROVE u.nodes[x] = t.nodes[x]
  <2>1. F[x] = D[x] /\ x \in 1 .. Len(w.nodes)
    BY <1>1, <1>2 DEF Grown
  <2>2. D[x] < k
    BY <1>0, <1>5
  <2> QED
    BY <1>5, <2>1, <2>2 DEF Evolved, Kept
<1> QED
  BY <1>4, <1>5 DEF Evolved, Kept

LEMMA LaterSame ==
    ASSUME NEW t, NEW D, Sound(t, D), NEW m
    PROVE  Evolved(t, D, t, D, m)
BY SoundTypes DEF Evolved, Grown, Kept

(* What remains true of a node of the arena as it was. *)
Remains(t, D, u, E, i) ==
    /\ i \in 1 .. Len(u.nodes) /\ E[i] = D[i] /\ D[i] \in Nat
    /\ \A a \in Addr : Through(u, E, i, a) <=> Through(t, D, i, a)
    /\ \A a \in Addr : \A b \in Bit : Meets(u, E, i, b, a) <=> Meets(t, D, i, b, a)

LEMMA LaterNode ==
    ASSUME NEW t, NEW D, Sound(t, D), NEW i \in 1 .. Len(t.nodes),
           NEW u, NEW E, Evolved(t, D, u, E, D[i])
    PROVE  Sound(u, E) /\ Remains(t, D, u, E, i)
<1>1. Len(t.nodes) \in Nat /\ Len(u.nodes) \in Nat /\ D[i] \in Nat
  BY SoundTypes DEF Evolved
<1>2. i \in 1 .. Len(u.nodes) /\ E[i] = D[i]
  BY <1>1 DEF Evolved, Grown
<1>3. \A a \in Addr : Through(u, E, i, a) <=> Through(t, D, i, a)
  BY KeptThrough DEF Evolved
<1> QED
  BY <1>1, <1>2, <1>3 DEF Evolved, Meets, Remains

(* An address whose walk comes to node i begins with the bits of n. *)
OnPath(t, D, i, n) ==
    \A a \in Addr : Through(t, D, i, a) => \A k \in 1 .. Len(n) : k <= D[i] => a[k] = n[k]

(* The record that an insert of n visits, below Len(n) either. *)
Onto(n, d, b) == d <= Len(n) => b = n[d]

LEMMA OnPathDown ==
    ASSUME NEW t, NEW D, Sound(t, D), NEW i \in 1 .. Len(t.nodes), NEW b \in Bit,
           NEW j \in 1 .. Len(t.nodes), t.nodes[i][b] = Node(j),
           NEW n \in Network, OnPath(t, D, i, n), Onto(n, D[i] + 1, b)
    PROVE  OnPath(t, D, j, n)
<1> SUFFICES ASSUME NEW a \in Addr, Through(t, D, j, a), NEW k \in 1 .. Len(n), k <= D[j]
             PROVE  a[k] = n[k]
  BY DEF OnPath
<1>1. D[j] = D[i] + 1 /\ Meets(t, D, i, b, a)
  BY ChildThrough
<1>2. D[i] \in Nat /\ k \in Nat
  BY SoundTypes
<1>3. CASE k <= D[i]
  BY <1>1, <1>3 DEF Meets, OnPath
<1>4. CASE k = D[i] + 1
  <2>1. D[i] + 1 <= Len(n)
    BY <1>4
  <2> QED
    BY <1>1, <1>4, <2>1 DEF Meets, Onto
<1> QED
  BY <1>1, <1>2, <1>3, <1>4

LEMMA CoversMeets ==
    ASSUME NEW t, NEW D, Sound(t, D), NEW i \in 1 .. Len(t.nodes), NEW b \in Bit,
           NEW n \in Network, OnPath(t, D, i, n), Onto(n, D[i] + 1, b), Len(n) <= D[i] + 1,
           NEW a \in Addr, Meets(t, D, i, b, a)
    PROVE  Covers(n, a)
<1>1. Len(n) \in 0 .. Depth /\ Len(a) = Depth /\ D[i] \in Nat
  BY NetworkBits, AddrBits, SoundTypes
<1>2. ASSUME NEW k \in 1 .. Len(n) PROVE n[k] = a[k]
  <2>1. CASE k <= D[i]
    BY <2>1 DEF Meets, OnPath
  <2>2. CASE k = D[i] + 1
    <3>1. D[i] + 1 <= Len(n)
      BY <2>2
    <3> QED
      BY <2>2, <3>1 DEF Meets, Onto
  <2> QED
    BY <1>1, <2>1, <2>2
<1> QED
  BY <1>1, <1>2, DepthAssumption DEF Covers

(* The visit changes the addresses of n that come to the record, and no other. *)
RecordVisited(t, D, i, b, n, f, u) ==
    \E E : /\ Evolved(t, D, u, E, D[i])
           /\ \A a \in Addr : See(u, a) = IF Meets(t, D, i, b, a) /\ Covers(n, a)
                                          THEN Answered(f, See(t, a)) ELSE See(t, a)

NodeVisited(t, D, i, n, f, u) ==
    \E E : /\ Evolved(t, D, u, E, D[i])
           /\ \A a \in Addr : See(u, a) = IF Through(t, D, i, a) /\ Covers(n, a)
                                          THEN Answered(f, See(t, a)) ELSE See(t, a)

(* below visits every node at depth d rightly. *)
Visits(below, d, n, f) ==
    \A t, D : Sound(t, D) =>
        \A i \in 1 .. Len(t.nodes) :
            D[i] = d /\ d < Depth /\ OnPath(t, D, i, n) => NodeVisited(t, D, i, n, f, below[t][i])

(* A record that leads to a node: visit that node, then merge. *)
LEMMA PointerVisit ==
    ASSUME NEW t, NEW D, Sound(t, D), NEW i \in 1 .. Len(t.nodes), NEW b \in Bit,
           NEW j \in 1 .. Len(t.nodes), t.nodes[i][b] = Node(j),
           NEW n \in Network, NEW f, OnPath(t, D, i, n), Onto(n, D[i] + 1, b),
           NEW below, Visits(below, D[i] + 1, n, f),
           NEW u, u = TryMerge(below[t][j], i, b, j)
    PROVE  RecordVisited(t, D, i, b, n, f, u)
<1>1. \A a \in Addr : D[j] = D[i] + 1 /\ D[j] < Depth /\ (Through(t, D, j, a) <=> Meets(t, D, i, b, a))
  BY ChildThrough
<1>2. D[j] = D[i] + 1 /\ D[j] < Depth
  <2>1. [k \in 1 .. Depth |-> 0] \in Addr
    BY DEF Addr, Bit
  <2> QED
    BY <1>1, <2>1
<1>3. OnPath(t, D, j, n)
  BY OnPathDown
<1>4. PICK w : w = below[t][j]
  OBVIOUS
<1>5. NodeVisited(t, D, j, n, f, w)
  BY <1>2, <1>3, <1>4 DEF Visits
<1>6. PICK F : /\ Evolved(t, D, w, F, D[j])
               /\ \A a \in Addr : See(w, a) = IF Through(t, D, j, a) /\ Covers(n, a)
                                              THEN Answered(f, See(t, a)) ELSE See(t, a)
  BY <1>5 DEF NodeVisited
<1>7. D[i] \in Nat /\ D[j] \in Nat /\ D[i] < D[j]
  BY <1>2, SoundTypes
<1>8. Sound(w, F) /\ j \in 1 .. Len(w.nodes) /\ i \in 1 .. Len(w.nodes) /\ w.nodes[i][b] = Node(j) /\ F[i] = D[i]
  <2>1. Sound(w, F) /\ j \in 1 .. Len(w.nodes)
    BY <1>6, LaterNode DEF Remains
  <2>2. w.nodes[i] = t.nodes[i]
    BY <1>6, <1>7 DEF Evolved, Kept
  <2>3. i \in 1 .. Len(w.nodes) /\ F[i] = D[i]
    BY <1>6, <2>1, SoundTypes DEF Evolved, Grown
  <2> QED
    BY <2>1, <2>2, <2>3
<1>9. Evolved(w, F, u, F, F[i]) /\ \A a \in Addr : See(u, a) = See(w, a)
  BY <1>4, <1>8, MergeStep
<1>10. Evolved(t, D, w, F, D[i])
  BY <1>6, <1>7, SoundTypes DEF Evolved, Kept
<1>11. Evolved(t, D, u, F, D[i])
  <2>1. PICK m \in Nat : m = D[i]
    BY <1>7
  <2>2. Evolved(t, D, w, F, m) /\ Evolved(w, F, u, F, m) /\ m <= m
    BY <1>8, <1>9, <1>10, <2>1
  <2> QED
    BY <2>1, <2>2, LaterTrans
<1> QED
  BY <1>1, <1>6, <1>9, <1>11 DEF RecordVisited

(* The visit below the last bit finds two leaves to ask. *)
HostBelow(below, t, i, b, f) ==
    LET s == SplitLeaf(t, i, b)
        j == NewIndex(t.nodes)
    IN  below[s][j] = AskLeaf(AskLeaf(s, j, 0, f), j, 1, f)

LEMMA RecordVisit ==
    ASSUME NEW t, NEW D, Sound(t, D), NEW i \in 1 .. Len(t.nodes), NEW b \in Bit, D[i] < Depth,
           NEW n \in Network, NEW f \in [OptValue -> OptValue],
           OnPath(t, D, i, n), Onto(n, D[i] + 1, b),
           NEW below, D[i] + 1 < Depth => Visits(below, D[i] + 1, n, f),
           D[i] + 1 = Depth /\ Len(n) = Depth /\ Open(t, t.nodes[i][b]) => HostBelow(below, t, i, b, f),
           NEW u, u = InsertAtRecord(below, t, i, b, D[i] + 1, n, f)
    PROVE  RecordVisited(t, D, i, b, n, f, u)
<1>0. D[i] \in Nat /\ Depth \in Nat /\ Len(t.nodes) \in Nat
  BY SoundTypes, DepthAssumption
<1>1. PICK r, d, j : r = t.nodes[i][b] /\ d = D[i] + 1 /\ j = NewIndex(t.nodes)
  OBVIOUS
<1>2. RecordSound(t, D, r, d)
  BY <1>1 DEF Sound
<1>3. Len(n) \in 0 .. Depth
  BY NetworkBits
<1>4. CASE \E x \in 1 .. Len(t.nodes) : r = Node(x) /\ d < Depth
  <2>1. PICK x \in 1 .. Len(t.nodes) : r = Node(x) /\ d < Depth
    BY <1>4
  <2>2. u = TryMerge(below[t][x], i, b, x)
    BY <1>1, <2>1, Kinds DEF InsertAtRecord
  <2>3. Visits(below, D[i] + 1, n, f) /\ t.nodes[i][b] = Node(x)
    BY <1>1, <2>1
  <2> QED
    BY <2>2, <2>3, PointerVisit
<1>5. CASE r = Reserved
  <2>1. u = t
    BY <1>1, <1>5, Kinds DEF InsertAtRecord, Skipped
  <2>2. Evolved(t, D, u, D, D[i])
    BY <2>1, LaterSame
  <2>3. ASSUME NEW a \in Addr, Meets(t, D, i, b, a) PROVE Answered(f, See(t, a)) = See(t, a)
    <3>1. RecordAt(t.nodes, a) = r
      <4>1. Still(t.nodes[i][b])
        BY <1>1, <1>5, Kinds DEF Still
      <4> QED
        BY <1>1, <2>3, <4>1, MeetsRecord
    <3>2. See(t, a).kind = "Reserved"
      BY <1>5, <3>1, Kinds DEF See, View
    <3> QED
      BY <3>2 DEF Answered
  <2>4. \A a \in Addr : See(u, a) = IF Meets(t, D, i, b, a) /\ Covers(n, a)
                                    THEN Answered(f, See(t, a)) ELSE See(t, a)
    BY <2>1, <2>3
  <2> QED
    BY <2>2, <2>4 DEF RecordVisited
<1>6. CASE Open(t, r)
  <2>0. ~Skipped(r) /\ r.kind # "Node" /\ r.kind # "FixedNode"
    BY <1>6, OpenLeaf
  <2>1. CASE d > Len(n)
    <3>1. u = AskLeaf(t, i, b, f)
      BY <1>1, <2>0, <2>1 DEF InsertAtRecord
    <3>2. /\ Evolved(t, D, u, D, D[i])
          /\ \A a \in Addr : See(u, a) = IF Meets(t, D, i, b, a) THEN Answered(f, See(t, a))
                                         ELSE See(t, a)
      BY <1>1, <1>6, <3>1, AskStep
    <3>3. \A a \in Addr : Meets(t, D, i, b, a) => Covers(n, a)
      <4>1. Len(n) <= D[i] + 1
        BY <1>0, <1>1, <1>3, <2>1
      <4> QED
        BY <4>1, CoversMeets
    <3> QED
      BY <3>2, <3>3 DEF RecordVisited
  <2>2. CASE ~(d > Len(n))
    <3>0. u = TryMerge(below[SplitLeaf(t, i, b)][j], i, b, j)
      BY <1>1, <2>0, <2>2 DEF InsertAtRecord
    <3>1. CASE d = Depth
      <4>1. Len(n) = Depth
        BY <1>0, <1>1, <1>3, <2>2, <3>1
      <4>2. HostBelow(below, t, i, b, f)
        BY <1>1, <1>6, <3>1, <4>1
      <4>3. u = HostStored(t, i, b, f)
        BY <1>1, <3>0, <4>2 DEF HostBelow, HostStored
      <4>4. /\ Evolved(t, D, u, Deeper(t, D, Depth), D[i])
            /\ \A a \in Addr : See(u, a) = IF Meets(t, D, i, b, a) THEN Answered(f, See(t, a))
                                           ELSE See(t, a)
        BY <1>1, <1>6, <3>1, <4>3, HostStep
      <4>5. \A a \in Addr : Meets(t, D, i, b, a) => Covers(n, a)
        <5>1. Len(n) <= D[i] + 1
          BY <1>0, <1>1, <1>3, <3>1
        <5> QED
          BY <5>1, CoversMeets
      <4> QED
        BY <4>4, <4>5 DEF RecordVisited
    <3>2. CASE d < Depth
      <4>1. PICK w, F : w = SplitLeaf(t, i, b) /\ F = Deeper(t, D, D[i] + 1)
        OBVIOUS
      <4>2. /\ Evolved(t, D, w, F, D[i])
            /\ w.nodes[i][b] = Node(j) /\ j \in 1 .. Len(w.nodes) /\ i \in 1 .. Len(w.nodes)
            /\ \A a \in Addr : See(w, a) = See(t, a)
        <5>1. D[i] + 1 < Depth /\ Open(t, t.nodes[i][b])
          BY <1>1, <1>6, <3>2
        <5> QED
          BY <1>1, <4>1, <5>1, SplitStep
      <4>3. /\ Sound(w, F) /\ F[i] = D[i]
            /\ \A a \in Addr : Through(w, F, i, a) <=> Through(t, D, i, a)
            /\ \A a \in Addr : Meets(w, F, i, b, a) <=> Meets(t, D, i, b, a)
        <5>1. Sound(w, F) /\ Remains(t, D, w, F, i)
          BY <4>2, LaterNode
        <5> QED
          BY <5>1 DEF Remains
      <4>4. OnPath(w, F, i, n)
        BY <4>3 DEF OnPath
      <4>5. Onto(n, F[i] + 1, b) /\ Visits(below, F[i] + 1, n, f)
        BY <1>1, <3>2, <4>3
      <4>6. u = TryMerge(below[w][j], i, b, j)
        BY <3>0, <4>1
      <4>7. RecordVisited(w, F, i, b, n, f, u)
        BY <4>2, <4>3, <4>4, <4>5, <4>6, PointerVisit
      <4>8. PICK E : /\ Evolved(w, F, u, E, F[i])
                     /\ \A a \in Addr : See(u, a) = IF Meets(w, F, i, b, a) /\ Covers(n, a)
                                                    THEN Answered(f, See(w, a)) ELSE See(w, a)
        BY <4>7 DEF RecordVisited
      <4>9. Evolved(t, D, u, E, D[i])
        <5>1. PICK m \in Nat : m = D[i] /\ m <= m
          BY <1>0
        <5>2. Evolved(t, D, w, F, m) /\ Evolved(w, F, u, E, m)
          BY <4>2, <4>3, <4>8, <5>1
        <5> QED
          BY <5>1, <5>2, LaterTrans
      <4> QED
        BY <4>2, <4>3, <4>8, <4>9 DEF RecordVisited
    <3> QED
      BY <1>0, <1>1, <3>1, <3>2
  <2> QED
    BY <2>1, <2>2
<1> QED
  BY <1>2, <1>4, <1>5, <1>6 DEF RecordSound, Open

LEMMA NodeVisit ==
    ASSUME NEW t, NEW D, Sound(t, D), NEW i \in 1 .. Len(t.nodes), D[i] < Depth,
           NEW n \in Network, NEW f \in [OptValue -> OptValue], OnPath(t, D, i, n),
           NEW below, D[i] + 1 < Depth => Visits(below, D[i] + 1, n, f),
           D[i] + 1 = Depth /\ Len(n) = Depth =>
               \A b \in Bit : Open(t, t.nodes[i][b]) => HostBelow(below, t, i, b, f),
           NEW u, u = InsertAtNode(below, D[i] + 1, n, f)[t][i]
    PROVE  NodeVisited(t, D, i, n, f, u)
<1>0. D[i] \in Nat /\ Depth \in Nat /\ t \in Trees /\ i \in Nat /\ D[i] + 1 \in 1 .. Depth
  BY SoundTypes, DepthAssumption DEF Sound
<1>1. PICK d : d = D[i] + 1
  OBVIOUS
<1>2. Len(n) \in 0 .. Depth /\ \A k \in 1 .. Len(n) : n[k] \in Bit
  BY NetworkBits
<1>3. u = IF d > Len(n)
          THEN InsertAtRecord(below, InsertAtRecord(below, t, i, 0, d, n, f), i, 1, d, n, f)
          ELSE InsertAtRecord(below, t, i, n[d], d, n, f)
  BY <1>0, <1>1 DEF InsertAtNode
<1>4. CASE ~(d > Len(n))
  <2>1. PICK b \in Bit : b = n[d]
    BY <1>0, <1>1, <1>2, <1>4
  <2>2. u = InsertAtRecord(below, t, i, b, D[i] + 1, n, f) /\ Onto(n, D[i] + 1, b)
    BY <1>1, <1>3, <1>4, <2>1 DEF Onto
  <2>3. RecordVisited(t, D, i, b, n, f, u)
    BY <2>2, RecordVisit
  <2>4. PICK E : /\ Evolved(t, D, u, E, D[i])
                 /\ \A a \in Addr : See(u, a) = IF Meets(t, D, i, b, a) /\ Covers(n, a)
                                                THEN Answered(f, See(t, a)) ELSE See(t, a)
    BY <2>3 DEF RecordVisited
  <2>5. \A a \in Addr : Covers(n, a) => a[D[i] + 1] = b
    <3>1. d \in 1 .. Len(n)
      BY <1>0, <1>1, <1>2, <1>4
    <3> QED
      BY <1>1, <2>1, <3>1 DEF Covers
  <2>6. \A a \in Addr : (Through(t, D, i, a) /\ Covers(n, a)) <=> (Meets(t, D, i, b, a) /\ Covers(n, a))
    BY <2>5 DEF Meets
  <2> QED
    BY <2>4, <2>6 DEF NodeVisited
<1>5. CASE d > Len(n)
  <2>1. PICK l, m : l = 0 /\ m = 1 /\ l \in Bit /\ m \in Bit /\ l # m /\ \A c \in Bit : c = l \/ c = m
    BY DEF Bit
  <2>2. \A b : Onto(n, D[i] + 1, b)
    BY <1>0, <1>1, <1>2, <1>5 DEF Onto
  <2>3. ~(D[i] + 1 = Depth /\ Len(n) = Depth)
    BY <1>0, <1>1, <1>2, <1>5
  <2>4. PICK w : w = InsertAtRecord(below, t, i, l, D[i] + 1, n, f)
    OBVIOUS
  <2>5. u = InsertAtRecord(below, w, i, m, D[i] + 1, n, f)
    BY <1>1, <1>3, <1>5, <2>1, <2>4
  <2>6. RecordVisited(t, D, i, l, n, f, w)
    BY <2>1, <2>2, <2>3, <2>4, RecordVisit
  <2>7. PICK F : /\ Evolved(t, D, w, F, D[i])
                 /\ \A a \in Addr : See(w, a) = IF Meets(t, D, i, l, a) /\ Covers(n, a)
                                                THEN Answered(f, See(t, a)) ELSE See(t, a)
    BY <2>6 DEF RecordVisited
  <2>8. Sound(w, F) /\ Remains(t, D, w, F, i)
    BY <2>7, LaterNode
  <2>9. /\ i \in 1 .. Len(w.nodes) /\ F[i] = D[i] /\ OnPath(w, F, i, n)
        /\ \A a \in Addr : Meets(w, F, i, m, a) <=> Meets(t, D, i, m, a)
    BY <2>1, <2>8 DEF Remains, OnPath
  <2>10. RecordVisited(w, F, i, m, n, f, u)
    <3>1. /\ F[i] < Depth /\ Onto(n, F[i] + 1, m)
          /\ F[i] + 1 < Depth => Visits(below, F[i] + 1, n, f)
          /\ ~(F[i] + 1 = Depth /\ Len(n) = Depth)
          /\ u = InsertAtRecord(below, w, i, m, F[i] + 1, n, f)
      BY <2>2, <2>3, <2>5, <2>9
    <3> QED
      BY <2>1, <2>8, <2>9, <3>1, RecordVisit
  <2>11. PICK E : /\ Evolved(w, F, u, E, F[i])
                  /\ \A a \in Addr : See(u, a) = IF Meets(w, F, i, m, a) /\ Covers(n, a)
                                                 THEN Answered(f, See(w, a)) ELSE See(w, a)
    BY <2>10 DEF RecordVisited
  <2>12. Evolved(t, D, u, E, D[i])
    <3>1. PICK k \in Nat : k = D[i] /\ k <= k
      BY <1>0
    <3>2. Evolved(t, D, w, F, k) /\ Evolved(w, F, u, E, k)
      BY <2>7, <2>9, <2>11, <3>1
    <3> QED
      BY <3>1, <3>2, LaterTrans
  <2>13. ASSUME NEW a \in Addr
         PROVE  See(u, a) = IF Through(t, D, i, a) /\ Covers(n, a)
                            THEN Answered(f, See(t, a)) ELSE See(t, a)
    <3>1. a[D[i] + 1] \in Bit
      BY <1>0, AddrBits
    <3>2. CASE a[D[i] + 1] = l
      BY <2>1, <2>7, <2>9, <2>11, <3>2 DEF Meets
    <3>3. CASE a[D[i] + 1] = m
      BY <2>1, <2>7, <2>9, <2>11, <3>3 DEF Meets
    <3> QED
      BY <2>1, <3>1, <3>2, <3>3
  <2> QED
    BY <2>12, <2>13 DEF NodeVisited
<1> QED
  BY <1>4, <1>5

-----------------------------------------------------------------------------
(***************************************************************************)
(* The whole insert, by induction on the levels of records below a node.   *)
(***************************************************************************)
LEMMA InsertingDef ==
    ASSUME NEW n, NEW f
    PROVE  \A l \in 1 .. Depth + 1 :
               Inserting(n, f)[l] = InsertAtNode(Inserting(n, f)[l - 1], Depth + 2 - l, n, f)
<1> DEFINE Turn(h, l) == IF l = 0 THEN [t \in Trees |-> [i \in Nat |-> t]]
                         ELSE InsertAtNode(h[l - 1], Depth + 2 - l, n, f)
           Eq(h) == h = [l \in 0 .. Depth + 1 |-> Turn(h, l)]
           T == {m \in Nat : \E h : h = [l \in 0 .. m |-> Turn(h, l)]}
<1>0. Depth + 1 \in Nat
  BY DepthAssumption
<1>1. 0 \in T
  <2>1. PICK g : g = [l \in 0 .. 0 |-> [t \in Trees |-> [i \in Nat |-> t]]]
    OBVIOUS
  <2>2. g = [l \in 0 .. 0 |-> Turn(g, l)]
    BY <2>1
  <2> QED
    BY <2>2
<1>2. ASSUME NEW m \in Nat, m \in T PROVE m + 1 \in T
  <2>1. PICK e : e = [l \in 0 .. m |-> Turn(e, l)]
    BY <1>2
  <2>2. PICK g : g = [l \in 0 .. m + 1 |->
                         IF l <= m THEN e[l] ELSE InsertAtNode(e[m], Depth + 2 - (m + 1), n, f)]
    OBVIOUS
  <2>3. \A l \in 0 .. m + 1 : g[l] = Turn(g, l)
    <3>1. \A l \in 0 .. m : g[l] = e[l] /\ e[l] = Turn(e, l)
      BY <2>1, <2>2
    <3>2. \A l \in 1 .. m + 1 : g[l - 1] = e[l - 1]
      BY <3>1
    <3>3. g[m + 1] = InsertAtNode(e[m], Depth + 2 - (m + 1), n, f)
      BY <2>2
    <3>4. \A l \in 0 .. m : Turn(g, l) = Turn(e, l)
      BY <3>2
    <3>5. g[m + 1] = Turn(g, m + 1)
      BY <3>2, <3>3
    <3>6. \A l \in 0 .. m : g[l] = Turn(g, l)
      BY <3>1, <3>4
    <3>7. \A l \in 0 .. m + 1 : l \in 0 .. m \/ l = m + 1
      OBVIOUS
    <3> HIDE DEF Turn
    <3> QED
      BY <3>5, <3>6, <3>7
  <2>4. g = [l \in 0 .. m + 1 |-> Turn(g, l)]
    BY <2>2, <2>3
  <2>5. \E h : h = [l \in 0 .. m + 1 |-> Turn(h, l)]
    BY Zenon, <2>4
  <2> QED
    BY <2>5
<1>3. Depth + 1 \in T
  <2> HIDE DEF T
  <2> QED
    BY <1>0, <1>1, <1>2, Induction
<1>4. Inserting(n, f) = CHOOSE h : Eq(h)
  BY DEF Inserting
<1>5. Eq(Inserting(n, f))
  <2>1. \E h : Eq(h)
    BY <1>3
  <2> HIDE DEF Eq
  <2> QED
    BY Zenon, <1>4, <2>1
<1>6. PICK W : W = Inserting(n, f) /\ W = [l \in 0 .. Depth + 1 |-> Turn(W, l)]
  BY <1>5
<1>7. \A l \in 1 .. Depth + 1 : l \in 0 .. Depth + 1 /\ l # 0
  BY <1>0
<1>8. \A l \in 1 .. Depth + 1 : W[l] = InsertAtNode(W[l - 1], Depth + 2 - l, n, f)
  BY <1>6, <1>7
<1> QED
  BY <1>6, <1>8

(* A node just split off has two leaves to ask, and one level of records. *)
LEMMA HostLevel ==
    ASSUME NEW t, NEW D, Sound(t, D), NEW i \in 1 .. Len(t.nodes), NEW b \in Bit,
           Open(t, t.nodes[i][b]), NEW n, Len(n) = Depth, NEW f \in [OptValue -> OptValue]
    PROVE  HostBelow(Inserting(n, f)[1], t, i, b, f)
<1>0. /\ t.nodes \in Seq([Bit -> Record]) /\ Len(t.nodes) \in Nat
      /\ t.values \in Seq(Values) /\ Len(t.values) \in Nat
      /\ Depth \in Nat /\ IsInjective(t.values)
  BY SoundTypes, DepthAssumption DEF Sound
<1>1. PICK r, j, s : r = t.nodes[i][b] /\ j = NewIndex(t.nodes) /\ s = SplitLeaf(t, i, b)
  OBVIOUS
<1>2. Open(t, r) /\ j = Len(t.nodes) + 1
  BY <1>1 DEF NewIndex
<1>3. ~Skipped(r) /\ r.kind # "Node" /\ r.kind # "FixedNode" /\ r \in Record
  BY <1>2, OpenLeaf
<1>4. PICK ms, ns : ns = t.nodes /\ ms = Append(Put(ns, i, b, Node(j)), [c \in Bit |-> r])
  OBVIOUS
<1>5. s = [nodes |-> ms, values |-> t.values]
  <2>1. s = [t EXCEPT !.nodes = ms]
    BY <1>1, <1>4 DEF SplitLeaf
  <2>2. PICK ws : t = [nodes |-> ns, values |-> ws]
    BY <1>4, SoundTypes
  <2> QED
    BY <2>1, <2>2
<1>6. Lengthened(ns, i, b, Node(j), r, ms)
  <2>1. PICK y \in Record : y = Node(j)
    BY <1>0, <1>2, Kinds
  <2>2. ms = Append(Put(ns, i, b, y), [c \in Bit |-> r]) /\ ns \in Seq([Bit -> Record]) /\ i \in 1 .. Len(ns)
    BY <1>0, <1>4, <2>1
  <2>3. Lengthened(ns, i, b, y, r, ms)
    BY <1>3, <2>2, SplitNodes
  <2> QED
    BY <2>1, <2>3
<1>7. /\ ms \in Seq([Bit -> Record]) /\ Len(ms) = j /\ j \in 1 .. Len(ms)
      /\ ms[j][0] = r /\ ms[j][1] = r
  BY <1>0, <1>2, <1>4, <1>6 DEF Lengthened, Bit
<1>8. s \in Trees /\ j \in Nat
  BY <1>0, <1>2, <1>5, <1>7 DEF Trees
<1>9. PICK w : w = AskLeaf(s, j, 0, f)
  OBVIOUS
<1>10. w.nodes[j][1] = r
  <2>1. PICK x, vs, v : x = AnswerLeaf(s, v) /\ vs = AnswerPool(s, v) /\ v = f[ValueAt(s.values, s.nodes[j][0])]
    OBVIOUS
  <2>2. w = [nodes |-> Put(s.nodes, j, 0, x), values |-> vs]
    BY <1>9, <2>1, AskedLeaf
  <2>3. w.nodes = [ms EXCEPT ![j][0] = x]
    BY <1>5, <2>2 DEF Put
  <2>4. DOMAIN ms = 1 .. Len(ms) /\ ms[j] \in [Bit -> Record] /\ 0 \in Bit /\ 1 \in Bit
    BY <1>7, LenProperties DEF Bit
  <2> QED
    BY <1>7, <2>3, <2>4
<1>11. PICK below, inner : below = Inserting(n, f)[1] /\ inner = Inserting(n, f)[0]
  OBVIOUS
<1>12. below = InsertAtNode(inner, Depth + 1, n, f)
  <2>1. 1 \in 1 .. Depth + 1 /\ Depth + 2 - 1 = Depth + 1
    BY <1>0
  <2>2. Inserting(n, f)[1] = InsertAtNode(Inserting(n, f)[1 - 1], Depth + 2 - 1, n, f)
    BY <2>1, InsertingDef
  <2> QED
    BY <1>11, <2>1, <2>2
<1>13. Depth + 1 > Len(n)
  BY <1>0
<1>14. below[s][j] = InsertAtRecord(inner, InsertAtRecord(inner, s, j, 0, Depth + 1, n, f), j, 1, Depth + 1, n, f)
  BY <1>8, <1>12, <1>13 DEF InsertAtNode
<1>15. InsertAtRecord(inner, s, j, 0, Depth + 1, n, f) = w
  BY <1>3, <1>5, <1>7, <1>9, <1>13 DEF InsertAtRecord
<1>16. InsertAtRecord(inner, w, j, 1, Depth + 1, n, f) = AskLeaf(w, j, 1, f)
  BY <1>3, <1>10, <1>13 DEF InsertAtRecord
<1> QED
  BY <1>1, <1>9, <1>11, <1>14, <1>15, <1>16 DEF HostBelow

LEMMA VisitsRightly ==
    ASSUME NEW n \in Network, NEW f \in [OptValue -> OptValue]
    PROVE  \A l \in 2 .. Depth + 1 : Visits(Inserting(n, f)[l], Depth + 1 - l, n, f)
<1> DEFINE S == {l \in Nat : l \in 2 .. Depth + 1 => Visits(Inserting(n, f)[l], Depth + 1 - l, n, f)}
<1>0. Depth \in Nat \ {0}
  BY DepthAssumption
<1>1. 0 \in S
  OBVIOUS
<1>2. ASSUME NEW l \in Nat, l \in S PROVE l + 1 \in S
  <2>0. l \in 2 .. Depth + 1 => Visits(Inserting(n, f)[l], Depth + 1 - l, n, f)
    BY <1>2
  <2> SUFFICES ASSUME l + 1 \in 2 .. Depth + 1
               PROVE  Visits(Inserting(n, f)[l + 1], Depth + 1 - (l + 1), n, f)
    OBVIOUS
  <2>1. PICK at, below, d : at = Inserting(n, f)[l + 1] /\ below = Inserting(n, f)[l] /\ d = Depth - l
    OBVIOUS
  <2>2. d \in Nat /\ Depth + 1 - (l + 1) = d /\ Depth + 2 - (l + 1) = d + 1 /\ Depth + 1 - l = d + 1
        /\ (l + 1) - 1 = l /\ d < Depth
    BY <1>0, <2>1
  <2>3. at = InsertAtNode(below, d + 1, n, f)
    <3>1. PICK m \in 1 .. Depth + 1 : m = l + 1
      OBVIOUS
    <3>2. Inserting(n, f)[m] = InsertAtNode(Inserting(n, f)[m - 1], Depth + 2 - m, n, f)
      BY InsertingDef
    <3> QED
      BY <2>1, <2>2, <3>1, <3>2
  <2>4. d + 1 < Depth => Visits(below, d + 1, n, f)
    <3> SUFFICES ASSUME d + 1 < Depth PROVE Visits(below, d + 1, n, f)
      OBVIOUS
    <3>1. l \in 2 .. Depth + 1
      BY <1>0, <2>1
    <3> QED
      BY <2>0, <2>1, <2>2, <3>1
  <2>5. ASSUME NEW t, NEW D, Sound(t, D), NEW i \in 1 .. Len(t.nodes), D[i] = d, OnPath(t, D, i, n)
        PROVE  NodeVisited(t, D, i, n, f, at[t][i])
    <3>1. d + 1 = Depth /\ Len(n) = Depth =>
               \A b \in Bit : Open(t, t.nodes[i][b]) => HostBelow(below, t, i, b, f)
      <4> SUFFICES ASSUME d + 1 = Depth, Len(n) = Depth, NEW b \in Bit, Open(t, t.nodes[i][b])
                   PROVE  HostBelow(below, t, i, b, f)
        OBVIOUS
      <4>1. l = 1
        BY <1>0, <2>1
      <4>2. below = Inserting(n, f)[1]
        BY <2>1, <4>1
      <4>3. HostBelow(Inserting(n, f)[1], t, i, b, f)
        BY <2>5, HostLevel
      <4> QED
        BY <4>2, <4>3
    <3>2. PICK u : u = at[t][i]
      OBVIOUS
    <3>3. u = InsertAtNode(below, D[i] + 1, n, f)[t][i]
      BY <2>3, <2>5, <3>2
    <3>4. NodeVisited(t, D, i, n, f, u)
      BY <2>2, <2>4, <2>5, <3>1, <3>3, NodeVisit
    <3> QED
      BY <3>2, <3>4
  <2> QED
    BY <2>1, <2>2, <2>5 DEF Visits
<1> HIDE DEF S
<1>3. \A l \in Nat : l \in S
  BY <1>1, <1>2, Induction
<1>4. \A l \in 2 .. Depth + 1 : l \in Nat
  BY <1>0
<1> QED
  BY <1>3, <1>4 DEF S

(***************************************************************************)
(* An insert keeps the arena a tree and does to every address below its    *)
(* network what its closure says, reserved space apart.                    *)
(***************************************************************************)
InsertedRightly(t, u, n, f) ==
    /\ \E E : Sound(u, E)
    /\ \A a \in Addr : See(u, a) = IF Covers(n, a) THEN Answered(f, See(t, a)) ELSE See(t, a)

LEMMA InsertSound ==
    ASSUME NEW t, NEW D, Sound(t, D), NEW n \in Network, NEW f \in [OptValue -> OptValue]
    PROVE  InsertedRightly(t, TreeInserted(t.nodes, t.values, n, f), n, f)
<1>0. Depth \in Nat \ {0} /\ D[1] = 0 /\ 1 \in 1 .. Len(t.nodes) /\ t = [nodes |-> t.nodes, values |-> t.values]
  BY DepthAssumption, SoundTypes DEF Sound
<1>1. PICK at, u : at = Inserting(n, f)[Depth + 1] /\ u = at[t][1]
  OBVIOUS
<1>2. u = TreeInserted(t.nodes, t.values, n, f)
  BY <1>0, <1>1 DEF TreeInserted
<1>3. Visits(at, 0, n, f)
  <2>1. Depth + 1 \in 2 .. Depth + 1 /\ Depth + 1 - (Depth + 1) = 0
    BY <1>0
  <2>2. Visits(Inserting(n, f)[Depth + 1], Depth + 1 - (Depth + 1), n, f)
    BY <2>1, VisitsRightly
  <2> QED
    BY <1>1, <2>1, <2>2
<1>4. OnPath(t, D, 1, n)
  BY <1>0, NetworkBits DEF OnPath
<1>5. NodeVisited(t, D, 1, n, f, u)
  BY <1>0, <1>1, <1>3, <1>4 DEF Visits
<1>6. \A a \in Addr : Through(t, D, 1, a)
  BY <1>0, AddrBits, WalkDef DEF Through
<1>7. PICK E : /\ Evolved(t, D, u, E, D[1])
               /\ \A a \in Addr : See(u, a) = IF Through(t, D, 1, a) /\ Covers(n, a)
                                              THEN Answered(f, See(t, a)) ELSE See(t, a)
  BY <1>5 DEF NodeVisited
<1> QED
  BY <1>2, <1>6, <1>7 DEF InsertedRightly, Evolved

-----------------------------------------------------------------------------
(***************************************************************************)
(* Painting: install_marker with the reserved networks, one after another. *)
(***************************************************************************)
Turns(ns, n, marker) ==
    LET Turn[k \in 0 .. Len(n)] ==
            IF k = 0 THEN [nodes |-> ns, at |-> 1] ELSE MarkerStep(Turn[k - 1], n, k, marker)
    IN  Turn

LEMMA TurnsDef ==
    ASSUME NEW ns, NEW n, Len(n) \in Nat, NEW marker
    PROVE  /\ InstallMarker(ns, n, marker) = Turns(ns, n, marker)[Len(n)].nodes
           /\ Turns(ns, n, marker)[0] = [nodes |-> ns, at |-> 1]
           /\ \A k \in 0 .. Len(n) - 1 :
                  Turns(ns, n, marker)[k + 1] = MarkerStep(Turns(ns, n, marker)[k], n, k + 1, marker)
<1> DEFINE Turn(h, k) == IF k = 0 THEN [nodes |-> ns, at |-> 1] ELSE MarkerStep(h[k - 1], n, k, marker)
           Eq(h) == h = [k \in 0 .. Len(n) |-> Turn(h, k)]
           T == {m \in Nat : \E h : h = [k \in 0 .. m |-> Turn(h, k)]}
<1>1. 0 \in T
  <2>1. PICK g : g = [k \in 0 .. 0 |-> [nodes |-> ns, at |-> 1]]
    OBVIOUS
  <2>2. g = [k \in 0 .. 0 |-> Turn(g, k)]
    BY <2>1
  <2> QED
    BY <2>2
<1>2. ASSUME NEW m \in Nat, m \in T PROVE m + 1 \in T
  <2>1. PICK e : e = [k \in 0 .. m |-> Turn(e, k)]
    BY <1>2
  <2>2. PICK g : g = [k \in 0 .. m + 1 |-> IF k <= m THEN e[k] ELSE MarkerStep(e[m], n, m + 1, marker)]
    OBVIOUS
  <2>3. \A k \in 0 .. m + 1 : g[k] = Turn(g, k)
    <3>1. \A k \in 0 .. m : g[k] = e[k] /\ e[k] = Turn(e, k)
      BY <2>1, <2>2
    <3>2. \A k \in 1 .. m + 1 : g[k - 1] = e[k - 1]
      BY <3>1
    <3>3. g[m + 1] = MarkerStep(e[m], n, m + 1, marker)
      BY <2>2
    <3>4. \A k \in 0 .. m : Turn(g, k) = Turn(e, k)
      BY <3>2
    <3>5. g[m + 1] = Turn(g, m + 1)
      BY <3>2, <3>3
    <3>6. \A k \in 0 .. m : g[k] = Turn(g, k)
      BY <3>1, <3>4
    <3>7. \A k \in 0 .. m + 1 : k \in 0 .. m \/ k = m + 1
      OBVIOUS
    <3> HIDE DEF Turn
    <3> QED
      BY <3>5, <3>6, <3>7
  <2>4. g = [k \in 0 .. m + 1 |-> Turn(g, k)]
    BY <2>2, <2>3
  <2>5. \E h : h = [k \in 0 .. m + 1 |-> Turn(h, k)]
    BY Zenon, <2>4
  <2> QED
    BY <2>5
<1>3. Len(n) \in T
  <2> HIDE DEF T
  <2> QED
    BY <1>1, <1>2, Induction
<1>4. Turns(ns, n, marker) = CHOOSE h : Eq(h)
  BY DEF Turns
<1>5. Eq(Turns(ns, n, marker))
  <2>1. \E h : Eq(h)
    BY <1>3
  <2> HIDE DEF Eq
  <2> QED
    BY Zenon, <1>4, <2>1
<1>6. PICK W : W = Turns(ns, n, marker) /\ W = [k \in 0 .. Len(n) |-> Turn(W, k)]
  BY <1>5
<1>7. \A k \in 0 .. Len(n) - 1 : k + 1 \in 0 .. Len(n) /\ k + 1 # 0 /\ (k + 1) - 1 = k
  OBVIOUS
<1>8. W[0] = [nodes |-> ns, at |-> 1]
      /\ \A k \in 0 .. Len(n) - 1 : W[k + 1] = MarkerStep(W[k], n, k + 1, marker)
  BY <1>6, <1>7
<1>9. InstallMarker(ns, n, marker) = Turns(ns, n, marker)[Len(n)].nodes
  BY DEF InstallMarker, Turns
<1> QED
  BY <1>6, <1>8, <1>9

(* Bit strings again: an address below a network, and nesting. *)
LEMMA AddressBelow ==
    ASSUME NEW n \in Network
    PROVE  \E a \in Addr : Covers(n, a)
<1> DEFINE a == [k \in 1 .. Depth |-> IF k <= Len(n) THEN n[k] ELSE 0]
<1>0. Len(n) \in 0 .. Depth /\ (\A k \in 1 .. Len(n) : n[k] \in Bit) /\ Depth \in Nat
  BY NetworkBits, DepthAssumption
<1>1. \A k \in 1 .. Depth : (IF k <= Len(n) THEN n[k] ELSE 0) \in Bit
  BY <1>0 DEF Bit
<1>2. a \in Addr
  BY <1>1 DEF Addr
<1>3. \A k \in 1 .. Len(n) : a[k] = n[k]
  BY <1>0
<1> HIDE DEF a
<1>4. Covers(n, a)
  BY <1>0, <1>2, <1>3, AddrBits DEF Covers
<1> QED
  BY <1>2, <1>4

LEMMA NestedOrApart ==
    ASSUME NEW p \in Network, NEW q \in Network, NEW a \in Addr, Covers(p, a), Covers(q, a)
    PROVE  Covers(p, q) \/ Covers(q, p)
BY NetworkBits, AddrBits, DepthAssumption DEF Covers

-----------------------------------------------------------------------------
BlankView    == [kind |-> "NoData", id |-> None]
ReservedView == [kind |-> "Reserved", id |-> None]

(* What addresses hold when the networks of Q have been painted. *)
Shows(t, Q) ==
    \A a \in Addr : See(t, a) = IF \E p \in Q : Covers(p, a) THEN ReservedView ELSE BlankView

Used(t, D, j) == \E a \in Addr : Through(t, D, j, a) /\ See(t, a).kind = "Reserved"

(* No node but the root is there for nothing. *)
Painting(t, D, Q) ==
    /\ Sound(t, D) /\ t.values = << >> /\ Shows(t, Q)
    /\ \A j \in 2 .. Len(t.nodes) : Used(t, D, j)

(* Node at is the one that the first k bits of q lead to. *)
Marking(t, D, Q, q, k, at) ==
    /\ Sound(t, D) /\ t.values = << >> /\ Shows(t, Q)
    /\ at \in 1 .. Len(t.nodes) /\ D[at] = k
    /\ \A a \in Addr : Through(t, D, at, a) <=> \A m \in 1 .. k : a[m] = q[m]
    /\ \A j \in 2 .. Len(t.nodes) :
           Used(t, D, j) \/ (D[j] <= k /\ \A a \in Addr : Covers(q, a) => Through(t, D, j, a))

Apart(Q, q) == \A p \in Q : p \in Network /\ ~Covers(p, q) /\ ~Covers(q, p)

LEMMA MarkStart ==
    ASSUME NEW t, NEW D, NEW Q, Painting(t, D, Q), NEW q
    PROVE  Marking(t, D, Q, q, 0, 1)
<1>1. \A a \in Addr : Through(t, D, 1, a)
  BY AddrBits, WalkDef DEF Through, Painting, Sound
<1> QED
  BY <1>1, SoundTypes DEF Painting, Marking, Sound

(* Below no record on the way does an address hold a marker. *)
LEMMA MarkRecord ==
    ASSUME NEW t, NEW D, NEW Q, NEW q \in Network, NEW k \in Nat, NEW at, Marking(t, D, Q, q, k, at),
           k + 1 <= Len(q), Apart(Q, q), NEW r, r = t.nodes[at][q[k + 1]]
    PROVE  /\ r = NoData \/ \E j \in 1 .. Len(t.nodes) : r = Node(j)
           /\ k + 1 = Len(q) => r = NoData
<1>0. /\ Sound(t, D) /\ at \in 1 .. Len(t.nodes) /\ D[at] = k /\ Depth \in Nat /\ k < Depth
      /\ Len(q) \in 0 .. Depth /\ q[k + 1] \in Bit /\ t.values = << >>
  BY NetworkBits, DepthAssumption DEF Marking
<1>1. PICK b \in Bit : b = q[k + 1]
  BY <1>0
<1>2. RecordSound(t, D, r, k + 1)
  BY <1>0, <1>1 DEF Sound
<1>3. ASSUME NEW a \in Addr, Covers(q, a) PROVE Meets(t, D, at, b, a) /\ See(t, a).kind # "Reserved"
  <2>1. \A m \in 1 .. k + 1 : a[m] = q[m]
    BY <1>0, <1>3 DEF Covers
  <2>2. Through(t, D, at, a) /\ a[k + 1] = b
    BY <1>1, <2>1 DEF Marking
  <2>3. \A p \in Q : ~Covers(p, a)
    BY <1>3, NestedOrApart DEF Apart
  <2>4. See(t, a) = BlankView
    BY <2>3 DEF Marking, Shows
  <2> QED
    BY <1>0, <2>2, <2>4 DEF Meets, BlankView
<1>4. PICK a \in Addr : Covers(q, a)
  BY AddressBelow
<1>5. r # Reserved
  <2> SUFFICES ASSUME r = Reserved PROVE FALSE
    OBVIOUS
  <2>1. Still(t.nodes[at][b])
    BY <1>1, Kinds DEF Still
  <2>2. RecordAt(t.nodes, a) = r
    BY <1>0, <1>1, <1>3, <1>4, <2>1, MeetsRecord
  <2>3. See(t, a).kind = "Reserved"
    BY <2>2, Kinds DEF See, View
  <2> QED
    BY <1>3, <1>4, <2>3
<1>6. ~\E id \in 1 .. Len(t.values) : r = Data(id)
  <2>1. Len(t.values) = 0
    BY <1>0
  <2> QED
    BY <2>1
<1>7. ASSUME NEW j \in 1 .. Len(t.nodes), r = Node(j), k + 1 = Len(q) PROVE FALSE
  <2>1. \A x \in Addr : D[j] = k + 1 /\ (Through(t, D, j, x) <=> Meets(t, D, at, b, x))
    <3>1. t.nodes[at][b] = Node(j)
      BY <1>1, <1>7
    <3> SUFFICES ASSUME NEW x \in Addr
                 PROVE  D[j] = k + 1 /\ (Through(t, D, j, x) <=> Meets(t, D, at, b, x))
      OBVIOUS
    <3>2. D[j] = D[at] + 1 /\ (Through(t, D, j, x) <=> Meets(t, D, at, b, x))
      BY <1>0, <3>1, ChildThrough
    <3> QED
      BY <1>0, <3>2
  <2>2. D[j] = k + 1 /\ j # 1
    BY <1>4, <2>1 DEF Marking, Sound
  <2>3. j \in 2 .. Len(t.nodes) /\ ~(D[j] <= k)
    BY <2>2, SoundTypes DEF Marking
  <2>4. PICK x \in Addr : Through(t, D, j, x) /\ See(t, x).kind = "Reserved"
    BY <2>3 DEF Marking, Used
  <2>5. Meets(t, D, at, b, x)
    BY <2>1, <2>4
  <2>6. \A m \in 1 .. k : x[m] = q[m]
    BY <2>5 DEF Marking, Meets
  <2>7. x[k + 1] = q[k + 1]
    BY <1>0, <1>1, <2>5 DEF Meets
  <2>8. \A m \in 1 .. k + 1 : m \in 1 .. k \/ m = k + 1
    OBVIOUS
  <2>9. Covers(q, x)
    BY <1>0, <1>7, <2>6, <2>7, <2>8, AddrBits DEF Covers
  <2> QED
    BY <1>3, <2>4, <2>9
<1> QED
  BY <1>2, <1>5, <1>6, <1>7 DEF RecordSound

LEMMA MarkTurn ==
    ASSUME NEW t, NEW D, NEW Q, NEW q \in Network, NEW k \in Nat, NEW at, Marking(t, D, Q, q, k, at),
           k + 1 < Len(q), Apart(Q, q),
           NEW s, s = MarkerStep([nodes |-> t.nodes, at |-> at], q, k + 1, Reserved),
           NEW u, u = [nodes |-> s.nodes, values |-> << >>]
    PROVE  s.nodes = u.nodes /\ \E E : Marking(u, E, Q, q, k + 1, s.at)
<1>0. /\ Sound(t, D) /\ at \in 1 .. Len(t.nodes) /\ D[at] = k /\ Depth \in Nat /\ k + 1 < Depth
      /\ Len(q) \in 0 .. Depth /\ q[k + 1] \in Bit /\ t.values = << >> /\ Shows(t, Q)
      /\ Len(t.nodes) \in Nat /\ t = [nodes |-> t.nodes, values |-> t.values] /\ at # NoNode
  BY NetworkBits, DepthAssumption, SoundTypes DEF Marking, NoNode
<1>1. PICK b, r : b = q[k + 1] /\ b \in Bit /\ r = t.nodes[at][b]
  BY <1>0
<1>2. r = NoData \/ \E j \in 1 .. Len(t.nodes) : r = Node(j)
  BY <1>1, MarkRecord
<1>3. s = IF IsPointer(r) THEN [[nodes |-> t.nodes, at |-> at] EXCEPT !.at = r.arg]
          ELSE IF r = NoData
          THEN [nodes |-> Append(Put(t.nodes, at, b, Node(NewIndex(t.nodes))), EmptyNode), at |-> NewIndex(t.nodes)]
          ELSE [[nodes |-> t.nodes, at |-> at] EXCEPT !.at = NoNode]
  BY <1>0, <1>1 DEF MarkerStep
<1>4. \A a \in Addr : (\A m \in 1 .. k + 1 : a[m] = q[m]) <=> Meets(t, D, at, b, a)
  <2>1. \A m \in 1 .. k + 1 : m \in 1 .. k \/ m = k + 1
    OBVIOUS
  <2>2. \A m \in 1 .. k : m \in 1 .. k + 1
    OBVIOUS
  <2>3. k + 1 \in 1 .. k + 1
    OBVIOUS
  <2> QED
    BY <1>0, <1>1, <2>1, <2>2, <2>3 DEF Marking, Meets
<1>5. CASE \E j \in 1 .. Len(t.nodes) : r = Node(j)
  <2>1. PICK j \in 1 .. Len(t.nodes) : r = Node(j)
    BY <1>5
  <2>2. s = [nodes |-> t.nodes, at |-> j]
    BY <1>3, <2>1, Kinds DEF IsPointer
  <2>3. u = t
    BY <1>0, <2>2
  <2>4. ASSUME NEW x \in Addr PROVE D[j] = k + 1 /\ (Through(t, D, j, x) <=> Meets(t, D, at, b, x))
    <3>1. t.nodes[at][b] = Node(j)
      BY <1>1, <2>1
    <3>2. D[j] = D[at] + 1 /\ (Through(t, D, j, x) <=> Meets(t, D, at, b, x))
      BY <1>0, <1>1, <3>1, ChildThrough
    <3> QED
      BY <1>0, <3>2
  <2>5. D[j] = k + 1
    BY <2>4, AddressBelow
  <2>6. \A a \in Addr : Through(t, D, j, a) <=> \A m \in 1 .. k + 1 : a[m] = q[m]
    BY <1>4, <2>4
  <2>7. \A x \in 2 .. Len(t.nodes) : D[x] <= k => D[x] <= k + 1
    BY SoundTypes, <1>0
  <2>8. Marking(t, D, Q, q, k + 1, j)
    BY <2>5, <2>6, <2>7 DEF Marking
  <2> QED
    BY <2>2, <2>3, <2>8
<1>6. CASE r = NoData
  <2>1. PICK j, w, F : j = NewIndex(t.nodes) /\ w = SplitLeaf(t, at, b) /\ F = Deeper(t, D, D[at] + 1)
    OBVIOUS
  <2>2. s = [nodes |-> w.nodes, at |-> j] /\ u = w
    <3>1. ~IsPointer(r)
      BY <1>6, Kinds DEF IsPointer
    <3>2. PICK ms : ms = Append(Put(t.nodes, at, b, Node(NewIndex(t.nodes))), EmptyNode)
      OBVIOUS
    <3>3. s = [nodes |-> ms, at |-> j]
      BY <1>3, <1>6, <2>1, <3>1, <3>2
    <3>4. w = [t EXCEPT !.nodes = ms]
      BY <1>1, <1>6, <2>1, <3>2 DEF SplitLeaf, EmptyNode
    <3>5. PICK ns : t = [nodes |-> ns, values |-> << >>]
      BY <1>0
    <3> QED
      BY <3>3, <3>4, <3>5
  <2>3. /\ Evolved(t, D, w, F, D[at]) /\ Edited(t, w, at, b, Node(j))
        /\ w.nodes[at][b] = Node(j) /\ j \in 1 .. Len(w.nodes) /\ at \in 1 .. Len(w.nodes)
        /\ \A a \in Addr : See(w, a) = See(t, a)
    <3>1. D[at] + 1 < Depth /\ Open(t, t.nodes[at][b])
      BY <1>0, <1>1, <1>6 DEF Open
    <3> QED
      BY <1>0, <1>1, <2>1, <3>1, SplitStep
  <2>4. Sound(w, F) /\ F[at] = k /\ \A a \in Addr : Meets(w, F, at, b, a) <=> Meets(t, D, at, b, a)
    <3>1. Sound(w, F) /\ Remains(t, D, w, F, at)
      BY <1>0, <2>3, LaterNode
    <3> QED
      BY <1>0, <1>1, <3>1 DEF Remains
  <2>5. ASSUME NEW x \in Addr PROVE F[j] = k + 1 /\ (Through(w, F, j, x) <=> Meets(t, D, at, b, x))
    <3>1. F[j] = F[at] + 1 /\ (Through(w, F, j, x) <=> Meets(w, F, at, b, x))
      BY <1>1, <2>3, <2>4, ChildThrough
    <3> QED
      BY <2>4, <3>1
  <2>6. F[j] = k + 1
    BY <2>5, AddressBelow
  <2>7. \A a \in Addr : Through(w, F, j, a) <=> \A m \in 1 .. k + 1 : a[m] = q[m]
    BY <1>4, <2>5
  <2>8. Shows(w, Q)
    BY <1>0, <2>3 DEF Shows
  <2>9. ASSUME NEW x \in 2 .. Len(w.nodes)
        PROVE  Used(w, F, x) \/ (F[x] <= k + 1 /\ \A a \in Addr : Covers(q, a) => Through(w, F, x, a))
    <3>1. CASE x = j
      <4>1. ASSUME NEW a \in Addr, Covers(q, a) PROVE Through(w, F, x, a)
        <5>1. \A m \in 1 .. k + 1 : a[m] = q[m]
          BY <1>0, <4>1 DEF Covers
        <5> QED
          BY <2>7, <3>1, <5>1
      <4> QED
        BY <2>6, <3>1, <4>1
    <3>2. CASE x \in 2 .. Len(t.nodes)
      <4>1. F[x] = D[x] /\ D[x] \in 0 .. Depth /\ x \in 1 .. Len(t.nodes)
        BY SMTT(20), <1>0, <2>3, <3>2, SoundTypes DEF Evolved, Grown
      <4>2. CASE Used(t, D, x)
        <5>1. PICK a \in Addr : Through(t, D, x, a) /\ See(t, a).kind = "Reserved"
          BY <4>2 DEF Used
        <5>2. ~Meets(t, D, at, b, a)
          <6> SUFFICES ASSUME Meets(t, D, at, b, a) PROVE FALSE
            OBVIOUS
          <6>1. Still(t.nodes[at][b])
            BY <1>1, <1>6, Kinds DEF Still
          <6>2. D[at] < Depth
            BY <1>0
          <6>3. RecordAt(t.nodes, a) = r
            BY <1>0, <1>1, <6>1, <6>2, MeetsRecord
          <6> QED
            BY <1>6, <5>1, <6>3, Kinds DEF See, View
        <5>3. \A m \in 0 .. Depth : Walk(w.nodes, a)[m] = Walk(t.nodes, a)[m]
          <6>1. D[at] < Depth
            BY <1>0
          <6> QED
            BY SMTT(20), <1>0, <1>1, <2>3, <5>2, <6>1, EditedWalk
        <5>4. Through(w, F, x, a) /\ See(w, a).kind = "Reserved"
          BY <2>3, <4>1, <5>1, <5>3 DEF Through
        <5> QED
          BY <5>4 DEF Used
      <4>3. CASE D[x] <= k /\ \A a \in Addr : Covers(q, a) => Through(t, D, x, a)
        <5>1. ASSUME NEW a \in Addr, Covers(q, a) PROVE Through(w, F, x, a)
          <6>1. D[at] < Depth /\ D[x] \in 0 .. D[at]
            BY <1>0, <4>1, <4>3
          <6>2. \A m \in 0 .. D[at] : Walk(w.nodes, a)[m] = Walk(t.nodes, a)[m]
            BY SMTT(20), <1>0, <1>1, <2>3, <6>1, EditedWalk
          <6>3. Through(t, D, x, a)
            BY <4>3, <5>1
          <6> QED
            BY <4>1, <6>1, <6>2, <6>3 DEF Through
        <5> QED
          BY <4>1, <4>3, <5>1
      <4> QED
        BY <3>2, <4>2, <4>3 DEF Marking
    <3>3. Len(w.nodes) = j /\ j = Len(t.nodes) + 1
      <4>1. PICK ms : ms = Append(Put(t.nodes, at, b, Node(j)), EmptyNode)
        OBVIOUS
      <4>2. F \in [1 .. Len(t.nodes) + 1 -> 0 .. Depth] /\ F \in [1 .. Len(w.nodes) -> 0 .. Depth]
        <5>1. F \in [1 .. Len(w.nodes) -> 0 .. Depth]
          BY <2>4 DEF Sound
        <5>2. DOMAIN F = 1 .. Len(t.nodes) + 1
          BY <2>1 DEF Deeper
        <5> QED
          BY <5>1, <5>2
      <4>3. Len(w.nodes) \in Nat
        BY <2>4, SoundTypes
      <4>4. 1 .. Len(w.nodes) = 1 .. Len(t.nodes) + 1
        BY <4>2
      <4> QED
        BY <1>0, <2>1, <4>3, <4>4 DEF NewIndex
    <3> QED
      BY <1>0, <3>1, <3>2, <3>3
  <2>10. w.values = << >>
    BY <2>2
  <2>11. Marking(w, F, Q, q, k + 1, j)
    BY <2>3, <2>4, <2>6, <2>7, <2>8, <2>9, <2>10 DEF Marking
  <2> QED
    BY <2>2, <2>11
<1> QED
  BY <1>2, <1>5, <1>6

LEMMA MarkLast ==
    ASSUME NEW t, NEW D, NEW Q, NEW q \in Network, NEW k \in Nat, NEW at, Marking(t, D, Q, q, k, at),
           k + 1 = Len(q), Apart(Q, q),
           NEW s, s = MarkerStep([nodes |-> t.nodes, at |-> at], q, k + 1, Reserved),
           NEW u, u = [nodes |-> s.nodes, values |-> << >>]
    PROVE  Painting(u, D, Q \cup {q})
<1>0. /\ Sound(t, D) /\ at \in 1 .. Len(t.nodes) /\ D[at] = k /\ Depth \in Nat /\ D[at] < Depth
      /\ Len(q) \in 0 .. Depth /\ q[k + 1] \in Bit /\ t.values = << >> /\ Shows(t, Q)
      /\ Len(t.nodes) \in Nat /\ at # NoNode /\ IsInjective(t.values)
  BY NetworkBits, DepthAssumption, SoundTypes DEF Marking, NoNode, Sound
<1>1. PICK b, r : b = q[k + 1] /\ b \in Bit /\ r = t.nodes[at][b]
  BY <1>0
<1>2. r = NoData
  BY <1>1, MarkRecord
<1>3. u = [nodes |-> Put(t.nodes, at, b, Reserved), values |-> << >>]
  BY <1>0, <1>1, <1>2 DEF MarkerStep
<1>4. Extended(t.values, << >>)
  BY <1>0 DEF Extended
<1>5. Evolved(t, D, u, D, D[at]) /\ Edited(t, u, at, b, Reserved) /\ Len(u.nodes) = Len(t.nodes)
  <2>1. PICK x, vs : x = Reserved /\ vs = << >>
    OBVIOUS
  <2>2. x \in {NoData, Reserved} \/ \E id \in 1 .. Len(vs) : x = Data(id)
    BY <2>1
  <2>3. u = [nodes |-> Put(t.nodes, at, b, x), values |-> vs] /\ Extended(t.values, vs)
    BY <1>3, <1>4, <2>1
  <2>4. Evolved(t, D, u, D, D[at]) /\ Edited(t, u, at, b, x) /\ Len(u.nodes) = Len(t.nodes)
    <3>1. Sound(t, D) /\ at \in 1 .. Len(t.nodes) /\ b \in Bit
      BY <1>0, <1>1
    <3>2. Evolved(t, D, u, D, D[at])
      BY ONLY <2>2, <2>3, <3>1, SetLeaf
    <3>3. Edited(t, u, at, b, x)
      BY ONLY <2>2, <2>3, <3>1, SetLeaf
    <3>4. Len(u.nodes) = Len(t.nodes)
      <4>1. x \in Record /\ t.nodes \in Seq([Bit -> Record])
        BY <1>0, <2>1, Kinds, SoundTypes
      <4>2. Updated(t.nodes, at, b, x, Put(t.nodes, at, b, x))
        BY <3>1, <4>1, PutRecord
      <4> QED
        BY <2>3, <4>2 DEF Updated
    <3> QED
      BY <3>2, <3>3, <3>4
  <2> QED
    BY <2>1, <2>4
<1>6. ASSUME NEW a \in Addr PROVE Covers(q, a) <=> Meets(t, D, at, b, a)
  <2>1. \A m \in 1 .. k + 1 : m \in 1 .. k \/ m = k + 1
    OBVIOUS
  <2>2. \A m \in 1 .. k : m \in 1 .. k + 1
    OBVIOUS
  <2>3. k + 1 \in 1 .. k + 1
    OBVIOUS
  <2>4. Covers(q, a) <=> \A m \in 1 .. k + 1 : q[m] = a[m]
    BY <1>0, AddrBits DEF Covers
  <2>5. Through(t, D, at, a) <=> \A m \in 1 .. k : a[m] = q[m]
    BY DEF Marking
  <2> QED
    BY <1>0, <1>1, <2>1, <2>2, <2>3, <2>4, <2>5 DEF Meets
<1>7. ASSUME NEW a \in Addr
      PROVE  /\ Covers(q, a) => See(u, a) = ReservedView
             /\ ~Covers(q, a) => See(u, a) = See(t, a)
  <2>1. Still(Reserved)
    BY Kinds DEF Still
  <2>2. ASSUME Covers(q, a) PROVE See(u, a) = ReservedView
    <3>1. RecordAt(u.nodes, a) = Reserved
      BY <1>0, <1>1, <1>5, <1>6, <2>1, <2>2, EditedSee DEF Evolved
    <3> QED
      BY <3>1, Kinds DEF See, View, ValueAt, ReservedView
  <2>3. ASSUME ~Covers(q, a) PROVE See(u, a) = See(t, a)
    BY <1>0, <1>1, <1>5, <1>6, <2>3, EditedSee DEF Evolved
  <2> QED
    BY <2>2, <2>3
<1>8. Shows(u, Q \cup {q})
  BY <1>0, <1>7 DEF Shows
<1>9. ASSUME NEW j \in 2 .. Len(u.nodes) PROVE Used(u, D, j)
  <2>0. j \in 2 .. Len(t.nodes) /\ j \in 1 .. Len(t.nodes) /\ D[j] \in 0 .. Depth
    BY <1>0, <1>5, SoundTypes
  <2>1. CASE Used(t, D, j)
    <3>1. PICK a \in Addr : Through(t, D, j, a) /\ See(t, a).kind = "Reserved"
      BY <2>1 DEF Used
    <3>2. ~Meets(t, D, at, b, a)
      <4> SUFFICES ASSUME Meets(t, D, at, b, a) PROVE FALSE
        OBVIOUS
      <4>1. Still(t.nodes[at][b])
        BY <1>1, <1>2, Kinds DEF Still
      <4>2. RecordAt(t.nodes, a) = r
        BY <1>0, <1>1, <4>1, MeetsRecord
      <4> QED
        BY <1>2, <3>1, <4>2, Kinds DEF See, View
    <3>3. \A m \in 0 .. Depth : Walk(u.nodes, a)[m] = Walk(t.nodes, a)[m]
      BY <1>0, <1>1, <1>5, <3>2, EditedWalk
    <3>4. Through(u, D, j, a)
      BY <2>0, <3>1, <3>3 DEF Through
    <3>5. See(u, a).kind = "Reserved"
      BY <1>6, <1>7, <3>1, <3>2
    <3> QED
      BY <3>4, <3>5 DEF Used
  <2>2. CASE D[j] <= k /\ \A a \in Addr : Covers(q, a) => Through(t, D, j, a)
    <3>1. PICK a \in Addr : Covers(q, a)
      BY AddressBelow
    <3>2. D[j] \in 0 .. D[at]
      BY <1>0, <2>0, <2>2
    <3>3. \A m \in 0 .. D[at] : Walk(u.nodes, a)[m] = Walk(t.nodes, a)[m]
      BY <1>0, <1>1, <1>5, EditedWalk
    <3>4. Through(u, D, j, a)
      BY <2>2, <3>1, <3>2, <3>3 DEF Through
    <3>5. See(u, a).kind = "Reserved"
      BY <1>7, <3>1 DEF ReservedView
    <3> QED
      BY <3>4, <3>5 DEF Used
  <2> QED
    BY <2>0, <2>1, <2>2 DEF Marking
<1> QED
  BY <1>3, <1>5, <1>8, <1>9 DEF Painting, Evolved

LEMMA MarkNetwork ==
    ASSUME NEW t, NEW D, NEW Q, Painting(t, D, Q), NEW q \in Network, q # << >>, Apart(Q, q),
           NEW u, u = [nodes |-> InstallMarker(t.nodes, q, Reserved), values |-> << >>]
    PROVE  \E E : Painting(u, E, Q \cup {q})
<1>0. Len(q) \in 0 .. Depth /\ q \in Seq(Bit) /\ Depth \in Nat
  BY NetworkBits, DepthAssumption
<1>1. Len(q) \in Nat \ {0}
  BY <1>0, EmptySeq
<1>2. PICK W : W = Turns(t.nodes, q, Reserved)
  OBVIOUS
<1>3. /\ u.nodes = W[Len(q)].nodes /\ W[0] = [nodes |-> t.nodes, at |-> 1]
      /\ \A k \in 0 .. Len(q) - 1 : W[k + 1] = MarkerStep(W[k], q, k + 1, Reserved)
  BY <1>1, <1>2, TurnsDef
<1> DEFINE At(k) == /\ W[k] = [nodes |-> W[k].nodes, at |-> W[k].at]
                    /\ \E E : Marking([nodes |-> W[k].nodes, values |-> << >>], E, Q, q, k, W[k].at)
           S == {k \in Nat : k < Len(q) => At(k)}
<1>4. 0 \in S
  <2>1. Marking(t, D, Q, q, 0, 1)
    BY MarkStart
  <2>2. t = [nodes |-> t.nodes, values |-> << >>]
    BY <2>1, SoundTypes DEF Marking
  <2>3. W[0].nodes = t.nodes /\ W[0].at = 1
    BY <1>3
  <2>4. Marking([nodes |-> W[0].nodes, values |-> << >>], D, Q, q, 0, W[0].at)
    BY <2>1, <2>2, <2>3
  <2>5. W[0] = [nodes |-> W[0].nodes, at |-> W[0].at]
    BY <1>3
  <2> QED
    BY <2>4, <2>5
<1>5. ASSUME NEW k \in Nat, k \in S PROVE k + 1 \in S
  <2>0. k < Len(q) => At(k)
    BY <1>5
  <2> SUFFICES ASSUME k + 1 < Len(q) PROVE At(k + 1)
    OBVIOUS
  <2>1. At(k) /\ k \in 0 .. Len(q) - 1
    BY <1>1, <2>0
  <2>2. PICK x, at : x = [nodes |-> W[k].nodes, values |-> << >>] /\ at = W[k].at
    OBVIOUS
  <2>3. PICK F : Marking(x, F, Q, q, k, at)
    BY <2>1, <2>2
  <2>4. PICK s : s = W[k + 1]
    OBVIOUS
  <2>5. s = MarkerStep([nodes |-> x.nodes, at |-> at], q, k + 1, Reserved)
    BY <1>3, <2>1, <2>2, <2>4
  <2>6. PICK y : y = [nodes |-> s.nodes, values |-> << >>]
    OBVIOUS
  <2>7. \E E : Marking(y, E, Q, q, k + 1, s.at)
    BY <2>3, <2>5, <2>6, MarkTurn
  <2>8. s = [nodes |-> s.nodes, at |-> s.at]
    <3>1. PICK at2, ns : x.nodes = ns /\ at2 = at
      OBVIOUS
    <3>2. k + 1 # Len(q)
      BY <1>1
    <3>3. PICK z : z = [nodes |-> ns, at |-> at2]
      OBVIOUS
    <3>4. \/ s = z
          \/ \E v : s = [z EXCEPT !.at = v]
          \/ \E ms, v : s = [nodes |-> ms, at |-> v]
      BY <2>5, <3>1, <3>2, <3>3 DEF MarkerStep
    <3>5. \A v : [z EXCEPT !.at = v] = [nodes |-> ns, at |-> v]
      BY <3>3
    <3> QED
      BY <3>3, <3>4, <3>5
  <2> QED
    BY <2>4, <2>6, <2>7, <2>8
<1> HIDE DEF S
<1>6. \A k \in Nat : k \in S
  BY <1>4, <1>5, Induction
<1>7. PICK k \in Nat : k + 1 = Len(q) /\ k \in 0 .. Len(q) - 1
  <2>1. Len(q) - 1 \in Nat /\ (Len(q) - 1) + 1 = Len(q) /\ Len(q) - 1 \in 0 .. Len(q) - 1
    BY <1>1
  <2> QED
    BY <2>1
<1>8. At(k)
  BY <1>6, <1>7 DEF S
<1>9. PICK x, at : x = [nodes |-> W[k].nodes, values |-> << >>] /\ at = W[k].at
  OBVIOUS
<1>10. PICK F : Marking(x, F, Q, q, k, at)
  BY <1>8, <1>9
<1>11. PICK s : s = W[k + 1]
  OBVIOUS
<1>12. s = MarkerStep([nodes |-> x.nodes, at |-> at], q, k + 1, Reserved)
  BY <1>3, <1>7, <1>8, <1>9, <1>11
<1>13. u = [nodes |-> s.nodes, values |-> << >>]
  BY <1>3, <1>7, <1>11
<1> QED
  BY <1>7, <1>10, <1>12, <1>13, MarkLast

(* The bits at which the tree keeps a network. *)
LEMMA PrefixNetwork ==
    ASSUME NEW net \in IpNet
    PROVE  TreePrefix(net) \in Network
<1>0. /\ IpVersion \in {"V4", "V6"} /\ V4Depth \in 1 .. Depth /\ Depth \in Nat /\ V4Depth \in Nat
      /\ V4Bits \in 0 .. Depth
      /\ IpVersion = "V6" => V4Bits = Depth - V4Depth
  BY WriterAssumption, DepthAssumption DEF V4Bits
<1>3. \/ net.family = "V4" /\ \E n \in 0 .. V4Bits : net.bits \in [1 .. n -> Bit]
      \/ net.family = "V6" /\ \E n \in 0 .. Depth : net.bits \in [1 .. n -> Bit]
  <2>1. \/ \E n \in 0 .. V4Bits : net \in [family : {"V4"}, bits : [1 .. n -> Bit]]
        \/ \E n \in 0 .. Depth : net \in [family : {"V6"}, bits : [1 .. n -> Bit]]
    BY Zenon DEF IpNet
  <2>2. ASSUME NEW n, net \in [family : {"V4"}, bits : [1 .. n -> Bit]]
        PROVE  net.family = "V4" /\ net.bits \in [1 .. n -> Bit]
    BY <2>2
  <2>3. ASSUME NEW n, net \in [family : {"V6"}, bits : [1 .. n -> Bit]]
        PROVE  net.family = "V6" /\ net.bits \in [1 .. n -> Bit]
    BY <2>3
  <2> QED
    BY <2>1, <2>2, <2>3
<1>1. CASE net.family = "V4" /\ IpVersion = "V6"
  <2>1. PICK n \in 0 .. V4Bits : net.bits \in [1 .. n -> Bit]
    BY <1>1, <1>3
  <2>2. PICK p, z : p = net.bits /\ z = V4Zeros
    OBVIOUS
  <2>3. n \in Nat /\ n \in 0 .. Depth /\ V4Depth + n \in 0 .. Depth
    BY <1>0, <1>1, <2>1
  <2>4. p \in Network /\ z \in Network
    <3>1. z \in [1 .. V4Depth -> Bit]
      <4>1. [k \in 1 .. V4Depth |-> 0] \in [1 .. V4Depth -> Bit]
        BY DEF Bit
      <4> QED
        BY <2>2, <4>1 DEF V4Zeros
    <3>2. V4Depth \in 0 .. Depth
      BY <1>0
    <3> QED
      BY <2>1, <2>2, <2>3, <3>1, <3>2 DEF Network
  <2>5. p \in Seq(Bit) /\ z \in Seq(Bit)
    BY <2>4, NetworkBits
  <2>6. Len(p) = n /\ Len(z) = V4Depth
    <3>1. DOMAIN p = 1 .. n /\ DOMAIN p = 1 .. Len(p) /\ Len(p) \in Nat
      BY <2>1, <2>2, <2>5, LenProperties
    <3>2. DOMAIN z = 1 .. V4Depth /\ DOMAIN z = 1 .. Len(z) /\ Len(z) \in Nat
      BY <2>2, <2>5, LenProperties DEF V4Zeros
    <3> QED
      BY <1>0, <2>3, <3>1, <3>2
  <2>7. PICK c : c = z \o p
    OBVIOUS
  <2>8. c \in Seq(Bit) /\ Len(c) = V4Depth + n
    BY <2>5, <2>6, <2>7, ConcatProperties
  <2>9. c \in [1 .. V4Depth + n -> Bit]
    BY <2>8, LenProperties
  <2>10. c \in Network
    BY <2>3, <2>9 DEF Network
  <2> QED
    BY <1>1, <2>2, <2>7, <2>10 DEF TreePrefix
<1>2. CASE ~(net.family = "V4" /\ IpVersion = "V6")
  <2>1. PICK n \in 0 .. Depth : net.bits \in [1 .. n -> Bit]
    <3>1. \A n \in 0 .. V4Bits : n \in 0 .. Depth
      BY <1>0
    <3> QED
      BY <1>3, <3>1
  <2>2. net.bits \in Network
    BY <2>1 DEF Network
  <2> QED
    BY <1>2, <2>2 DEF TreePrefix
<1> QED
  BY <1>1, <1>2

Paints ==
    LET Painted[k \in 0 .. Len(ReservedList)] ==
            IF k = 0 THEN NewTree
            ELSE InstallMarker(Painted[k - 1], TreePrefix(ReservedList[k]), Reserved)
    IN  Painted

LEMMA PaintsDef ==
    /\ \A o : Fresh(o) = IF ~o.excluded THEN NewTree ELSE Paints[Len(ReservedList)]
    /\ Paints[0] = NewTree
    /\ \A k \in 0 .. Len(ReservedList) - 1 :
           Paints[k + 1] = InstallMarker(Paints[k], TreePrefix(ReservedList[k + 1]), Reserved)
<1> DEFINE Turn(h, k) == IF k = 0 THEN NewTree
                         ELSE InstallMarker(h[k - 1], TreePrefix(ReservedList[k]), Reserved)
           Eq(h) == h = [k \in 0 .. Len(ReservedList) |-> Turn(h, k)]
           T == {m \in Nat : \E h : h = [k \in 0 .. m |-> Turn(h, k)]}
<1>0. Len(ReservedList) \in Nat
  BY ReservedListAssumption, LenProperties
<1>1. 0 \in T
  <2>1. PICK g : g = [k \in 0 .. 0 |-> NewTree]
    OBVIOUS
  <2>2. g = [k \in 0 .. 0 |-> Turn(g, k)]
    BY <2>1
  <2> QED
    BY <2>2
<1>2. ASSUME NEW m \in Nat, m \in T PROVE m + 1 \in T
  <2>1. PICK e : e = [k \in 0 .. m |-> Turn(e, k)]
    BY <1>2
  <2>2. PICK g : g = [k \in 0 .. m + 1 |->
                         IF k <= m THEN e[k]
                         ELSE InstallMarker(e[m], TreePrefix(ReservedList[m + 1]), Reserved)]
    OBVIOUS
  <2>3. \A k \in 0 .. m + 1 : g[k] = Turn(g, k)
    <3>1. \A k \in 0 .. m : g[k] = e[k] /\ e[k] = Turn(e, k)
      BY <2>1, <2>2
    <3>2. \A k \in 1 .. m + 1 : g[k - 1] = e[k - 1]
      BY <3>1
    <3>3. g[m + 1] = InstallMarker(e[m], TreePrefix(ReservedList[m + 1]), Reserved)
      BY <2>2
    <3>4. \A k \in 0 .. m : Turn(g, k) = Turn(e, k)
      BY <3>2
    <3>5. g[m + 1] = Turn(g, m + 1)
      BY <3>2, <3>3
    <3>6. \A k \in 0 .. m : g[k] = Turn(g, k)
      BY <3>1, <3>4
    <3>7. \A k \in 0 .. m + 1 : k \in 0 .. m \/ k = m + 1
      OBVIOUS
    <3> HIDE DEF Turn
    <3> QED
      BY <3>5, <3>6, <3>7
  <2>4. g = [k \in 0 .. m + 1 |-> Turn(g, k)]
    BY <2>2, <2>3
  <2>5. \E h : h = [k \in 0 .. m + 1 |-> Turn(h, k)]
    BY Zenon, <2>4
  <2> QED
    BY <2>5
<1>3. Len(ReservedList) \in T
  <2> HIDE DEF T
  <2> QED
    BY <1>0, <1>1, <1>2, Induction
<1>4. Paints = CHOOSE h : Eq(h)
  BY DEF Paints
<1>5. Eq(Paints)
  <2>1. \E h : Eq(h)
    BY <1>3
  <2> HIDE DEF Eq
  <2> QED
    BY Zenon, <1>4, <2>1
<1>6. PICK W : W = Paints /\ W = [k \in 0 .. Len(ReservedList) |-> Turn(W, k)]
  BY <1>5
<1>7. \A k \in 0 .. Len(ReservedList) - 1 :
          k + 1 \in 0 .. Len(ReservedList) /\ k + 1 # 0 /\ (k + 1) - 1 = k
  BY <1>0
<1>8. W[0] = NewTree
      /\ \A k \in 0 .. Len(ReservedList) - 1 :
             W[k + 1] = InstallMarker(W[k], TreePrefix(ReservedList[k + 1]), Reserved)
  BY <1>0, <1>6, <1>7
<1>9. \A o : Fresh(o) = IF ~o.excluded THEN NewTree ELSE Paints[Len(ReservedList)]
  BY DEF Fresh, Paints
<1> QED
  BY <1>6, <1>8, <1>9

LEMMA NewTreePainting ==
    \E D : Painting([nodes |-> NewTree, values |-> << >>], D, {})
<1>1. PICK t, D : t = [nodes |-> NewTree, values |-> << >>] /\ D = [k \in 1 .. 1 |-> 0]
  OBVIOUS
<1>2. /\ t.nodes \in Seq([Bit -> Record]) /\ Len(t.nodes) = 1 /\ t.values = << >>
      /\ \A b \in Bit : t.nodes[1][b] = NoData
  <2>1. EmptyNode \in [Bit -> Record] /\ \A b \in Bit : EmptyNode[b] = NoData
    BY Kinds DEF EmptyNode
  <2>2. PICK e \in [Bit -> Record] : e = EmptyNode
    BY <2>1
  <2>3. t.nodes = << e >> /\ t.values = << >>
    BY <1>1, <2>2 DEF NewTree
  <2>4. << e >> \in Seq([Bit -> Record]) /\ Len(<< e >>) = 1 /\ << e >>[1] = e
    BY <2>2
  <2> QED
    BY <2>1, <2>2, <2>3, <2>4
<1>3. Depth \in Nat \ {0}
  BY DepthAssumption
<1>4. Sound(t, D)
  <2>1. t \in Trees
    BY <1>1, <1>2 DEF Trees
  <2>2. D \in [1 .. 1 -> 0 .. Depth] /\ D[1] = 0
    BY <1>1, <1>3
  <2>3. \A i \in 1 .. 1 : i = 1
    OBVIOUS
  <2>4. Separate(t.nodes)
    BY <1>2, <2>3, Kinds DEF Separate
  <2>5. IsInjective(t.values)
    BY <1>2 DEF IsInjective
  <2> QED
    BY <1>2, <2>1, <2>2, <2>3, <2>4, <2>5 DEF Sound, RecordSound
<1>5. ASSUME NEW a \in Addr PROVE See(t, a) = BlankView
  <2>1. Len(a) = Depth /\ a[0 + 1] \in Bit /\ 0 \in 0 .. Len(a) - 1 /\ 0 + 1 \in 0 .. Depth
    BY <1>3, AddrBits
  <2>2. Walk(t.nodes, a)[0 + 1] = Onward(t.nodes, Node(1), a[0 + 1])
    BY <1>3, <2>1, WalkDef
  <2>3. Walk(t.nodes, a)[0 + 1] = NoData
    BY <1>2, <2>1, <2>2, OnwardFromNode
  <2>4. Still(NoData)
    BY Kinds DEF Still
  <2>5. RecordAt(t.nodes, a) = NoData
    BY <2>1, <2>3, <2>4, WalkRests
  <2> QED
    BY <2>5, Kinds DEF See, View, ValueAt, BlankView
<1>6. Shows(t, {})
  BY <1>5 DEF Shows
<1>7. Painting(t, D, {})
  BY <1>2, <1>4, <1>6 DEF Painting
<1> QED
  BY <1>1, <1>7

LEMMA FreshPainting ==
    ASSUME NEW o
    PROVE  \E D : Painting([nodes |-> Fresh(o), values |-> << >>], D, Carved(o))
<1>1. CASE ~o.excluded
  <2>1. Fresh(o) = NewTree /\ Carved(o) = {}
    BY <1>1, PaintsDef DEF Carved
  <2> QED
    BY <2>1, NewTreePainting
<1>2. CASE o.excluded
  <2>0. /\ Len(ReservedList) \in Nat /\ DOMAIN ReservedList = 1 .. Len(ReservedList)
        /\ \A i \in 1 .. Len(ReservedList) : ReservedList[i] \in IpNet
    BY ReservedListAssumption, LenProperties, ElementOfSeq
  <2> DEFINE Prefixes(k) == {TreePrefix(ReservedList[i]) : i \in 1 .. k}
             P(k) == \E D : Painting([nodes |-> Paints[k], values |-> << >>], D, Prefixes(k))
             S == {k \in Nat : k <= Len(ReservedList) => P(k)}
  <2>1. 0 \in S
    <3>1. Prefixes(0) = {} /\ Paints[0] = NewTree
      BY PaintsDef
    <3>2. P(0)
      BY <3>1, NewTreePainting
    <3> HIDE DEF P
    <3> QED
      BY <3>2
  <2>2. ASSUME NEW k \in Nat, k \in S PROVE k + 1 \in S
    <3>0. k <= Len(ReservedList) => P(k)
      <4> HIDE DEF P
      <4> QED
        BY <2>2
    <3> SUFFICES ASSUME k + 1 <= Len(ReservedList) PROVE P(k + 1)
      <4> HIDE DEF P
      <4> QED
        OBVIOUS
    <3>1. k \in 0 .. Len(ReservedList) - 1 /\ k <= Len(ReservedList) /\ k + 1 \in 1 .. Len(ReservedList)
      BY <2>0
    <3>2. PICK t, q, Q : /\ t = [nodes |-> Paints[k], values |-> << >>]
                         /\ q = TreePrefix(ReservedList[k + 1]) /\ Q = Prefixes(k)
      OBVIOUS
    <3>3. PICK D : Painting(t, D, Q)
      BY <3>0, <3>1, <3>2
    <3>4. q \in Network /\ q # << >>
      BY <2>0, <3>1, <3>2, PrefixNetwork, ReservedListAssumption
    <3>5. Apart(Q, q)
      <4> SUFFICES ASSUME NEW i \in 1 .. k
                   PROVE  LET p == TreePrefix(ReservedList[i])
                          IN  p \in Network /\ ~Covers(p, q) /\ ~Covers(q, p)
        BY <3>2 DEF Apart
      <4>1. i \in 1 .. Len(ReservedList) /\ i # k + 1
        BY <3>1
      <4>2. TreePrefix(ReservedList[i]) \in Network
        BY <2>0, <4>1, PrefixNetwork
      <4> QED
        BY <2>0, <3>1, <3>2, <4>1, <4>2, ReservedListAssumption
    <3>6. PICK u : u = [nodes |-> InstallMarker(t.nodes, q, Reserved), values |-> << >>]
      OBVIOUS
    <3>7. PICK E : Painting(u, E, Q \cup {q})
      BY <3>3, <3>4, <3>5, <3>6, MarkNetwork
    <3>8. u = [nodes |-> Paints[k + 1], values |-> << >>]
      BY <3>1, <3>2, <3>6, PaintsDef
    <3>9. Q \cup {q} = Prefixes(k + 1)
      <4>1. \A i \in 1 .. k + 1 : i \in 1 .. k \/ i = k + 1
        OBVIOUS
      <4>2. \A i \in 1 .. k : i \in 1 .. k + 1
        OBVIOUS
      <4>3. k + 1 \in 1 .. k + 1
        OBVIOUS
      <4> QED
        BY <3>2, <4>1, <4>2, <4>3
    <3> QED
      BY <3>7, <3>8, <3>9
  <2>3. Len(ReservedList) \in S
    <3> HIDE DEF S
    <3> QED
      BY <2>0, <2>1, <2>2, Induction
  <2>4. Fresh(o) = Paints[Len(ReservedList)] /\ Carved(o) = Prefixes(Len(ReservedList))
    BY <1>2, <2>0, PaintsDef DEF Carved
  <2>5. P(Len(ReservedList))
    <3> HIDE DEF P
    <3> QED
      BY <2>0, <2>3
  <2> QED
    BY <2>4, <2>5
<1> QED
  BY <1>1, <1>2

-----------------------------------------------------------------------------
(***************************************************************************)
(* The invariant of the writer.                                            *)
(***************************************************************************)
Arena == [nodes |-> nodes, values |-> values]

IInv ==
    /\ options \in OptionSets /\ calls \in 0 .. MaxCalls
    /\ \E D : Sound(Arena, D)

LEMMA InvTypeOK == IInv => TypeOK
<1> SUFFICES ASSUME IInv PROVE TypeOK
  OBVIOUS
<1>1. PICK t : t = Arena
  OBVIOUS
<1>2. PICK D : Sound(t, D)
  BY <1>1 DEF IInv
<1>3. /\ t.nodes = nodes /\ t.values = values
      /\ DOMAIN nodes = 1 .. Len(t.nodes) /\ DOMAIN values = 1 .. Len(t.values)
      /\ Len(t.nodes) \in Nat /\ Len(t.values) \in Nat
      /\ \A k \in 1 .. Len(t.nodes) : D[k] \in 0 .. Depth
  BY <1>1, <1>2, SoundTypes, LenProperties DEF Arena
<1>4. ASSUME NEW i \in DOMAIN nodes, NEW b \in Bit
      PROVE  \/ nodes[i][b] \in {NoData, Reserved}
             \/ nodes[i][b].kind = "Node" /\ nodes[i][b].arg \in 2 .. Len(nodes)
             \/ nodes[i][b].kind = "Data" /\ nodes[i][b].arg \in DOMAIN values
  <2>1. PICK r : r = t.nodes[i][b]
    OBVIOUS
  <2>2. RecordSound(t, D, r, D[i] + 1)
    BY <1>2, <1>3, <2>1 DEF Sound
  <2>3. CASE r \in {NoData, Reserved}
    BY <1>3, <2>1, <2>3
  <2>4. CASE \E id \in 1 .. Len(t.values) : r = Data(id)
    BY <1>3, <2>1, <2>4, Kinds
  <2>5. CASE \E j \in 1 .. Len(t.nodes) : r = Node(j) /\ D[j] = D[i] + 1
    <3>1. PICK j \in 1 .. Len(t.nodes) : r = Node(j) /\ D[j] = D[i] + 1
      BY <2>5
    <3>2. D[i] \in Nat /\ D[1] = 0
      BY <1>2, <1>3 DEF Sound
    <3>3. j # 1
      BY <3>1, <3>2
    <3> QED
      BY <1>3, <2>1, <3>1, <3>3, Kinds
  <2> QED
    BY <2>2, <2>3, <2>4, <2>5 DEF RecordSound
<1>5. ASSUME NEW i \in DOMAIN nodes, NEW j \in DOMAIN nodes, NEW b \in Bit, NEW c \in Bit,
             IsPointer(nodes[i][b]), nodes[i][b] = nodes[j][c]
      PROVE  i = j /\ b = c
  <2>1. nodes[i][b].kind = "Node"
    BY <1>4, <1>5, Kinds DEF IsPointer
  <2> QED
    BY <1>2, <1>3, <1>5, <2>1 DEF Sound, Separate
<1>6. IsInjective(values)
  BY <1>2, <1>3 DEF Sound
<1> QED
  BY <1>4, <1>5, <1>6 DEF TypeOK, IInv

LEMMA InitInv == Init => IInv
<1> SUFFICES ASSUME Init PROVE IInv
  OBVIOUS
<1>1. PICK D : Painting([nodes |-> Fresh(options), values |-> << >>], D, Carved(options))
  BY FreshPainting
<1>2. Arena = [nodes |-> Fresh(options), values |-> << >>]
  BY DEF Arena, Init
<1>3. Sound(Arena, D)
  BY <1>1, <1>2 DEF Painting
<1> QED
  BY <1>3, WriterAssumption DEF IInv, Init

-----------------------------------------------------------------------------
(***************************************************************************)
(* The inserts of a writer, on an arena of its own.                        *)
(***************************************************************************)
LEMMA SeeLeaf ==
    ASSUME NEW t, NEW D, Sound(t, D), NEW a \in Addr
    PROVE  \/ See(t, a) \in {BlankView, ReservedView}
           \/ \E v \in Values : See(t, a) = [kind |-> "Data", id |-> v]
<1>1. PICK r : r = RecordAt(t.nodes, a)
  OBVIOUS
<1>2. See(t, a) = [kind |-> r.kind, id |-> ValueAt(t.values, r)]
  BY <1>1 DEF See, View
<1>3. CASE r \in {NoData, Reserved}
  BY <1>2, <1>3, Kinds DEF ValueAt, BlankView, ReservedView
<1>4. CASE \E id \in 1 .. Len(t.values) : r = Data(id)
  BY <1>2, <1>4, SoundTypes, Kinds DEF ValueAt
<1> QED
  BY <1>1, <1>3, <1>4, RecordAtSound

LEMMA InternSound ==
    ASSUME NEW t, NEW D, Sound(t, D), NEW v \in Values,
           NEW u, u = [nodes |-> t.nodes, values |-> Intern(t.values, v)]
    PROVE  Sound(u, D) /\ \A a \in Addr : See(u, a) = See(t, a)
<1>1. /\ u.nodes = t.nodes /\ u.values = Intern(t.values, v)
      /\ u = [nodes |-> u.nodes, values |-> u.values]
  OBVIOUS
<1>2. Extended(t.values, u.values)
  BY <1>1, SoundTypes, Interned DEF Sound
<1>3. Len(t.values) \in Nat /\ Len(u.values) \in Nat /\ Len(t.values) <= Len(u.values)
  BY <1>2, SoundTypes, LenProperties DEF Extended
<1>4. Grown(t, D, u, D)
  BY <1>1, <1>2, SoundTypes DEF Grown, Extended
<1>5. Sound(u, D)
  <2>1. u \in Trees
    BY <1>1, <1>2, SoundTypes DEF Trees, Extended
  <2>2. \A r, d : RecordSound(t, D, r, d) => RecordSound(u, D, r, d)
    BY <1>1, <1>3 DEF RecordSound
  <2>3. \A i \in 1 .. Len(u.nodes) : \A b \in Bit : RecordSound(u, D, u.nodes[i][b], D[i] + 1)
    BY <1>1, <2>2 DEF Sound
  <2> QED
    BY <1>1, <1>2, <2>1, <2>3 DEF Sound, Extended
<1>6. \A a \in Addr : See(u, a) = See(t, a)
  BY <1>1, <1>4, SeeGrown
<1> QED
  BY <1>5, <1>6

LEMMA StoreSound ==
    ASSUME NEW t, NEW D, Sound(t, D), NEW net \in IpNet, NEW v \in Values
    PROVE  InsertedRightly(t, ValueStored(t, net, v), TreePrefix(net), Constantly(v))
<1>1. PICK q, f : q = TreePrefix(net) /\ f = Constantly(v)
  OBVIOUS
<1>2. PICK w, u : /\ w = [nodes |-> t.nodes, values |-> Intern(t.values, v)]
                  /\ u = TreeInserted(w.nodes, w.values, q, f)
  OBVIOUS
<1>3. Sound(w, D) /\ \A a \in Addr : See(w, a) = See(t, a)
  BY <1>2, InternSound
<1>4. q \in Network /\ f \in [OptValue -> OptValue]
  BY <1>1, PrefixNetwork DEF Constantly, OptValue
<1>5. InsertedRightly(w, u, q, f)
  BY <1>2, <1>3, <1>4, InsertSound
<1>6. ValueStored(t, net, v) = u
  BY <1>1, <1>2 DEF ValueStored, Constantly
<1>7. InsertedRightly(t, u, q, f)
  BY <1>3, <1>5 DEF InsertedRightly
<1> QED
  BY <1>1, <1>6, <1>7

(* The arenas that the networks of a range lead to, one after another. *)
Stores(t, nets, v) ==
    LET Done[k \in 0 .. Len(nets)] ==
            IF k = 0 THEN t ELSE ValueStored(Done[k - 1], nets[k], v)
    IN  Done

LEMMA StoresDef ==
    ASSUME NEW t, NEW nets, Len(nets) \in Nat, NEW v
    PROVE  /\ Stores(t, nets, v)[0] = t
           /\ \A k \in 0 .. Len(nets) - 1 :
                  Stores(t, nets, v)[k + 1] = ValueStored(Stores(t, nets, v)[k], nets[k + 1], v)
<1> DEFINE Turn(h, k) == IF k = 0 THEN t ELSE ValueStored(h[k - 1], nets[k], v)
           Eq(h) == h = [k \in 0 .. Len(nets) |-> Turn(h, k)]
           T == {m \in Nat : \E h : h = [k \in 0 .. m |-> Turn(h, k)]}
<1>1. 0 \in T
  <2>1. PICK g : g = [k \in 0 .. 0 |-> t]
    OBVIOUS
  <2>2. g = [k \in 0 .. 0 |-> Turn(g, k)]
    BY <2>1
  <2> QED
    BY <2>2
<1>2. ASSUME NEW m \in Nat, m \in T PROVE m + 1 \in T
  <2>1. PICK e : e = [k \in 0 .. m |-> Turn(e, k)]
    BY <1>2
  <2>2. PICK g : g = [k \in 0 .. m + 1 |->
                         IF k <= m THEN e[k] ELSE ValueStored(e[m], nets[m + 1], v)]
    OBVIOUS
  <2>3. \A k \in 0 .. m + 1 : g[k] = Turn(g, k)
    <3>1. \A k \in 0 .. m : g[k] = e[k] /\ e[k] = Turn(e, k)
      BY <2>1, <2>2
    <3>2. \A k \in 1 .. m + 1 : g[k - 1] = e[k - 1]
      BY <3>1
    <3>3. g[m + 1] = ValueStored(e[m], nets[m + 1], v)
      BY <2>2
    <3>4. \A k \in 0 .. m : Turn(g, k) = Turn(e, k)
      BY <3>2
    <3>5. g[m + 1] = Turn(g, m + 1)
      BY <3>2, <3>3
    <3>6. \A k \in 0 .. m : g[k] = Turn(g, k)
      BY <3>1, <3>4
    <3>7. \A k \in 0 .. m + 1 : k \in 0 .. m \/ k = m + 1
      OBVIOUS
    <3> HIDE DEF Turn
    <3> QED
      BY <3>5, <3>6, <3>7
  <2>4. g = [k \in 0 .. m + 1 |-> Turn(g, k)]
    BY <2>2, <2>3
  <2>5. \E h : h = [k \in 0 .. m + 1 |-> Turn(h, k)]
    BY Zenon, <2>4
  <2> QED
    BY <2>5
<1>3. Len(nets) \in T
  <2> HIDE DEF T
  <2> QED
    BY <1>1, <1>2, Induction
<1>4. Stores(t, nets, v) = CHOOSE h : Eq(h)
  BY DEF Stores
<1>5. Eq(Stores(t, nets, v))
  <2>1. \E h : Eq(h)
    BY <1>3
  <2> HIDE DEF Eq
  <2> QED
    BY Zenon, <1>4, <2>1
<1>6. PICK W : W = Stores(t, nets, v) /\ W = [k \in 0 .. Len(nets) |-> Turn(W, k)]
  BY <1>5
<1>7. \A k \in 0 .. Len(nets) - 1 : k + 1 \in 0 .. Len(nets) /\ k + 1 # 0 /\ (k + 1) - 1 = k
  OBVIOUS
<1>8. W[0] = t /\ \A k \in 0 .. Len(nets) - 1 : W[k + 1] = ValueStored(W[k], nets[k + 1], v)
  BY <1>6, <1>7
<1> QED
  BY <1>6, <1>8

(* The first k networks have been stored. *)
Reached(nets, k, a) == \E j \in 1 .. k : Covers(TreePrefix(nets[j]), a)

StoredRightly(t, u, nets, k, v) ==
    /\ \E E : Sound(u, E)
    /\ \A a \in Addr : See(u, a) = IF Reached(nets, k, a) /\ See(t, a).kind # "Reserved"
                                   THEN [kind |-> "Data", id |-> v] ELSE See(t, a)

LEMMA StoresRightly ==
    ASSUME NEW t, NEW D, Sound(t, D), NEW nets, Len(nets) \in Nat,
           \A j \in 1 .. Len(nets) : nets[j] \in IpNet, NEW v \in Values
    PROVE  StoredRightly(t, Stores(t, nets, v)[Len(nets)], nets, Len(nets), v)
<1> DEFINE S == {k \in Nat : k <= Len(nets) => StoredRightly(t, Stores(t, nets, v)[k], nets, k, v)}
<1>1. 0 \in S
  <2>1. Stores(t, nets, v)[0] = t /\ \A a : ~Reached(nets, 0, a)
    BY StoresDef DEF Reached
  <2> QED
    BY <2>1 DEF StoredRightly
<1>2. ASSUME NEW k \in Nat, k \in S PROVE k + 1 \in S
  <2> SUFFICES ASSUME k + 1 <= Len(nets)
               PROVE  StoredRightly(t, Stores(t, nets, v)[k + 1], nets, k + 1, v)
    OBVIOUS
  <2>1. PICK u, w, net : u = Stores(t, nets, v)[k] /\ w = Stores(t, nets, v)[k + 1] /\ net = nets[k + 1]
    OBVIOUS
  <2>2. StoredRightly(t, u, nets, k, v)
    BY <1>2, <2>1
  <2>3. PICK E : Sound(u, E)
    BY <2>2 DEF StoredRightly
  <2>4. k \in 0 .. Len(nets) - 1 /\ k + 1 \in 1 .. Len(nets) /\ net \in IpNet
    BY <2>1
  <2>5. w = ValueStored(u, net, v)
    BY <2>1, <2>4, StoresDef
  <2>6. InsertedRightly(u, w, TreePrefix(net), Constantly(v))
    BY <2>3, <2>4, <2>5, StoreSound
  <2>7. ASSUME NEW a \in Addr
        PROVE  See(w, a) = IF Reached(nets, k + 1, a) /\ See(t, a).kind # "Reserved"
                           THEN [kind |-> "Data", id |-> v] ELSE See(t, a)
    <3>1. Reached(nets, k + 1, a) <=> Reached(nets, k, a) \/ Covers(TreePrefix(net), a)
      <4>1. \A j \in 1 .. k + 1 : j \in 1 .. k \/ j = k + 1
        OBVIOUS
      <4>2. k + 1 \in 1 .. k + 1 /\ \A j \in 1 .. k : j \in 1 .. k + 1
        OBVIOUS
      <4> QED
        BY <2>1, <4>1, <4>2 DEF Reached
    <3>2. PICK x, y : x = See(t, a) /\ y = See(u, a)
      OBVIOUS
    <3>3. y = IF Reached(nets, k, a) /\ x.kind # "Reserved" THEN [kind |-> "Data", id |-> v] ELSE x
      BY <2>2, <3>2 DEF StoredRightly
    <3>4. See(w, a) = IF Covers(TreePrefix(net), a) THEN Answered(Constantly(v), y) ELSE y
      BY <2>6, <3>2 DEF InsertedRightly
    <3>5. y \in {BlankView, ReservedView} \/ \E z \in Values : y = [kind |-> "Data", id |-> z]
      BY <2>3, <3>2, SeeLeaf
    <3>6. Answered(Constantly(v), y) = IF y.kind = "Reserved" THEN y ELSE [kind |-> "Data", id |-> v]
      <4>1. y.id \in OptValue
        BY <3>5 DEF BlankView, ReservedView, OptValue
      <4>2. Constantly(v)[y.id] = v /\ v # None
        BY <4>1, WriterAssumption DEF Constantly
      <4> QED
        BY <4>2 DEF Answered
    <3>7. y.kind = "Reserved" <=> x.kind = "Reserved"
      BY <3>3
    <3> QED
      BY <3>1, <3>2, <3>3, <3>4, <3>6, <3>7
  <2>8. \E F : Sound(w, F)
    BY <2>6 DEF InsertedRightly
  <2> QED
    BY <2>1, <2>7, <2>8 DEF StoredRightly
<1> HIDE DEF S
<1>3. Len(nets) \in S
  BY <1>1, <1>2, Induction
<1> QED
  BY <1>3 DEF S

(* Where insert_range stops: at the first network that is refused, or behind the last. *)
IsStop(range, k) ==
    /\ k = Len(range) + 1 \/ Outcome(options, range[k]) # "ok"
    /\ \A j \in 1 .. k - 1 : Outcome(options, range[j]) = "ok"

LEMMA RangeNets ==
    ASSUME NEW range \in InsertRanges
    PROVE  /\ Len(range) \in Nat /\ DOMAIN range = 1 .. Len(range) /\ range \in Seq(IpNet)
           /\ \A j \in 1 .. Len(range) : range[j] \in IpNet
BY WriterAssumption, LenProperties, ElementOfSeq

LEMMA AcceptedRange ==
    ASSUME NEW range \in InsertRanges
    PROVE  \E k \in 1 .. Len(range) + 1 :
               /\ IsStop(range, k) /\ Len(Accepted(range)) = k - 1
               /\ \A j \in 1 .. k - 1 : Accepted(range)[j] = range[j]
<1> DEFINE refused == {k \in DOMAIN range : Outcome(options, range[k]) # "ok"}
           T == {Len(range) + 1} \cup refused
<1>1. Len(range) \in Nat /\ DOMAIN range = 1 .. Len(range) /\ range \in Seq(IpNet)
  BY RangeNets
<1>2. T \subseteq 1 .. Len(range) + 1 /\ T \subseteq Nat /\ T # {}
  BY <1>1
<1>3. PICK k : k = Min(T)
  OBVIOUS
<1>4. k \in T /\ \A y \in T : k <= y
  <2>1. \E x \in T : \A y \in T : x <= y
    BY <1>2, Least
  <2> HIDE DEF T
  <2> QED
    BY <1>3, <2>1 DEF Min
<1>5. k \in 1 .. Len(range) + 1
  BY <1>2, <1>4
<1>6. IsStop(range, k)
  <2>1. k = Len(range) + 1 \/ Outcome(options, range[k]) # "ok"
    BY <1>4
  <2>2. ASSUME NEW j \in 1 .. k - 1, Outcome(options, range[j]) # "ok" PROVE FALSE
    <3>1. j \in DOMAIN range /\ j < k
      BY <1>1, <1>5
    <3>2. j \in T
      BY <2>2, <3>1
    <3> QED
      BY <1>1, <1>4, <1>5, <3>1, <3>2
  <2> QED
    BY <2>1, <2>2 DEF IsStop
<1>7. Accepted(range) = SubSeq(range, 1, k - 1)
  BY <1>3 DEF Accepted
<1>8. PICK s : s = SubSeq(range, 1, k - 1)
  OBVIOUS
<1>9. Len(s) = k - 1 /\ \A j \in 1 .. k - 1 : s[j] = range[j]
  BY <1>1, <1>5, <1>8, SubSeqProperties
<1> QED
  BY <1>5, <1>6, <1>7, <1>8, <1>9

LEMMA StopUnique ==
    ASSUME NEW range \in InsertRanges, NEW k \in 1 .. Len(range) + 1, NEW m \in 1 .. Len(range) + 1,
           IsStop(range, k), IsStop(range, m)
    PROVE  k = m
<1>1. Len(range) \in Nat
  BY RangeNets
<1>2. ~(k < m)
  <2> SUFFICES ASSUME k < m PROVE FALSE
    OBVIOUS
  <2>1. k \in 1 .. m - 1 /\ k # Len(range) + 1
    BY <1>1
  <2> QED
    BY <2>1 DEF IsStop
<1>3. ~(m < k)
  <2> SUFFICES ASSUME m < k PROVE FALSE
    OBVIOUS
  <2>1. m \in 1 .. k - 1 /\ m # Len(range) + 1
    BY <1>1
  <2> QED
    BY <2>1 DEF IsStop
<1> QED
  BY <1>1, <1>2, <1>3

-----------------------------------------------------------------------------
(***************************************************************************)
(* The steps of the writer, each with what it does to the addresses.       *)
(***************************************************************************)
LEMMA BecomeArena ==
    ASSUME NEW t, NEW D, Sound(t, D), Become(t)
    PROVE  Arena' = t
BY SoundTypes DEF Become, Arena

LEMMA ValueStep ==
    ASSUME NEW D, Sound(Arena, D), NEW net \in InsertNets, NEW v \in Values, InsertValue(net, v)
    PROVE  InsertedRightly(Arena, Arena', TreePrefix(net), Constantly(v))
<1>1. PICK t, u : t = Arena /\ u = ValueStored(Arena, net, v)
  OBVIOUS
<1>2. InsertedRightly(t, u, TreePrefix(net), Constantly(v))
  BY <1>1, WriterAssumption, StoreSound
<1>3. PICK E : Sound(u, E)
  BY <1>2 DEF InsertedRightly
<1>4. Become(u)
  BY <1>1 DEF InsertValue, Arena
<1>5. Arena' = u
  BY <1>3, <1>4, BecomeArena
<1> QED
  BY <1>1, <1>2, <1>5

LEMMA WithStep ==
    ASSUME NEW D, Sound(Arena, D), NEW net \in InsertNets, NEW f \in Closures, InsertWith(net, f)
    PROVE  InsertedRightly(Arena, Arena', TreePrefix(net), f)
<1>1. PICK t, u : t = Arena /\ u = TreeInserted(t.nodes, t.values, TreePrefix(net), f)
  OBVIOUS
<1>2. f \in [OptValue -> OptValue] /\ TreePrefix(net) \in Network
  BY WriterAssumption, PrefixNetwork
<1>3. InsertedRightly(t, u, TreePrefix(net), f)
  BY <1>1, <1>2, InsertSound
<1>4. PICK E : Sound(u, E)
  BY <1>3 DEF InsertedRightly
<1>5. t.nodes = nodes /\ t.values = values
  BY <1>1 DEF Arena
<1>6. Become(u)
  BY <1>1, <1>5 DEF InsertWith
<1>7. Arena' = u
  BY <1>4, <1>6, BecomeArena
<1> QED
  BY <1>1, <1>3, <1>7

LEMMA RangeStep ==
    ASSUME NEW D, Sound(Arena, D), NEW range \in InsertRanges, NEW v \in Values,
           InsertRange(range, v)
    PROVE  \E k \in 1 .. Len(range) + 1 :
               IsStop(range, k) /\ StoredRightly(Arena, Arena', range, k - 1, v)
<1>1. Len(range) \in Nat /\ \A j \in 1 .. Len(range) : range[j] \in IpNet
  BY RangeNets
<1>2. PICK s : s = Accepted(range)
  OBVIOUS
<1>3. PICK k \in 1 .. Len(range) + 1 :
          IsStop(range, k) /\ Len(s) = k - 1 /\ \A j \in 1 .. k - 1 : s[j] = range[j]
  BY <1>2, AcceptedRange
<1>4. Len(s) \in Nat /\ \A j \in 1 .. Len(s) : j \in 1 .. Len(range) /\ s[j] = range[j]
  BY <1>1, <1>3
<1>5. PICK t, u : t = Arena /\ u = Stores(t, s, v)[Len(s)]
  OBVIOUS
<1>6. StoredRightly(t, u, s, Len(s), v)
  BY <1>1, <1>4, <1>5, StoresRightly
<1>7. Stored(s, v) = u
  BY <1>5 DEF Stored, Stores, Arena
<1>8. PICK E : Sound(u, E)
  BY <1>6 DEF StoredRightly
<1>9. Become(u)
  BY <1>2, <1>7 DEF InsertRange
<1>10. Arena' = u
  BY <1>8, <1>9, BecomeArena
<1>11. \A a : Reached(s, Len(s), a) <=> Reached(range, k - 1, a)
  BY <1>3, <1>4 DEF Reached
<1>12. StoredRightly(t, u, range, k - 1, v)
  BY <1>6, <1>11 DEF StoredRightly
<1> QED
  BY <1>3, <1>5, <1>10, <1>12

LEMMA StepInv == IInv /\ [Next]_vars => IInv'
<1> SUFFICES ASSUME IInv, [Next]_vars PROVE IInv'
  OBVIOUS
<1>1. PICK D : Sound(Arena, D)
  BY DEF IInv
<1> DEFINE Safe == \E E : Sound(Arena', E)
<1>2. ASSUME NEW net \in InsertNets, Refused(net) PROVE Safe
  <2>1. Arena' = Arena
    BY <1>2 DEF Refused, Arena
  <2> QED
    BY <1>1, <2>1
<1>3. ASSUME NEW net \in InsertNets, NEW v \in Values, InsertValue(net, v) PROVE Safe
  BY <1>1, <1>3, ValueStep DEF InsertedRightly
<1>4. ASSUME NEW net \in InsertNets, NEW f \in Closures, InsertWith(net, f) PROVE Safe
  BY <1>1, <1>4, WithStep DEF InsertedRightly
<1>5. ASSUME NEW range \in InsertRanges, NEW v \in Values, InsertRange(range, v) PROVE Safe
  BY <1>1, <1>5, RangeStep DEF StoredRightly
<1>6. ASSUME UNCHANGED vars PROVE Safe
  <2>1. Arena' = Arena
    BY <1>6 DEF vars, Arena
  <2> QED
    BY <1>1, <2>1
<1>7. Safe
  <2> HIDE DEF Safe
  <2> QED
    BY <1>2, <1>3, <1>4, <1>5, <1>6 DEF Next
<1>8. options' \in OptionSets /\ calls' \in 0 .. MaxCalls
  <2>1. CASE Call
    BY <2>1, WriterAssumption DEF Call, IInv
  <2>2. CASE UNCHANGED vars
    BY <2>2 DEF vars, IInv
  <2>3. Call \/ UNCHANGED vars
    BY DEF Next, Refused, InsertValue, InsertWith, InsertRange
  <2> QED
    BY <2>1, <2>2, <2>3
<1> QED
  BY <1>7, <1>8 DEF IInv

(***************************************************************************)
(* In every state the records of the arena point into it, no node but the  *)
(* root has two parents or none of its own depth, and no value has two ids *)
(* (tree.rs and value.rs take all of it for granted).                      *)
(***************************************************************************)
THEOREM ArenaIsTree == Spec => []IInv
BY InitInv, StepInv, PTL DEF Spec

(***************************************************************************)
(* TypeOK holds in every state.                                            *)
(***************************************************************************)
THEOREM WriterTypeOK == Spec => []TypeOK
BY ArenaIsTree, InvTypeOK, PTL

-----------------------------------------------------------------------------
(***************************************************************************)
(* The table of the addresses, and what AddressMap says of it.             *)
(***************************************************************************)
LEMMA TableSees ==
    /\ DOMAIN Table = Addr /\ \A a \in Addr : Table[a] = See(Arena, a)
    /\ DOMAIN Table' = Addr /\ \A a \in Addr : Table'[a] = See(Arena', a)
BY DEF Table, See, View, Arena

LEMMA InstanceNames ==
    ASSUME NEW o
    PROVE  /\ Promise(o)!Addr = Addr
           /\ \A p, q : Promise(o)!Covers(p, q) <=> Covers(p, q)
           /\ Promise(o)!Reserved = ReservedView /\ Promise(o)!NoData = BlankView
           /\ \A i : Promise(o)!Data(i) = [kind |-> "Data", id |-> i]
BY DEF Promise!Addr, Promise!Bit, Promise!Covers, Promise!Reserved, Promise!NoData, Promise!Data,
       Addr, Bit, Covers, ReservedView, BlankView

LEMMA TableStarts ==
    ASSUME Init, NEW o, options = o
    PROVE  Promise(o)!Init
<1>1. PICK D : Painting([nodes |-> Fresh(o), values |-> << >>], D, Carved(o))
  BY FreshPainting
<1>2. Arena = [nodes |-> Fresh(o), values |-> << >>]
  BY DEF Arena, Init
<1>3. \A a \in Addr : Table[a] = IF \E p \in Carved(o) : Covers(p, a) THEN ReservedView ELSE BlankView
  BY <1>1, <1>2, TableSees DEF Painting, Shows
<1>4. Table = [a \in Addr |-> IF \E p \in Carved(o) : Covers(p, a) THEN ReservedView ELSE BlankView]
  BY <1>3, TableSees DEF Table
<1> QED
  BY <1>4, InstanceNames DEF Promise!Init

LEMMA AnswerPromised ==
    ASSUME NEW o, NEW f \in [OptValue -> OptValue], NEW view,
           view \in {BlankView, ReservedView} \/ \E v \in Values : view = [kind |-> "Data", id |-> v]
    PROVE  /\ Answered(f, view) \in Promise(o)!Results(Relation(f), view)
           /\ view \in Promise(o)!Leaf /\ Answered(f, view) \in Promise(o)!Leaf
<1>1. Promise(o)!Leaf = {BlankView, ReservedView} \cup {[kind |-> "Data", id |-> i] : i \in Values}
  BY DEF Promise!Leaf, Promise!NoData, Promise!Reserved, Promise!Data, BlankView, ReservedView
<1>2. CASE view = ReservedView
  BY <1>1, <1>2 DEF Answered, ReservedView, Promise!Results, Promise!Reserved
<1>3. CASE view # ReservedView
  <2>1. view.kind # "Reserved" /\ view.id \in OptValue
    BY <1>3 DEF BlankView, OptValue
  <2>2. PICK x \in OptValue : x = f[view.id]
    BY <2>1
  <2>3. Relation(f)[view.id] = {x}
    BY <2>1, <2>2 DEF Relation
  <2>4. Answered(f, view) = IF x = None THEN BlankView ELSE [kind |-> "Data", id |-> x]
    BY <2>1, <2>2 DEF Answered, BlankView
  <2>5. Promise(o)!Results(Relation(f), view) = {Promise(o)!Stored(x)}
    BY <1>3, <2>3 DEF Promise!Results, Promise!Reserved, ReservedView
  <2>6. Promise(o)!Stored(x) = IF x = None THEN BlankView ELSE [kind |-> "Data", id |-> x]
    BY DEF Promise!Stored, Promise!NoData, Promise!Data, BlankView
  <2>7. x = None \/ x \in Values
    BY <2>2 DEF OptValue
  <2> QED
    BY <1>1, <2>4, <2>5, <2>6, <2>7
<1> QED
  BY <1>2, <1>3

LEMMA InsertPromised ==
    ASSUME NEW o, NEW D, Sound(Arena, D), NEW n, NEW f \in [OptValue -> OptValue],
           InsertedRightly(Arena, Arena', n, f)
    PROVE  Promise(o)!Insert(n, Relation(f))
<1>1. ASSUME NEW a \in Addr
      PROVE  /\ Table'[a] \in Promise(o)!Leaf
             /\ Covers(n, a) => Table'[a] \in Promise(o)!Results(Relation(f), Table[a])
             /\ ~Covers(n, a) => Table'[a] = Table[a]
  <2>1. PICK x, y : x = See(Arena, a) /\ y = See(Arena', a) /\ x = Table[a] /\ y = Table'[a]
    BY TableSees
  <2>2. x \in {BlankView, ReservedView} \/ \E v \in Values : x = [kind |-> "Data", id |-> v]
    BY <2>1, SeeLeaf
  <2>3. y = IF Covers(n, a) THEN Answered(f, x) ELSE x
    BY <2>1 DEF InsertedRightly
  <2>4. /\ Answered(f, x) \in Promise(o)!Results(Relation(f), x)
        /\ x \in Promise(o)!Leaf /\ Answered(f, x) \in Promise(o)!Leaf
    BY <2>2, AnswerPromised
  <2> QED
    BY <2>1, <2>3, <2>4
<1>2. Table' \in [Addr -> Promise(o)!Leaf]
  BY <1>1, TableSees DEF Table
<1> QED
  BY <1>1, <1>2, InstanceNames DEF Promise!Insert

(***************************************************************************)
(* Later inserts win: the table of the addresses starts with the reserved  *)
(* networks carved out, and each accepted call does to it what AddressMap  *)
(* says of an insert (insert_value and insert_with of writer.rs, on the    *)
(* tree that NetworkTree::insert walks).                                   *)
(***************************************************************************)
THEOREM LaterInsertsAlwaysWin == Spec => LaterInsertsWin
<1>1. Init => \A o \in OptionSets : options = o => Promise(o)!Init
  BY TableStarts
<1>2. IInv /\ [Next]_vars =>
          [\A o \in OptionSets, net \in InsertNets :
             options = o =>
                 /\ \A v \in Values : InsertValue(net, v) =>
                        Promise(o)!Insert(TreePrefix(net), Relation(Constantly(v)))
                 /\ \A f \in Closures : InsertWith(net, f) =>
                        Promise(o)!Insert(TreePrefix(net), Relation(f))]_vars
  <2> SUFFICES ASSUME IInv, NEW o \in OptionSets, NEW net \in InsertNets
               PROVE  /\ \A v \in Values : InsertValue(net, v) =>
                             Promise(o)!Insert(TreePrefix(net), Relation(Constantly(v)))
                      /\ \A f \in Closures : InsertWith(net, f) =>
                             Promise(o)!Insert(TreePrefix(net), Relation(f))
    OBVIOUS
  <2>1. PICK D : Sound(Arena, D)
    BY DEF IInv
  <2>2. ASSUME NEW v \in Values, InsertValue(net, v)
        PROVE  Promise(o)!Insert(TreePrefix(net), Relation(Constantly(v)))
    <3>1. Constantly(v) \in [OptValue -> OptValue]
      BY DEF Constantly, OptValue
    <3> QED
      BY <2>1, <2>2, <3>1, ValueStep, InsertPromised
  <2>3. ASSUME NEW f \in Closures, InsertWith(net, f)
        PROVE  Promise(o)!Insert(TreePrefix(net), Relation(f))
    <3>1. f \in [OptValue -> OptValue]
      BY WriterAssumption
    <3> QED
      BY <2>1, <2>3, <3>1, WithStep, InsertPromised
  <2> QED
    BY <2>2, <2>3
<1> QED
  BY <1>1, <1>2, ArenaIsTree, PTL DEF Spec, LaterInsertsWin

(* The networks of a range lie apart, so an address belongs to one of them at most. *)
LEMMA RangeFront ==
    ASSUME NEW range \in InsertRanges, NEW k \in 1 .. Len(range) + 1, NEW a \in Addr
    PROVE  a \in From(range, 1) \ From(range, k) <=> Reached(range, k - 1, a)
<1>1. /\ Len(range) \in Nat /\ DOMAIN range = 1 .. Len(range)
      /\ \A j \in 1 .. Len(range) : TreePrefix(range[j]) \in Network
  BY RangeNets, PrefixNetwork
<1>2. ASSUME NEW i \in 1 .. Len(range), NEW j \in 1 .. Len(range),
             Covers(TreePrefix(range[i]), a), Covers(TreePrefix(range[j]), a)
      PROVE  i = j
  <2>1. PICK p, q : p = TreePrefix(range[i]) /\ q = TreePrefix(range[j])
    OBVIOUS
  <2>2. Covers(p, q) \/ Covers(q, p)
    BY <1>1, <1>2, <2>1, NestedOrApart
  <2> QED
    BY <1>1, <2>1, <2>2, WriterAssumption
<1>3. ASSUME a \in From(range, 1), a \notin From(range, k) PROVE Reached(range, k - 1, a)
  <2>1. PICK j \in 1 .. Len(range) : Covers(TreePrefix(range[j]), a)
    BY <1>3 DEF From
  <2>2. j \notin k .. Len(range)
    BY <1>3, <2>1 DEF From
  <2>3. j \in 1 .. k - 1
    BY <1>1, <2>2
  <2> QED
    BY <2>1, <2>3 DEF Reached
<1>4. ASSUME Reached(range, k - 1, a) PROVE a \in From(range, 1) /\ a \notin From(range, k)
  <2>1. PICK j \in 1 .. k - 1 : Covers(TreePrefix(range[j]), a)
    BY <1>4 DEF Reached
  <2>2. j \in 1 .. Len(range) /\ j \notin k .. Len(range)
    BY <1>1
  <2>3. a \in From(range, 1)
    BY <2>1, <2>2 DEF From
  <2>4. ASSUME NEW i \in k .. Len(range), Covers(TreePrefix(range[i]), a) PROVE FALSE
    <3>1. i \in 1 .. Len(range)
      BY <1>1
    <3> QED
      BY <1>2, <2>1, <2>2, <2>4, <3>1
  <2> QED
    BY <2>3, <2>4 DEF From
<1> QED
  BY <1>3, <1>4

(***************************************************************************)
(* insert_range gives its value to what lies in front of the first network *)
(* that is refused, reserved space apart, and undoes nothing.              *)
(***************************************************************************)
THEOREM RangeAlwaysStops == Spec => RangeStopsAtRefusal
<1>1. IInv /\ [Next]_vars =>
          [\A range \in InsertRanges, v \in Values :
          InsertRange(range, v) =>
              LET stop == CHOOSE k \in 1 .. Len(range) + 1 :
                              /\ k = Len(range) + 1 \/ Outcome(options, range[k]) # "ok"
                              /\ \A j \in 1 .. k - 1 : Outcome(options, range[j]) = "ok"
                  done == From(range, 1) \ From(range, stop)
              IN  \A a \in Addr :
                      Table'[a] = IF a \in done /\ Table[a].kind # "Reserved"
                                  THEN [kind |-> "Data", id |-> v] ELSE Table[a]]_vars
  <2> SUFFICES ASSUME IInv, NEW range \in InsertRanges, NEW v \in Values, InsertRange(range, v),
                      NEW stop, NEW a \in Addr,
                      stop = CHOOSE k \in 1 .. Len(range) + 1 :
                              /\ k = Len(range) + 1 \/ Outcome(options, range[k]) # "ok"
                              /\ \A j \in 1 .. k - 1 : Outcome(options, range[j]) = "ok"
               PROVE  Table'[a] = IF a \in From(range, 1) \ From(range, stop) /\ Table[a].kind # "Reserved"
                                  THEN [kind |-> "Data", id |-> v] ELSE Table[a]
    OBVIOUS
  <2>1. PICK D : Sound(Arena, D)
    BY DEF IInv
  <2>2. PICK k \in 1 .. Len(range) + 1 :
            IsStop(range, k) /\ StoredRightly(Arena, Arena', range, k - 1, v)
    BY <2>1, RangeStep
  <2>3. stop = CHOOSE m \in 1 .. Len(range) + 1 : IsStop(range, m)
    BY DEF IsStop
  <2>4. stop \in 1 .. Len(range) + 1 /\ IsStop(range, stop)
    BY <2>2, <2>3
  <2>5. stop = k
    BY <2>2, <2>4, StopUnique
  <2>6. a \in From(range, 1) \ From(range, stop) <=> Reached(range, k - 1, a)
    BY <2>5, RangeFront
  <2>7. Table[a] = See(Arena, a) /\ Table'[a] = See(Arena', a)
    BY TableSees
  <2>8. See(Arena', a) = IF Reached(range, k - 1, a) /\ See(Arena, a).kind # "Reserved"
                         THEN [kind |-> "Data", id |-> v] ELSE See(Arena, a)
    BY <2>2 DEF StoredRightly
  <2> QED
    BY <2>6, <2>7, <2>8
<1> QED
  BY <1>1, ArenaIsTree, PTL DEF Spec, RangeStopsAtRefusal

-----------------------------------------------------------------------------
(***************************************************************************)
(* Merging leaves no pointer to a node without data.                       *)
(***************************************************************************)
Bare(ns, j) == \A c \in Bit : ns[j][c] = NoData

(* No record leads to a node that holds nothing, the nodes of X apart. *)
Busy(ns, X) ==
    \A i \in 1 .. Len(ns) : \A b \in Bit :
        IsPointer(ns[i][b]) =>
            ns[i][b].arg \in 1 .. Len(ns) /\ (ns[i][b].arg \in X \/ ~Bare(ns, ns[i][b].arg))

LEMMA BusyMore ==
    ASSUME NEW ns, NEW X, NEW Y, Busy(ns, X), X \subseteq Y
    PROVE  Busy(ns, Y)
BY DEF Busy

LEMMA BusyUpdated ==
    ASSUME NEW ns, NEW i \in 1 .. Len(ns), NEW b \in Bit, NEW r, ~IsPointer(r), NEW ms, Updated(ns, i, b, r, ms),
           NEW X, i \in X, Busy(ns, X)
    PROVE  Busy(ms, X)
<1> SUFFICES ASSUME NEW k \in 1 .. Len(ms), NEW c \in Bit, IsPointer(ms[k][c])
             PROVE  ms[k][c].arg \in 1 .. Len(ms) /\ (ms[k][c].arg \in X \/ ~Bare(ms, ms[k][c].arg))
  BY DEF Busy
<1>1. Len(ms) = Len(ns) /\ ms[k][c] = ns[k][c]
  BY DEF Updated
<1>2. PICK j : j = ns[k][c].arg
  OBVIOUS
<1>3. j \in 1 .. Len(ns) /\ (j \in X \/ ~Bare(ns, j))
  BY <1>1, <1>2 DEF Busy
<1>4. j # i => ms[j] = ns[j]
  BY <1>3 DEF Updated
<1>5. j = i \/ j \in X \/ ~Bare(ms, j)
  BY <1>3, <1>4 DEF Bare
<1> QED
  BY <1>1, <1>2, <1>3, <1>5

(* A node more, which the changed record may lead to. *)
LEMMA BusyLengthened ==
    ASSUME NEW ns, Len(ns) \in Nat, NEW i \in 1 .. Len(ns), NEW b \in Bit, NEW y, NEW x, ~IsPointer(x),
           NEW ms, Lengthened(ns, i, b, y, x, ms), NEW X, i \in X, Busy(ns, X), NEW Y, X \subseteq Y,
           ~IsPointer(y) \/ (y = Node(Len(ns) + 1) /\ Len(ns) + 1 \in Y)
    PROVE  Busy(ms, Y)
<1> SUFFICES ASSUME NEW k \in 1 .. Len(ms), NEW c \in Bit, IsPointer(ms[k][c])
             PROVE  ms[k][c].arg \in 1 .. Len(ms) /\ (ms[k][c].arg \in Y \/ ~Bare(ms, ms[k][c].arg))
  BY DEF Busy
<1>1. /\ Len(ms) = Len(ns) + 1 /\ \A d \in Bit : ms[Len(ns) + 1][d] = x
      /\ ms[i][b] = y
      /\ \A m \in 1 .. Len(ns) : \A d \in Bit : m # i \/ d # b => ms[m][d] = ns[m][d]
  BY DEF Lengthened
<1>2. k \in 1 .. Len(ns)
  BY <1>1
<1>3. CASE k = i /\ c = b
  <2>1. y = Node(Len(ns) + 1) /\ Len(ns) + 1 \in Y /\ ms[k][c] = y
    BY <1>1, <1>3
  <2>2. Node(Len(ns) + 1).arg = Len(ns) + 1
    BY Kinds
  <2> QED
    BY <1>1, <2>1, <2>2
<1>4. CASE k # i \/ c # b
  <2>1. ms[k][c] = ns[k][c]
    BY <1>1, <1>2, <1>4
  <2>2. PICK j : j = ns[k][c].arg
    OBVIOUS
  <2>3. j \in 1 .. Len(ns) /\ (j \in X \/ ~Bare(ns, j))
    BY <1>2, <2>1, <2>2 DEF Busy
  <2>4. j # i => \A d \in Bit : ms[j][d] = ns[j][d]
    BY <1>1, <2>3
  <2>5. j = i \/ j \in Y \/ ~Bare(ms, j)
    BY <2>3, <2>4 DEF Bare
  <2> QED
    BY <1>1, <2>1, <2>2, <2>3, <2>5
<1> QED
  BY <1>3, <1>4

LEMMA SoundPointer ==
    ASSUME NEW t, NEW D, Sound(t, D), NEW i \in 1 .. Len(t.nodes), NEW b \in Bit, IsPointer(t.nodes[i][b])
    PROVE  \E j \in 1 .. Len(t.nodes) : t.nodes[i][b] = Node(j)
<1>1. RecordSound(t, D, t.nodes[i][b], D[i] + 1)
  BY DEF Sound
<1>2. ~Still(t.nodes[i][b])
  BY StillIsLeaf
<1> QED
  BY <1>1, <1>2, SoundRecord

(* After the visit of node j its parent's record leads to it, and it is not bare, or holds its leaf. *)
LEMMA BusyMerge ==
    ASSUME NEW t, NEW D, Sound(t, D), NEW i \in 1 .. Len(t.nodes), NEW b \in Bit,
           NEW j \in 1 .. Len(t.nodes), t.nodes[i][b] = Node(j), NEW X, i \in X, Busy(t.nodes, X \cup {j}),
           NEW u, u = TryMerge(t, i, b, j)
    PROVE  Busy(u.nodes, X)
<1>1. PICK ns : ns = t.nodes
  OBVIOUS
<1>2. ns \in Seq([Bit -> Record]) /\ t = [nodes |-> ns, values |-> t.values] /\ 0 \in Bit /\ 1 \in Bit
      /\ \A k \in 1 .. Len(ns) : \A c \in Bit : ns[k][c] \in Record
  BY <1>1, SoundTypes DEF Bit
<1>3. CASE ~BothSame(ns[j])
  <2>1. u.nodes = ns
    BY <1>1, <1>3 DEF TryMerge
  <2>2. ~Bare(ns, j)
    BY <1>2, <1>3, Kinds DEF Bare, BothSame, IsLeaf
  <2> QED
    BY <1>1, <2>1, <2>2 DEF Busy
<1>4. CASE BothSame(ns[j])
  <2>1. PICK x \in Record : x = ns[j][0] /\ ~IsPointer(x)
    BY <1>1, <1>2, <1>4 DEF BothSame, IsLeaf, IsPointer
  <2>2. PICK ms : ms = Put(ns, i, b, x)
    OBVIOUS
  <2>3. u.nodes = ms
    <3>1. u = [t EXCEPT !.nodes = ms]
      BY <1>1, <1>4, <2>1, <2>2 DEF TryMerge
    <3>2. PICK vs : t = [nodes |-> ns, values |-> vs]
      BY <1>2
    <3> QED
      BY <3>1, <3>2
  <2>4. Updated(ns, i, b, x, ms)
    BY <1>1, <1>2, <2>1, <2>2, PutRecord
  <2>5. Busy(ms, X \cup {j})
    BY <1>1, <2>1, <2>4, BusyUpdated
  <2>6. ASSUME NEW k \in 1 .. Len(ms), NEW c \in Bit, IsPointer(ms[k][c]) PROVE ms[k][c].arg # j
    <3>1. Len(ms) = Len(ns) /\ (k # i \/ c # b) /\ ms[k][c] = ns[k][c]
      BY <2>1, <2>4, <2>6 DEF Updated
    <3>2. PICK m \in 1 .. Len(ns) : ns[k][c] = Node(m)
      BY <1>1, <2>6, <3>1, SoundPointer
    <3>3. m # j
      BY <1>1, <3>1, <3>2, Kinds DEF Sound, Separate
    <3> QED
      BY <3>1, <3>2, <3>3, Kinds
  <2> QED
    BY <2>3, <2>5, <2>6 DEF Busy
<1> QED
  BY <1>3, <1>4

(* A visit of node i leaves no pointer to a bare node but those there were. *)
StaysBusy(t, i, u) == \A X : i \in X /\ Busy(t.nodes, X) => Busy(u.nodes, X)

(* So does each visit at depth d of an insert of network n. *)
BusyVisits(below, d, n) ==
    \A t, D : Sound(t, D) =>
        \A i \in 1 .. Len(t.nodes) :
            D[i] = d /\ d < Depth /\ OnPath(t, D, i, n) => StaysBusy(t, i, below[t][i])

LEMMA BusyPointer ==
    ASSUME NEW t, NEW D, Sound(t, D), NEW i \in 1 .. Len(t.nodes), NEW b \in Bit,
           NEW j \in 1 .. Len(t.nodes), t.nodes[i][b] = Node(j),
           NEW n \in Network, NEW f, OnPath(t, D, i, n), Onto(n, D[i] + 1, b),
           NEW below, Visits(below, D[i] + 1, n, f), BusyVisits(below, D[i] + 1, n),
           NEW u, u = TryMerge(below[t][j], i, b, j),
           NEW X, i \in X, Busy(t.nodes, X \cup {j})
    PROVE  Busy(u.nodes, X)
<1>1. \A a \in Addr : D[j] = D[i] + 1 /\ D[j] < Depth /\ (Through(t, D, j, a) <=> Meets(t, D, i, b, a))
  BY ChildThrough
<1>2. D[j] = D[i] + 1 /\ D[j] < Depth
  <2>1. [k \in 1 .. Depth |-> 0] \in Addr
    BY DEF Addr, Bit
  <2> QED
    BY <1>1, <2>1
<1>3. OnPath(t, D, j, n)
  BY OnPathDown
<1>4. PICK w : w = below[t][j]
  OBVIOUS
<1>5. NodeVisited(t, D, j, n, f, w)
  BY <1>2, <1>3, <1>4 DEF Visits
<1>6. PICK F : Evolved(t, D, w, F, D[j])
  BY <1>5 DEF NodeVisited
<1>7. D[i] \in Nat /\ D[j] \in Nat /\ D[i] < D[j]
  BY <1>2, SoundTypes
<1>8. Sound(w, F) /\ j \in 1 .. Len(w.nodes) /\ i \in 1 .. Len(w.nodes) /\ w.nodes[i][b] = Node(j)
  <2>1. Sound(w, F) /\ j \in 1 .. Len(w.nodes)
    BY <1>6, LaterNode DEF Remains
  <2>2. w.nodes[i] = t.nodes[i]
    BY <1>6, <1>7 DEF Evolved, Kept
  <2>3. i \in 1 .. Len(w.nodes)
    BY <1>6, <2>1, SoundTypes DEF Evolved, Grown
  <2> QED
    BY <2>1, <2>2, <2>3
<1>9. StaysBusy(t, j, w)
  BY <1>2, <1>3, <1>4 DEF BusyVisits
<1>10. Busy(w.nodes, X \cup {j})
  BY <1>9 DEF StaysBusy
<1> QED
  BY <1>4, <1>8, <1>10, BusyMerge

LEMMA BusyAsk ==
    ASSUME NEW t, NEW D, Sound(t, D), NEW i \in 1 .. Len(t.nodes), NEW b \in Bit,
           Open(t, t.nodes[i][b]), NEW f \in [OptValue -> OptValue],
           NEW u, u = AskLeaf(t, i, b, f), NEW X, i \in X, Busy(t.nodes, X)
    PROVE  Busy(u.nodes, X)
<1>1. PICK v : v = f[ValueAt(t.values, t.nodes[i][b])]
  OBVIOUS
<1>2. v \in OptValue
  BY <1>1, OpenLeaf
<1>3. PICK r, vs : r = AnswerLeaf(t, v) /\ vs = AnswerPool(t, v)
  OBVIOUS
<1>4. Extended(t.values, vs) /\ (r = NoData \/ \E id \in 1 .. Len(vs) : r = Data(id))
  BY <1>2, <1>3, AnswerStored
<1>5. Len(vs) \in Nat
  BY <1>4, LenProperties DEF Extended
<1>6. r \in Record /\ ~IsPointer(r)
  BY <1>4, <1>5, Kinds DEF IsPointer
<1>7. PICK ms : ms = Put(t.nodes, i, b, r)
  OBVIOUS
<1>8. u = [nodes |-> ms, values |-> vs]
  BY <1>1, <1>3, <1>7, AskedLeaf
<1>9. Updated(t.nodes, i, b, r, ms)
  BY <1>6, <1>7, SoundTypes, PutRecord
<1> QED
  BY <1>6, <1>8, <1>9, BusyUpdated

(* What a visit takes for granted one level deeper. *)
Further(below, d, n, f) == d < Depth => Visits(below, d, n, f) /\ BusyVisits(below, d, n)

(* At the last bit of a host route, the visit below goes to the node that a split adds there. *)
HostWay(below, t, i, b, d, n, f) ==
    d = Depth /\ Len(n) = Depth /\ Open(t, t.nodes[i][b]) => HostBelow(below, t, i, b, f)

LEMMA BusyRecord ==
    ASSUME NEW t, NEW D, Sound(t, D), NEW i \in 1 .. Len(t.nodes), NEW b \in Bit, D[i] < Depth,
           NEW n \in Network, NEW f \in [OptValue -> OptValue],
           OnPath(t, D, i, n), Onto(n, D[i] + 1, b),
           NEW below, Further(below, D[i] + 1, n, f),
           HostWay(below, t, i, b, D[i] + 1, n, f),
           NEW u, u = InsertAtRecord(below, t, i, b, D[i] + 1, n, f)
    PROVE  StaysBusy(t, i, u)
<1> SUFFICES ASSUME NEW X, i \in X, Busy(t.nodes, X) PROVE Busy(u.nodes, X)
  BY DEF StaysBusy
<1>0. D[i] \in Nat /\ Depth \in Nat /\ Len(t.nodes) \in Nat
  BY SoundTypes, DepthAssumption
<1>1. PICK r, d, j : r = t.nodes[i][b] /\ d = D[i] + 1 /\ j = NewIndex(t.nodes)
  OBVIOUS
<1>2. RecordSound(t, D, r, d)
  BY <1>1 DEF Sound
<1>3. Len(n) \in 0 .. Depth
  BY NetworkBits
<1>4. CASE \E x \in 1 .. Len(t.nodes) : r = Node(x) /\ d < Depth
  <2>1. PICK x \in 1 .. Len(t.nodes) : r = Node(x) /\ d < Depth
    BY <1>4
  <2>2. u = TryMerge(below[t][x], i, b, x)
    BY <1>1, <2>1, Kinds DEF InsertAtRecord
  <2>3. Visits(below, D[i] + 1, n, f) /\ BusyVisits(below, D[i] + 1, n) /\ t.nodes[i][b] = Node(x)
    BY <1>1, <2>1 DEF Further
  <2>4. Busy(t.nodes, X \cup {x})
    BY BusyMore
  <2> QED
    BY <2>2, <2>3, <2>4, BusyPointer
<1>5. CASE r = Reserved
  <2>1. u = t
    BY <1>1, <1>5, Kinds DEF InsertAtRecord, Skipped
  <2> QED
    BY <2>1
<1>6. CASE Open(t, r)
  <2>0. ~Skipped(r) /\ r.kind # "Node" /\ r.kind # "FixedNode"
    BY <1>6, OpenLeaf
  <2>1. CASE d > Len(n)
    <3>1. u = AskLeaf(t, i, b, f)
      BY <1>1, <2>0, <2>1 DEF InsertAtRecord
    <3> QED
      BY <1>1, <1>6, <3>1, BusyAsk
  <2>2. CASE ~(d > Len(n))
    <3>0. u = TryMerge(below[SplitLeaf(t, i, b)][j], i, b, j)
      BY <1>1, <2>0, <2>2 DEF InsertAtRecord
    <3>1. CASE d = Depth
      <4>1. Len(n) = Depth
        BY <1>0, <1>1, <1>3, <2>2, <3>1
      <4>2. HostBelow(below, t, i, b, f)
        BY <1>1, <1>6, <3>1, <4>1 DEF HostWay
      <4>3. u = HostStored(t, i, b, f)
        BY <1>1, <3>0, <4>2 DEF HostBelow, HostStored
      <4>4. PICK x \in Record : ~IsPointer(x) /\ Lengthened(t.nodes, i, b, x, x, u.nodes)
        BY <1>1, <1>6, <3>1, <4>3, HostStep
      <4> QED
        BY <1>0, <4>4, BusyLengthened
    <3>2. CASE d < Depth
      <4>1. PICK w, F : w = SplitLeaf(t, i, b) /\ F = Deeper(t, D, D[i] + 1)
        OBVIOUS
      <4>2. /\ Evolved(t, D, w, F, D[i])
            /\ w.nodes[i][b] = Node(j) /\ j \in 1 .. Len(w.nodes) /\ i \in 1 .. Len(w.nodes)
        <5>1. D[i] + 1 < Depth /\ Open(t, t.nodes[i][b])
          BY <1>1, <1>6, <3>2
        <5> QED
          BY <1>1, <4>1, <5>1, SplitStep
      <4>3. Sound(w, F) /\ F[i] = D[i] /\ \A a \in Addr : Through(w, F, i, a) <=> Through(t, D, i, a)
        <5>1. Sound(w, F) /\ Remains(t, D, w, F, i)
          BY <4>2, LaterNode
        <5> QED
          BY <5>1 DEF Remains
      <4>4. OnPath(w, F, i, n)
        BY <4>3 DEF OnPath
      <4>5. Onto(n, F[i] + 1, b) /\ Visits(below, F[i] + 1, n, f) /\ BusyVisits(below, F[i] + 1, n)
        BY <1>1, <3>2, <4>3 DEF Further
      <4>6. u = TryMerge(below[w][j], i, b, j)
        BY <3>0, <4>1
      <4>7. Busy(w.nodes, X \cup {j})
        <5>1. PICK ns, ms : ns = t.nodes /\ ms = Append(Put(ns, i, b, Node(j)), [c \in Bit |-> r])
          OBVIOUS
        <5>2. w.nodes = ms
          <6>1. w = [t EXCEPT !.nodes = ms]
            BY <1>1, <4>1, <5>1 DEF SplitLeaf
          <6>2. PICK vs : t = [nodes |-> ns, values |-> vs]
            BY <5>1, SoundTypes
          <6> QED
            BY <6>1, <6>2
        <5>3. r \in Record /\ ~IsPointer(r) /\ j = Len(ns) + 1 /\ ns \in Seq([Bit -> Record])
          BY <1>1, <1>6, <5>1, OpenLeaf, SoundTypes DEF NewIndex
        <5>4. PICK y \in Record : y = Node(j)
          BY <1>0, <5>1, <5>3, Kinds
        <5>5. Lengthened(ns, i, b, y, r, ms)
          BY <5>1, <5>3, <5>4, SplitNodes
        <5>6. Busy(ms, X \cup {j})
          <6>1. PICK Y : Y = X \cup {j}
            OBVIOUS
          <6>2. /\ X \subseteq Y /\ (~IsPointer(y) \/ (y = Node(Len(ns) + 1) /\ Len(ns) + 1 \in Y))
                /\ Len(ns) \in Nat /\ i \in 1 .. Len(ns) /\ Busy(ns, X)
            BY <1>0, <5>1, <5>3, <5>4, <6>1
          <6>3. Busy(ms, Y)
            BY Zenon, <5>3, <5>5, <6>2, BusyLengthened
          <6> QED
            BY <6>1, <6>3
        <5> QED
          BY <5>2, <5>6
      <4> QED
        BY <4>2, <4>3, <4>4, <4>5, <4>6, <4>7, BusyPointer
    <3> QED
      BY <1>0, <1>1, <3>1, <3>2
  <2> QED
    BY <2>1, <2>2
<1> QED
  BY <1>2, <1>4, <1>5, <1>6 DEF RecordSound, Open

LEMMA BusyNode ==
    ASSUME NEW t, NEW D, Sound(t, D), NEW i \in 1 .. Len(t.nodes), D[i] < Depth,
           NEW n \in Network, NEW f \in [OptValue -> OptValue], OnPath(t, D, i, n),
           NEW below, Further(below, D[i] + 1, n, f),
           \A b \in Bit : HostWay(below, t, i, b, D[i] + 1, n, f),
           NEW u, u = InsertAtNode(below, D[i] + 1, n, f)[t][i]
    PROVE  StaysBusy(t, i, u)
<1> SUFFICES ASSUME NEW X, i \in X, Busy(t.nodes, X) PROVE Busy(u.nodes, X)
  BY DEF StaysBusy
<1>0. D[i] \in Nat /\ Depth \in Nat /\ t \in Trees /\ i \in Nat /\ D[i] + 1 \in 1 .. Depth
  BY SoundTypes, DepthAssumption DEF Sound
<1>1. PICK d : d = D[i] + 1
  OBVIOUS
<1>2. Len(n) \in 0 .. Depth /\ \A k \in 1 .. Len(n) : n[k] \in Bit
  BY NetworkBits
<1>3. u = IF d > Len(n)
          THEN InsertAtRecord(below, InsertAtRecord(below, t, i, 0, d, n, f), i, 1, d, n, f)
          ELSE InsertAtRecord(below, t, i, n[d], d, n, f)
  BY <1>0, <1>1 DEF InsertAtNode
<1>4. CASE ~(d > Len(n))
  <2>1. PICK b \in Bit : b = n[d]
    BY <1>0, <1>1, <1>2, <1>4
  <2>2. u = InsertAtRecord(below, t, i, b, D[i] + 1, n, f) /\ Onto(n, D[i] + 1, b)
    BY <1>1, <1>3, <1>4, <2>1 DEF Onto
  <2>3. StaysBusy(t, i, u)
    BY <2>2, BusyRecord
  <2> QED
    BY <2>3 DEF StaysBusy
<1>5. CASE d > Len(n)
  <2>1. PICK l, m : l = 0 /\ m = 1 /\ l \in Bit /\ m \in Bit
    BY DEF Bit
  <2>2. \A b : Onto(n, D[i] + 1, b)
    BY <1>0, <1>1, <1>2, <1>5 DEF Onto
  <2>3. ~(D[i] + 1 = Depth /\ Len(n) = Depth)
    BY <1>0, <1>1, <1>2, <1>5
  <2>4. PICK w : w = InsertAtRecord(below, t, i, l, D[i] + 1, n, f)
    OBVIOUS
  <2>5. u = InsertAtRecord(below, w, i, m, D[i] + 1, n, f)
    BY <1>1, <1>3, <1>5, <2>1, <2>4
  <2>6. Busy(w.nodes, X)
    <3>1. Onto(n, D[i] + 1, l) /\ l \in Bit /\ HostWay(below, t, i, l, D[i] + 1, n, f)
      BY <2>1, <2>2
    <3>2. StaysBusy(t, i, w)
      BY <2>4, <3>1, BusyRecord
    <3> QED
      BY <3>2 DEF StaysBusy
  <2>7. PICK F : Evolved(t, D, w, F, D[i])
    <3>1. D[i] + 1 = Depth /\ Len(n) = Depth /\ Open(t, t.nodes[i][l]) => HostBelow(below, t, i, l, f)
      BY <2>3
    <3>2. Onto(n, D[i] + 1, l) /\ l \in Bit /\ (D[i] + 1 < Depth => Visits(below, D[i] + 1, n, f))
      BY <2>1, <2>2 DEF Further
    <3>3. RecordVisited(t, D, i, l, n, f, w)
      BY <2>4, <3>1, <3>2, RecordVisit
    <3> QED
      BY <3>3 DEF RecordVisited
  <2>8. Sound(w, F) /\ i \in 1 .. Len(w.nodes) /\ F[i] = D[i] /\ OnPath(w, F, i, n)
    <3>1. Sound(w, F) /\ Remains(t, D, w, F, i)
      BY <2>7, LaterNode
    <3> QED
      BY <3>1 DEF Remains, OnPath
  <2>9. /\ F[i] < Depth /\ Onto(n, F[i] + 1, m)
        /\ Further(below, F[i] + 1, n, f)
        /\ HostWay(below, w, i, m, F[i] + 1, n, f)
        /\ u = InsertAtRecord(below, w, i, m, F[i] + 1, n, f)
    BY <2>2, <2>3, <2>5, <2>8 DEF HostWay
  <2>10. StaysBusy(w, i, u)
    BY <2>1, <2>8, <2>9, BusyRecord
  <2> QED
    BY <2>6, <2>10 DEF StaysBusy
<1> QED
  BY <1>4, <1>5

LEMMA VisitsBusily ==
    ASSUME NEW n \in Network, NEW f \in [OptValue -> OptValue]
    PROVE  \A l \in 2 .. Depth + 1 : BusyVisits(Inserting(n, f)[l], Depth + 1 - l, n)
<1> DEFINE S == {l \in Nat : l \in 2 .. Depth + 1 => BusyVisits(Inserting(n, f)[l], Depth + 1 - l, n)}
<1>0. Depth \in Nat \ {0}
  BY DepthAssumption
<1>1. 0 \in S
  OBVIOUS
<1>2. ASSUME NEW l \in Nat, l \in S PROVE l + 1 \in S
  <2>0. l \in 2 .. Depth + 1 => BusyVisits(Inserting(n, f)[l], Depth + 1 - l, n)
    BY <1>2
  <2> SUFFICES ASSUME l + 1 \in 2 .. Depth + 1
               PROVE  BusyVisits(Inserting(n, f)[l + 1], Depth + 1 - (l + 1), n)
    OBVIOUS
  <2>1. PICK at, below, d : at = Inserting(n, f)[l + 1] /\ below = Inserting(n, f)[l] /\ d = Depth - l
    OBVIOUS
  <2>2. d \in Nat /\ Depth + 1 - (l + 1) = d /\ Depth + 2 - (l + 1) = d + 1 /\ Depth + 1 - l = d + 1
        /\ (l + 1) - 1 = l /\ d < Depth
    BY <1>0, <2>1
  <2>3. at = InsertAtNode(below, d + 1, n, f)
    <3>1. PICK m \in 1 .. Depth + 1 : m = l + 1
      OBVIOUS
    <3>2. Inserting(n, f)[m] = InsertAtNode(Inserting(n, f)[m - 1], Depth + 2 - m, n, f)
      BY InsertingDef
    <3> QED
      BY <2>1, <2>2, <3>1, <3>2
  <2>4. Further(below, d + 1, n, f)
    <3> SUFFICES ASSUME d + 1 < Depth PROVE Visits(below, d + 1, n, f) /\ BusyVisits(below, d + 1, n)
      BY DEF Further
    <3>1. l \in 2 .. Depth + 1
      BY <1>0, <2>1
    <3>2. Visits(Inserting(n, f)[l], Depth + 1 - l, n, f)
      BY <3>1, VisitsRightly
    <3> QED
      BY <2>0, <2>1, <2>2, <3>1, <3>2
  <2>5. ASSUME NEW t, NEW D, Sound(t, D), NEW i \in 1 .. Len(t.nodes), D[i] = d, OnPath(t, D, i, n)
        PROVE  StaysBusy(t, i, at[t][i])
    <3>1. \A b \in Bit : HostWay(below, t, i, b, D[i] + 1, n, f)
      <4> SUFFICES ASSUME d + 1 = Depth, Len(n) = Depth, NEW b \in Bit, Open(t, t.nodes[i][b])
                   PROVE  HostBelow(below, t, i, b, f)
        BY <2>5 DEF HostWay
      <4>1. l = 1
        BY <1>0, <2>1
      <4>2. below = Inserting(n, f)[1]
        BY <2>1, <4>1
      <4>3. HostBelow(Inserting(n, f)[1], t, i, b, f)
        BY <2>5, HostLevel
      <4> QED
        BY <4>2, <4>3
    <3>2. PICK u : u = at[t][i]
      OBVIOUS
    <3>3. u = InsertAtNode(below, D[i] + 1, n, f)[t][i]
      BY <2>3, <2>5, <3>2
    <3>4. StaysBusy(t, i, u)
      BY <2>2, <2>4, <2>5, <3>1, <3>3, BusyNode
    <3> QED
      BY <3>2, <3>4
  <2> QED
    BY <2>1, <2>2, <2>5 DEF BusyVisits
<1> HIDE DEF S
<1>3. \A l \in Nat : l \in S
  BY <1>1, <1>2, Induction
<1>4. \A l \in 2 .. Depth + 1 : l \in Nat
  BY <1>0
<1> QED
  BY <1>3, <1>4 DEF S

(* The root is visited last, and no record leads to it. *)
LEMMA InsertBusy ==
    ASSUME NEW t, NEW D, Sound(t, D), Busy(t.nodes, {}), NEW n \in Network, NEW f \in [OptValue -> OptValue],
           NEW u, u = TreeInserted(t.nodes, t.values, n, f)
    PROVE  Busy(u.nodes, {})
<1>0. Depth \in Nat \ {0} /\ D[1] = 0 /\ 1 \in 1 .. Len(t.nodes) /\ t = [nodes |-> t.nodes, values |-> t.values]
  BY DepthAssumption, SoundTypes DEF Sound
<1>1. PICK at : at = Inserting(n, f)[Depth + 1]
  OBVIOUS
<1>2. u = at[t][1]
  BY <1>0, <1>1 DEF TreeInserted
<1>3. BusyVisits(at, 0, n) /\ Visits(at, 0, n, f)
  <2>1. Depth + 1 \in 2 .. Depth + 1 /\ Depth + 1 - (Depth + 1) = 0
    BY <1>0
  <2>2. /\ BusyVisits(Inserting(n, f)[Depth + 1], Depth + 1 - (Depth + 1), n)
        /\ Visits(Inserting(n, f)[Depth + 1], Depth + 1 - (Depth + 1), n, f)
    BY <2>1, VisitsBusily, VisitsRightly
  <2> QED
    BY <1>1, <2>1, <2>2
<1>4. OnPath(t, D, 1, n)
  BY <1>0, NetworkBits DEF OnPath
<1>5. StaysBusy(t, 1, u)
  BY <1>0, <1>2, <1>3, <1>4 DEF BusyVisits
<1>6. Busy(u.nodes, {1})
  <2>1. Busy(t.nodes, {1})
    BY BusyMore
  <2> QED
    BY <1>5, <2>1 DEF StaysBusy
<1>7. NodeVisited(t, D, 1, n, f, u)
  BY <1>0, <1>2, <1>3, <1>4 DEF Visits
<1>8. PICK E : Sound(u, E)
  BY <1>7 DEF NodeVisited, Evolved
<1>9. ASSUME NEW i \in 1 .. Len(u.nodes), NEW b \in Bit, IsPointer(u.nodes[i][b])
      PROVE  u.nodes[i][b].arg # 1
  <2>1. PICK r : r = u.nodes[i][b]
    OBVIOUS
  <2>2. RecordSound(u, E, r, E[i] + 1) /\ ~Still(r)
    BY <1>8, <1>9, <2>1, StillIsLeaf DEF Sound
  <2>3. PICK j \in 1 .. Len(u.nodes) : r = Node(j) /\ E[j] = E[i] + 1
    BY <2>2, SoundRecord
  <2>4. E[1] = 0 /\ E[i] \in Nat
    BY <1>8, SoundTypes DEF Sound
  <2>5. j # 1
    BY <2>3, <2>4
  <2> QED
    BY <2>1, <2>3, <2>5, Kinds
<1> QED
  BY <1>6, <1>9 DEF Busy

(* A painted tree: every node leads to a marker. *)
LEMMA PaintingBusy ==
    ASSUME NEW t, NEW D, NEW Q, Painting(t, D, Q)
    PROVE  Busy(t.nodes, {})
<1>0. Sound(t, D) /\ D[1] = 0 /\ Len(t.nodes) \in Nat
  BY SoundTypes DEF Painting, Sound
<1> SUFFICES ASSUME NEW i \in 1 .. Len(t.nodes), NEW b \in Bit, IsPointer(t.nodes[i][b])
             PROVE  t.nodes[i][b].arg \in 1 .. Len(t.nodes) /\ ~Bare(t.nodes, t.nodes[i][b].arg)
  BY DEF Busy
<1>1. PICK r : r = t.nodes[i][b]
  OBVIOUS
<1>2. RecordSound(t, D, r, D[i] + 1) /\ ~Still(r)
  BY <1>0, <1>1, StillIsLeaf DEF Sound
<1>3. PICK j \in 1 .. Len(t.nodes) : r = Node(j) /\ D[j] = D[i] + 1 /\ D[j] < Depth
  BY <1>2, SoundRecord
<1>4. j \in 2 .. Len(t.nodes)
  <2>1. D[i] \in Nat
    BY <1>0, SoundTypes
  <2>2. j # 1
    BY <1>0, <1>3, <2>1
  <2> QED
    BY <1>0, <2>2
<1>5. PICK a \in Addr : Through(t, D, j, a) /\ See(t, a).kind = "Reserved"
  BY <1>4 DEF Painting, Used
<1>6. ~Bare(t.nodes, j)
  <2> SUFFICES ASSUME Bare(t.nodes, j) PROVE FALSE
    OBVIOUS
  <2>1. t.nodes[j][0] = NoData /\ t.nodes[j][1] = NoData
    BY DEF Bare, Bit
  <2>2. BothSame(t.nodes[j])
    BY <2>1, Kinds DEF BothSame, IsLeaf
  <2>3. RecordAt(t.nodes, a) = NoData
    BY <1>0, <1>3, <1>5, <2>1, <2>2, SameLeaves
  <2> QED
    BY <1>5, <2>3, Kinds DEF See, View
<1>7. r.arg = j
  BY <1>3, Kinds
<1> QED
  BY <1>1, <1>6, <1>7

(* A tree that merged whatever it could. *)
Tended(t) == (\E D : Sound(t, D)) /\ Busy(t.nodes, {})

LEMMA InsertTended ==
    ASSUME NEW t, Tended(t), NEW n \in Network, NEW f \in [OptValue -> OptValue]
    PROVE  Tended(TreeInserted(t.nodes, t.values, n, f))
<1>1. PICK D : Sound(t, D) /\ Busy(t.nodes, {})
  BY DEF Tended
<1>2. PICK u : u = TreeInserted(t.nodes, t.values, n, f)
  OBVIOUS
<1>3. InsertedRightly(t, u, n, f)
  BY <1>1, <1>2, InsertSound
<1>4. Busy(u.nodes, {})
  BY <1>1, <1>2, InsertBusy
<1> QED
  BY <1>2, <1>3, <1>4 DEF Tended, InsertedRightly

LEMMA StoreTended ==
    ASSUME NEW t, Tended(t), NEW net \in IpNet, NEW v \in Values
    PROVE  Tended(ValueStored(t, net, v))
<1>1. PICK D : Sound(t, D) /\ Busy(t.nodes, {})
  BY DEF Tended
<1>2. PICK q, f : q = TreePrefix(net) /\ f = Constantly(v)
  OBVIOUS
<1>3. PICK w, u : /\ w = [nodes |-> t.nodes, values |-> Intern(t.values, v)]
                  /\ u = TreeInserted(w.nodes, w.values, q, f)
  OBVIOUS
<1>4. Tended(w)
  <2>1. Sound(w, D)
    BY <1>1, <1>3, InternSound
  <2>2. w.nodes = t.nodes
    BY <1>3
  <2> QED
    BY <1>1, <2>1, <2>2 DEF Tended
<1>5. q \in Network /\ f \in [OptValue -> OptValue]
  BY <1>2, PrefixNetwork DEF Constantly, OptValue
<1>6. Tended(u)
  BY <1>3, <1>4, <1>5, InsertTended
<1>7. ValueStored(t, net, v) = u
  BY <1>2, <1>3 DEF ValueStored, Constantly
<1> QED
  BY <1>6, <1>7

LEMMA StoresTended ==
    ASSUME NEW t, Tended(t), NEW nets, Len(nets) \in Nat,
           \A j \in 1 .. Len(nets) : nets[j] \in IpNet, NEW v \in Values
    PROVE  Tended(Stores(t, nets, v)[Len(nets)])
<1>1. PICK f : f = Stores(t, nets, v)
  OBVIOUS
<1>2. f[0] = t /\ \A k \in 0 .. Len(nets) - 1 : f[k + 1] = ValueStored(f[k], nets[k + 1], v)
  BY <1>1, StoresDef
<1> DEFINE S == {k \in Nat : k <= Len(nets) => Tended(f[k])}
<1>3. 0 \in S
  BY <1>2
<1>4. ASSUME NEW k \in Nat, k \in S PROVE k + 1 \in S
  <2> SUFFICES ASSUME k + 1 <= Len(nets) PROVE Tended(f[k + 1])
    OBVIOUS
  <2>1. Tended(f[k]) /\ k \in 0 .. Len(nets) - 1 /\ nets[k + 1] \in IpNet
    BY <1>4
  <2>2. Tended(ValueStored(f[k], nets[k + 1], v))
    BY <2>1, StoreTended
  <2>3. f[k + 1] = ValueStored(f[k], nets[k + 1], v)
    BY <1>2, <2>1
  <2> HIDE DEF S
  <2> QED
    BY <2>2, <2>3
<1> HIDE DEF S
<1>5. Len(nets) \in S
  BY <1>3, <1>4, Induction
<1> QED
  BY <1>1, <1>5 DEF S

-----------------------------------------------------------------------------
(***************************************************************************)
(* What the aliases need of the writer's tree.                             *)
(***************************************************************************)

(* Nothing is reserved but the networks that the builder painted. *)
OnlyCarved ==
    \A a \in Addr : See(Arena, a).kind = "Reserved" => \E q \in Carved(options) : Covers(q, a)

(* The arena merged whatever it could, and nothing but the builder reserved anything. *)
TendedInv == IInv /\ Tended(Arena) /\ OnlyCarved

LEMMA InitTended == Init => TendedInv
<1> SUFFICES ASSUME Init PROVE TendedInv
  OBVIOUS
<1>1. PICK t : t = [nodes |-> Fresh(options), values |-> << >>]
  OBVIOUS
<1>2. PICK D : Painting(t, D, Carved(options))
  BY <1>1, FreshPainting
<1>3. Arena = t
  BY <1>1 DEF Arena, Init
<1>4. Tended(t)
  BY <1>2, PaintingBusy DEF Tended, Painting
<1>5. ASSUME NEW a \in Addr, See(t, a).kind = "Reserved" PROVE \E q \in Carved(options) : Covers(q, a)
  BY <1>2, <1>5 DEF Painting, Shows, BlankView
<1> QED
  BY <1>3, <1>4, <1>5, InitInv DEF TendedInv, OnlyCarved

LEMMA BecomeTended ==
    ASSUME NEW t, Tended(t), Become(t)
    PROVE  Tended(Arena')
BY BecomeArena DEF Tended

LEMMA StepTended == TendedInv /\ [Next]_vars => TendedInv'
<1> SUFFICES ASSUME TendedInv, [Next]_vars PROVE TendedInv'
  OBVIOUS
<1>0. IInv' /\ IInv
  BY StepInv DEF TendedInv
<1>1. PICK D : Sound(Arena, D)
  BY <1>0 DEF IInv
<1>2. Arena.nodes = nodes /\ Arena.values = values /\ Tended(Arena)
  BY DEF Arena, TendedInv
<1> DEFINE Fewer == \A a \in Addr : See(Arena', a).kind = "Reserved" => See(Arena, a).kind = "Reserved"
           Kept2 == Tended(Arena') /\ Fewer
<1>3. ASSUME NEW n, NEW f, InsertedRightly(Arena, Arena', n, f) PROVE Fewer
  <2> SUFFICES ASSUME NEW a \in Addr, See(Arena', a).kind = "Reserved" PROVE See(Arena, a).kind = "Reserved"
    OBVIOUS
  <2>1. See(Arena', a) = IF Covers(n, a) THEN Answered(f, See(Arena, a)) ELSE See(Arena, a)
    BY <1>3 DEF InsertedRightly
  <2> QED
    BY <2>1 DEF Answered
<1>4. ASSUME NEW range, NEW k, NEW v, StoredRightly(Arena, Arena', range, k, v) PROVE Fewer
  <2> SUFFICES ASSUME NEW a \in Addr, See(Arena', a).kind = "Reserved" PROVE See(Arena, a).kind = "Reserved"
    OBVIOUS
  <2>1. See(Arena', a) = IF Reached(range, k, a) /\ See(Arena, a).kind # "Reserved"
                         THEN [kind |-> "Data", id |-> v] ELSE See(Arena, a)
    BY <1>4 DEF StoredRightly
  <2> QED
    BY <2>1
<1>5. ASSUME NEW net \in InsertNets, NEW v \in Values, InsertValue(net, v) PROVE Kept2
  <2>1. Fewer
    <3> HIDE DEF Fewer
    <3> QED
      BY <1>1, <1>3, <1>5, ValueStep
  <2>2. Tended(ValueStored(Arena, net, v))
    BY <1>2, WriterAssumption, StoreTended
  <2>3. Become(ValueStored(Arena, net, v))
    BY <1>5 DEF InsertValue, Arena
  <2> QED
    BY <2>1, <2>2, <2>3, BecomeTended
<1>6. ASSUME NEW net \in InsertNets, NEW f \in Closures, InsertWith(net, f) PROVE Kept2
  <2>1. Fewer
    <3> HIDE DEF Fewer
    <3> QED
      BY <1>1, <1>3, <1>6, WithStep
  <2>2. f \in [OptValue -> OptValue] /\ TreePrefix(net) \in Network
    BY WriterAssumption, PrefixNetwork
  <2>3. Tended(TreeInserted(nodes, values, TreePrefix(net), f))
    <3>1. PICK t : t = Arena /\ t.nodes = nodes /\ t.values = values
      BY <1>2
    <3>2. Tended(TreeInserted(t.nodes, t.values, TreePrefix(net), f))
      BY <1>2, <2>2, <3>1, InsertTended
    <3> QED
      BY <3>1, <3>2
  <2>4. Become(TreeInserted(nodes, values, TreePrefix(net), f))
    BY <1>6 DEF InsertWith
  <2> QED
    BY <2>1, <2>3, <2>4, BecomeTended
<1>7. ASSUME NEW range \in InsertRanges, NEW v \in Values, InsertRange(range, v) PROVE Kept2
  <2>1. Fewer
    <3> HIDE DEF Fewer
    <3> QED
      BY <1>1, <1>4, <1>7, RangeStep
  <2>2. PICK s : s = Accepted(range)
    OBVIOUS
  <2>3. Len(s) \in Nat /\ \A j \in 1 .. Len(s) : s[j] \in IpNet
    <3>1. Len(range) \in Nat /\ \A j \in 1 .. Len(range) : range[j] \in IpNet
      BY RangeNets
    <3>2. PICK k \in 1 .. Len(range) + 1 : Len(s) = k - 1 /\ \A j \in 1 .. k - 1 : s[j] = range[j]
      BY <2>2, AcceptedRange
    <3> QED
      BY <3>1, <3>2
  <2>4. Tended(Stores(Arena, s, v)[Len(s)])
    BY <1>2, <2>3, StoresTended
  <2>5. Stored(s, v) = Stores(Arena, s, v)[Len(s)]
    BY DEF Stored, Stores, Arena
  <2>6. Become(Stored(s, v))
    BY <1>7, <2>2 DEF InsertRange
  <2> QED
    BY <2>1, <2>4, <2>5, <2>6, BecomeTended
<1>8. ASSUME UNCHANGED <<nodes, values>> PROVE Kept2
  <2>1. Arena' = Arena
    BY <1>8 DEF Arena
  <2> QED
    BY <1>2, <2>1
<1>9. Kept2
  <2>1. \A net \in InsertNets : Refused(net) => UNCHANGED <<nodes, values>>
    BY DEF Refused
  <2>2. UNCHANGED vars => UNCHANGED <<nodes, values>>
    BY DEF vars
  <2> HIDE DEF Kept2
  <2> QED
    BY <1>5, <1>6, <1>7, <1>8, <2>1, <2>2 DEF Next
<1>10. options' = options
  BY DEF Next, Refused, InsertValue, InsertWith, InsertRange, Call, vars
<1>11. OnlyCarved'
  <2>1. Carved(options)' = Carved(options)
    BY <1>10 DEF Carved
  <2>2. ASSUME NEW a \in Addr, See(Arena', a).kind = "Reserved" PROVE \E q \in Carved(options)' : Covers(q, a)
    BY <1>9, <2>1, <2>2 DEF TendedInv, OnlyCarved
  <2> QED
    BY <2>2 DEF OnlyCarved
<1> QED
  BY <1>0, <1>9, <1>11 DEF TendedInv
=============================================================================
