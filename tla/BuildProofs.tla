----------------------------- MODULE BuildProofs -----------------------------
(***************************************************************************)
(* Proofs about Build, for every space, alias networks, reserved networks, *)
(* values and record sizes: the file answers what the writer answered.     *)
(***************************************************************************)
EXTENDS Build, WriterProofs

-----------------------------------------------------------------------------
(***************************************************************************)
(* Trees with fixed nodes and aliases in them.  Here a walk ends where it  *)
(* meets an alias, and a fixed node is a node.                             *)
(***************************************************************************)
Norm(r) == IF r.kind = "FixedNode" THEN Node(r.arg) ELSE r

(* Where the walk goes from r at the next bit b. *)
Ahead(ns, r, b) == IF r.kind = "Node" THEN Norm(ns[r.arg][b]) ELSE r

Stroll(ns, a) ==
    LET Follow[k \in 0 .. Depth] ==
            IF k = 0 THEN Node(1) ELSE Ahead(ns, Follow[k - 1], a[k])
    IN  Follow

(* What is there for an address. *)
Rest(ns, a) == Stroll(ns, a)[Depth]

LEMMA StrollDef ==
    ASSUME NEW ns, NEW a
    PROVE  /\ Stroll(ns, a)[0] = Node(1)
           /\ \A k \in 0 .. Depth - 1 :
                  Stroll(ns, a)[k + 1] = Ahead(ns, Stroll(ns, a)[k], a[k + 1])
<1> DEFINE Turn(h, k) == IF k = 0 THEN Node(1) ELSE Ahead(ns, h[k - 1], a[k])
           Eq(h) == h = [k \in 0 .. Depth |-> Turn(h, k)]
           T == {m \in Nat : \E h : h = [k \in 0 .. m |-> Turn(h, k)]}
<1>1. 0 \in T
  <2>1. PICK g : g = [k \in 0 .. 0 |-> Node(1)]
    OBVIOUS
  <2>2. g = [k \in 0 .. 0 |-> Turn(g, k)]
    BY <2>1
  <2> QED
    BY <2>2
<1>2. ASSUME NEW m \in Nat, m \in T PROVE m + 1 \in T
  <2>1. PICK e : e = [k \in 0 .. m |-> Turn(e, k)]
    BY <1>2
  <2>2. PICK g : g = [k \in 0 .. m + 1 |-> IF k <= m THEN e[k] ELSE Ahead(ns, e[m], a[m + 1])]
    OBVIOUS
  <2>3. \A k \in 0 .. m + 1 : g[k] = Turn(g, k)
    <3>1. \A k \in 0 .. m : g[k] = e[k] /\ e[k] = Turn(e, k)
      BY <2>1, <2>2
    <3>2. \A k \in 1 .. m + 1 : g[k - 1] = e[k - 1]
      BY <3>1
    <3>3. g[m + 1] = Ahead(ns, e[m], a[m + 1])
      BY <2>2
    <3>4. \A k \in 0 .. m : Turn(g, k) = Turn(e, k)
      BY <3>2
    <3>5. g[m + 1] = Turn(g, m + 1)
      BY <3>2, <3>3
    <3>6. \A k \in 0 .. m : g[k] = Turn(g, k)
      BY <3>1, <3>4
    <3>7. \A k \in 0 .. m + 1 : k \in 0 .. m \/ k = m + 1
      OBVIOUS
    <3> HIDE DEF Turn
    <3> QED
      BY <3>5, <3>6, <3>7
  <2>4. g = [k \in 0 .. m + 1 |-> Turn(g, k)]
    BY <2>2, <2>3
  <2>5. \E h : h = [k \in 0 .. m + 1 |-> Turn(h, k)]
    BY Zenon, <2>4
  <2> QED
    BY <2>5
<1>3. Depth \in T
  <2> HIDE DEF T
  <2> QED
    BY <1>1, <1>2, DepthAssumption, Induction
<1>4. Stroll(ns, a) = CHOOSE h : Eq(h)
  BY DEF Stroll
<1>5. Eq(Stroll(ns, a))
  <2>1. \E h : Eq(h)
    BY <1>3
  <2> HIDE DEF Eq
  <2> QED
    BY Zenon, <1>4, <2>1
<1>6. PICK W : W = Stroll(ns, a) /\ W = [k \in 0 .. Depth |-> Turn(W, k)]
  BY <1>5
<1>7. \A k \in 0 .. Depth - 1 : k + 1 \in 0 .. Depth /\ k + 1 # 0 /\ (k + 1) - 1 = k
  BY DepthAssumption
<1>8. 0 \in 0 .. Depth
  BY DepthAssumption
<1>9. \A k \in 0 .. Depth : W[k] = Turn(W, k)
  <2> HIDE DEF Turn
  <2> QED
    BY ONLY <1>6
<1>10. W[0] = Node(1)
  BY <1>8, <1>9
<1>11. ASSUME NEW k \in 0 .. Depth - 1 PROVE W[k + 1] = Ahead(ns, W[k], a[k + 1])
  <2>1. k + 1 \in 0 .. Depth /\ k + 1 # 0 /\ (k + 1) - 1 = k
    BY <1>7
  <2>2. W[k + 1] = Turn(W, k + 1)
    BY <1>9, <2>1
  <2> QED
    BY <2>1, <2>2
<1> QED
  BY <1>6, <1>10, <1>11

(***************************************************************************)
(* What compaction and aliases need of a tree: as Sound, without the pool. *)
(* p is the number of values that the leaves may have.                     *)
(***************************************************************************)
Leafs(p) == {NoData, Reserved} \cup {Data(id) : id \in 1 .. p} \cup {Alias(x) : x \in Nat}

Leads(ns, D, r, d) == IsPointer(r) /\ r \in Record /\ r.arg \in 1 .. Len(ns) /\ D[r.arg] = d /\ d < Depth

OneParent(ns) ==
    \A i, j \in 1 .. Len(ns) : \A b, c \in Bit :
        IsPointer(ns[i][b]) /\ IsPointer(ns[j][c]) /\ ns[i][b].arg = ns[j][c].arg => i = j /\ b = c

Fine(ns, D, p) ==
    /\ p \in Nat /\ ns \in Arenas /\ 1 <= Len(ns)
    /\ D \in [1 .. Len(ns) -> 0 .. Depth] /\ D[1] = 0
    /\ \A i \in 1 .. Len(ns) : \A b \in Bit :
           ns[i][b] \in Leafs(p) \/ Leads(ns, D, ns[i][b], D[i] + 1)
    /\ OneParent(ns)

LEMMA LeafsAre ==
    ASSUME NEW p \in Nat, NEW r \in Leafs(p)
    PROVE  /\ r \in Record /\ IsLeaf(r) /\ ~IsPointer(r) /\ r.kind # "Node" /\ r.kind # "FixedNode"
           /\ Norm(r) = r /\ \A ns, b : Ahead(ns, r, b) = r
BY DEF Leafs, Record, IsLeaf, IsPointer, NoData, Reserved, Data, Alias, Rec, Norm, Ahead

LEMMA FineTypes ==
    ASSUME NEW ns, NEW D, NEW p, Fine(ns, D, p)
    PROVE  /\ ns \in Seq([Bit -> Record]) /\ Len(ns) \in Nat \ {0} /\ DOMAIN ns = 1 .. Len(ns)
           /\ p \in Nat /\ Depth \in Nat \ {0} /\ D[1] = 0 /\ 1 \in 1 .. Len(ns)
           /\ \A i \in 1 .. Len(ns) : ns[i] \in [Bit -> Record] /\ D[i] \in 0 .. Depth
           /\ \A i \in 1 .. Len(ns) : \A b \in Bit : ns[i][b] \in Record
BY LenProperties, ElementOfSeq, DepthAssumption DEF Fine, Arenas

LEMMA AheadFromNode == \A ns, j, b : Ahead(ns, Node(j), b) = Norm(ns[j][b])
BY DEF Ahead, Node, Rec

(* A pointer, normalised, is a node; a leaf is itself. *)
LEMMA NormFine ==
    ASSUME NEW ns, NEW D, NEW p \in Nat, NEW r, NEW d, r \in Leafs(p) \/ Leads(ns, D, r, d)
    PROVE  \/ Norm(r) \in Leafs(p) /\ Norm(r) = r
           \/ Norm(r) = Node(r.arg) /\ IsPointer(r) /\ r.arg \in 1 .. Len(ns) /\ D[r.arg] = d /\ d < Depth
<1>1. CASE r \in Leafs(p)
  BY <1>1, LeafsAre
<1>2. CASE Leads(ns, D, r, d)
  <2>1. r \in Record /\ IsPointer(r) /\ r.arg \in 1 .. Len(ns) /\ D[r.arg] = d /\ d < Depth
    BY <1>2 DEF Leads
  <2>2. r = [kind |-> r.kind, arg |-> r.arg] /\ r.kind \in {"Node", "FixedNode"}
    BY <2>1 DEF Record, IsPointer
  <2>3. Norm(r) = Node(r.arg)
    BY <2>2 DEF Norm, Node, Rec
  <2> QED
    BY <2>1, <2>3
<1> QED
  BY <1>1, <1>2

(* What a stroll comes to: a leaf, or a node at its depth. *)
Comes(ns, D, p, s, k) ==
    s \in Leafs(p) \/ \E j \in 1 .. Len(ns) : s = Node(j) /\ D[j] = k /\ k < Depth

LEMMA StrollFine ==
    ASSUME NEW ns, NEW D, NEW p, Fine(ns, D, p), NEW a \in Addr
    PROVE  \A k \in 0 .. Depth : Comes(ns, D, p, Stroll(ns, a)[k], k)
<1> DEFINE S == {k \in Nat : k <= Depth => Comes(ns, D, p, Stroll(ns, a)[k], k)}
<1>0. Depth \in Nat \ {0} /\ p \in Nat /\ \A k \in 0 .. Depth - 1 : a[k + 1] \in Bit
  BY AddrBits, FineTypes
<1>1. 0 \in S
  <2>1. Stroll(ns, a)[0] = Node(1)
    BY StrollDef
  <2>2. Comes(ns, D, p, Node(1), 0)
    BY <1>0, FineTypes DEF Comes
  <2> QED
    BY <2>1, <2>2
<1>2. ASSUME NEW k \in Nat, k \in S PROVE k + 1 \in S
  <2> SUFFICES ASSUME k + 1 <= Depth PROVE Comes(ns, D, p, Stroll(ns, a)[k + 1], k + 1)
    OBVIOUS
  <2>1. PICK s : s = Stroll(ns, a)[k]
    OBVIOUS
  <2>2. Comes(ns, D, p, s, k) /\ k \in 0 .. Depth - 1
    BY <1>0, <1>2, <2>1
  <2>3. Stroll(ns, a)[k + 1] = Ahead(ns, s, a[k + 1]) /\ a[k + 1] \in Bit
    BY <1>0, <2>1, <2>2, StrollDef
  <2>4. CASE s \in Leafs(p)
    <3>1. Ahead(ns, s, a[k + 1]) = s
      BY <1>0, <2>4, LeafsAre
    <3> QED
      BY <2>3, <2>4, <3>1 DEF Comes
  <2>5. CASE \E j \in 1 .. Len(ns) : s = Node(j) /\ D[j] = k
    <3>1. PICK j \in 1 .. Len(ns) : s = Node(j) /\ D[j] = k
      BY <2>5
    <3>2. PICK r : r = ns[j][a[k + 1]]
      OBVIOUS
    <3>3. r \in Leafs(p) \/ Leads(ns, D, r, k + 1)
      BY <2>3, <3>1, <3>2 DEF Fine
    <3>4. Stroll(ns, a)[k + 1] = Norm(r)
      BY <2>3, <3>1, <3>2, AheadFromNode
    <3>5. PICK x : x = Norm(r)
      OBVIOUS
    <3>6. x \in Leafs(p) \/ (x = Node(r.arg) /\ r.arg \in 1 .. Len(ns) /\ D[r.arg] = k + 1 /\ k + 1 < Depth)
      BY <1>0, <3>3, <3>5, NormFine
    <3> QED
      BY <3>4, <3>5, <3>6 DEF Comes
  <2> QED
    BY <2>2, <2>4, <2>5 DEF Comes
<1> HIDE DEF S
<1>3. \A k \in Nat : k \in S
  BY <1>1, <1>2, Induction
<1> QED
  BY <1>0, <1>3 DEF S

(* A stroll that came to a leaf stays there. *)
LEMMA LeafStays ==
    ASSUME NEW ns, NEW a, NEW p \in Nat, NEW k \in 0 .. Depth, Stroll(ns, a)[k] \in Leafs(p),
           NEW n \in k .. Depth
    PROVE  Stroll(ns, a)[n] = Stroll(ns, a)[k]
<1> DEFINE S == {m \in Nat : k + m <= Depth => Stroll(ns, a)[k + m] = Stroll(ns, a)[k]}
<1>0. Depth \in Nat
  BY DepthAssumption
<1>1. 0 \in S
  BY <1>0
<1>2. ASSUME NEW m \in Nat, m \in S PROVE m + 1 \in S
  <2>0. k + m <= Depth => Stroll(ns, a)[k + m] = Stroll(ns, a)[k]
    BY <1>2
  <2> SUFFICES ASSUME k + (m + 1) <= Depth PROVE Stroll(ns, a)[k + (m + 1)] = Stroll(ns, a)[k]
    OBVIOUS
  <2>1. k + m \in 0 .. Depth - 1 /\ (k + m) + 1 = k + (m + 1) /\ k + m <= Depth
    BY <1>0
  <2>2. Stroll(ns, a)[k + m] = Stroll(ns, a)[k]
    BY <2>0, <2>1
  <2>3. Stroll(ns, a)[(k + m) + 1] = Ahead(ns, Stroll(ns, a)[k + m], a[(k + m) + 1])
    BY <1>0, <2>1, StrollDef
  <2> QED
    BY <2>1, <2>2, <2>3, LeafsAre
<1> HIDE DEF S
<1>3. \A m \in Nat : m \in S
  BY <1>1, <1>2, Induction
<1>4. n - k \in Nat /\ k + (n - k) = n /\ n <= Depth
  BY <1>0
<1> QED
  BY <1>3, <1>4 DEF S

LEMMA StrollRests ==
    ASSUME NEW ns, NEW a, NEW p \in Nat, NEW k \in 0 .. Depth, Stroll(ns, a)[k] \in Leafs(p)
    PROVE  Rest(ns, a) = Stroll(ns, a)[k]
<1>1. Depth \in k .. Depth
  BY DepthAssumption
<1> QED
  BY <1>1, LeafStays DEF Rest

LEMMA RestFine ==
    ASSUME NEW ns, NEW D, NEW p, Fine(ns, D, p), NEW a \in Addr
    PROVE  Rest(ns, a) \in Leafs(p)
<1>1. Depth \in 0 .. Depth /\ ~(Depth < Depth)
  BY DepthAssumption
<1> QED
  BY <1>1, StrollFine DEF Comes, Rest

LEMMA SameStroll ==
    ASSUME NEW ns, NEW ms, NEW a, NEW m \in 0 .. Depth,
           \A k \in 0 .. m - 1 :
               Ahead(ms, Stroll(ns, a)[k], a[k + 1]) = Ahead(ns, Stroll(ns, a)[k], a[k + 1])
    PROVE  \A k \in 0 .. m : Stroll(ms, a)[k] = Stroll(ns, a)[k]
<1> DEFINE S == {k \in Nat : k <= m => Stroll(ms, a)[k] = Stroll(ns, a)[k]}
<1>0. Depth \in Nat
  BY DepthAssumption
<1>1. 0 \in S
  BY <1>0, StrollDef
<1>2. ASSUME NEW k \in Nat, k \in S PROVE k + 1 \in S
  <2>0. k <= m => Stroll(ms, a)[k] = Stroll(ns, a)[k]
    BY <1>2
  <2> SUFFICES ASSUME k + 1 <= m PROVE Stroll(ms, a)[k + 1] = Stroll(ns, a)[k + 1]
    OBVIOUS
  <2>1. k \in 0 .. m - 1 /\ k \in 0 .. Depth - 1
    BY <1>0
  <2>2. Stroll(ms, a)[k + 1] = Ahead(ms, Stroll(ms, a)[k], a[k + 1])
    BY <2>1, StrollDef
  <2>3. Stroll(ns, a)[k + 1] = Ahead(ns, Stroll(ns, a)[k], a[k + 1])
    BY <2>1, StrollDef
  <2>4. Ahead(ms, Stroll(ns, a)[k], a[k + 1]) = Ahead(ns, Stroll(ns, a)[k], a[k + 1])
    BY <2>1
  <2> QED
    BY <2>0, <2>1, <2>2, <2>3, <2>4
<1> HIDE DEF S
<1>3. \A k \in Nat : k \in S
  BY <1>1, <1>2, Induction
<1> QED
  BY <1>3 DEF S

-----------------------------------------------------------------------------
(***************************************************************************)
(* A change of one record.                                                 *)
(***************************************************************************)

(* us has the nodes of ns, and maybe more, with another record as record b of node i. *)
AtEdit(ns, us, i, b) ==
    \A k \in 1 .. Len(ns) : \A c \in Bit : k # i \/ c # b => us[k][c] = ns[k][c]

(* The stroll of an address comes to record b of node i. *)
Hits(ns, D, i, b, a) == Stroll(ns, a)[D[i]] = Node(i) /\ a[D[i] + 1] = b

LEMMA EditStroll ==
    ASSUME NEW ns, NEW D, NEW p, Fine(ns, D, p), NEW i \in 1 .. Len(ns), NEW b \in Bit, D[i] < Depth,
           NEW us, AtEdit(ns, us, i, b), NEW a \in Addr
    PROVE  /\ \A k \in 0 .. D[i] : Stroll(us, a)[k] = Stroll(ns, a)[k]
           /\ ~Hits(ns, D, i, b, a) => \A k \in 0 .. Depth : Stroll(us, a)[k] = Stroll(ns, a)[k]
           /\ Hits(ns, D, i, b, a) => /\ Stroll(us, a)[D[i] + 1] = Norm(us[i][b])
                                        /\ Stroll(ns, a)[D[i] + 1] = Norm(ns[i][b])
<1>0. Len(a) = Depth /\ Depth \in Nat /\ D[i] \in 0 .. Depth /\ p \in Nat
      /\ \A k \in 0 .. Depth - 1 : a[k + 1] \in Bit
  BY AddrBits, FineTypes
<1>1. ASSUME NEW k \in 0 .. Depth - 1, k < D[i] \/ ~Hits(ns, D, i, b, a)
      PROVE  Ahead(us, Stroll(ns, a)[k], a[k + 1]) = Ahead(ns, Stroll(ns, a)[k], a[k + 1])
  <2>1. PICK s : s = Stroll(ns, a)[k]
    OBVIOUS
  <2>2. k \in 0 .. Depth /\ a[k + 1] \in Bit
    BY <1>0
  <2>3. Comes(ns, D, p, s, k)
    BY <2>1, <2>2, StrollFine
  <2>4. CASE s \in Leafs(p)
    BY <1>0, <2>1, <2>4, LeafsAre
  <2>5. CASE \E j \in 1 .. Len(ns) : s = Node(j) /\ D[j] = k
    <3>1. PICK j \in 1 .. Len(ns) : s = Node(j) /\ D[j] = k
      BY <2>5
    <3>2. j # i \/ a[k + 1] # b
      <4> SUFFICES ASSUME j = i, a[k + 1] = b PROVE FALSE
        OBVIOUS
      <4>1. D[i] = k
        BY <3>1
      <4>2. Hits(ns, D, i, b, a)
        BY <2>1, <3>1, <4>1 DEF Hits
      <4>3. ~(k < D[i])
        BY <1>0, <4>1
      <4> QED
        BY <1>1, <4>2, <4>3
    <3>3. us[j][a[k + 1]] = ns[j][a[k + 1]]
      BY <2>2, <3>2 DEF AtEdit
    <3> QED
      BY <2>1, <3>1, <3>3, AheadFromNode
  <2> QED
    BY <2>3, <2>4, <2>5 DEF Comes
<1>2. \A k \in 0 .. D[i] : Stroll(us, a)[k] = Stroll(ns, a)[k]
  <2>1. \A k \in 0 .. D[i] - 1 : k \in 0 .. Depth - 1 /\ k < D[i]
    BY <1>0
  <2>2. PICK m : m = D[i] /\ m \in 0 .. Depth
    BY <1>0
  <2>3. \A k \in 0 .. m - 1 : Ahead(us, Stroll(ns, a)[k], a[k + 1])
                 = Ahead(ns, Stroll(ns, a)[k], a[k + 1])
    BY <1>1, <2>1, <2>2
  <2> QED
    BY <2>2, <2>3, SameStroll
<1>3. ASSUME ~Hits(ns, D, i, b, a)
      PROVE  \A k \in 0 .. Depth : Stroll(us, a)[k] = Stroll(ns, a)[k]
  <2>1. \A k \in 0 .. Depth - 1 : Ahead(us, Stroll(ns, a)[k], a[k + 1])
                 = Ahead(ns, Stroll(ns, a)[k], a[k + 1])
    BY <1>1, <1>3
  <2>2. Depth \in 0 .. Depth
    BY <1>0
  <2> QED
    BY <2>1, <2>2, SameStroll
<1>4. ASSUME Hits(ns, D, i, b, a)
      PROVE  Stroll(us, a)[D[i] + 1] = Norm(us[i][b]) /\ Stroll(ns, a)[D[i] + 1] = Norm(ns[i][b])
  <2>1. PICK k \in 0 .. Depth - 1 : k = D[i] /\ k \in 0 .. D[i]
    BY <1>0
  <2>2. Stroll(ns, a)[k] = Node(i) /\ Stroll(us, a)[k] = Node(i) /\ a[k + 1] = b
    BY <1>2, <1>4, <2>1 DEF Hits
  <2>3. Stroll(us, a)[k + 1] = Ahead(us, Node(i), b) /\ Stroll(ns, a)[k + 1] = Ahead(ns, Node(i), b)
    BY <2>2, StrollDef
  <2> QED
    BY <2>1, <2>3, AheadFromNode
<1> QED
  BY <1>2, <1>3, <1>4

(* A node is reached through its parent's record and no other way. *)
LEMMA ChildStroll ==
    ASSUME NEW ns, NEW D, NEW p, Fine(ns, D, p), NEW i \in 1 .. Len(ns), NEW b \in Bit,
           NEW j \in 1 .. Len(ns), IsPointer(ns[i][b]), ns[i][b].arg = j, NEW a \in Addr,
           Stroll(ns, a)[D[j]] = Node(j)
    PROVE  D[j] = D[i] + 1 /\ D[j] < Depth /\ Hits(ns, D, i, b, a)
<1>0. p \in Nat
  BY FineTypes
<1>1. Leads(ns, D, ns[i][b], D[i] + 1)
  BY <1>0, LeafsAre DEF Fine
<1>2. D[j] = D[i] + 1 /\ D[j] < Depth
  BY <1>1 DEF Leads
<1>3. Depth \in Nat /\ D[i] \in 0 .. Depth - 1 /\ \A k \in 0 .. Depth - 1 : a[k + 1] \in Bit
  BY <1>2, AddrBits, FineTypes
<1>4. PICK k \in 0 .. Depth - 1 : k = D[i] /\ k \in 0 .. Depth
  BY <1>3
<1>5. PICK s : s = Stroll(ns, a)[k]
  OBVIOUS
<1>6. Comes(ns, D, p, s, k) /\ a[k + 1] \in Bit
  BY <1>3, <1>4, <1>5, StrollFine
<1>7. Node(j) = Ahead(ns, s, a[k + 1])
  BY <1>2, <1>4, <1>5, StrollDef
<1>8. s \notin Leafs(p)
  <2>1. Node(j).kind = "Node"
    BY DEF Node, Rec
  <2> QED
    BY <1>0, <1>7, <2>1, LeafsAre
<1>9. PICK x \in 1 .. Len(ns) : s = Node(x) /\ D[x] = k
  BY <1>6, <1>8 DEF Comes
<1>10. PICK r : r = ns[x][a[k + 1]]
  OBVIOUS
<1>11. Node(j) = Norm(r)
  BY <1>7, <1>9, <1>10, AheadFromNode
<1>12. r \in Leafs(p) \/ Leads(ns, D, r, k + 1)
  BY <1>6, <1>9, <1>10 DEF Fine
<1>13. IsPointer(r) /\ r.arg = j
  <2>1. Node(j).kind = "Node" /\ Node(j).arg = j
    BY DEF Node, Rec
  <2>2. r \notin Leafs(p)
    BY <1>0, <1>11, <2>1, LeafsAre
  <2>3. Norm(r) = Node(r.arg) /\ IsPointer(r)
    BY <1>0, <1>12, <2>2, NormFine
  <2>4. Node(r.arg).arg = r.arg
    BY DEF Node, Rec
  <2> QED
    BY <1>11, <2>1, <2>3, <2>4
<1>14. x = i /\ a[k + 1] = b
  <2>1. OneParent(ns)
    BY DEF Fine
  <2>2. IsPointer(ns[x][a[k + 1]]) /\ ns[x][a[k + 1]].arg = ns[i][b].arg
    BY <1>10, <1>13
  <2> QED
    BY <1>6, <2>1, <2>2 DEF OneParent
<1> QED
  BY <1>2, <1>4, <1>5, <1>9, <1>14 DEF Hits

(* Where a stroll comes to a leaf it ends with it. *)
LEMMA HitsLeaf ==
    ASSUME NEW ns, NEW D, NEW p, Fine(ns, D, p), NEW i \in 1 .. Len(ns), NEW b \in Bit, D[i] < Depth,
           NEW a \in Addr, Hits(ns, D, i, b, a)
    PROVE  /\ Stroll(ns, a)[D[i] + 1] = Norm(ns[i][b])
           /\ ns[i][b] \in Leafs(p) => Rest(ns, a) = ns[i][b]
<1>1. p \in Nat /\ D[i] + 1 \in 0 .. Depth
  BY FineTypes, DepthAssumption
<1>2. Stroll(ns, a)[D[i] + 1] = Norm(ns[i][b])
  <2>1. AtEdit(ns, ns, i, b)
    BY DEF AtEdit
  <2> QED
    BY <2>1, EditStroll
<1>3. ASSUME ns[i][b] \in Leafs(p) PROVE Rest(ns, a) = ns[i][b]
  <2>1. Norm(ns[i][b]) = ns[i][b]
    BY <1>1, <1>3, LeafsAre
  <2>2. PICK k \in 0 .. Depth : k = D[i] + 1
    BY <1>1
  <2>3. Stroll(ns, a)[k] \in Leafs(p)
    BY <1>2, <1>3, <2>1, <2>2
  <2> QED
    BY <1>1, <1>2, <2>1, <2>2, <2>3, StrollRests
<1> QED
  BY <1>2, <1>3

(* A record may become a leaf, or the other pointer to the same node. *)
MayHold(ns, p, i, b, r) ==
    \/ r \in Leafs(p)
    \/ r \in Record /\ IsPointer(r) /\ IsPointer(ns[i][b]) /\ r.arg = ns[i][b].arg

LEMMA PutFine ==
    ASSUME NEW ns, NEW D, NEW p, Fine(ns, D, p), NEW i \in 1 .. Len(ns), NEW b \in Bit,
           NEW r, MayHold(ns, p, i, b, r), NEW us, us = Put(ns, i, b, r)
    PROVE  /\ Fine(us, D, p) /\ Updated(ns, i, b, r, us) /\ AtEdit(ns, us, i, b)
<1>0. ns \in Seq([Bit -> Record]) /\ p \in Nat /\ \A k \in 1 .. Len(ns) : \A c \in Bit : ns[k][c] \in Record
  BY FineTypes
<1>1. r \in Record
  BY <1>0, LeafsAre DEF MayHold
<1>2. Updated(ns, i, b, r, us)
  BY <1>0, <1>1, PutRecord
<1>3. AtEdit(ns, us, i, b)
  BY <1>2 DEF Updated, AtEdit
<1>4. Len(us) = Len(ns) /\ us \in Arenas /\ us[i][b] = r
  BY <1>2 DEF Updated, Arenas
<1>5. ASSUME NEW k \in 1 .. Len(us), NEW c \in Bit
      PROVE  us[k][c] \in Leafs(p) \/ Leads(us, D, us[k][c], D[k] + 1)
  <2>1. ns[k][c] \in Leafs(p) \/ Leads(ns, D, ns[k][c], D[k] + 1)
    BY <1>4 DEF Fine
  <2>2. CASE k # i \/ c # b
    <3>1. us[k][c] = ns[k][c]
      BY <1>3, <1>4, <2>2 DEF AtEdit
    <3> QED
      BY <1>4, <2>1, <3>1 DEF Leads
  <2>3. CASE k = i /\ c = b /\ r \in Leafs(p)
    BY <1>4, <2>3
  <2>4. CASE k = i /\ c = b /\ r \notin Leafs(p)
    <3>1. IsPointer(r) /\ IsPointer(ns[i][b]) /\ r.arg = ns[i][b].arg
      BY <2>4 DEF MayHold
    <3>2. ns[i][b] \notin Leafs(p)
      BY <1>0, <3>1, LeafsAre
    <3>3. Leads(ns, D, ns[i][b], D[i] + 1)
      BY <2>1, <2>4, <3>2
    <3> QED
      BY <1>1, <1>4, <2>4, <3>1, <3>3 DEF Leads
  <2> QED
    BY <2>2, <2>3, <2>4
<1>6. ASSUME NEW k \in 1 .. Len(us), NEW c \in Bit, IsPointer(us[k][c])
      PROVE  IsPointer(ns[k][c]) /\ ns[k][c].arg = us[k][c].arg
  <2>1. CASE k # i \/ c # b
    <3>1. us[k][c] = ns[k][c]
      BY <1>3, <1>4, <2>1 DEF AtEdit
    <3> QED
      BY <1>6, <3>1
  <2>2. CASE k = i /\ c = b
    <3>1. r \notin Leafs(p)
      BY <1>0, <1>4, <1>6, <2>2, LeafsAre
    <3> QED
      BY <1>4, <2>2, <3>1 DEF MayHold
  <2> QED
    BY <2>1, <2>2
<1>7. OneParent(us)
  <2> SUFFICES ASSUME NEW k \in 1 .. Len(us), NEW m \in 1 .. Len(us), NEW c \in Bit, NEW d \in Bit,
                      IsPointer(us[k][c]), IsPointer(us[m][d]), us[k][c].arg = us[m][d].arg
               PROVE  k = m /\ c = d
    BY DEF OneParent
  <2>1. IsPointer(ns[k][c]) /\ IsPointer(ns[m][d]) /\ ns[k][c].arg = ns[m][d].arg
    BY <1>6
  <2> QED
    BY <1>4, <2>1 DEF Fine, OneParent
<1>8. Fine(us, D, p)
  BY <1>4, <1>5, <1>7 DEF Fine
<1> QED
  BY <1>2, <1>3, <1>8

(* A node with the same leaf twice: the record that leads to it may hold the leaf. *)
LEMMA MergeRest ==
    ASSUME NEW ns, NEW D, NEW p, Fine(ns, D, p), NEW i \in 1 .. Len(ns), NEW b \in Bit,
           NEW x \in Leafs(p), IsPointer(ns[i][b]),
           \A c \in Bit : ns[ns[i][b].arg][c] = x,
           NEW us, us = Put(ns, i, b, x), NEW a \in Addr
    PROVE  Rest(us, a) = Rest(ns, a)
<1>0. p \in Nat /\ D[i] \in Nat /\ Depth \in Nat /\ \A k \in 0 .. Depth - 1 : a[k + 1] \in Bit
  BY FineTypes, AddrBits
<1>1. Leads(ns, D, ns[i][b], D[i] + 1)
  BY <1>0, LeafsAre DEF Fine
<1>2. PICK j \in 1 .. Len(ns) : j = ns[i][b].arg /\ D[j] = D[i] + 1 /\ D[j] < Depth
  BY <1>1 DEF Leads
<1>3. D[i] < Depth /\ D[i] \in 0 .. Depth - 1 /\ D[j] \in 0 .. Depth - 1
  BY <1>0, <1>2
<1>4. Fine(us, D, p) /\ AtEdit(ns, us, i, b) /\ us[i][b] = x /\ Len(us) = Len(ns)
  BY PutFine DEF MayHold, Updated
<1>5. CASE ~Hits(ns, D, i, b, a)
  <2>1. Stroll(us, a)[Depth] = Stroll(ns, a)[Depth]
    BY <1>0, <1>3, <1>4, <1>5, EditStroll
  <2> QED
    BY <2>1 DEF Rest
<1>6. CASE Hits(ns, D, i, b, a)
  <2>1. Hits(us, D, i, b, a)
    <3>1. D[i] \in 0 .. D[i]
      BY <1>0
    <3>2. Stroll(us, a)[D[i]] = Stroll(ns, a)[D[i]]
      BY <1>3, <1>4, <3>1, EditStroll
    <3> QED
      BY <1>6, <3>2 DEF Hits
  <2>2. Rest(us, a) = x
    <3>1. i \in 1 .. Len(us) /\ us[i][b] \in Leafs(p)
      BY <1>4
    <3> QED
      BY <1>3, <1>4, <2>1, <3>1, HitsLeaf
  <2>3. Stroll(ns, a)[D[j]] = Norm(ns[i][b])
    BY <1>2, <1>3, <1>6, HitsLeaf
  <2>4. Norm(ns[i][b]) = Node(j)
    BY <1>0, <1>1, <1>2, LeafsAre, NormFine
  <2>5. a[D[j] + 1] \in Bit /\ Hits(ns, D, j, a[D[j] + 1], a)
    BY <1>0, <1>3, <2>3, <2>4 DEF Hits
  <2>6. ns[j][a[D[j] + 1]] = x
    BY <1>2, <2>5
  <2>7. Rest(ns, a) = x
    BY <1>2, <2>5, <2>6, HitsLeaf
  <2> QED
    BY <2>2, <2>7
<1> QED
  BY <1>5, <1>6

(* A pinned record leads where it led. *)
LEMMA PinRest ==
    ASSUME NEW ns, NEW D, NEW p, Fine(ns, D, p), NEW i \in 1 .. Len(ns), NEW b \in Bit,
           NEW j \in Nat, ns[i][b] = Node(j), NEW us, us = Put(ns, i, b, FixedNode(j))
    PROVE  /\ Fine(us, D, p)
           /\ \A a \in Addr : /\ Rest(us, a) = Rest(ns, a)
                               /\ \A k \in 0 .. Depth : Stroll(us, a)[k] = Stroll(ns, a)[k]
<1>0. p \in Nat /\ D[i] \in Nat /\ Depth \in Nat
  BY FineTypes
<1>1. FixedNode(j) \in Record /\ IsPointer(FixedNode(j)) /\ IsPointer(Node(j))
      /\ FixedNode(j).arg = Node(j).arg /\ Norm(FixedNode(j)) = Node(j) /\ Norm(Node(j)) = Node(j)
  BY DEF FixedNode, Node, Rec, Record, IsPointer, Norm
<1>2. Fine(us, D, p) /\ AtEdit(ns, us, i, b) /\ us[i][b] = FixedNode(j)
  BY <1>1, PutFine DEF MayHold, Updated
<1>3. ASSUME NEW a \in Addr
      PROVE  Rest(us, a) = Rest(ns, a) /\ \A k \in 0 .. Depth : Stroll(us, a)[k] = Stroll(ns, a)[k]
  <2>1. ASSUME NEW k \in 0 .. Depth - 1
        PROVE  Ahead(us, Stroll(ns, a)[k], a[k + 1]) = Ahead(ns, Stroll(ns, a)[k], a[k + 1])
    <3>1. PICK s : s = Stroll(ns, a)[k]
      OBVIOUS
    <3>2. k \in 0 .. Depth /\ a[k + 1] \in Bit
      BY <1>0, AddrBits
    <3>3. Comes(ns, D, p, s, k)
      BY <3>1, <3>2, StrollFine
    <3>4. CASE s \in Leafs(p)
      BY <1>0, <3>1, <3>4, LeafsAre
    <3>5. CASE \E m \in 1 .. Len(ns) : s = Node(m)
      <4>1. PICK m \in 1 .. Len(ns) : s = Node(m)
        BY <3>5
      <4>2. Norm(us[m][a[k + 1]]) = Norm(ns[m][a[k + 1]])
        <5>1. CASE m # i \/ a[k + 1] # b
          BY <1>2, <3>2, <5>1 DEF AtEdit
        <5>2. CASE m = i /\ a[k + 1] = b
          BY <1>1, <1>2, <5>2
        <5> QED
          BY <5>1, <5>2
      <4> QED
        BY <3>1, <4>1, <4>2, AheadFromNode
    <3> QED
      BY <3>3, <3>4, <3>5 DEF Comes
  <2>2. Depth \in 0 .. Depth
    BY <1>0
  <2> QED
    BY <2>1, <2>2, SameStroll DEF Rest
<1> QED
  BY <1>2, <1>3

-----------------------------------------------------------------------------
(***************************************************************************)
(* compact_node.                                                           *)
(***************************************************************************)

(* The stroll of a comes to a pinned record at bit k + 1. *)
Fixed(ns, a, k) == \E i \in 1 .. Len(ns) : Stroll(ns, a)[k] = Node(i) /\ ns[i][a[k + 1]].kind = "FixedNode"

(* us answers as ns does, but a stroll may come to its leaf earlier, and not before a pinned record. *)
Thinned(ns, us) ==
    /\ \A a \in Addr : Rest(us, a) = Rest(ns, a)
    /\ \A a \in Addr : \A k \in 0 .. Depth :
           Stroll(us, a)[k] = Stroll(ns, a)[k] \/ Stroll(us, a)[k].kind # "Node"
    /\ \A a \in Addr : \A k \in 0 .. Depth - 1 : Fixed(ns, a, k) => Fixed(us, a, k)

LEMMA ThinnedSame == \A ns : Thinned(ns, ns)
BY DEF Thinned

LEMMA ThinnedTwice ==
    ASSUME NEW ns, NEW ms, NEW us, Thinned(ns, ms), Thinned(ms, us)
    PROVE  Thinned(ns, us)
<1>1. \A a \in Addr : Rest(us, a) = Rest(ns, a)
  BY DEF Thinned
<1>2. \A a \in Addr : \A k \in 0 .. Depth - 1 : Fixed(ns, a, k) => Fixed(us, a, k)
  BY DEF Thinned
<1>3. \A a \in Addr : \A k \in 0 .. Depth :
          Stroll(us, a)[k] = Stroll(ns, a)[k] \/ Stroll(us, a)[k].kind # "Node"
  BY DEF Thinned
<1> QED
  BY <1>1, <1>2, <1>3 DEF Thinned

LEMMA MergeThin ==
    ASSUME NEW ns, NEW D, NEW p, Fine(ns, D, p), NEW i \in 1 .. Len(ns), NEW b \in Bit,
           NEW x \in Leafs(p), IsPointer(ns[i][b]), ns[i][b].kind = "Node",
           \A c \in Bit : ns[ns[i][b].arg][c] = x,
           NEW us, us = Put(ns, i, b, x)
    PROVE  Thinned(ns, us)
<1>0. p \in Nat /\ D[i] \in Nat /\ Depth \in Nat
  BY FineTypes
<1>1. Leads(ns, D, ns[i][b], D[i] + 1)
  BY <1>0, LeafsAre DEF Fine
<1>2. PICK j \in 1 .. Len(ns) : j = ns[i][b].arg /\ D[j] = D[i] + 1 /\ D[j] < Depth
  BY <1>1 DEF Leads
<1>3. D[i] < Depth /\ D[i] + 1 \in 0 .. Depth
  BY <1>0, <1>2
<1>4. AtEdit(ns, us, i, b) /\ us[i][b] = x /\ Len(us) = Len(ns)
  BY PutFine DEF MayHold, Updated
<1>5. Norm(x) = x /\ x.kind # "Node" /\ x.kind # "FixedNode"
  BY <1>0, LeafsAre
<1>6. ASSUME NEW a \in Addr, Hits(ns, D, i, b, a), NEW k \in D[i] + 1 .. Depth PROVE Stroll(us, a)[k] = x
  <2>1. Stroll(us, a)[D[i] + 1] = x
    BY <1>3, <1>4, <1>5, <1>6, EditStroll
  <2> QED
    BY <1>0, <1>3, <2>1, LeafStays
<1>7. ASSUME NEW a \in Addr, NEW k \in 0 .. Depth
      PROVE  Stroll(us, a)[k] = Stroll(ns, a)[k] \/ Stroll(us, a)[k].kind # "Node"
  <2>1. CASE k \in 0 .. D[i] \/ ~Hits(ns, D, i, b, a)
    BY <1>3, <1>4, <2>1, EditStroll
  <2>2. CASE k \in D[i] + 1 .. Depth /\ Hits(ns, D, i, b, a)
    BY <1>5, <1>6, <2>2
  <2> QED
    BY <1>0, <2>1, <2>2
<1>8. ASSUME NEW a \in Addr, NEW k \in 0 .. Depth - 1, Fixed(ns, a, k) PROVE Fixed(us, a, k)
  <2>1. PICK m \in 1 .. Len(ns) : Stroll(ns, a)[k] = Node(m) /\ ns[m][a[k + 1]].kind = "FixedNode"
    BY <1>8 DEF Fixed
  <2>2. k \in 0 .. Depth /\ a[k + 1] \in Bit
    BY <1>0, AddrBits
  <2>3. Node(m).kind = "Node" /\ \A e : Node(e) = Node(m) => e = m
    BY DEF Node, Rec
  <2>4. D[m] = k
    <3>1. Comes(ns, D, p, Stroll(ns, a)[k], k)
      BY <2>2, StrollFine
    <3>2. Node(m) \notin Leafs(p)
      BY <1>0, <2>3, LeafsAre
    <3> QED
      BY <2>1, <2>3, <3>1, <3>2 DEF Comes
  <2>5. m # i \/ a[k + 1] # b
    BY <2>1
  <2>6. us[m][a[k + 1]] = ns[m][a[k + 1]]
    BY <1>4, <2>2, <2>5 DEF AtEdit
  <2>7. CASE k \in 0 .. D[i] \/ ~Hits(ns, D, i, b, a)
    <3>1. Stroll(us, a)[k] = Stroll(ns, a)[k]
      BY <1>3, <1>4, <2>2, <2>7, EditStroll
    <3> QED
      BY <1>4, <2>1, <2>6, <3>1 DEF Fixed
  <2>8. CASE k \in D[i] + 1 .. Depth /\ Hits(ns, D, i, b, a)
    <3>1. Stroll(ns, a)[D[i] + 1] = Norm(ns[i][b])
      BY <1>3, <2>8, HitsLeaf
    <3>2. Norm(ns[i][b]) = Node(j)
      BY <1>0, <1>1, <1>2, LeafsAre, NormFine
    <3>3. CASE k = D[i] + 1
      <4>1. m = j
        <5>1. Node(j) = Node(m)
          BY <2>1, <3>1, <3>2, <3>3
        <5> QED
          BY <2>3, <5>1
      <4>2. ns[m][a[k + 1]] = x
        BY <1>2, <2>2, <4>1
      <4> QED
        BY <1>5, <2>1, <4>2
    <3>4. CASE k # D[i] + 1
      <4>1. PICK d \in 0 .. Depth - 1 : d = D[j] /\ d = D[i] + 1 /\ a[d + 1] \in Bit
        <5>1. D[j] = D[i] + 1 /\ D[j] \in 0 .. Depth - 1
          BY <1>0, <1>2
        <5>2. \A d \in 0 .. Depth - 1 : a[d + 1] \in Bit
          BY AddrBits
        <5> QED
          BY <5>1, <5>2
      <4>2. Stroll(ns, a)[d + 1] = x
        <5>1. Stroll(ns, a)[d + 1] = Ahead(ns, Node(j), a[d + 1])
          BY <3>1, <3>2, <4>1, StrollDef
        <5>2. ns[j][a[d + 1]] = x
          BY <1>2, <4>1
        <5> QED
          BY <1>5, <5>1, <5>2, AheadFromNode
      <4>3. d + 1 \in 0 .. Depth /\ k \in d + 1 .. Depth
        BY <1>0, <2>8, <3>4, <4>1
      <4>4. Stroll(ns, a)[k] = x
        BY <1>0, <4>2, <4>3, LeafStays
      <4> QED
        BY <1>5, <2>1, <2>3, <4>4
    <3> QED
      BY <3>3, <3>4
  <2> QED
    BY <1>0, <2>2, <2>7, <2>8
<1>9. \A a \in Addr : Rest(us, a) = Rest(ns, a)
  BY MergeRest
<1> QED
  BY <1>7, <1>8, <1>9 DEF Thinned

(* What stands for a record may be put in its place. *)
Stands(ns, p, i, b, x) ==
    \/ x = ns[i][b]
    \/ /\ x \in Leafs(p) /\ IsPointer(ns[i][b]) /\ ns[i][b].kind = "Node"
       /\ \A c \in Bit : ns[ns[i][b].arg][c] = x

LEMMA StandsThin ==
    ASSUME NEW ns, NEW D, NEW p, Fine(ns, D, p), NEW i \in 1 .. Len(ns), NEW b \in Bit,
           NEW x, Stands(ns, p, i, b, x), NEW us, us = Put(ns, i, b, x)
    PROVE  Fine(us, D, p) /\ Updated(ns, i, b, x, us) /\ Thinned(ns, us)
<1>0. ns \in Seq([Bit -> Record]) /\ p \in Nat /\ DOMAIN ns = 1 .. Len(ns)
      /\ ns[i] \in [Bit -> Record] /\ ns[i][b] \in Record
  BY FineTypes
<1>1. MayHold(ns, p, i, b, x)
  BY <1>0 DEF Stands, MayHold, Fine, Leads
<1>2. Fine(us, D, p) /\ Updated(ns, i, b, x, us)
  BY <1>1, PutFine
<1>3. CASE x = ns[i][b]
  <2>1. us = ns
    <3>1. PICK m : m = [ns[i] EXCEPT ![b] = x]
      OBVIOUS
    <3>2. m = ns[i]
      BY <1>0, <1>3, <3>1
    <3>3. us = [ns EXCEPT ![i] = m]
      BY <3>1 DEF Put
    <3> QED
      BY <1>0, <3>2, <3>3
  <2> QED
    BY <1>2, <2>1, ThinnedSame
<1>4. CASE x # ns[i][b]
  <2>1. x \in Leafs(p) /\ IsPointer(ns[i][b]) /\ ns[i][b].kind = "Node" /\ \A c \in Bit : ns[ns[i][b].arg][c] = x
    BY <1>4 DEF Stands
  <2>2. Thinned(ns, us)
    BY <2>1, MergeThin
  <2> QED
    BY <1>2, <2>2
<1> QED
  BY <1>2, <1>3, <1>4

(* What compact_node of node i makes of the tree, and the record that stands for the node. *)
Compacted(ns, D, p, i, c) ==
    /\ c = [nodes |-> c.nodes, rec |-> c.rec]
    /\ Fine(c.nodes, D, p) /\ Len(c.nodes) = Len(ns)
    /\ \A k \in 1 .. Len(ns) : k # i /\ D[k] <= D[i] => c.nodes[k] = ns[k]
    /\ Thinned(ns, c.nodes)
    /\ c.rec = Node(i) \/ (c.rec \in Leafs(p) /\ \A b \in Bit : c.nodes[i][b] = c.rec)

(* below compacts the nodes at depth d. *)
Compacts(below, D, p, d) ==
    \A ns : \A i \in 1 .. Len(ns) :
        Fine(ns, D, p) /\ D[i] = d => Compacted(ns, D, p, i, below[ns][i])

(* resolve_child, for record b of node i. *)
Resolved(ns, D, p, i, b, c) ==
    /\ Fine(c.nodes, D, p) /\ Len(c.nodes) = Len(ns)
    /\ \A k \in 1 .. Len(ns) :
           D[k] <= D[i] + 1 /\ ~(IsPointer(ns[i][b]) /\ k = ns[i][b].arg) => c.nodes[k] = ns[k]
    /\ c.nodes[i] = ns[i]
    /\ Thinned(ns, c.nodes)
    /\ Stands(c.nodes, p, i, b, c.rec)

LEMMA Resolves ==
    ASSUME NEW ns, NEW D, NEW p, Fine(ns, D, p), NEW i \in 1 .. Len(ns), NEW b \in Bit,
           NEW below, Compacts(below, D, p, D[i] + 1),
           NEW c, c = ResolveChild(below, ns, i, b)
    PROVE  Resolved(ns, D, p, i, b, c)
<1>0. p \in Nat /\ Depth \in Nat /\ \A k \in 1 .. Len(ns) : D[k] \in Nat
  BY FineTypes
<1>1. PICK r : r = ns[i][b]
  OBVIOUS
<1>2. r \in Leafs(p) \/ Leads(ns, D, r, D[i] + 1)
  BY <1>1 DEF Fine
<1>3. CASE r \in Leafs(p)
  <2>1. ~IsPointer(r) /\ r.kind # "Node" /\ r.kind # "FixedNode"
    BY <1>0, <1>3, LeafsAre
  <2>2. c = [nodes |-> ns, rec |-> r]
    BY <1>1, <2>1 DEF ResolveChild
  <2>3. c.nodes = ns /\ c.rec = r
    BY <2>2
  <2> QED
    BY <1>1, <2>1, <2>3, ThinnedSame DEF Resolved, Stands
<1>4. CASE Leads(ns, D, r, D[i] + 1)
  <2>1. PICK j \in 1 .. Len(ns) : j = r.arg /\ D[j] = D[i] + 1
    BY <1>4 DEF Leads
  <2>2. r \in Record /\ IsPointer(r)
    BY <1>4 DEF Leads
  <2>3. PICK s : s = below[ns][j]
    OBVIOUS
  <2>4. Compacted(ns, D, p, j, s)
    BY <2>1, <2>3 DEF Compacts
  <2>5. i # j /\ s.nodes[i] = ns[i]
    BY <1>0, <2>1, <2>4 DEF Compacted
  <2>6. c.nodes = s.nodes /\ (c.rec = r \/ (r.kind = "Node" /\ c.rec = s.rec))
    <3>1. CASE r.kind = "Node"
      <4>1. c = s
        BY <1>1, <2>1, <2>3, <3>1 DEF ResolveChild
      <4> QED
        BY <3>1, <4>1
    <3>2. CASE r.kind = "FixedNode"
      <4>1. c = [s EXCEPT !.rec = r]
        BY <1>1, <2>1, <2>3, <3>2 DEF ResolveChild
      <4>2. s = [nodes |-> s.nodes, rec |-> s.rec]
        BY <2>4 DEF Compacted
      <4> QED
        BY <4>1, <4>2
    <3> QED
      BY <2>2, <3>1, <3>2 DEF IsPointer
  <2>7. Stands(c.nodes, p, i, b, c.rec)
    <3>1. CASE c.rec = r
      BY <1>1, <2>5, <2>6, <3>1 DEF Stands
    <3>2. CASE c.rec # r
      <4>1. r.kind = "Node" /\ c.rec = s.rec
        BY <2>6, <3>2
      <4>2. r = Node(j)
        BY <2>1, <2>2, <4>1 DEF Record, Node, Rec
      <4>3. s.rec \in Leafs(p) /\ \A d \in Bit : s.nodes[j][d] = s.rec
        BY <2>4, <3>2, <4>1, <4>2 DEF Compacted
      <4> QED
        BY <1>1, <2>1, <2>2, <2>5, <2>6, <4>1, <4>3 DEF Stands
    <3> QED
      BY <3>1, <3>2
  <2>8. \A k \in 1 .. Len(ns) : D[k] <= D[i] + 1 /\ k # j => s.nodes[k] = ns[k]
    BY <2>1, <2>4 DEF Compacted
  <2> QED
    BY <1>1, <2>1, <2>2, <2>4, <2>5, <2>6, <2>7, <2>8 DEF Resolved, Compacted
<1> QED
  BY <1>2, <1>3, <1>4

LEMMA CompactedNode ==
    ASSUME NEW ns, NEW D, NEW p, Fine(ns, D, p), NEW i \in 1 .. Len(ns),
           NEW below, Compacts(below, D, p, D[i] + 1),
           NEW c, c = CompactNode(below, ns, i)
    PROVE  Compacted(ns, D, p, i, c)
<1>0. p \in Nat /\ \A k \in 1 .. Len(ns) : D[k] \in Nat
  BY FineTypes
<1>1. 0 \in Bit /\ 1 \in Bit /\ \A b \in Bit : b = 0 \/ b = 1
  BY DEF Bit
<1>2. PICK left : left = ResolveChild(below, ns, i, 0)
  OBVIOUS
<1>3. PICK ls : ls = left.nodes
  OBVIOUS
<1>4. Resolved(ns, D, p, i, 0, left)
  BY <1>1, <1>2, Resolves
<1>5. Fine(ls, D, p) /\ Len(ls) = Len(ns) /\ ls[i] = ns[i] /\ i \in 1 .. Len(ls)
  BY <1>3, <1>4 DEF Resolved
<1>6. PICK right : right = ResolveChild(below, ls, i, 1)
  OBVIOUS
<1>7. PICK ms : ms = right.nodes
  OBVIOUS
<1>8. Resolved(ls, D, p, i, 1, right)
  BY <1>1, <1>5, <1>6, Resolves
<1>9. Fine(ms, D, p) /\ Len(ms) = Len(ns) /\ ms[i] = ns[i] /\ i \in 1 .. Len(ms)
  BY <1>5, <1>7, <1>8 DEF Resolved
<1>10. PICK x : x = left.rec
  OBVIOUS
<1>11. PICK y : y = right.rec
  OBVIOUS
<1>12. Stands(ms, p, i, 0, x)
  <2>1. Stands(ls, p, i, 0, x)
    BY <1>3, <1>4, <1>10 DEF Resolved
  <2>2. CASE x = ls[i][0]
    BY <1>5, <1>9, <2>2 DEF Stands
  <2>3. CASE x # ls[i][0]
    <3>1. x \in Leafs(p) /\ IsPointer(ls[i][0]) /\ ls[i][0].kind = "Node" /\ \A d \in Bit : ls[ls[i][0].arg][d] = x
      BY <2>1, <2>3 DEF Stands
    <3>2. ls[i][0] \notin Leafs(p)
      BY <1>0, <3>1, LeafsAre
    <3>3. Leads(ls, D, ls[i][0], D[i] + 1)
      BY <1>1, <1>5, <3>2 DEF Fine
    <3>4. PICK j \in 1 .. Len(ls) : j = ls[i][0].arg /\ D[j] = D[i] + 1
      BY <3>3 DEF Leads
    <3>5. ~(IsPointer(ls[i][1]) /\ j = ls[i][1].arg)
      BY <1>1, <1>5, <3>1, <3>4 DEF Fine, OneParent
    <3>6. ms[j] = ls[j]
      <4>1. D[j] <= D[i] + 1
        BY <1>0, <1>5, <3>4
      <4> QED
        BY <1>7, <1>8, <3>5, <4>1 DEF Resolved
    <3> QED
      BY <1>5, <1>9, <3>1, <3>4, <3>6 DEF Stands
  <2> QED
    BY <2>2, <2>3
<1>13. Stands(ms, p, i, 1, y)
  BY <1>7, <1>8, <1>9, <1>11 DEF Resolved
<1>14. PICK u1 : u1 = Put(ms, i, 0, x)
  OBVIOUS
<1>15. Fine(u1, D, p) /\ Updated(ms, i, 0, x, u1) /\ Thinned(ms, u1)
  BY <1>1, <1>9, <1>12, <1>14, StandsThin
<1>16. Len(u1) = Len(ns) /\ u1[i][0] = x /\ u1[i][1] = ms[i][1] /\ \A k \in 1 .. Len(ns) : k # i => u1[k] = ms[k]
  BY <1>1, <1>9, <1>15 DEF Updated
<1>17. Stands(u1, p, i, 1, y)
  <2>1. CASE y = ms[i][1]
    BY <1>16, <2>1 DEF Stands
  <2>2. CASE y # ms[i][1]
    <3>1. y \in Leafs(p) /\ IsPointer(ms[i][1]) /\ ms[i][1].kind = "Node" /\ \A d \in Bit : ms[ms[i][1].arg][d] = y
      BY <1>13, <2>2 DEF Stands
    <3>2. ms[i][1] \notin Leafs(p)
      BY <1>0, <3>1, LeafsAre
    <3>3. Leads(ms, D, ms[i][1], D[i] + 1)
      BY <1>1, <1>9, <3>2 DEF Fine
    <3>4. PICK j \in 1 .. Len(ms) : j = ms[i][1].arg /\ D[j] = D[i] + 1
      BY <3>3 DEF Leads
    <3>5. j # i
      BY <1>0, <1>9, <3>4
    <3> QED
      BY <1>9, <1>16, <3>1, <3>4, <3>5 DEF Stands
  <2> QED
    BY <2>1, <2>2
<1>18. PICK u : u = Put(u1, i, 1, y)
  OBVIOUS
<1>19. Fine(u, D, p) /\ Updated(u1, i, 1, y, u) /\ Thinned(u1, u)
  BY <1>1, <1>9, <1>15, <1>16, <1>17, <1>18, StandsThin
<1>20. Len(u) = Len(ns) /\ u[i][0] = x /\ u[i][1] = y /\ \A k \in 1 .. Len(ns) : k # i => u[k] = ms[k]
  BY <1>1, <1>9, <1>16, <1>19 DEF Updated
<1>21. PICK node : node = [b \in Bit |-> IF b = 0 THEN x ELSE y]
  OBVIOUS
<1>22. u[i] = node
  <2>1. u[i] \in [Bit -> Record]
    BY <1>9, <1>19, <1>20, FineTypes
  <2> QED
    BY <1>1, <1>20, <1>21, <2>1
<1>23. [ms EXCEPT ![i] = node] = u
  <2>1. ms \in Seq([Bit -> Record]) /\ u \in Seq([Bit -> Record]) /\ DOMAIN ms = 1 .. Len(ns) /\ DOMAIN u = 1 .. Len(ns)
    BY <1>9, <1>19, <1>20, FineTypes
  <2>2. PICK w : w = [ms EXCEPT ![i] = node]
    OBVIOUS
  <2>3. w = [k \in 1 .. Len(ns) |-> IF k = i THEN node ELSE ms[k]]
    BY <2>1, <2>2
  <2>4. u = [k \in 1 .. Len(ns) |-> u[k]]
    <3>1. u \in [1 .. Len(u) -> [Bit -> Record]]
      BY <2>1, SeqDef
    <3> QED
      BY <1>20, <3>1
  <2> QED
    BY <1>20, <1>22, <2>2, <2>3, <2>4
<1>24. PICK z : z = IF BothSame(node) THEN node[0] ELSE Node(i)
  OBVIOUS
<1>25. c = [nodes |-> u, rec |-> z]
  BY <1>2, <1>3, <1>6, <1>7, <1>10, <1>11, <1>21, <1>23, <1>24 DEF CompactNode
<1>26. c.nodes = u /\ c.rec = z
  BY <1>25
<1>27. Thinned(ns, u)
  BY <1>3, <1>4, <1>7, <1>8, <1>15, <1>19, ThinnedTwice DEF Resolved
<1>28. ASSUME NEW k \in 1 .. Len(ns), k # i, D[k] <= D[i] PROVE u[k] = ns[k]
  <2>1. ASSUME NEW vs, Fine(vs, D, p), Len(vs) = Len(ns), NEW b \in Bit, IsPointer(vs[i][b])
        PROVE  k # vs[i][b].arg
    <3>1. Leads(vs, D, vs[i][b], D[i] + 1)
      BY <1>0, <2>1, LeafsAre DEF Fine
    <3>2. D[vs[i][b].arg] = D[i] + 1
      BY <3>1 DEF Leads
    <3> QED
      BY <1>0, <1>28, <3>2
  <2>2. D[k] <= D[i] + 1
    BY <1>0, <1>28
  <2>3. ls[k] = ns[k]
    BY <1>1, <1>3, <1>4, <2>1, <2>2 DEF Resolved
  <2>4. ms[k] = ls[k]
    BY <1>1, <1>5, <1>7, <1>8, <2>1, <2>2 DEF Resolved
  <2> QED
    BY <1>20, <1>28, <2>3, <2>4
<1>29. z = Node(i) \/ (z \in Leafs(p) /\ \A b \in Bit : u[i][b] = z)
  <2>1. CASE BothSame(node)
    <3>1. z = x /\ y = x /\ IsLeaf(x)
      BY <1>1, <1>21, <1>24, <2>1 DEF BothSame
    <3>2. x \in Leafs(p)
      <4>1. u[i][0] \in Leafs(p) \/ Leads(u, D, u[i][0], D[i] + 1)
        BY <1>1, <1>9, <1>19, <1>20 DEF Fine
      <4> QED
        BY <1>20, <3>1, <4>1 DEF Leads, IsLeaf, IsPointer
    <3> QED
      BY <1>1, <1>20, <3>1, <3>2
  <2>2. CASE ~BothSame(node)
    BY <1>24, <2>2
  <2> QED
    BY <2>1, <2>2
<1> QED
  BY <1>19, <1>20, <1>25, <1>26, <1>27, <1>28, <1>29 DEF Compacted

CompactStart == [ns \in Arenas |-> [i \in Nat |-> [nodes |-> ns, rec |-> Node(i)]]]
CompactLevel(below) == [ns \in Arenas |-> [i \in Nat |-> CompactNode(below, ns, i)]]

LEMMA CompactingDef ==
    /\ Compacting[0] = CompactStart
    /\ \A k \in 0 .. Depth - 1 :
           Compacting[k + 1] = CompactLevel(Compacting[k])
<1> DEFINE Turn(h, k) == IF k = 0 THEN CompactStart ELSE CompactLevel(h[k - 1])
           Eq(h) == h = [k \in 0 .. Depth |-> Turn(h, k)]
           T == {m \in Nat : \E h : h = [k \in 0 .. m |-> Turn(h, k)]}
<1>0. Depth \in Nat
  BY DepthAssumption
<1>1. 0 \in T
  <2>1. PICK g : g = [k \in 0 .. 0 |-> CompactStart]
    OBVIOUS
  <2>2. g = [k \in 0 .. 0 |-> Turn(g, k)]
    BY <2>1
  <2> QED
    BY <2>2
<1>2. ASSUME NEW m \in Nat, m \in T PROVE m + 1 \in T
  <2>1. PICK e : e = [k \in 0 .. m |-> Turn(e, k)]
    BY <1>2
  <2>2. PICK z : z = CompactLevel(e[m])
    OBVIOUS
  <2>3. PICK g : g = [k \in 0 .. m + 1 |-> IF k <= m THEN e[k] ELSE z]
    OBVIOUS
  <2>4. \A k \in 0 .. m + 1 : g[k] = Turn(g, k)
    <3>1. \A k \in 0 .. m : g[k] = e[k] /\ e[k] = Turn(e, k)
      <4>1. \A k \in 0 .. m : g[k] = e[k]
        BY <2>3
      <4>2. \A k \in 0 .. m : e[k] = Turn(e, k)
        <5> HIDE DEF Turn
        <5> QED
          BY ONLY <2>1
      <4> QED
        BY <4>1, <4>2
    <3>2. \A k \in 1 .. m + 1 : g[k - 1] = e[k - 1]
      BY <3>1
    <3>3. g[m + 1] = z
      BY <2>3
    <3>4. \A k \in 0 .. m : Turn(g, k) = Turn(e, k)
      BY <3>2
    <3>5. g[m + 1] = Turn(g, m + 1)
      <4>1. m + 1 # 0 /\ (m + 1) - 1 = m /\ g[m] = e[m]
        BY <3>1
      <4> QED
        BY <2>2, <3>3, <4>1
    <3>6. \A k \in 0 .. m : g[k] = Turn(g, k)
      BY <3>1, <3>4
    <3>7. \A k \in 0 .. m + 1 : k \in 0 .. m \/ k = m + 1
      OBVIOUS
    <3> HIDE DEF Turn
    <3> QED
      BY <3>5, <3>6, <3>7
  <2>5. g = [k \in 0 .. m + 1 |-> Turn(g, k)]
    <3> HIDE DEF Turn
    <3> QED
      BY <2>3, <2>4
  <2>6. \E h : h = [k \in 0 .. m + 1 |-> Turn(h, k)]
    BY Zenon, <2>5
  <2> QED
    BY <2>6
<1>3. Depth \in T
  <2> HIDE DEF T
  <2> QED
    BY <1>0, <1>1, <1>2, Induction
<1>4. Compacting = CHOOSE h : Eq(h)
  BY DEF Compacting, CompactStart, CompactLevel
<1>5. Eq(Compacting)
  <2>1. \E h : Eq(h)
    BY <1>3
  <2> HIDE DEF Eq
  <2> QED
    BY Zenon, <1>4, <2>1
<1>6. PICK W : W = Compacting /\ W = [k \in 0 .. Depth |-> Turn(W, k)]
  BY <1>5
<1>7. 0 \in 0 .. Depth /\ \A k \in 0 .. Depth - 1 : k + 1 \in 0 .. Depth /\ k + 1 # 0 /\ (k + 1) - 1 = k
  BY <1>0
<1>8. \A k \in 0 .. Depth : W[k] = Turn(W, k)
  <2> HIDE DEF Turn
  <2> QED
    BY ONLY <1>6
<1>9. W[0] = CompactStart
  BY <1>7, <1>8
<1>10. ASSUME NEW k \in 0 .. Depth - 1 PROVE W[k + 1] = CompactLevel(W[k])
  <2>1. k + 1 \in 0 .. Depth /\ k + 1 # 0 /\ (k + 1) - 1 = k
    BY <1>7
  <2>2. W[k + 1] = Turn(W, k + 1)
    BY <1>8, <2>1
  <2> QED
    BY <2>1, <2>2
<1> QED
  BY <1>6, <1>9, <1>10

LEMMA CompactsRightly ==
    ASSUME NEW D, NEW p
    PROVE  \A l \in 0 .. Depth : Compacts(Compacting[l], D, p, Depth - l)
<1> DEFINE S == {l \in Nat : l <= Depth => Compacts(Compacting[l], D, p, Depth - l)}
<1>0. Depth \in Nat
  BY DepthAssumption
<1>1. 0 \in S
  <2> SUFFICES ASSUME NEW ns, NEW i \in 1 .. Len(ns), Fine(ns, D, p)
               PROVE  Compacted(ns, D, p, i, Compacting[0][ns][i])
    BY DEF Compacts
  <2>1. ns \in Arenas /\ i \in Nat
    BY FineTypes DEF Arenas
  <2>2. PICK c : c = [nodes |-> ns, rec |-> Node(i)]
    OBVIOUS
  <2>3. CompactStart[ns][i] = c
    BY <2>1, <2>2 DEF CompactStart
  <2>4. c.nodes = ns /\ c.rec = Node(i)
    BY <2>2
  <2>5. Compacted(ns, D, p, i, c)
    BY <2>2, <2>4, ThinnedSame DEF Compacted
  <2> QED
    BY <2>3, <2>5, CompactingDef
<1>2. ASSUME NEW l \in Nat, l \in S PROVE l + 1 \in S
  <2> SUFFICES ASSUME l + 1 <= Depth, NEW ns, NEW i \in 1 .. Len(ns), Fine(ns, D, p), D[i] = Depth - (l + 1)
               PROVE  Compacted(ns, D, p, i, Compacting[l + 1][ns][i])
    BY DEF Compacts
  <2>1. ns \in Arenas /\ i \in Nat
    BY FineTypes DEF Arenas
  <2>2. PICK below : below = Compacting[l]
    OBVIOUS
  <2>3. Compacts(below, D, p, D[i] + 1)
    <3>1. D[i] + 1 = Depth - l /\ l <= Depth
      BY <1>0
    <3> QED
      BY <1>2, <2>2, <3>1
  <2>4. Compacting[l + 1] = CompactLevel(below)
    BY <1>0, <2>2, CompactingDef
  <2>5. CompactLevel(below)[ns][i] = CompactNode(below, ns, i)
    BY <2>1 DEF CompactLevel
  <2> QED
    BY <2>3, <2>4, <2>5, CompactedNode
<1> HIDE DEF S
<1>3. \A l \in Nat : l \in S
  BY <1>1, <1>2, Induction
<1> QED
  BY <1>0, <1>3 DEF S

(* compact, before the nodes are renumbered. *)
Rooted(ns) ==
    LET c == Compacting[Depth][ns][1]
    IN  IF IsPointer(c.rec) THEN c.nodes ELSE [c.nodes EXCEPT ![1] = [b \in Bit |-> c.rec]]

LEMMA RootedRightly ==
    ASSUME NEW ns, NEW D, NEW p, Fine(ns, D, p)
    PROVE  Fine(Rooted(ns), D, p) /\ Thinned(ns, Rooted(ns))
<1>1. p \in Nat /\ Depth \in Nat /\ 1 \in 1 .. Len(ns) /\ D[1] = Depth - Depth
  BY FineTypes
<1>2. PICK c : c = Compacting[Depth][ns][1]
  OBVIOUS
<1>3. Compacted(ns, D, p, 1, c)
  BY <1>1, <1>2, CompactsRightly DEF Compacts
<1>4. CASE IsPointer(c.rec)
  <2>1. Rooted(ns) = c.nodes
    BY <1>2, <1>4 DEF Rooted
  <2> QED
    BY <1>3, <2>1 DEF Compacted
<1>5. CASE ~IsPointer(c.rec)
  <2>1. IsPointer(Node(1))
    BY DEF IsPointer, Node, Rec
  <2>2. \A b \in Bit : c.nodes[1][b] = c.rec
    BY <1>3, <1>5, <2>1 DEF Compacted
  <2>3. c.nodes \in Seq([Bit -> Record]) /\ c.nodes[1] \in [Bit -> Record] /\ 1 \in 1 .. Len(c.nodes)
    BY <1>3, FineTypes DEF Compacted
  <2>4. PICK m : m = [b \in Bit |-> c.rec]
    OBVIOUS
  <2>5. m = c.nodes[1]
    BY <2>2, <2>3, <2>4
  <2>6. Rooted(ns) = [c.nodes EXCEPT ![1] = m]
    BY <1>2, <1>5, <2>4 DEF Rooted
  <2>7. [c.nodes EXCEPT ![1] = m] = c.nodes
    <3>1. c.nodes \in [1 .. Len(c.nodes) -> [Bit -> Record]]
      BY <2>3, SeqDef
    <3> QED
      BY <2>3, <2>5, <3>1
  <2> QED
    BY <1>3, <2>6, <2>7 DEF Compacted
<1> QED
  BY <1>4, <1>5

-----------------------------------------------------------------------------
(***************************************************************************)
(* renumber_reachable: the order holds a node with every node below it.    *)
(***************************************************************************)
PreorderStart == [i \in Nat |-> << >>]
PreorderLevel(below, ns) ==
    [i \in Nat |-> <<i>> \o Behind(below, ns[i][0]) \o Behind(below, ns[i][1])]

LEMMA PreorderDef ==
    ASSUME NEW ns
    PROVE  /\ Preorder(ns)[0] = PreorderStart
           /\ \A k \in 0 .. Depth - 1 :
                  Preorder(ns)[k + 1] = PreorderLevel(Preorder(ns)[k], ns)
<1> DEFINE Turn(h, k) == IF k = 0 THEN PreorderStart ELSE PreorderLevel(h[k - 1], ns)
           Eq(h) == h = [k \in 0 .. Depth |-> Turn(h, k)]
           T == {m \in Nat : \E h : h = [k \in 0 .. m |-> Turn(h, k)]}
<1>0. Depth \in Nat
  BY DepthAssumption
<1>1. 0 \in T
  <2>1. PICK g : g = [k \in 0 .. 0 |-> PreorderStart]
    OBVIOUS
  <2>2. g = [k \in 0 .. 0 |-> Turn(g, k)]
    BY <2>1
  <2> QED
    BY <2>2
<1>2. ASSUME NEW m \in Nat, m \in T PROVE m + 1 \in T
  <2>1. PICK e : e = [k \in 0 .. m |-> Turn(e, k)]
    BY <1>2
  <2>2. PICK z : z = PreorderLevel(e[m], ns)
    OBVIOUS
  <2>3. PICK g : g = [k \in 0 .. m + 1 |-> IF k <= m THEN e[k] ELSE z]
    OBVIOUS
  <2>4. \A k \in 0 .. m + 1 : g[k] = Turn(g, k)
    <3>1. \A k \in 0 .. m : g[k] = e[k] /\ e[k] = Turn(e, k)
      <4>1. \A k \in 0 .. m : g[k] = e[k]
        BY <2>3
      <4>2. \A k \in 0 .. m : e[k] = Turn(e, k)
        <5> HIDE DEF Turn
        <5> QED
          BY ONLY <2>1
      <4> QED
        BY <4>1, <4>2
    <3>2. \A k \in 1 .. m + 1 : g[k - 1] = e[k - 1]
      BY <3>1
    <3>3. g[m + 1] = z
      BY <2>3
    <3>4. \A k \in 0 .. m : Turn(g, k) = Turn(e, k)
      BY <3>2
    <3>5. g[m + 1] = Turn(g, m + 1)
      <4>1. m + 1 # 0 /\ (m + 1) - 1 = m /\ g[m] = e[m]
        BY <3>1
      <4> QED
        BY <2>2, <3>3, <4>1
    <3>6. \A k \in 0 .. m : g[k] = Turn(g, k)
      BY <3>1, <3>4
    <3>7. \A k \in 0 .. m + 1 : k \in 0 .. m \/ k = m + 1
      OBVIOUS
    <3> HIDE DEF Turn
    <3> QED
      BY <3>5, <3>6, <3>7
  <2>5. g = [k \in 0 .. m + 1 |-> Turn(g, k)]
    <3> HIDE DEF Turn
    <3> QED
      BY <2>3, <2>4
  <2>6. \E h : h = [k \in 0 .. m + 1 |-> Turn(h, k)]
    BY Zenon, <2>5
  <2> QED
    BY <2>6
<1>3. Depth \in T
  <2> HIDE DEF T
  <2> QED
    BY <1>0, <1>1, <1>2, Induction
<1>4. Preorder(ns) = CHOOSE h : Eq(h)
  BY DEF Preorder, PreorderStart, PreorderLevel
<1>5. Eq(Preorder(ns))
  <2>1. \E h : Eq(h)
    BY <1>3
  <2> HIDE DEF Eq
  <2> QED
    BY Zenon, <1>4, <2>1
<1>6. PICK W : W = Preorder(ns) /\ W = [k \in 0 .. Depth |-> Turn(W, k)]
  BY <1>5
<1>7. 0 \in 0 .. Depth /\ \A k \in 0 .. Depth - 1 : k + 1 \in 0 .. Depth /\ k + 1 # 0 /\ (k + 1) - 1 = k
  BY <1>0
<1>8. \A k \in 0 .. Depth : W[k] = Turn(W, k)
  <2> HIDE DEF Turn
  <2> QED
    BY ONLY <1>6
<1>9. W[0] = PreorderStart
  BY <1>7, <1>8
<1>10. ASSUME NEW k \in 0 .. Depth - 1 PROVE W[k + 1] = PreorderLevel(W[k], ns)
  <2>1. k + 1 \in 0 .. Depth /\ k + 1 # 0 /\ (k + 1) - 1 = k
    BY <1>7
  <2>2. W[k + 1] = Turn(W, k + 1)
    BY <1>8, <2>1
  <2> QED
    BY <2>1, <2>2
<1> QED
  BY <1>6, <1>9, <1>10

LEMMA ContainsConcat ==
    ASSUME NEW S, NEW s \in Seq(S), NEW t \in Seq(S), NEW x
    PROVE  /\ s \o t \in Seq(S) /\ Len(s \o t) = Len(s) + Len(t)
           /\ Contains(s \o t, x) <=> Contains(s, x) \/ Contains(t, x)
<1>1. s \o t \in Seq(S) /\ Len(s \o t) = Len(s) + Len(t) /\ Len(s) \in Nat /\ Len(t) \in Nat
      /\ \A i \in 1 .. Len(s) + Len(t) : (s \o t)[i] = IF i <= Len(s) THEN s[i] ELSE t[i - Len(s)]
  BY ConcatProperties, LenProperties
<1>2. ASSUME Contains(s, x) PROVE Contains(s \o t, x)
  <2>1. PICK i \in 1 .. Len(s) : s[i] = x
    BY <1>2 DEF Contains
  <2>2. i \in 1 .. Len(s) + Len(t) /\ i <= Len(s)
    BY <1>1
  <2> QED
    BY <1>1, <2>1, <2>2 DEF Contains
<1>3. ASSUME Contains(t, x) PROVE Contains(s \o t, x)
  <2>1. PICK i \in 1 .. Len(t) : t[i] = x
    BY <1>3 DEF Contains
  <2>2. PICK j : j = Len(s) + i
    OBVIOUS
  <2>3. j \in 1 .. Len(s) + Len(t) /\ ~(j <= Len(s)) /\ j - Len(s) = i
    BY <1>1, <2>2
  <2> QED
    BY <1>1, <2>1, <2>3 DEF Contains
<1>4. ASSUME Contains(s \o t, x) PROVE Contains(s, x) \/ Contains(t, x)
  <2>1. PICK i \in 1 .. Len(s) + Len(t) : (s \o t)[i] = x
    BY <1>1, <1>4 DEF Contains
  <2>2. CASE i <= Len(s)
    <3>1. i \in 1 .. Len(s) /\ s[i] = x
      BY <1>1, <2>1, <2>2
    <3> QED
      BY <3>1 DEF Contains
  <2>3. CASE ~(i <= Len(s))
    <3>1. i - Len(s) \in 1 .. Len(t) /\ t[i - Len(s)] = x
      BY <1>1, <2>1, <2>3
    <3> QED
      BY <3>1 DEF Contains
  <2> QED
    BY <2>2, <2>3
<1> QED
  BY <1>1, <1>2, <1>3, <1>4

(* Nodes of ns, and with each the nodes that it leads to. *)
Closed(ns, s) ==
    /\ s \in Seq(1 .. Len(ns))
    /\ \A e \in 1 .. Len(ns) : Contains(s, e) =>
           \A b \in Bit : IsPointer(ns[e][b]) => Contains(s, ns[e][b].arg)

LEMMA ClosedConcat ==
    ASSUME NEW ns, NEW s, NEW t, Closed(ns, s), Closed(ns, t)
    PROVE  Closed(ns, s \o t)
<1>1. s \in Seq(1 .. Len(ns)) /\ t \in Seq(1 .. Len(ns))
  BY DEF Closed
<1>2. s \o t \in Seq(1 .. Len(ns)) /\ \A x : Contains(s \o t, x) <=> Contains(s, x) \/ Contains(t, x)
  BY <1>1, ContainsConcat
<1> QED
  BY <1>2 DEF Closed

Visited(ns, i, s) == Closed(ns, s) /\ Contains(s, i) /\ 1 <= Len(s) /\ s[1] = i

LEMMA VisitStep ==
    ASSUME NEW ns, NEW D, NEW p, Fine(ns, D, p), NEW i \in 1 .. Len(ns), NEW below,
           \A j \in 1 .. Len(ns) : D[j] = D[i] + 1 /\ D[j] < Depth => Visited(ns, j, below[j]),
           NEW s, s = <<i>> \o Behind(below, ns[i][0]) \o Behind(below, ns[i][1])
    PROVE  Visited(ns, i, s)
<1>0. p \in Nat /\ 0 \in Bit /\ 1 \in Bit /\ \A b \in Bit : b = 0 \/ b = 1
  BY FineTypes DEF Bit
<1>1. ASSUME NEW b \in Bit
      PROVE  /\ Closed(ns, Behind(below, ns[i][b]))
             /\ IsPointer(ns[i][b]) => Contains(Behind(below, ns[i][b]), ns[i][b].arg)
  <2>1. CASE ~IsPointer(ns[i][b])
    <3>1. Behind(below, ns[i][b]) = << >>
      BY <2>1 DEF Behind
    <3>2. Closed(ns, << >>)
      BY DEF Closed, Contains
    <3> QED
      BY Zenon, <2>1, <3>1, <3>2
  <2>2. CASE IsPointer(ns[i][b])
    <3>1. Leads(ns, D, ns[i][b], D[i] + 1)
      BY <1>0, <2>2, LeafsAre DEF Fine
    <3>2. PICK j \in 1 .. Len(ns) : j = ns[i][b].arg /\ D[j] = D[i] + 1 /\ D[j] < Depth
      BY Zenon, <3>1 DEF Leads
    <3>3. Behind(below, ns[i][b]) = below[j]
      BY Zenon, <2>2, <3>2 DEF Behind
    <3>4. Visited(ns, j, below[j])
      BY <3>2
    <3> QED
      BY <3>2, <3>3, <3>4 DEF Visited
  <2> QED
    BY <2>1, <2>2
<1>2. PICK t0 : t0 = Behind(below, ns[i][0])
  OBVIOUS
<1>3. PICK t1 : t1 = Behind(below, ns[i][1])
  OBVIOUS
<1>4. Closed(ns, t0) /\ Closed(ns, t1) /\ t0 \in Seq(1 .. Len(ns)) /\ t1 \in Seq(1 .. Len(ns))
  BY <1>0, <1>1, <1>2, <1>3 DEF Closed
<1>5. PICK h : h = <<i>>
  OBVIOUS
<1>6. h \in Seq(1 .. Len(ns)) /\ Len(h) = 1 /\ h[1] = i
  BY <1>5
<1>7. PICK u : u = h \o t0
  OBVIOUS
<1>8. s = u \o t1
  BY <1>2, <1>3, <1>5, <1>7
<1>9. /\ u \in Seq(1 .. Len(ns)) /\ Len(u) = 1 + Len(t0)
      /\ \A x : Contains(u, x) <=> Contains(h, x) \/ Contains(t0, x)
  <2>1. PICK S : S = 1 .. Len(ns)
    OBVIOUS
  <2>2. h \in Seq(S) /\ t0 \in Seq(S)
    BY <1>4, <1>6, <2>1
  <2>3. u \in Seq(S) /\ Len(u) = Len(h) + Len(t0)
    BY <1>7, <2>2, ConcatProperties
  <2>4. \A x : Contains(u, x) <=> Contains(h, x) \/ Contains(t0, x)
    BY <1>7, <2>2, ContainsConcat
  <2> QED
    BY <1>6, <2>1, <2>3, <2>4
<1>10. /\ s \in Seq(1 .. Len(ns)) /\ Len(s) = Len(u) + Len(t1)
       /\ \A x : Contains(s, x) <=> Contains(u, x) \/ Contains(t1, x)
  <2>1. u \in Seq(1 .. Len(ns)) /\ t1 \in Seq(1 .. Len(ns))
    BY <1>4, <1>9
  <2>2. PICK v : v = u \o t1
    OBVIOUS
  <2>3. /\ v \in Seq(1 .. Len(ns)) /\ Len(v) = Len(u) + Len(t1)
        /\ \A x : Contains(v, x) <=> Contains(u, x) \/ Contains(t1, x)
    BY <2>1, <2>2, ContainsConcat
  <2> QED
    BY <1>8, <2>2, <2>3
<1>11. \A x : Contains(h, x) <=> x = i
  BY <1>6 DEF Contains
<1>12. Closed(ns, s)
  <2> SUFFICES ASSUME NEW e \in 1 .. Len(ns), Contains(s, e), NEW b \in Bit, IsPointer(ns[e][b])
               PROVE  Contains(s, ns[e][b].arg)
    BY <1>10 DEF Closed
  <2>1. CASE e = i
    <3>1. Contains(Behind(below, ns[i][b]), ns[i][b].arg)
      BY <1>1, <2>1
    <3>2. Contains(t0, ns[i][b].arg) \/ Contains(t1, ns[i][b].arg)
      BY <1>0, <1>2, <1>3, <3>1
    <3> QED
      BY <1>9, <1>10, <2>1, <3>2
  <2>2. CASE Contains(t0, e)
    BY <1>4, <1>9, <1>10, <2>2 DEF Closed
  <2>3. CASE Contains(t1, e)
    BY <1>4, <1>9, <1>10, <2>3 DEF Closed
  <2> QED
    BY <1>9, <1>10, <1>11, <2>1, <2>2, <2>3
<1>13. Contains(s, i)
  BY <1>9, <1>10, <1>11
<1>14. Len(t0) \in Nat /\ Len(t1) \in Nat
  BY <1>4, LenProperties
<1>15. 1 <= Len(s) /\ s[1] = i
  <2>1. u[1] = h[1]
    <3>1. \A k \in 1 .. Len(h) + Len(t0) : u[k] = IF k <= Len(h) THEN h[k] ELSE t0[k - Len(h)]
      BY <1>4, <1>6, <1>7, ConcatProperties
    <3>2. 1 \in 1 .. Len(h) + Len(t0) /\ 1 <= Len(h)
      BY <1>6, <1>14
    <3> QED
      BY <3>1, <3>2
  <2>2. s[1] = u[1]
    <3>1. PICK v : v = u \o t1
      OBVIOUS
    <3>2. \A k \in 1 .. Len(u) + Len(t1) : v[k] = IF k <= Len(u) THEN u[k] ELSE t1[k - Len(u)]
      <4>1. PICK S : S = 1 .. Len(ns)
        OBVIOUS
      <4>2. u \in Seq(S) /\ t1 \in Seq(S)
        BY <1>4, <1>9, <4>1
      <4> QED
        BY <3>1, <4>2, ConcatProperties
    <3>3. 1 \in 1 .. Len(u) + Len(t1) /\ 1 <= Len(u)
      BY <1>9, <1>14
    <3> QED
      BY <1>8, <3>1, <3>2, <3>3
  <2> QED
    BY <1>6, <1>9, <1>10, <1>14, <2>1, <2>2
<1> QED
  BY <1>12, <1>13, <1>15 DEF Visited

LEMMA VisitsRight ==
    ASSUME NEW ns, NEW D, NEW p, Fine(ns, D, p)
    PROVE  Visited(ns, 1, Preorder(ns)[Depth][1])
<1> DEFINE S == {l \in Nat : l + 1 <= Depth =>
                    \A i \in 1 .. Len(ns) : D[i] = Depth - (l + 1) => Visited(ns, i, Preorder(ns)[l + 1][i])}
<1>0. Depth \in Nat \ {0} /\ 1 \in 1 .. Len(ns) /\ D[1] = 0 /\ Len(ns) \in Nat
  BY FineTypes
<1>1. ASSUME NEW l \in 0 .. Depth - 1, NEW i \in 1 .. Len(ns), D[i] = Depth - (l + 1),
             \A j \in 1 .. Len(ns) : D[j] = D[i] + 1 /\ D[j] < Depth => Visited(ns, j, Preorder(ns)[l][j])
      PROVE  Visited(ns, i, Preorder(ns)[l + 1][i])
  <2>1. PICK below : below = Preorder(ns)[l]
    OBVIOUS
  <2>2. Preorder(ns)[l + 1] = PreorderLevel(below, ns)
    BY <2>1, PreorderDef
  <2>3. PICK s : s = <<i>> \o Behind(below, ns[i][0]) \o Behind(below, ns[i][1])
    OBVIOUS
  <2>4. PreorderLevel(below, ns)[i] = s
    <3>1. i \in Nat
      BY <1>0
    <3> QED
      BY <2>3, <3>1 DEF PreorderLevel
  <2>5. Visited(ns, i, s)
    BY <1>1, <2>1, <2>3, VisitStep
  <2> QED
    BY <2>2, <2>4, <2>5
<1>2. 0 \in S
  <2> SUFFICES ASSUME 0 + 1 <= Depth, NEW i \in 1 .. Len(ns), D[i] = Depth - (0 + 1)
               PROVE  Visited(ns, i, Preorder(ns)[0 + 1][i])
    OBVIOUS
  <2>1. 0 \in 0 .. Depth - 1 /\ \A j \in 1 .. Len(ns) : ~(D[j] = D[i] + 1 /\ D[j] < Depth)
    BY <1>0
  <2> QED
    BY <1>1, <2>1
<1>3. ASSUME NEW l \in Nat, l \in S PROVE l + 1 \in S
  <2> SUFFICES ASSUME (l + 1) + 1 <= Depth, NEW i \in 1 .. Len(ns), D[i] = Depth - ((l + 1) + 1)
               PROVE  Visited(ns, i, Preorder(ns)[(l + 1) + 1][i])
    OBVIOUS
  <2>1. l + 1 \in 0 .. Depth - 1 /\ l + 1 <= Depth /\ D[i] + 1 = Depth - (l + 1)
    BY <1>0
  <2>2. \A j \in 1 .. Len(ns) : D[j] = D[i] + 1 => Visited(ns, j, Preorder(ns)[l + 1][j])
    BY <1>3, <2>1
  <2>3. PICK m \in 0 .. Depth - 1 : m = l + 1
    BY <2>1
  <2> HIDE DEF S
  <2> QED
    BY <1>1, <2>2, <2>3
<1> HIDE DEF S
<1>4. Depth - 1 \in S
  BY <1>0, <1>2, <1>3, Induction
<1>5. (Depth - 1) + 1 = Depth
  BY <1>0
<1> QED
  BY <1>0, <1>4, <1>5 DEF S

(* A pointer to a node of an order is a pointer to its place there. *)
LEMMA RemapFound ==
    ASSUME NEW S, NEW order \in Seq(S), NEW r, IsPointer(r) \/ r.kind = "Alias", Contains(order, r.arg)
    PROVE  \E k \in 1 .. Len(order) : order[k] = r.arg /\ Remap(r, order) = Rec(r.kind, k)
<1>1. PICK k : k = CHOOSE j \in DOMAIN order : order[j] = r.arg
  OBVIOUS
<1>2. Remap(r, order) = Rec(r.kind, k)
  BY <1>1 DEF Remap
<1>3. DOMAIN order = 1 .. Len(order)
  BY LenProperties
<1>4. \E j \in DOMAIN order : order[j] = r.arg
  BY <1>3 DEF Contains
<1>5. k \in 1 .. Len(order) /\ order[k] = r.arg
  BY <1>1, <1>3, <1>4
<1> QED
  BY <1>2, <1>5

(* A record of a tree of so many nodes, and of a pool of p values. *)
Placed(r, count, p) ==
    \/ r \in {NoData, Reserved} \/ \E id \in 1 .. p : r = Data(id)
    \/ r.kind \in {"Node", "FixedNode", "Alias"} /\ r.arg \in 1 .. count /\ r = Rec(r.kind, r.arg)

AllPlaced(us, p) ==
    /\ us \in Seq([Bit -> Record]) /\ Len(us) \in Nat \ {0} /\ p \in Nat
    /\ \A k \in 1 .. Len(us) : \A b \in Bit : Placed(us[k][b], Len(us), p)

(* Node k of us is node order[k] of ns. *)
Mirrored(ns, us, order, p, k, b) ==
    LET r == ns[order[k]][b]
    IN  \/ r \in Leafs(p) /\ (r.kind = "Alias" \/ us[k][b] = r)
        \/ \E j \in 1 .. Len(us) : order[j] = r.arg /\ Norm(r) = Node(r.arg) /\ Norm(us[k][b]) = Node(j)

Mirrors(ns, us, order, p) ==
    /\ 1 <= Len(us) /\ order[1] = 1
    /\ \A k \in 1 .. Len(us) : order[k] \in 1 .. Len(ns)
    /\ \A k \in 1 .. Len(us) : \A b \in Bit : Mirrored(ns, us, order, p, k, b)

(* renumber_reachable remaps every record by this order. *)
Remapped(ns, us, order) ==
    /\ order \in Seq(1 .. Len(ns)) /\ Len(us) = Len(order)
    /\ \A k \in 1 .. Len(us) : \A b \in Bit : us[k][b] = Remap(ns[order[k]][b], order)

LEMMA Renumbered ==
    ASSUME NEW ns, NEW D, NEW p, Fine(ns, D, p), NEW us, us = RenumberReachable(ns)
    PROVE  AllPlaced(us, p) /\ \E order : Mirrors(ns, us, order, p) /\ Remapped(ns, us, order)
<1>0. p \in Nat
  BY FineTypes
<1>1. PICK order : order = Preorder(ns)[Depth][1]
  OBVIOUS
<1>2. Visited(ns, 1, order)
  BY <1>1, VisitsRight
<1>3. /\ order \in Seq(1 .. Len(ns)) /\ DOMAIN order = 1 .. Len(order) /\ Len(order) \in Nat
      /\ 1 <= Len(order) /\ order[1] = 1 /\ \A k \in 1 .. Len(order) : order[k] \in 1 .. Len(ns)
  BY <1>2, LenProperties, ElementOfSeq DEF Visited, Closed
<1>4. us = [k \in 1 .. Len(order) |-> [b \in Bit |-> Remap(ns[order[k]][b], order)]]
  BY <1>1, <1>3 DEF RenumberReachable
<1>5. ASSUME NEW k \in 1 .. Len(order), NEW b \in Bit
      PROVE  /\ us[k][b] = Remap(ns[order[k]][b], order)
             /\ us[k][b] \in Record /\ Placed(us[k][b], Len(order), p)
             /\ \/ ns[order[k]][b] \in Leafs(p) /\ (ns[order[k]][b].kind = "Alias" \/ us[k][b] = ns[order[k]][b])
                \/ \E j \in 1 .. Len(order) : order[j] = ns[order[k]][b].arg
                                              /\ Norm(ns[order[k]][b]) = Node(ns[order[k]][b].arg)
                                              /\ Norm(us[k][b]) = Node(j)
  <2>1. PICK e \in 1 .. Len(ns) : e = order[k]
    BY <1>3
  <2>2. PICK r : r = ns[e][b]
    OBVIOUS
  <2>3. PICK x : x = Remap(r, order)
    OBVIOUS
  <2>4. us[k][b] = x
    BY <1>4, <2>1, <2>2, <2>3
  <2>5. r \in Leafs(p) \/ Leads(ns, D, r, D[e] + 1)
    BY <2>2 DEF Fine
  <2>6. CASE r \in Leafs(p) /\ r.kind # "Alias"
    <3>1. ~IsPointer(r) /\ r \in Record
      BY <1>0, <2>6, LeafsAre
    <3>2. x = r
      BY <2>3, <2>6, <3>1 DEF Remap
    <3>3. Placed(r, Len(order), p)
      BY <2>6 DEF Leafs, Placed, Alias, Rec
    <3> QED
      BY <2>1, <2>2, <2>3, <2>4, <2>6, <3>1, <3>2, <3>3
  <2>7. CASE r \in Leafs(p) /\ r.kind = "Alias"
    <3>1. CASE Contains(order, r.arg)
      <4>1. PICK j \in 1 .. Len(order) : x = Rec("Alias", j)
        BY <1>3, <2>3, <2>7, <3>1, RemapFound
      <4>2. x \in Record /\ x.kind = "Alias" /\ x.arg = j /\ x = Rec(x.kind, x.arg)
        BY <4>1 DEF Rec, Record
      <4>3. Placed(x, Len(order), p)
        BY <4>2 DEF Placed
      <4> QED
        BY <2>1, <2>2, <2>3, <2>4, <2>7, <4>2, <4>3
    <3>2. CASE ~Contains(order, r.arg)
      <4>1. x = NoData /\ x \in Record
        BY <2>3, <2>7, <3>2, Kinds DEF Remap
      <4>2. Placed(x, Len(order), p)
        BY <4>1 DEF Placed
      <4> QED
        BY <2>1, <2>2, <2>3, <2>4, <2>7, <4>1, <4>2
    <3> QED
      BY <3>1, <3>2
  <2>8. CASE Leads(ns, D, r, D[e] + 1)
    <3>1. r \in Record /\ IsPointer(r) /\ r.kind \in {"Node", "FixedNode"}
      BY <2>8 DEF Leads, IsPointer
    <3>2. Contains(order, r.arg)
      <4>1. Contains(order, e)
        BY <2>1 DEF Contains
      <4> QED
        BY <1>2, <2>2, <3>1, <4>1 DEF Visited, Closed
    <3>3. PICK j \in 1 .. Len(order) : order[j] = r.arg /\ x = Rec(r.kind, j)
      BY <1>3, <2>3, <3>1, <3>2, RemapFound
    <3>4. x \in Record /\ x.kind = r.kind /\ x.arg = j /\ x = Rec(x.kind, x.arg)
      BY <3>1, <3>3 DEF Rec, Record
    <3>5. Placed(x, Len(order), p)
      BY <3>1, <3>4 DEF Placed
    <3>6. Norm(x) = Node(j)
      BY <3>1, <3>3, <3>4 DEF Norm, Node
    <3>7. Norm(r) = Node(r.arg)
      BY <1>0, <2>5, <3>1, LeafsAre, NormFine
    <3> QED
      BY <2>1, <2>2, <2>3, <2>4, <3>3, <3>4, <3>5, <3>6, <3>7
  <2> QED
    BY <2>5, <2>6, <2>7, <2>8
<1>6. us \in Seq([Bit -> Record]) /\ Len(us) = Len(order)
  <2>1. \A k \in 1 .. Len(order) : us[k] \in [Bit -> Record]
    BY <1>4, <1>5
  <2>2. us \in [1 .. Len(order) -> [Bit -> Record]]
    BY <1>4, <2>1
  <2> QED
    BY <1>3, <2>2, SeqDef, LenProperties
<1>7. AllPlaced(us, p)
  BY <1>0, <1>3, <1>5, <1>6 DEF AllPlaced
<1>8. ASSUME NEW k \in 1 .. Len(us), NEW b \in Bit PROVE Mirrored(ns, us, order, p, k, b)
  BY <1>5, <1>6 DEF Mirrored
<1>9. Mirrors(ns, us, order, p) /\ Remapped(ns, us, order)
  BY <1>3, <1>5, <1>6, <1>8 DEF Mirrors, Remapped
<1> QED
  BY <1>7, <1>9

LEMMA MirrorRest ==
    ASSUME NEW ns, NEW D, NEW p, Fine(ns, D, p), NEW us, NEW order, Mirrors(ns, us, order, p),
           NEW a \in Addr, Rest(ns, a).kind # "Alias"
    PROVE  Rest(us, a) = Rest(ns, a)
<1> DEFINE Like(x, y) ==
               \/ y \in Leafs(p) /\ (y.kind = "Alias" \/ x = y)
               \/ \E j \in 1 .. Len(us) : y = Node(order[j]) /\ x = Node(j)
           S == {k \in Nat : k <= Depth => Like(Stroll(us, a)[k], Stroll(ns, a)[k])}
<1>0. p \in Nat /\ Depth \in Nat \ {0} /\ \A k \in 0 .. Depth - 1 : a[k + 1] \in Bit
  BY FineTypes, AddrBits
<1>1. 0 \in S
  <2>1. order[1] = 1 /\ 1 \in 1 .. Len(us)
    BY DEF Mirrors
  <2>2. Like(Node(1), Node(1))
    BY <2>1
  <2> QED
    BY <2>2, StrollDef
<1>2. ASSUME NEW k \in Nat, k \in S PROVE k + 1 \in S
  <2> SUFFICES ASSUME k + 1 <= Depth PROVE Like(Stroll(us, a)[k + 1], Stroll(ns, a)[k + 1])
    OBVIOUS
  <2>1. PICK x : x = Stroll(us, a)[k]
    OBVIOUS
  <2>2. PICK y : y = Stroll(ns, a)[k]
    OBVIOUS
  <2>3. Like(x, y) /\ k \in 0 .. Depth - 1
    BY <1>0, <1>2, <2>1, <2>2
  <2>4. PICK b \in Bit : b = a[k + 1]
    BY <1>0, <2>3
  <2>5. Stroll(us, a)[k + 1] = Ahead(us, x, b) /\ Stroll(ns, a)[k + 1] = Ahead(ns, y, b)
    BY <2>1, <2>2, <2>3, <2>4, StrollDef
  <2>6. CASE y \in Leafs(p) /\ (y.kind = "Alias" \/ x = y)
    <3>1. Ahead(ns, y, b) = y /\ Ahead(us, y, b) = y
      BY <1>0, <2>6, LeafsAre
    <3> QED
      BY <2>5, <2>6, <3>1
  <2>7. CASE \E j \in 1 .. Len(us) : y = Node(order[j]) /\ x = Node(j)
    <3>1. PICK j \in 1 .. Len(us) : y = Node(order[j]) /\ x = Node(j)
      BY <2>7
    <3>2. PICK r : r = ns[order[j]][b]
      OBVIOUS
    <3>3. PICK q : q = us[j][b]
      OBVIOUS
    <3>4. Ahead(ns, y, b) = Norm(r) /\ Ahead(us, x, b) = Norm(q)
      BY <3>1, <3>2, <3>3, AheadFromNode
    <3>5. Mirrored(ns, us, order, p, j, b)
      BY DEF Mirrors
    <3>6. CASE r \in Leafs(p) /\ (r.kind = "Alias" \/ q = r)
      <4>1. Norm(r) = r
        BY <1>0, <3>6, LeafsAre
      <4>2. Like(Norm(q), Norm(r))
        BY <3>6, <4>1
      <4> QED
        BY <2>5, <3>4, <4>2
    <3>7. CASE \E m \in 1 .. Len(us) : order[m] = r.arg /\ Norm(r) = Node(r.arg) /\ Norm(q) = Node(m)
      <4>1. Like(Norm(q), Norm(r))
        BY <3>7
      <4> QED
        BY <2>5, <3>4, <4>1
    <3> QED
      BY <3>2, <3>3, <3>5, <3>6, <3>7 DEF Mirrored
  <2> QED
    BY <2>3, <2>6, <2>7
<1>3. Like(Rest(us, a), Rest(ns, a))
  <2>1. Depth \in S
    <3> HIDE DEF S
    <3> QED
      BY <1>0, <1>1, <1>2, Induction
  <2> QED
    BY <1>0, <2>1 DEF Rest
<1>4. Rest(ns, a) \in Leafs(p)
  BY RestFine
<1>5. \A j : Rest(ns, a) # Node(j)
  <2>1. \A j : Node(j).kind = "Node"
    BY DEF Node, Rec
  <2> QED
    BY <1>0, <1>4, <2>1, LeafsAre
<1> QED
  BY <1>3, <1>5

(***************************************************************************)
(* compact: the records of the new tree lead into it, and an address finds *)
(* the leaf it found before, but for aliases.                              *)
(***************************************************************************)
LEMMA CompactRest ==
    ASSUME NEW ns, NEW D, NEW p, Fine(ns, D, p), NEW us, us = Compact(ns)
    PROVE  /\ AllPlaced(us, p)
           /\ \A a \in Addr : Rest(ns, a).kind # "Alias" => Rest(us, a) = Rest(ns, a)
<1>1. PICK rs : rs = Rooted(ns)
  OBVIOUS
<1>2. Fine(rs, D, p) /\ \A a \in Addr : Rest(rs, a) = Rest(ns, a)
  BY <1>1, RootedRightly DEF Thinned
<1>3. us = RenumberReachable(rs)
  BY <1>1 DEF Compact, Rooted
<1>4. AllPlaced(us, p) /\ \E order : Mirrors(rs, us, order, p)
  BY <1>2, <1>3, Renumbered
<1> QED
  BY <1>2, <1>4, MirrorRest

-----------------------------------------------------------------------------
(***************************************************************************)
(* The tree of a writer, and the aliases that build installs on its copy.  *)
(***************************************************************************)
LEMMA ArenaFine ==
    ASSUME NEW t, NEW D, Sound(t, D)
    PROVE  Fine(t.nodes, D, Len(t.values))
<1> DEFINE ns == t.nodes
           p == Len(t.values)
<1>0. /\ ns \in Seq([Bit -> Record]) /\ p \in Nat
      /\ \A i \in 1 .. Len(ns) : \A b \in Bit : ns[i][b] \in Record
  BY SoundTypes
<1>1. ASSUME NEW i \in 1 .. Len(ns), NEW b \in Bit
      PROVE  \/ ns[i][b] \in Leafs(p) /\ ~IsPointer(ns[i][b])
             \/ Leads(ns, D, ns[i][b], D[i] + 1) /\ ns[i][b].kind = "Node" /\ ns[i][b] = Node(ns[i][b].arg)
  <2>1. PICK r : r = ns[i][b]
    OBVIOUS
  <2>2. RecordSound(t, D, r, D[i] + 1) /\ r \in Record
    BY <1>0, <2>1 DEF Sound
  <2>3. CASE r \in {NoData, Reserved} \/ \E id \in 1 .. p : r = Data(id)
    <3>1. r \in Leafs(p)
      BY <2>3 DEF Leafs
    <3> QED
      BY <1>0, <2>1, <3>1, LeafsAre
  <2>4. CASE \E j \in 1 .. Len(ns) : r = Node(j) /\ D[j] = D[i] + 1 /\ D[i] + 1 < Depth
    <3>1. PICK j \in 1 .. Len(ns) : r = Node(j) /\ D[j] = D[i] + 1 /\ D[i] + 1 < Depth
      BY <2>4
    <3>2. r.kind = "Node" /\ r.arg = j
      BY <3>1, Kinds
    <3> QED
      BY <2>1, <2>2, <3>1, <3>2 DEF Leads, IsPointer
  <2> QED
    BY <2>2, <2>3, <2>4 DEF RecordSound
<1>2. OneParent(ns)
  <2> SUFFICES ASSUME NEW i \in 1 .. Len(ns), NEW j \in 1 .. Len(ns), NEW b \in Bit, NEW c \in Bit,
                      IsPointer(ns[i][b]), IsPointer(ns[j][c]), ns[i][b].arg = ns[j][c].arg
               PROVE  i = j /\ b = c
    BY DEF OneParent
  <2>1. ns[i][b].kind = "Node" /\ ns[i][b] = Node(ns[i][b].arg) /\ ns[j][c] = Node(ns[j][c].arg)
    BY <1>1
  <2> QED
    BY <2>1 DEF Sound, Separate
<1> QED
  BY <1>0, <1>1, <1>2 DEF Fine, Sound, Arenas

LEMMA ArenaRest ==
    ASSUME NEW t, NEW D, Sound(t, D), NEW a \in Addr
    PROVE  Rest(t.nodes, a) = RecordAt(t.nodes, a)
<1> DEFINE S == {k \in Nat : k <= Depth => Stroll(t.nodes, a)[k] = Walk(t.nodes, a)[k]}
<1>0. Len(a) = Depth /\ Depth \in Nat \ {0} /\ \A k \in 0 .. Depth - 1 : a[k + 1] \in Bit
  BY AddrBits
<1>1. 0 \in S
  BY <1>0, StrollDef, WalkDef
<1>2. ASSUME NEW k \in Nat, k \in S PROVE k + 1 \in S
  <2> SUFFICES ASSUME k + 1 <= Depth PROVE Stroll(t.nodes, a)[k + 1] = Walk(t.nodes, a)[k + 1]
    OBVIOUS
  <2>1. PICK r : r = Walk(t.nodes, a)[k]
    OBVIOUS
  <2>2. k \in 0 .. Depth - 1 /\ k \in 0 .. Depth /\ r = Stroll(t.nodes, a)[k] /\ a[k + 1] \in Bit
    BY <1>0, <1>2, <2>1
  <2>3. RecordSound(t, D, r, k)
    BY <2>1, <2>2, WalkSound
  <2>4. /\ Walk(t.nodes, a)[k + 1] = Onward(t.nodes, r, a[k + 1])
        /\ Stroll(t.nodes, a)[k + 1] = Ahead(t.nodes, r, a[k + 1])
    <3>1. PICK ns : ns = t.nodes
      OBVIOUS
    <3>2. Walk(ns, a)[k + 1] = Onward(ns, Walk(ns, a)[k], a[k + 1])
      BY <1>0, <2>2, WalkDef
    <3>3. Stroll(ns, a)[k + 1] = Ahead(ns, Stroll(ns, a)[k], a[k + 1])
      BY <2>2, StrollDef
    <3> QED
      BY <2>1, <2>2, <3>1, <3>2, <3>3
  <2>5. CASE Still(r)
    BY <2>4, <2>5, StillIsLeaf DEF Ahead
  <2>6. CASE \E j \in 1 .. Len(t.nodes) : r = Node(j) /\ D[j] = k
    <3>1. PICK j \in 1 .. Len(t.nodes) : r = Node(j) /\ D[j] = k
      BY <2>6
    <3>2. PICK x : x = t.nodes[j][a[k + 1]]
      OBVIOUS
    <3>3. RecordSound(t, D, x, k + 1)
      BY <2>2, <3>1, <3>2 DEF Sound
    <3>4. Norm(x) = x
      BY <3>3, Kinds DEF RecordSound, Norm
    <3> QED
      BY <2>4, <3>1, <3>2, <3>4, OnwardFromNode, AheadFromNode
  <2> QED
    BY <2>3, <2>5, <2>6, SoundRecord
<1> HIDE DEF S
<1>3. Depth \in S
  BY <1>0, <1>1, <1>2, Induction
<1> QED
  BY <1>0, <1>3, WalkDef DEF S, Rest

(* Node j is added below node i. *)
AddedDepth(D, i, j) == [k \in 1 .. j |-> IF k = j THEN D[i] + 1 ELSE D[k]]

WithChild(ns, us, D, E, p, i, b, j) ==
    /\ Fine(us, E, p) /\ AtEdit(ns, us, i, b) /\ Len(us) = j /\ i \in 1 .. Len(us) /\ j \in 1 .. Len(us)
    /\ us[i][b] = Node(j) /\ E[j] = D[i] + 1 /\ E[i] = D[i] /\ \A c \in Bit : us[j][c] = NoData

(* A record that has no data may lead to a new node that has none. *)
LEMMA GrowFine ==
    ASSUME NEW ns, NEW D, NEW p, Fine(ns, D, p), NEW i \in 1 .. Len(ns), NEW b \in Bit,
           ns[i][b] = NoData, D[i] + 1 < Depth, NEW j, j = NewIndex(ns),
           NEW us, us = Append(Put(ns, i, b, Node(j)), EmptyNode),
           NEW E, E = AddedDepth(D, i, j)
    PROVE  WithChild(ns, us, D, E, p, i, b, j)
<1>0. /\ ns \in Seq([Bit -> Record]) /\ p \in Nat /\ Len(ns) \in Nat /\ Depth \in Nat
      /\ \A k \in 1 .. Len(ns) : D[k] \in 0 .. Depth /\ \A c \in Bit : ns[k][c] \in Record
  BY FineTypes
<1>1. j = Len(ns) + 1 /\ j \in Nat
  BY <1>0 DEF NewIndex
<1>2. Lengthened(ns, i, b, Node(j), NoData, us)
  BY <1>0, <1>1, Kinds, SplitNodes DEF EmptyNode
<1>3. /\ us \in Seq([Bit -> Record]) /\ Len(us) = j /\ us[i][b] = Node(j) /\ \A c \in Bit : us[j][c] = NoData
      /\ AtEdit(ns, us, i, b)
  BY <1>1, <1>2 DEF Lengthened, AtEdit
<1>4. /\ E \in [1 .. j -> 0 .. Depth] /\ E[j] = D[i] + 1 /\ \A k \in 1 .. Len(ns) : E[k] = D[k]
      /\ \A k \in 1 .. j : k = j \/ k \in 1 .. Len(ns)
  <2>1. PICK n \in Nat : n = Len(ns) /\ j = n + 1
    BY <1>0, <1>1
  <2>2. D[i] + 1 \in 0 .. Depth /\ j \in 1 .. j
    BY <1>0, <1>1
  <2>3. ASSUME NEW k \in 1 .. j PROVE k = j \/ k \in 1 .. n
    BY <2>1
  <2>4. \A k \in 1 .. n : k \in 1 .. j /\ k # j
    BY <2>1
  <2>5. E = [k \in 1 .. j |-> IF k = j THEN D[i] + 1 ELSE D[k]]
    BY DEF AddedDepth
  <2> QED
    BY <1>0, <2>1, <2>2, <2>3, <2>4, <2>5
<1>5. E[1] = 0 /\ 1 <= j
  BY <1>0, <1>1, <1>4 DEF Fine
<1>6. NoData \in Leafs(p) /\ ~IsPointer(NoData)
  BY DEF Leafs, NoData, IsPointer, Rec
<1>7. ASSUME NEW k \in 1 .. Len(us), NEW c \in Bit
      PROVE  /\ us[k][c] \in Leafs(p) \/ Leads(us, E, us[k][c], E[k] + 1)
             /\ IsPointer(us[k][c]) => \/ k = i /\ c = b /\ us[k][c].arg = j
                                       \/ k \in 1 .. Len(ns) /\ us[k][c] = ns[k][c] /\ us[k][c].arg # j
  <2>1. CASE k = j
    <3>1. us[k][c] = NoData
      BY <1>3, <2>1
    <3> QED
      BY <1>6, <3>1
  <2>2. CASE k = i /\ c = b
    <3>1. us[k][c] = Node(j)
      BY <1>3, <2>2
    <3>2. Node(j) \in Record /\ IsPointer(Node(j)) /\ Node(j).arg = j
      BY <1>1, Kinds DEF IsPointer
    <3>3. E[k] = D[i]
      BY <1>4, <2>2
    <3>4. Leads(us, E, Node(j), E[k] + 1)
      BY <1>1, <1>3, <1>4, <3>2, <3>3 DEF Leads
    <3> QED
      BY <2>2, <3>1, <3>2, <3>4
  <2>3. CASE k \in 1 .. Len(ns) /\ (k # i \/ c # b)
    <3>1. us[k][c] = ns[k][c] /\ E[k] = D[k]
      BY <1>3, <1>4, <2>3 DEF AtEdit
    <3>2. ns[k][c] \in Leafs(p) \/ Leads(ns, D, ns[k][c], D[k] + 1)
      BY <2>3 DEF Fine
    <3>3. ASSUME Leads(ns, D, ns[k][c], D[k] + 1) PROVE Leads(us, E, ns[k][c], E[k] + 1) /\ ns[k][c].arg # j
      <4>1. PICK x : x = ns[k][c]
        OBVIOUS
      <4>2. PICK y \in 1 .. Len(ns) : y = x.arg /\ D[y] = D[k] + 1 /\ D[k] + 1 < Depth /\ IsPointer(x) /\ x \in Record
        BY <3>3, <4>1 DEF Leads
      <4>3. E[y] = D[y] /\ y \in 1 .. Len(us) /\ y # j
        BY <1>0, <1>1, <1>3, <1>4
      <4>4. Leads(us, E, x, E[k] + 1)
        BY <3>1, <4>2, <4>3 DEF Leads
      <4> QED
        BY <4>1, <4>2, <4>3, <4>4
    <3>4. ns[k][c] \in Leafs(p) => ~IsPointer(ns[k][c])
      BY <1>0, LeafsAre
    <3> QED
      BY <2>3, <3>1, <3>2, <3>3, <3>4
  <2> QED
    BY <1>3, <1>4, <2>1, <2>2, <2>3
<1>8. OneParent(us)
  <2> SUFFICES ASSUME NEW k \in 1 .. Len(us), NEW m \in 1 .. Len(us), NEW c \in Bit, NEW d \in Bit,
                      IsPointer(us[k][c]), IsPointer(us[m][d]), us[k][c].arg = us[m][d].arg
               PROVE  k = m /\ c = d
    BY DEF OneParent
  <2>1. \/ k = i /\ c = b /\ us[k][c].arg = j
        \/ k \in 1 .. Len(ns) /\ us[k][c] = ns[k][c] /\ us[k][c].arg # j
    BY <1>7
  <2>2. \/ m = i /\ d = b /\ us[m][d].arg = j
        \/ m \in 1 .. Len(ns) /\ us[m][d] = ns[m][d] /\ us[m][d].arg # j
    BY <1>7
  <2>3. OneParent(ns)
    BY DEF Fine
  <2>4. CASE k \in 1 .. Len(ns) /\ m \in 1 .. Len(ns) /\ us[k][c] = ns[k][c] /\ us[m][d] = ns[m][d]
    <3>1. IsPointer(ns[k][c]) /\ IsPointer(ns[m][d]) /\ ns[k][c].arg = ns[m][d].arg
      BY <2>4
    <3> QED
      BY <2>3, <2>4, <3>1 DEF OneParent
  <2> QED
    BY <2>1, <2>2, <2>4
<1>9. Fine(us, E, p)
  <2>1. us \in Arenas
    BY <1>3 DEF Arenas
  <2> QED
    BY <1>0, <1>3, <1>4, <1>5, <1>7, <1>8, <2>1 DEF Fine
<1>10. i \in 1 .. Len(us) /\ j \in 1 .. Len(us) /\ E[i] = D[i]
  BY <1>0, <1>1, <1>3, <1>4
<1> QED
  BY <1>3, <1>4, <1>9, <1>10 DEF WithChild

(* install_marker on the way to the end of q: node at is where the first k bits lead. *)
OnWay(ns, D, q, k, at) ==
    /\ at \in 1 .. Len(ns) /\ D[at] = k
    /\ \A a \in Addr : Stroll(ns, a)[k] = Node(at) => \A m \in 1 .. k : a[m] = q[m]

(* s.nodes answers as ns does, and s.at is on the way or has stopped. *)
Advancing(ns, s, p, q, k) ==
    /\ s = [nodes |-> s.nodes, at |-> s.at]
    /\ \E D : Fine(s.nodes, D, p) /\ (s.at = NoNode \/ OnWay(s.nodes, D, q, k, s.at))
    /\ \A a \in Addr : Rest(s.nodes, a) = Rest(ns, a)

LEMMA MarkerTurn ==
    ASSUME NEW ns, NEW s, NEW p, NEW q \in Network, NEW k \in Nat, Advancing(ns, s, p, q, k),
           k + 1 < Len(q), NEW marker
    PROVE  Advancing(ns, MarkerStep(s, q, k + 1, marker), p, q, k + 1)
<1>0. Len(q) \in 0 .. Depth /\ q[k + 1] \in Bit /\ Depth \in Nat
  BY NetworkBits, DepthAssumption
<1>1. PICK D : Fine(s.nodes, D, p) /\ (s.at = NoNode \/ OnWay(s.nodes, D, q, k, s.at))
  BY DEF Advancing
<1>2. PICK w : w = MarkerStep(s, q, k + 1, marker)
  OBVIOUS
<1>3. CASE s.at = NoNode
  <2>1. w = s
    BY <1>2, <1>3 DEF MarkerStep
  <2> QED
    BY <1>2, <1>3, <2>1 DEF Advancing
<1>4. CASE s.at # NoNode
  <2>1. PICK ms : ms = s.nodes
    OBVIOUS
  <2>2. PICK at \in 1 .. Len(ms) : at = s.at /\ D[at] = k
    BY <1>1, <1>4, <2>1 DEF OnWay
  <2>3. \A a \in Addr : Stroll(ms, a)[k] = Node(at) => \A m \in 1 .. k : a[m] = q[m]
    BY <1>1, <1>4, <2>1, <2>2 DEF OnWay
  <2>4. PICK b \in Bit : b = q[k + 1]
    BY <1>0
  <2>5. PICK r : r = ms[at][b]
    OBVIOUS
  <2>6. Fine(ms, D, p) /\ p \in Nat /\ s = [nodes |-> ms, at |-> at]
    BY <1>1, <2>1, <2>2, FineTypes DEF Advancing
  <2>7. \A a \in Addr : Rest(ms, a) = Rest(ns, a)
    BY <2>1 DEF Advancing
  <2>8. at # NoNode /\ k + 1 # Len(q) /\ k \in 0 .. k /\ D[at] < Depth
    BY <1>0, <1>4, <2>2
  <2>9. ASSUME NEW vs, NEW a \in Addr, Stroll(vs, a)[k] = Stroll(ms, a)[k], Hits(vs, D, at, b, a)
        PROVE  \A m \in 1 .. k + 1 : a[m] = q[m]
    <3>1. Stroll(ms, a)[k] = Node(at) /\ a[k + 1] = b
      BY <2>2, <2>9 DEF Hits
    <3>2. \A m \in 1 .. k : a[m] = q[m]
      BY <2>3, <3>1
    <3>3. \A m \in 1 .. k + 1 : m \in 1 .. k \/ m = k + 1
      OBVIOUS
    <3> QED
      BY <2>4, <3>1, <3>2, <3>3
  <2>10. CASE IsPointer(r)
    <3>1. w = [s EXCEPT !.at = r.arg]
      BY <1>2, <2>1, <2>2, <2>4, <2>5, <2>8, <2>10 DEF MarkerStep
    <3>2. w = [nodes |-> ms, at |-> r.arg]
      BY <2>6, <3>1
    <3>3. Leads(ms, D, r, k + 1)
      BY <2>2, <2>5, <2>6, <2>10, LeafsAre DEF Fine
    <3>4. PICK j \in 1 .. Len(ms) : j = r.arg /\ D[j] = k + 1
      BY <3>3 DEF Leads
    <3>5. ASSUME NEW a \in Addr, Stroll(ms, a)[k + 1] = Node(j) PROVE \A m \in 1 .. k + 1 : a[m] = q[m]
      <4>1. Hits(ms, D, at, b, a)
        BY <2>5, <2>6, <2>10, <3>4, <3>5, ChildStroll
      <4> QED
        BY <2>9, <4>1
    <3>6. OnWay(ms, D, q, k + 1, j)
      BY <3>4, <3>5 DEF OnWay
    <3>7. w.nodes = ms /\ w.at = j
      BY <3>2, <3>4
    <3> QED
      BY <1>2, <2>6, <2>7, <3>2, <3>6, <3>7 DEF Advancing
  <2>11. CASE r = NoData
    <3>1. PICK j : j = NewIndex(ms)
      OBVIOUS
    <3>2. PICK us : us = Append(Put(ms, at, b, Node(j)), EmptyNode)
      OBVIOUS
    <3>3. ~IsPointer(NoData)
      BY DEF NoData, IsPointer, Rec
    <3>4. w = [nodes |-> us, at |-> j]
      BY <1>2, <2>1, <2>2, <2>4, <2>5, <2>8, <2>11, <3>1, <3>2, <3>3 DEF MarkerStep
    <3>5. PICK E : E = AddedDepth(D, at, j)
      OBVIOUS
    <3>6. D[at] + 1 < Depth
      BY <1>0, <2>2
    <3>7. /\ Fine(us, E, p) /\ AtEdit(ms, us, at, b) /\ j \in 1 .. Len(us) /\ at \in 1 .. Len(us)
          /\ us[at][b] = Node(j) /\ E[j] = k + 1 /\ E[at] = k /\ \A c \in Bit : us[j][c] = NoData
      <4>1. ms[at][b] = NoData
        BY <2>5, <2>11
      <4>2. WithChild(ms, us, D, E, p, at, b, j)
        BY <2>6, <3>1, <3>2, <3>5, <3>6, <4>1, GrowFine
      <4> QED
        BY <2>2, <4>2 DEF WithChild
    <3>8. \A a \in Addr : Stroll(us, a)[k] = Stroll(ms, a)[k]
      BY <2>2, <2>6, <2>8, <3>7, EditStroll
    <3>9. IsPointer(Node(j)) /\ Node(j).arg = j /\ Norm(Node(j)) = Node(j) /\ NoData \in Leafs(p)
      BY Kinds DEF IsPointer, Norm, Leafs
    <3>10. ASSUME NEW a \in Addr, Stroll(us, a)[k + 1] = Node(j) PROVE \A m \in 1 .. k + 1 : a[m] = q[m]
      <4>1. Hits(us, E, at, b, a)
        BY <3>7, <3>9, <3>10, ChildStroll
      <4>2. Hits(us, D, at, b, a)
        BY <2>2, <3>7, <4>1 DEF Hits
      <4> QED
        BY <2>9, <3>8, <4>2
    <3>11. OnWay(us, E, q, k + 1, j)
      BY <3>7, <3>10 DEF OnWay
    <3>12. ASSUME NEW a \in Addr PROVE Rest(us, a) = Rest(ms, a)
      <4>1. CASE ~Hits(ms, D, at, b, a)
        <5>1. Depth \in 0 .. Depth
          BY <1>0
        <5>2. \A m \in 0 .. Depth : Stroll(us, a)[m] = Stroll(ms, a)[m]
          BY <2>6, <2>8, <3>7, <4>1, EditStroll
        <5> QED
          BY <5>1, <5>2 DEF Rest
      <4>2. CASE Hits(ms, D, at, b, a)
        <5>1. Rest(ms, a) = NoData
          <6>1. ms[at][b] = NoData /\ ms[at][b] \in Leafs(p)
            BY <2>5, <2>11, <3>9
          <6>2. Rest(ms, a) = ms[at][b]
            BY <2>6, <2>8, <4>2, <6>1, HitsLeaf
          <6> QED
            BY <6>1, <6>2
        <5>2. Stroll(us, a)[k + 1] = Node(j)
          <6>1. Stroll(us, a)[D[at] + 1] = Norm(us[at][b])
            BY <2>6, <2>8, <3>7, <4>2, EditStroll
          <6> QED
            BY <2>2, <3>7, <3>9, <6>1
        <5>3. PICK c \in Bit : c = a[k + 2]
          <6>1. k + 1 \in 0 .. Depth - 1
            BY <1>0
          <6>2. PICK m \in 0 .. Depth - 1 : m = k + 1
            BY <6>1
          <6>3. a[m + 1] \in Bit /\ m + 1 = k + 2
            BY <6>2, AddrBits
          <6> QED
            BY <6>3
        <5>4. Hits(us, E, j, c, a)
          <6>1. (k + 1) + 1 = k + 2
            OBVIOUS
          <6> QED
            BY <3>7, <5>2, <5>3, <6>1 DEF Hits
        <5>5. E[j] < Depth
          BY <1>0, <3>7
        <5>6. Rest(us, a) = NoData
          BY <3>7, <3>9, <5>4, <5>5, HitsLeaf
        <5> QED
          BY <5>1, <5>6
      <4> QED
        BY <4>1, <4>2
    <3>13. w.nodes = us /\ w.at = j
      BY <3>4
    <3> QED
      BY <1>2, <2>7, <3>4, <3>7, <3>11, <3>12, <3>13 DEF Advancing
  <2>12. CASE ~IsPointer(r) /\ r # NoData
    <3>1. w = [s EXCEPT !.at = NoNode]
      BY <1>2, <2>1, <2>2, <2>4, <2>5, <2>8, <2>12 DEF MarkerStep
    <3>2. w = [nodes |-> ms, at |-> NoNode]
      BY <2>6, <3>1
    <3>3. w.nodes = ms /\ w.at = NoNode
      BY <3>2
    <3> QED
      BY <1>2, <2>6, <2>7, <3>2, <3>3 DEF Advancing
  <2> QED
    BY <2>10, <2>11, <2>12
<1> QED
  BY <1>3, <1>4

(* A marker shows below its network only. *)
Marked(ns, us, p, q) ==
    /\ \E D : Fine(us, D, p)
    /\ \A a \in Addr : ~Covers(q, a) => Rest(us, a) = Rest(ns, a)

LEMMA MarkerEnd ==
    ASSUME NEW ns, NEW s, NEW p, NEW q \in Network, NEW k \in Nat, Advancing(ns, s, p, q, k),
           k + 1 = Len(q), NEW marker \in Leafs(p)
    PROVE  Marked(ns, MarkerStep(s, q, k + 1, marker).nodes, p, q)
<1>0. Len(q) \in 0 .. Depth /\ q[k + 1] \in Bit /\ Depth \in Nat
  BY NetworkBits, DepthAssumption
<1>1. PICK D : Fine(s.nodes, D, p) /\ (s.at = NoNode \/ OnWay(s.nodes, D, q, k, s.at))
  BY DEF Advancing
<1>2. PICK w : w = MarkerStep(s, q, k + 1, marker)
  OBVIOUS
<1>3. PICK ms : ms = s.nodes
  OBVIOUS
<1>4. \A a \in Addr : Rest(ms, a) = Rest(ns, a)
  BY <1>3 DEF Advancing
<1>5. CASE w.nodes = ms
  BY <1>1, <1>2, <1>3, <1>4, <1>5 DEF Marked
<1>6. CASE w.nodes # ms
  <2>1. s.at # NoNode
    BY <1>2, <1>3, <1>6 DEF MarkerStep
  <2>2. PICK at \in 1 .. Len(ms) : at = s.at /\ D[at] = k
    BY <1>1, <1>3, <2>1 DEF OnWay
  <2>3. \A a \in Addr : Stroll(ms, a)[k] = Node(at) => \A m \in 1 .. k : a[m] = q[m]
    BY <1>1, <1>3, <2>1, <2>2 DEF OnWay
  <2>4. PICK b \in Bit : b = q[k + 1]
    BY <1>0
  <2>5. PICK us : us = Put(ms, at, b, marker)
    OBVIOUS
  <2>6. w = [nodes |-> IF ms[at][b] = NoData THEN us ELSE ms, at |-> NoNode]
    BY <1>2, <1>3, <2>1, <2>2, <2>4, <2>5 DEF MarkerStep
  <2>7. w.nodes = us
    BY <1>6, <2>6
  <2>8. Fine(us, D, p) /\ AtEdit(ms, us, at, b)
    BY <1>1, <1>3, <2>5, PutFine DEF MayHold
  <2>9. D[at] < Depth /\ Depth \in 0 .. Depth
    BY <1>0, <2>2
  <2>10. ASSUME NEW a \in Addr, ~Covers(q, a) PROVE Rest(us, a) = Rest(ms, a)
    <3>1. ~Hits(ms, D, at, b, a)
      <4> SUFFICES ASSUME Hits(ms, D, at, b, a) PROVE FALSE
        OBVIOUS
      <4>1. Stroll(ms, a)[k] = Node(at) /\ a[k + 1] = b
        BY <2>2 DEF Hits
      <4>2. \A m \in 1 .. k : a[m] = q[m]
        BY <2>3, <4>1
      <4>3. \A m \in 1 .. Len(q) : m \in 1 .. k \/ m = k + 1
        OBVIOUS
      <4>4. Len(a) = Depth
        BY AddrBits
      <4>5. \A m \in 1 .. Len(q) : q[m] = a[m]
        BY <2>4, <4>1, <4>2, <4>3
      <4>6. Covers(q, a)
        BY <1>0, <4>4, <4>5 DEF Covers
      <4> QED
        BY <2>10, <4>6
    <3>2. \A m \in 0 .. Depth : Stroll(us, a)[m] = Stroll(ms, a)[m]
      BY <1>1, <1>3, <2>8, <2>9, <3>1, EditStroll
    <3> QED
      BY <2>9, <3>2 DEF Rest
  <2> QED
    BY <1>2, <1>4, <2>7, <2>8, <2>10 DEF Marked
<1> QED
  BY <1>5, <1>6

LEMMA MarkerFine ==
    ASSUME NEW ns, NEW D, NEW p, Fine(ns, D, p), NEW q \in Network, Len(q) # 0, NEW marker \in Leafs(p)
    PROVE  Marked(ns, InstallMarker(ns, q, marker), p, q)
<1>0. Len(q) \in Nat /\ Depth \in Nat
  BY NetworkBits, DepthAssumption
<1>a. PICK ts : ts = Turns(ns, q, marker)
  OBVIOUS
<1>b. /\ InstallMarker(ns, q, marker) = ts[Len(q)].nodes
       /\ ts[0] = [nodes |-> ns, at |-> 1]
       /\ \A k \in 0 .. Len(q) - 1 : ts[k + 1] = MarkerStep(ts[k], q, k + 1, marker)
  BY <1>0, <1>a, TurnsDef
<1> DEFINE S == {k \in Nat : k + 1 <= Len(q) => Advancing(ns, ts[k], p, q, k)}
<1>1. 0 \in S
  <2>1. PICK s : s = [nodes |-> ns, at |-> 1]
    OBVIOUS
  <2>2. s.nodes = ns /\ s.at = 1
    BY <2>1
  <2>3. OnWay(ns, D, q, 0, 1)
    BY FineTypes DEF OnWay
  <2>4. Advancing(ns, s, p, q, 0)
    BY <2>1, <2>2, <2>3 DEF Advancing
  <2> QED
    BY <1>b, <2>1, <2>4
<1>2. ASSUME NEW k \in Nat, k \in S PROVE k + 1 \in S
  <2> SUFFICES ASSUME (k + 1) + 1 <= Len(q) PROVE Advancing(ns, ts[k + 1], p, q, k + 1)
    OBVIOUS
  <2>1. PICK s : s = ts[k]
    OBVIOUS
  <2>2. Advancing(ns, s, p, q, k) /\ k + 1 < Len(q) /\ k \in 0 .. Len(q) - 1
    BY <1>0, <1>2, <2>1
  <2>3. ts[k + 1] = MarkerStep(s, q, k + 1, marker)
    BY <1>b, <2>1, <2>2
  <2>4. Advancing(ns, MarkerStep(s, q, k + 1, marker), p, q, k + 1)
    BY Zenon, <2>2, MarkerTurn
  <2> HIDE DEF S
  <2> QED
    BY <2>3, <2>4
<1> HIDE DEF S
<1>3. PICK k \in Nat : k + 1 = Len(q)
  <2>1. Len(q) - 1 \in Nat /\ (Len(q) - 1) + 1 = Len(q)
    BY <1>0
  <2> QED
    BY <2>1
<1>4. k \in S
  BY <1>1, <1>2, Induction
<1>5. PICK s : s = ts[k]
  OBVIOUS
<1>6. Advancing(ns, s, p, q, k) /\ k \in 0 .. Len(q) - 1
  BY <1>0, <1>3, <1>4, <1>5 DEF S
<1>7. ts[k + 1] = MarkerStep(s, q, k + 1, marker)
  BY <1>b, <1>5, <1>6
<1>8. InstallMarker(ns, q, marker) = MarkerStep(s, q, k + 1, marker).nodes
  BY <1>b, <1>3, <1>7
<1> QED
  BY <1>3, <1>6, <1>8, MarkerEnd

(* The nodes on the left edge of the tree. *)
SpineTurn(ns, at) == IF at # NoNode /\ ns[at][0].kind = "Node" THEN ns[at][0].arg ELSE NoNode

Spine(ns, n) ==
    LET Turn[m \in 0 .. n] ==
            IF m = 0 THEN 1
            ELSE LET at == Turn[m - 1]
                 IN  IF at # NoNode /\ ns[at][0].kind = "Node" THEN ns[at][0].arg ELSE NoNode
    IN  Turn

LEMMA SpineDef ==
    ASSUME NEW ns, NEW n \in Nat
    PROVE  /\ Spine(ns, n)[0] = 1
           /\ \A k \in 0 .. n - 1 :
                  Spine(ns, n)[k + 1] = SpineTurn(ns, Spine(ns, n)[k])
<1> DEFINE Turn(h, k) == IF k = 0 THEN 1 ELSE SpineTurn(ns, h[k - 1])
           Eq(h) == h = [k \in 0 .. n |-> Turn(h, k)]
           T == {m \in Nat : \E h : h = [k \in 0 .. m |-> Turn(h, k)]}
<1>0. n \in Nat
  OBVIOUS
<1>1. 0 \in T
  <2>1. PICK g : g = [k \in 0 .. 0 |-> 1]
    OBVIOUS
  <2>2. g = [k \in 0 .. 0 |-> Turn(g, k)]
    BY <2>1
  <2> QED
    BY <2>2
<1>2. ASSUME NEW m \in Nat, m \in T PROVE m + 1 \in T
  <2>1. PICK e : e = [k \in 0 .. m |-> Turn(e, k)]
    BY <1>2
  <2>2. PICK z : z = SpineTurn(ns, e[m])
    OBVIOUS
  <2>3. PICK g : g = [k \in 0 .. m + 1 |-> IF k <= m THEN e[k] ELSE z]
    OBVIOUS
  <2>4. \A k \in 0 .. m + 1 : g[k] = Turn(g, k)
    <3>1. \A k \in 0 .. m : g[k] = e[k] /\ e[k] = Turn(e, k)
      <4>1. \A k \in 0 .. m : g[k] = e[k]
        BY <2>3
      <4>2. \A k \in 0 .. m : e[k] = Turn(e, k)
        <5> HIDE DEF Turn
        <5> QED
          BY ONLY <2>1
      <4> QED
        BY <4>1, <4>2
    <3>2. \A k \in 1 .. m + 1 : g[k - 1] = e[k - 1]
      BY <3>1
    <3>3. g[m + 1] = z
      BY <2>3
    <3>4. ASSUME NEW k \in 0 .. m PROVE Turn(g, k) = Turn(e, k)
      <4>1. CASE k = 0
        BY <4>1
      <4>2. CASE k # 0
        <5>1. g[k - 1] = e[k - 1]
          BY <3>2, <4>2
        <5> QED
          BY <4>2, <5>1
      <4> QED
        BY <4>1, <4>2
    <3>5. g[m + 1] = Turn(g, m + 1)
      <4>1. m + 1 # 0 /\ (m + 1) - 1 = m /\ g[m] = e[m]
        BY <3>1
      <4> QED
        BY <2>2, <3>3, <4>1
    <3>6. \A k \in 0 .. m : g[k] = Turn(g, k)
      BY <3>1, <3>4
    <3>7. \A k \in 0 .. m + 1 : k \in 0 .. m \/ k = m + 1
      OBVIOUS
    <3> HIDE DEF Turn
    <3> QED
      BY <3>5, <3>6, <3>7
  <2>5. g = [k \in 0 .. m + 1 |-> Turn(g, k)]
    <3> HIDE DEF Turn
    <3> QED
      BY <2>3, <2>4
  <2>6. \E h : h = [k \in 0 .. m + 1 |-> Turn(h, k)]
    BY Zenon, <2>5
  <2> QED
    BY <2>6
<1>3. n \in T
  <2> HIDE DEF T
  <2> QED
    BY <1>0, <1>1, <1>2, Induction
<1>4. Spine(ns, n) = CHOOSE h : Eq(h)
  BY DEF Spine, SpineTurn
<1>5. Eq(Spine(ns, n))
  <2>1. \E h : Eq(h)
    BY <1>3
  <2> HIDE DEF Eq
  <2> QED
    BY Zenon, <1>4, <2>1
<1>6. PICK W : W = Spine(ns, n) /\ W = [k \in 0 .. n |-> Turn(W, k)]
  BY <1>5
<1>7. 0 \in 0 .. n /\ \A k \in 0 .. n - 1 : k + 1 \in 0 .. n /\ k + 1 # 0 /\ (k + 1) - 1 = k
  BY <1>0
<1>8. \A k \in 0 .. n : W[k] = Turn(W, k)
  <2> HIDE DEF Turn
  <2> QED
    BY ONLY <1>6
<1>9. W[0] = 1
  BY <1>7, <1>8
<1>10. ASSUME NEW k \in 0 .. n - 1 PROVE W[k + 1] = SpineTurn(ns, W[k])
  <2>1. k + 1 \in 0 .. n /\ k + 1 # 0 /\ (k + 1) - 1 = k
    BY <1>7
  <2>2. W[k + 1] = Turn(W, k + 1)
    BY <1>8, <2>1
  <2> QED
    BY <2>1, <2>2
<1> QED
  BY <1>6, <1>9, <1>10

(* find_ipv4_root: if there is one, a record on the left edge leads to it. *)
LEMMA SpineRoot ==
    ASSUME NEW ns, NEW D, NEW p, Fine(ns, D, p), NEW n \in Nat, NEW q, q = LeftSpine(ns, n),
           NEW root, root = LeftSpine(ns, n + 1), root # NoNode
    PROVE  q \in 1 .. Len(ns) /\ root \in Nat /\ ns[q][0] = Node(root)
<1>0. Len(ns) \in Nat \ {0} /\ p \in Nat /\ n + 1 \in Nat /\ 0 \in Bit
  BY FineTypes DEF Bit
<1>1. PICK f : f = Spine(ns, n)
  OBVIOUS
<1>2. PICK g : g = Spine(ns, n + 1)
  OBVIOUS
<1>3. f[0] = 1 /\ \A k \in 0 .. n - 1 : f[k + 1] = SpineTurn(ns, f[k])
  BY <1>0, <1>1, SpineDef
<1>4. g[0] = 1 /\ \A k \in 0 .. (n + 1) - 1 : g[k + 1] = SpineTurn(ns, g[k])
  BY <1>0, <1>2, SpineDef
<1>5. q = f[n] /\ root = g[n + 1]
  BY <1>1, <1>2 DEF LeftSpine, Spine
<1> DEFINE S == {k \in Nat : k <= n => f[k] = g[k] /\ f[k] \in 0 .. Len(ns)}
<1>6. 0 \in S
  BY <1>0, <1>3, <1>4
<1>7. ASSUME NEW k \in Nat, k \in S PROVE k + 1 \in S
  <2> SUFFICES ASSUME k + 1 <= n PROVE f[k + 1] = g[k + 1] /\ f[k + 1] \in 0 .. Len(ns)
    OBVIOUS
  <2>1. k \in 0 .. n - 1 /\ k \in 0 .. (n + 1) - 1 /\ f[k] = g[k] /\ f[k] \in 0 .. Len(ns)
    BY <1>7
  <2>2. f[k + 1] = SpineTurn(ns, f[k]) /\ g[k + 1] = SpineTurn(ns, f[k])
    BY <1>3, <1>4, <2>1
  <2>3. PICK at \in 0 .. Len(ns) : at = f[k]
    BY <2>1
  <2>4. SpineTurn(ns, at) \in 0 .. Len(ns)
    <3>1. CASE at # NoNode /\ ns[at][0].kind = "Node"
      <4>1. at \in 1 .. Len(ns)
        BY <1>0, <3>1 DEF NoNode
      <4>2. PICK r : r = ns[at][0]
        OBVIOUS
      <4>3. r \in Leafs(p) \/ Leads(ns, D, r, D[at] + 1)
        BY <1>0, <4>1, <4>2 DEF Fine
      <4>4. r.arg \in 1 .. Len(ns)
        BY <1>0, <3>1, <4>2, <4>3, LeafsAre DEF Leads
      <4>5. SpineTurn(ns, at) = r.arg
        BY <3>1, <4>2 DEF SpineTurn
      <4> QED
        BY <1>0, <4>4, <4>5
    <3>2. CASE ~(at # NoNode /\ ns[at][0].kind = "Node")
      <4>1. SpineTurn(ns, at) = 0
        BY <3>2 DEF SpineTurn, NoNode
      <4> QED
        BY <1>0, <4>1
    <3> QED
      BY <3>1, <3>2
  <2> QED
    BY <2>2, <2>3, <2>4
<1>8. n \in S
  <2> HIDE DEF S
  <2> QED
    BY <1>6, <1>7, Induction
<1>9. f[n] = g[n] /\ f[n] \in 0 .. Len(ns)
  BY <1>8
<1>10. root = SpineTurn(ns, q) /\ q \in 0 .. Len(ns)
  BY <1>4, <1>5, <1>9
<1>11. q # NoNode /\ ns[q][0].kind = "Node" /\ root = ns[q][0].arg
  BY <1>10 DEF SpineTurn
<1>12. q \in 1 .. Len(ns)
  BY <1>0, <1>10, <1>11 DEF NoNode
<1>13. ns[q][0] \in Record
  BY <1>0, <1>12, FineTypes
<1>14. ns[q][0] = Node(root) /\ root \in Nat
  BY <1>11, <1>13 DEF Record, Node, Rec
<1> QED
  BY <1>12, <1>14

(* What install_aliases makes of the tree, one alias network after another. *)
Aliased(ns, root) ==
    LET Done[k \in 0 .. Len(AliasNets)] ==
            IF k = 0 THEN PinRoot(ns, root) ELSE InstallMarker(Done[k - 1], AliasNets[k], Alias(root))
    IN  Done

LEMMA AliasedDef ==
    ASSUME NEW ns, NEW root, Len(AliasNets) \in Nat
    PROVE  /\ Aliased(ns, root)[0] = PinRoot(ns, root)
           /\ \A k \in 0 .. Len(AliasNets) - 1 :
                  Aliased(ns, root)[k + 1] = InstallMarker(Aliased(ns, root)[k], AliasNets[k + 1], Alias(root))
<1> DEFINE Turn(h, k) == IF k = 0 THEN PinRoot(ns, root) ELSE InstallMarker(h[k - 1], AliasNets[k], Alias(root))
           Eq(h) == h = [k \in 0 .. Len(AliasNets) |-> Turn(h, k)]
           T == {m \in Nat : \E h : h = [k \in 0 .. m |-> Turn(h, k)]}
<1>0. Len(AliasNets) \in Nat
  OBVIOUS
<1>1. 0 \in T
  <2>1. PICK g : g = [k \in 0 .. 0 |-> PinRoot(ns, root)]
    OBVIOUS
  <2>2. g = [k \in 0 .. 0 |-> Turn(g, k)]
    BY <2>1
  <2> QED
    BY <2>2
<1>2. ASSUME NEW m \in Nat, m \in T PROVE m + 1 \in T
  <2>1. PICK e : e = [k \in 0 .. m |-> Turn(e, k)]
    BY <1>2
  <2>2. PICK z : z = InstallMarker(e[m], AliasNets[m + 1], Alias(root))
    OBVIOUS
  <2>3. PICK g : g = [k \in 0 .. m + 1 |-> IF k <= m THEN e[k] ELSE z]
    OBVIOUS
  <2>4. \A k \in 0 .. m + 1 : g[k] = Turn(g, k)
    <3>1. \A k \in 0 .. m : g[k] = e[k] /\ e[k] = Turn(e, k)
      <4>1. \A k \in 0 .. m : g[k] = e[k]
        BY <2>3
      <4>2. \A k \in 0 .. m : e[k] = Turn(e, k)
        <5> HIDE DEF Turn
        <5> QED
          BY ONLY <2>1
      <4> QED
        BY <4>1, <4>2
    <3>2. \A k \in 1 .. m + 1 : g[k - 1] = e[k - 1]
      BY <3>1
    <3>3. g[m + 1] = z
      BY <2>3
    <3>4. ASSUME NEW k \in 0 .. m PROVE Turn(g, k) = Turn(e, k)
      <4>1. CASE k = 0
        BY <4>1
      <4>2. CASE k # 0
        <5>1. g[k - 1] = e[k - 1]
          BY <3>2, <4>2
        <5> QED
          BY <4>2, <5>1
      <4> QED
        BY <4>1, <4>2
    <3>5. g[m + 1] = Turn(g, m + 1)
      <4>1. m + 1 # 0 /\ (m + 1) - 1 = m /\ g[m] = e[m]
        BY <3>1
      <4> QED
        BY <2>2, <3>3, <4>1
    <3>6. \A k \in 0 .. m : g[k] = Turn(g, k)
      BY <3>1, <3>4
    <3>7. \A k \in 0 .. m + 1 : k \in 0 .. m \/ k = m + 1
      OBVIOUS
    <3> HIDE DEF Turn
    <3> QED
      BY <3>5, <3>6, <3>7
  <2>5. g = [k \in 0 .. m + 1 |-> Turn(g, k)]
    <3> HIDE DEF Turn
    <3> QED
      BY <2>3, <2>4
  <2>6. \E h : h = [k \in 0 .. m + 1 |-> Turn(h, k)]
    BY Zenon, <2>5
  <2> QED
    BY <2>6
<1>3. Len(AliasNets) \in T
  <2> HIDE DEF T
  <2> QED
    BY <1>0, <1>1, <1>2, Induction
<1>4. Aliased(ns, root) = CHOOSE h : Eq(h)
  BY DEF Aliased
<1>5. Eq(Aliased(ns, root))
  <2>1. \E h : Eq(h)
    BY <1>3
  <2> HIDE DEF Eq
  <2> QED
    BY Zenon, <1>4, <2>1
<1>6. PICK W : W = Aliased(ns, root) /\ W = [k \in 0 .. Len(AliasNets) |-> Turn(W, k)]
  BY <1>5
<1>7. 0 \in 0 .. Len(AliasNets) /\ \A k \in 0 .. Len(AliasNets) - 1 : k + 1 \in 0 .. Len(AliasNets) /\ k + 1 # 0 /\ (k + 1) - 1 = k
  BY <1>0
<1>8. \A k \in 0 .. Len(AliasNets) : W[k] = Turn(W, k)
  <2> HIDE DEF Turn
  <2> QED
    BY ONLY <1>6
<1>9. W[0] = PinRoot(ns, root)
  BY <1>7, <1>8
<1>10. ASSUME NEW k \in 0 .. Len(AliasNets) - 1 PROVE W[k + 1] = InstallMarker(W[k], AliasNets[k + 1], Alias(root))
  <2>1. k + 1 \in 0 .. Len(AliasNets) /\ k + 1 # 0 /\ (k + 1) - 1 = k
    BY <1>7
  <2>2. W[k + 1] = Turn(W, k + 1)
    BY <1>8, <2>1
  <2> QED
    BY <2>1, <2>2
<1> QED
  BY <1>6, <1>9, <1>10

LEMMA AliasesFine ==
    ASSUME NEW ns, NEW D, NEW p, Fine(ns, D, p), IpVersion = "V6", NEW us, us = InstallAliases(ns)
    PROVE  /\ \E E : Fine(us, E, p)
           /\ \A a \in Addr : ~InAlias(a) => Rest(us, a) = Rest(ns, a)
<1>0. /\ AliasNets \in Seq(Network) /\ Len(AliasNets) \in Nat /\ DOMAIN AliasNets = 1 .. Len(AliasNets)
      /\ p \in Nat /\ V4Depth \in Nat /\ V4Depth - 1 \in Nat /\ (V4Depth - 1) + 1 = V4Depth
  BY AliasNetsAssumption, WriterAssumption, DepthAssumption, FineTypes, LenProperties
<1>1. PICK root : root = LeftSpine(ns, V4Depth)
  OBVIOUS
<1>2. CASE root = NoNode
  <2>1. us = ns
    BY <1>1, <1>2 DEF InstallAliases
  <2> QED
    BY <2>1
<1>3. CASE root # NoNode
  <2>1. PICK f : f = Aliased(ns, root)
    OBVIOUS
  <2>2. us = f[Len(AliasNets)]
    BY <1>1, <1>3, <2>1 DEF InstallAliases, Aliased
  <2>3. /\ f[0] = PinRoot(ns, root)
        /\ \A k \in 0 .. Len(AliasNets) - 1 : f[k + 1] = InstallMarker(f[k], AliasNets[k + 1], Alias(root))
    BY <1>0, <2>1, AliasedDef
  <2>4. PICK q : q = LeftSpine(ns, V4Depth - 1)
    OBVIOUS
  <2>5. q \in 1 .. Len(ns) /\ root \in Nat /\ ns[q][0] = Node(root)
    BY <1>0, <1>1, <1>3, <2>4, SpineRoot
  <2>6. Alias(root) \in Leafs(p)
    BY <2>5 DEF Leafs
  <2> DEFINE S == {k \in Nat : k <= Len(AliasNets) =>
                      /\ \E E : Fine(f[k], E, p)
                      /\ \A a \in Addr : ~InAlias(a) => Rest(f[k], a) = Rest(ns, a)}
  <2>7. 0 \in S
    <3>1. 0 \in Bit
      BY DEF Bit
    <3>2. f[0] = Put(ns, q, 0, FixedNode(root))
      BY <2>3, <2>4 DEF PinRoot
    <3>3. Fine(f[0], D, p) /\ \A a \in Addr : Rest(f[0], a) = Rest(ns, a)
      BY <2>5, <3>1, <3>2, PinRest
    <3> QED
      BY <3>3
  <2>8. ASSUME NEW k \in Nat, k \in S PROVE k + 1 \in S
    <3> SUFFICES ASSUME k + 1 <= Len(AliasNets)
                 PROVE  /\ \E E : Fine(f[k + 1], E, p)
                        /\ \A a \in Addr : ~InAlias(a) => Rest(f[k + 1], a) = Rest(ns, a)
      OBVIOUS
    <3>1. k \in 0 .. Len(AliasNets) - 1 /\ k <= Len(AliasNets) /\ k + 1 \in 1 .. Len(AliasNets)
      BY <1>0
    <3>2. PICK ms : ms = f[k]
      OBVIOUS
    <3>3. PICK n : n = AliasNets[k + 1]
      OBVIOUS
    <3>4. PICK E : Fine(ms, E, p)
      BY <2>8, <3>1, <3>2
    <3>5. \A a \in Addr : ~InAlias(a) => Rest(ms, a) = Rest(ns, a)
      BY <2>8, <3>1, <3>2
    <3>6. n \in Network /\ Len(n) # 0
      <4>1. n \in Network /\ ~Covers(n, V4Zeros)
        BY <1>0, <3>1, <3>3, AliasNetsAssumption, ElementOfSeq
      <4>2. Len(V4Zeros) = V4Depth
        BY <1>0 DEF V4Zeros
      <4>3. ASSUME Len(n) = 0 PROVE Covers(n, V4Zeros)
        BY <1>0, <4>2, <4>3 DEF Covers
      <4> QED
        BY <4>1, <4>3
    <3>7. Marked(ms, InstallMarker(ms, n, Alias(root)), p, n)
      BY <2>6, <3>4, <3>6, MarkerFine
    <3>8. f[k + 1] = InstallMarker(ms, n, Alias(root))
      BY <2>3, <3>1, <3>2, <3>3
    <3>9. ASSUME NEW a \in Addr, ~InAlias(a) PROVE ~Covers(n, a)
      BY <1>0, <3>1, <3>3, <3>9 DEF InAlias
    <3> HIDE DEF S
    <3> QED
      BY <3>5, <3>7, <3>8, <3>9 DEF Marked
  <2>9. Len(AliasNets) \in S
    <3> HIDE DEF S
    <3> QED
      BY <1>0, <2>7, <2>8, Induction
  <2> QED
    BY <1>0, <2>2, <2>9
<1> QED
  BY <1>2, <1>3

(***************************************************************************)
(* The tree that build lays out: outside the alias networks an address     *)
(* finds what it found in the tree of the writer.                          *)
(***************************************************************************)
LEMMA SnapshotRest ==
    ASSUME NEW t, NEW D, Sound(t, D), NEW o, NEW us, us = Snapshot(o, t)
    PROVE  /\ AllPlaced(us, Len(t.values))
           /\ \A a \in Addr : ~(o.aliasing /\ InAlias(a)) => Rest(us, a) = RecordAt(t.nodes, a)
<1>1. PICK p : p = Len(t.values)
  OBVIOUS
<1>2. PICK ns : ns = t.nodes
  OBVIOUS
<1>3. Fine(ns, D, p) /\ \A a \in Addr : Rest(ns, a) = RecordAt(ns, a)
  BY <1>1, <1>2, ArenaFine, ArenaRest
<1>4. PICK ms : ms = IF IpVersion = "V6" /\ o.aliasing THEN InstallAliases(ns) ELSE ns
  OBVIOUS
<1>5. us = Compact(ms)
  BY <1>2, <1>4 DEF Snapshot
<1>6. /\ \E E : Fine(ms, E, p)
      /\ \A a \in Addr : ~(o.aliasing /\ InAlias(a)) => Rest(ms, a) = Rest(ns, a)
  <2>1. CASE IpVersion = "V6" /\ o.aliasing
    <3>1. ms = InstallAliases(ns)
      BY <1>4, <2>1
    <3> QED
      BY <1>3, <2>1, <3>1, AliasesFine
  <2>2. CASE ~(IpVersion = "V6" /\ o.aliasing)
    BY <1>3, <1>4, <2>2
  <2> QED
    BY <2>1, <2>2
<1>7. PICK E : Fine(ms, E, p)
  BY <1>6
<1>8. AllPlaced(us, p) /\ \A a \in Addr : Rest(ms, a).kind # "Alias" => Rest(us, a) = Rest(ms, a)
  BY <1>5, <1>7, CompactRest
<1>9. \A a \in Addr : RecordAt(ns, a).kind # "Alias"
  <2> SUFFICES ASSUME NEW a \in Addr PROVE RecordAt(ns, a).kind # "Alias"
    OBVIOUS
  <2>1. PICK r : r = RecordAt(ns, a)
    OBVIOUS
  <2>2. r \in {NoData, Reserved} \/ \E id \in 1 .. Len(t.values) : r = Data(id)
    BY <1>2, <2>1, RecordAtSound
  <2> QED
    BY <2>1, <2>2, Kinds
<1>10. ASSUME NEW a \in Addr, ~(o.aliasing /\ InAlias(a)) PROVE Rest(us, a) = RecordAt(t.nodes, a)
  <2>1. Rest(ms, a) = RecordAt(ns, a)
    BY <1>3, <1>6, <1>10
  <2> QED
    BY <1>2, <1>8, <1>9, <2>1
<1> QED
  BY <1>1, <1>8, <1>10

-----------------------------------------------------------------------------
(***************************************************************************)
(* reachable_data_ids: every id of the tree is in the section.             *)
(***************************************************************************)
Gathered(us) ==
    LET Seen[k \in 0 .. Len(us)] ==
            IF k = 0 THEN << >> ELSE Noted(Noted(Seen[k - 1], us[k][0]), us[k][1])
    IN  Seen

GatherStep(s, us, k) == Noted(Noted(s, us[k][0]), us[k][1])

LEMMA GatheredDef ==
    ASSUME NEW us, Len(us) \in Nat
    PROVE  /\ Gathered(us)[0] = << >>
           /\ \A k \in 0 .. Len(us) - 1 :
                  Gathered(us)[k + 1] = GatherStep(Gathered(us)[k], us, k + 1)
<1> DEFINE Turn(h, k) == IF k = 0 THEN << >> ELSE GatherStep(h[k - 1], us, k)
           Eq(h) == h = [k \in 0 .. Len(us) |-> Turn(h, k)]
           T == {m \in Nat : \E h : h = [k \in 0 .. m |-> Turn(h, k)]}
<1>0. Len(us) \in Nat
  OBVIOUS
<1>1. 0 \in T
  <2>1. PICK g : g = [k \in 0 .. 0 |-> << >>]
    OBVIOUS
  <2>2. g = [k \in 0 .. 0 |-> Turn(g, k)]
    BY <2>1
  <2> QED
    BY <2>2
<1>2. ASSUME NEW m \in Nat, m \in T PROVE m + 1 \in T
  <2>1. PICK e : e = [k \in 0 .. m |-> Turn(e, k)]
    BY <1>2
  <2>2. PICK z : z = GatherStep(e[m], us, m + 1)
    OBVIOUS
  <2>3. PICK g : g = [k \in 0 .. m + 1 |-> IF k <= m THEN e[k] ELSE z]
    OBVIOUS
  <2>4. \A k \in 0 .. m + 1 : g[k] = Turn(g, k)
    <3>1. \A k \in 0 .. m : g[k] = e[k] /\ e[k] = Turn(e, k)
      <4>1. \A k \in 0 .. m : g[k] = e[k]
        BY <2>3
      <4>2. \A k \in 0 .. m : e[k] = Turn(e, k)
        <5> HIDE DEF Turn
        <5> QED
          BY ONLY <2>1
      <4> QED
        BY <4>1, <4>2
    <3>2. \A k \in 1 .. m + 1 : g[k - 1] = e[k - 1]
      BY <3>1
    <3>3. g[m + 1] = z
      BY <2>3
    <3>4. ASSUME NEW k \in 0 .. m PROVE Turn(g, k) = Turn(e, k)
      <4>1. CASE k = 0
        BY <4>1
      <4>2. CASE k # 0
        <5>1. g[k - 1] = e[k - 1]
          BY <3>2, <4>2
        <5> QED
          BY <4>2, <5>1
      <4> QED
        BY <4>1, <4>2
    <3>5. g[m + 1] = Turn(g, m + 1)
      <4>1. m + 1 # 0 /\ (m + 1) - 1 = m /\ g[m] = e[m]
        BY <3>1
      <4> QED
        BY <2>2, <3>3, <4>1
    <3>6. \A k \in 0 .. m : g[k] = Turn(g, k)
      BY <3>1, <3>4
    <3>7. \A k \in 0 .. m + 1 : k \in 0 .. m \/ k = m + 1
      OBVIOUS
    <3> HIDE DEF Turn
    <3> QED
      BY <3>5, <3>6, <3>7
  <2>5. g = [k \in 0 .. m + 1 |-> Turn(g, k)]
    <3> HIDE DEF Turn
    <3> QED
      BY <2>3, <2>4
  <2>6. \E h : h = [k \in 0 .. m + 1 |-> Turn(h, k)]
    BY Zenon, <2>5
  <2> QED
    BY <2>6
<1>3. Len(us) \in T
  <2> HIDE DEF T
  <2> QED
    BY <1>0, <1>1, <1>2, Induction
<1>4. Gathered(us) = CHOOSE h : Eq(h)
  BY DEF Gathered, GatherStep
<1>5. Eq(Gathered(us))
  <2>1. \E h : Eq(h)
    BY <1>3
  <2> HIDE DEF Eq
  <2> QED
    BY Zenon, <1>4, <2>1
<1>6. PICK W : W = Gathered(us) /\ W = [k \in 0 .. Len(us) |-> Turn(W, k)]
  BY <1>5
<1>7. 0 \in 0 .. Len(us) /\ \A k \in 0 .. Len(us) - 1 : k + 1 \in 0 .. Len(us) /\ k + 1 # 0 /\ (k + 1) - 1 = k
  BY <1>0
<1>8. \A k \in 0 .. Len(us) : W[k] = Turn(W, k)
  <2> HIDE DEF Turn
  <2> QED
    BY ONLY <1>6
<1>9. W[0] = << >>
  BY <1>7, <1>8
<1>10. ASSUME NEW k \in 0 .. Len(us) - 1 PROVE W[k + 1] = GatherStep(W[k], us, k + 1)
  <2>1. k + 1 \in 0 .. Len(us) /\ k + 1 # 0 /\ (k + 1) - 1 = k
    BY <1>7
  <2>2. W[k + 1] = Turn(W, k + 1)
    BY <1>8, <2>1
  <2> QED
    BY <2>1, <2>2
<1> QED
  BY <1>6, <1>9, <1>10

LEMMA NotedIds ==
    ASSUME NEW s, NEW p \in Nat, s \in Seq(1 .. p), NEW r, NEW count, Placed(r, count, p)
    PROVE  /\ Noted(s, r) \in Seq(1 .. p)
           /\ \A x : Contains(s, x) => Contains(Noted(s, r), x)
           /\ r.kind = "Data" => Contains(Noted(s, r), r.arg)
<1>1. CASE r.kind # "Data" \/ Contains(s, r.arg)
  BY <1>1 DEF Noted
<1>2. CASE r.kind = "Data" /\ ~Contains(s, r.arg)
  <2>1. PICK id \in 1 .. p : r = Data(id) /\ r.arg = id
    <3>1. r.kind # "NoData" /\ r.kind # "Reserved" /\ r.kind \notin {"Node", "FixedNode", "Alias"}
      BY <1>2
    <3> QED
      BY <3>1, Kinds DEF Placed
  <2>2. Noted(s, r) = Append(s, id)
    BY <1>2, <2>1 DEF Noted
  <2>3. PICK u : u = Append(s, id)
    OBVIOUS
  <2>4. /\ u \in Seq(1 .. p) /\ Len(u) = Len(s) + 1 /\ Len(s) \in Nat
        /\ \A i \in 1 .. Len(s) : u[i] = s[i]
        /\ u[Len(s) + 1] = id
    BY <2>3, AppendProperties, LenProperties
  <2>5. \A x : Contains(s, x) => Contains(u, x)
    <3> SUFFICES ASSUME NEW x, NEW i \in 1 .. Len(s), s[i] = x PROVE Contains(u, x)
      BY DEF Contains
    <3>1. i \in 1 .. Len(u) /\ u[i] = x
      BY <2>4
    <3> QED
      BY <3>1 DEF Contains
  <2>6. Contains(u, id)
    <3>1. Len(s) + 1 \in 1 .. Len(u)
      BY <2>4
    <3> QED
      BY <2>4, <3>1 DEF Contains
  <2> QED
    BY <2>1, <2>2, <2>3, <2>4, <2>5, <2>6
<1> QED
  BY <1>1, <1>2

LEMMA IdsGathered ==
    ASSUME NEW us, NEW p, AllPlaced(us, p), NEW ids, ids = ReachableDataIds(us)
    PROVE  /\ ids \in Seq(1 .. p)
           /\ \A k \in 1 .. Len(us) : \A b \in Bit : us[k][b].kind = "Data" => Contains(ids, us[k][b].arg)
<1>0. p \in Nat /\ Len(us) \in Nat \ {0} /\ 0 \in Bit /\ 1 \in Bit /\ \A b \in Bit : b = 0 \/ b = 1
  BY DEF AllPlaced, Bit
<1>1. PICK f : f = Gathered(us)
  OBVIOUS
<1>2. f[0] = << >> /\ \A k \in 0 .. Len(us) - 1 : f[k + 1] = Noted(Noted(f[k], us[k + 1][0]), us[k + 1][1])
  BY <1>0, <1>1, GatheredDef DEF GatherStep
<1>3. ids = f[Len(us)]
  BY <1>1 DEF ReachableDataIds, Gathered
<1> DEFINE Has(s, k) == \A b \in Bit : us[k][b].kind = "Data" => Contains(s, us[k][b].arg)
           S == {k \in Nat : k <= Len(us) => f[k] \in Seq(1 .. p) /\ \A m \in 1 .. k : Has(f[k], m)}
<1>4. 0 \in S
  <2>1. f[0] \in Seq(1 .. p)
    BY <1>2
  <2>2. \A m \in 1 .. 0 : Has(f[0], m)
    OBVIOUS
  <2> HIDE DEF Has
  <2> QED
    BY <2>1, <2>2
<1>5. ASSUME NEW k \in Nat, k \in S PROVE k + 1 \in S
  <2> SUFFICES ASSUME k + 1 <= Len(us) PROVE f[k + 1] \in Seq(1 .. p) /\ \A m \in 1 .. k + 1 : Has(f[k + 1], m)
    OBVIOUS
  <2>1. k \in 0 .. Len(us) - 1 /\ k + 1 \in 1 .. Len(us)
    BY <1>0
  <2>2. PICK s : s = f[k]
    OBVIOUS
  <2>3. s \in Seq(1 .. p) /\ \A m \in 1 .. k : Has(s, m)
    BY <1>5, <2>2
  <2>4. PICK x : x = us[k + 1][0]
    OBVIOUS
  <2>5. PICK y : y = us[k + 1][1]
    OBVIOUS
  <2>6. Placed(x, Len(us), p) /\ Placed(y, Len(us), p)
    BY <1>0, <2>1, <2>4, <2>5 DEF AllPlaced
  <2>7. PICK s0 : s0 = Noted(s, x)
    OBVIOUS
  <2>8. /\ s0 \in Seq(1 .. p) /\ \A z : Contains(s, z) => Contains(s0, z)
        /\ x.kind = "Data" => Contains(s0, x.arg)
    BY <1>0, <2>3, <2>6, <2>7, NotedIds
  <2>9. PICK s1 : s1 = Noted(s0, y)
    OBVIOUS
  <2>10. /\ s1 \in Seq(1 .. p) /\ \A z : Contains(s0, z) => Contains(s1, z)
         /\ y.kind = "Data" => Contains(s1, y.arg)
    BY <1>0, <2>6, <2>8, <2>9, NotedIds
  <2>11. f[k + 1] = s1
    BY <1>2, <2>1, <2>2, <2>4, <2>5, <2>7, <2>9
  <2>12. ASSUME NEW m \in 1 .. k + 1 PROVE Has(s1, m)
    <3>1. CASE m = k + 1
      BY <1>0, <2>4, <2>5, <2>8, <2>10, <3>1
    <3>2. CASE m \in 1 .. k
      BY <2>3, <2>8, <2>10, <3>2
    <3> QED
      BY <2>12, <3>1, <3>2
  <2> QED
    BY <2>10, <2>11, <2>12
<1>6. Len(us) \in S
  <2> HIDE DEF S
  <2> QED
    BY <1>0, <1>4, <1>5, Induction
<1> QED
  BY <1>0, <1>3, <1>6

-----------------------------------------------------------------------------
(***************************************************************************)
(* Offsets: the values of a section start at different bytes of it.        *)
(***************************************************************************)
Sums(lens, n) ==
    LET Sum[m \in 0 .. n] == IF m = 0 THEN 0 ELSE Sum[m - 1] + lens[m]
    IN  Sum

LEMMA SumsDef ==
    ASSUME NEW lens, NEW n \in Nat
    PROVE  /\ Sums(lens, n)[0] = 0
           /\ \A k \in 0 .. n - 1 :
                  Sums(lens, n)[k + 1] = Sums(lens, n)[k] + lens[k + 1]
<1> DEFINE Turn(h, k) == IF k = 0 THEN 0 ELSE h[k - 1] + lens[k]
           Eq(h) == h = [k \in 0 .. n |-> Turn(h, k)]
           T == {m \in Nat : \E h : h = [k \in 0 .. m |-> Turn(h, k)]}
<1>0. n \in Nat
  OBVIOUS
<1>1. 0 \in T
  <2>1. PICK g : g = [k \in 0 .. 0 |-> 0]
    OBVIOUS
  <2>2. g = [k \in 0 .. 0 |-> Turn(g, k)]
    BY <2>1
  <2> QED
    BY <2>2
<1>2. ASSUME NEW m \in Nat, m \in T PROVE m + 1 \in T
  <2>1. PICK e : e = [k \in 0 .. m |-> Turn(e, k)]
    BY <1>2
  <2>2. PICK z : z = e[m] + lens[m + 1]
    OBVIOUS
  <2>3. PICK g : g = [k \in 0 .. m + 1 |-> IF k <= m THEN e[k] ELSE z]
    OBVIOUS
  <2>4. \A k \in 0 .. m + 1 : g[k] = Turn(g, k)
    <3>1. \A k \in 0 .. m : g[k] = e[k] /\ e[k] = Turn(e, k)
      <4>1. \A k \in 0 .. m : g[k] = e[k]
        BY <2>3
      <4>2. \A k \in 0 .. m : e[k] = Turn(e, k)
        <5> HIDE DEF Turn
        <5> QED
          BY ONLY <2>1
      <4> QED
        BY <4>1, <4>2
    <3>2. \A k \in 1 .. m + 1 : g[k - 1] = e[k - 1]
      BY <3>1
    <3>3. g[m + 1] = z
      BY <2>3
    <3>4. ASSUME NEW k \in 0 .. m PROVE Turn(g, k) = Turn(e, k)
      <4>1. CASE k = 0
        BY <4>1
      <4>2. CASE k # 0
        <5>1. g[k - 1] = e[k - 1]
          BY <3>2, <4>2
        <5> QED
          BY <4>2, <5>1
      <4> QED
        BY <4>1, <4>2
    <3>5. g[m + 1] = Turn(g, m + 1)
      <4>1. m + 1 # 0 /\ (m + 1) - 1 = m /\ g[m] = e[m]
        BY <3>1
      <4> QED
        BY <2>2, <3>3, <4>1
    <3>6. \A k \in 0 .. m : g[k] = Turn(g, k)
      BY <3>1, <3>4
    <3>7. \A k \in 0 .. m + 1 : k \in 0 .. m \/ k = m + 1
      OBVIOUS
    <3> HIDE DEF Turn
    <3> QED
      BY <3>5, <3>6, <3>7
  <2>5. g = [k \in 0 .. m + 1 |-> Turn(g, k)]
    <3> HIDE DEF Turn
    <3> QED
      BY <2>3, <2>4
  <2>6. \E h : h = [k \in 0 .. m + 1 |-> Turn(h, k)]
    BY Zenon, <2>5
  <2> QED
    BY <2>6
<1>3. n \in T
  <2> HIDE DEF T
  <2> QED
    BY <1>0, <1>1, <1>2, Induction
<1>4. Sums(lens, n) = CHOOSE h : Eq(h)
  BY DEF Sums
<1>5. Eq(Sums(lens, n))
  <2>1. \E h : Eq(h)
    BY <1>3
  <2> HIDE DEF Eq
  <2> QED
    BY Zenon, <1>4, <2>1
<1>6. PICK W : W = Sums(lens, n) /\ W = [k \in 0 .. n |-> Turn(W, k)]
  BY <1>5
<1>7. 0 \in 0 .. n /\ \A k \in 0 .. n - 1 : k + 1 \in 0 .. n /\ k + 1 # 0 /\ (k + 1) - 1 = k
  BY <1>0
<1>8. \A k \in 0 .. n : W[k] = Turn(W, k)
  <2> HIDE DEF Turn
  <2> QED
    BY ONLY <1>6
<1>9. W[0] = 0
  BY <1>7, <1>8
<1>10. ASSUME NEW k \in 0 .. n - 1 PROVE W[k + 1] = W[k] + lens[k + 1]
  <2>1. k + 1 \in 0 .. n /\ k + 1 # 0 /\ (k + 1) - 1 = k
    BY <1>7
  <2>2. W[k + 1] = Turn(W, k + 1)
    BY <1>8, <2>1
  <2> QED
    BY <2>1, <2>2
<1> QED
  BY <1>6, <1>9, <1>10

LEMMA TotalStep ==
    ASSUME NEW lens
    PROVE  Total(lens, 0) = 0 /\ \A k \in Nat : Total(lens, k + 1) = Total(lens, k) + lens[k + 1]
<1>1. \A k \in Nat : Total(lens, k) = Sums(lens, k)[k]
  BY DEF Total, Sums
<1>2. Total(lens, 0) = 0
  BY <1>1, SumsDef
<1>3. ASSUME NEW k \in Nat PROVE Total(lens, k + 1) = Total(lens, k) + lens[k + 1]
  <2>1. PICK f : f = Sums(lens, k)
    OBVIOUS
  <2>2. PICK g : g = Sums(lens, k + 1)
    OBVIOUS
  <2>3. f[0] = 0 /\ \A i \in 0 .. k - 1 : f[i + 1] = f[i] + lens[i + 1]
    BY <2>1, SumsDef
  <2>4. g[0] = 0 /\ \A i \in 0 .. (k + 1) - 1 : g[i + 1] = g[i] + lens[i + 1]
    BY <2>2, SumsDef
  <2> DEFINE S == {i \in Nat : i <= k => f[i] = g[i]}
  <2>5. 0 \in S
    BY <2>3, <2>4
  <2>6. ASSUME NEW i \in Nat, i \in S PROVE i + 1 \in S
    <3> SUFFICES ASSUME i + 1 <= k PROVE f[i + 1] = g[i + 1]
      OBVIOUS
    <3>1. i \in 0 .. k - 1 /\ i \in 0 .. (k + 1) - 1 /\ f[i] = g[i]
      BY <2>6
    <3> QED
      BY <2>3, <2>4, <3>1
  <2>7. k \in S
    <3> HIDE DEF S
    <3> QED
      BY <2>5, <2>6, Induction
  <2>8. f[k] = g[k] /\ k \in 0 .. (k + 1) - 1
    BY <2>7
  <2>9. g[k + 1] = g[k] + lens[k + 1]
    BY <2>4, <2>8
  <2> QED
    BY <1>1, <2>1, <2>2, <2>8, <2>9
<1> QED
  BY <1>2, <1>3

LEMMA TotalGrows ==
    ASSUME NEW lens, NEW n \in Nat, \A k \in 1 .. n : lens[k] \in Nat \ {0}
    PROVE  /\ \A k \in 0 .. n : Total(lens, k) \in Nat
           /\ \A j, k \in 0 .. n : j < k => Total(lens, j) < Total(lens, k)
<1> DEFINE Grows(k) == Total(lens, k) \in Nat /\ \A j \in 0 .. k - 1 : Total(lens, j) \in Nat /\ Total(lens, j) < Total(lens, k)
           S == {k \in Nat : k <= n => Grows(k)}
<1>1. 0 \in S
  BY TotalStep
<1>2. ASSUME NEW k \in Nat, k \in S PROVE k + 1 \in S
  <2> SUFFICES ASSUME k + 1 <= n PROVE Grows(k + 1)
    OBVIOUS
  <2>1. PICK x \in Nat : x = Total(lens, k)
    BY <1>2
  <2>2. PICK d \in Nat \ {0} : d = lens[k + 1]
    OBVIOUS
  <2>3. Total(lens, k + 1) = x + d
    BY <2>1, <2>2, TotalStep
  <2>4. \A j \in 0 .. k - 1 : Total(lens, j) \in Nat /\ Total(lens, j) < x
    BY <1>2, <2>1
  <2>5. ASSUME NEW j \in 0 .. (k + 1) - 1 PROVE Total(lens, j) \in Nat /\ Total(lens, j) < x + d
    <3>1. CASE j = k
      BY <2>1, <3>1
    <3>2. CASE j \in 0 .. k - 1
      <4>1. PICK y : y = Total(lens, j)
        OBVIOUS
      <4>2. y \in Nat /\ y < x
        BY <2>4, <3>2, <4>1
      <4> QED
        BY <4>1, <4>2
    <3> QED
      BY <2>5, <3>1, <3>2
  <2> QED
    BY <2>3, <2>5
<1> HIDE DEF S
<1>3. \A k \in Nat : k \in S
  BY <1>1, <1>2, Induction
<1>4. \A k \in 0 .. n : Grows(k)
  BY <1>3 DEF S
<1> QED
  BY <1>4

LEMMA MaxOffsetNat == MaxOffset \in Nat /\ \A i \in DOMAIN Limits : Limits[i] \in Nat \ {0} /\ Limits[i] <= MaxOffset + 1
<1>1. PICK s : s = Limits
  OBVIOUS
<1>2. PICK n : n = Len(s)
  OBVIOUS
<1>3. /\ s \in Seq(Nat \ {0}) /\ s # << >> /\ n \in Nat /\ DOMAIN s = 1 .. n
      /\ \A i, j \in DOMAIN s : i < j => s[i] < s[j]
  BY <1>1, <1>2, BuildAssumption
<1>4. n # 0
  BY <1>2, <1>3
<1>5. n \in DOMAIN s /\ \A i \in DOMAIN s : s[i] \in Nat \ {0} /\ (i = n \/ i < n)
  BY <1>3, <1>4
<1>6. PICK m \in Nat \ {0} : m = s[n]
  BY <1>5
<1>7. MaxOffset = m - 1
  BY <1>1, <1>2, <1>6 DEF MaxOffset
<1>8. ASSUME NEW i \in DOMAIN s PROVE s[i] \in Nat \ {0} /\ s[i] <= m
  <2>1. CASE i = n
    BY <1>6, <2>1
  <2>2. CASE i < n
    <3>1. s[i] < s[n]
      BY <1>3, <1>5, <2>2
    <3> QED
      BY <1>5, <1>6, <3>1
  <2> QED
    BY <1>5, <2>1, <2>2
<1> QED
  BY <1>1, <1>6, <1>7, <1>8

LEMMA OffsetIs ==
    ASSUME NEW lens, NEW k, NEW x \in Nat, x = Total(lens, k - 1)
    PROVE  /\ Offset(lens, k) \in Nat /\ Offset(lens, k) <= x
           /\ Offset(lens, k) < MaxOffset => Offset(lens, k) = x
<1>1. PICK m \in Nat : m = MaxOffset
  BY MaxOffsetNat
<1>2. PICK y : y = Offset(lens, k)
  OBVIOUS
<1> DEFINE Low(z) == z \in {x, m} /\ \A w \in {x, m} : z <= w
<1>3. y = CHOOSE z : Low(z)
  BY <1>1, <1>2 DEF Offset, Min
<1>4. \E z : Low(z)
  <2>1. CASE x <= m
    BY <2>1
  <2>2. CASE m <= x
    BY <2>2
  <2> QED
    BY <1>1, <2>1, <2>2
<1>5. Low(y)
  <2> HIDE DEF Low
  <2> QED
    BY Zenon, <1>3, <1>4
<1> QED
  BY <1>1, <1>2, <1>5

(* Offsets: where each value begins, as long as the conversion to u32 did not saturate. *)
Spread(offset, n, total) ==
    /\ DOMAIN offset = n
    /\ \A id \in n : offset[id] \in Nat /\ offset[id] < total
    /\ \A i, j \in n : offset[i] = offset[j] /\ offset[i] < MaxOffset => i = j

LEMMA OffsetsApart ==
    ASSUME NEW T, NEW ids, ids \in Seq(T), NEW lens, \A k \in DOMAIN ids : lens[k] \in Nat \ {0},
           NEW total, total = Total(lens, Len(ids))
    PROVE  Spread(Offsets(ids, lens), ToSet(ids), total) /\ total \in Nat
<1>1. PICK n \in Nat : n = Len(ids)
  OBVIOUS
<1>2. DOMAIN ids = 1 .. n
  BY <1>1
<1>3. \A k \in 1 .. n : lens[k] \in Nat \ {0}
  BY <1>2
<1>4. /\ \A k \in 0 .. n : Total(lens, k) \in Nat
      /\ \A j, k \in 0 .. n : j < k => Total(lens, j) < Total(lens, k)
  BY <1>3, TotalGrows
<1>5. total = Total(lens, n) /\ total \in Nat
  BY <1>1, <1>4
<1>6. PICK offset : offset = Offsets(ids, lens)
  OBVIOUS
<1>7. PICK at : at = [id \in ToSet(ids) |-> CHOOSE k \in DOMAIN ids : ids[k] = id]
  OBVIOUS
<1>8. ASSUME NEW id \in ToSet(ids) PROVE at[id] \in 1 .. n /\ ids[at[id]] = id
  <2>1. \E k \in DOMAIN ids : ids[k] = id
    BY DEF ToSet
  <2>2. at[id] = CHOOSE k \in DOMAIN ids : ids[k] = id
    BY <1>7
  <2> QED
    BY <1>2, <2>1, <2>2
<1>9. DOMAIN offset = ToSet(ids) /\ \A id \in ToSet(ids) : offset[id] = Offset(lens, at[id])
  BY <1>6, <1>7 DEF Offsets
<1>10. ASSUME NEW id \in ToSet(ids)
       PROVE  /\ offset[id] \in Nat /\ offset[id] < total
              /\ offset[id] < MaxOffset => offset[id] = Total(lens, at[id] - 1)
  <2>1. PICK k \in 1 .. n : k = at[id]
    BY <1>8
  <2>2. k - 1 \in 0 .. n /\ k - 1 < n /\ n \in 0 .. n
    BY <1>1
  <2>3. PICK x \in Nat : x = Total(lens, k - 1)
    BY <1>4, <2>2
  <2>4. x < total
    BY <1>4, <1>5, <2>2, <2>3
  <2>5. PICK y : y = Offset(lens, k)
    OBVIOUS
  <2>6. y \in Nat /\ y <= x /\ (y < MaxOffset => y = x)
    BY <2>3, <2>5, OffsetIs
  <2>7. offset[id] = y
    BY <1>9, <2>1, <2>5
  <2> QED
    BY <1>5, <2>1, <2>3, <2>4, <2>6, <2>7
<1>11. ASSUME NEW i \in ToSet(ids), NEW j \in ToSet(ids), offset[i] = offset[j], offset[i] < MaxOffset
       PROVE  i = j
  <2>1. PICK k \in 1 .. n : k = at[i] /\ ids[k] = i
    BY <1>8
  <2>2. PICK m \in 1 .. n : m = at[j] /\ ids[m] = j
    BY <1>8
  <2>3. Total(lens, k - 1) = Total(lens, m - 1)
    BY <1>10, <1>11, <2>1, <2>2
  <2>4. k - 1 \in 0 .. n /\ m - 1 \in 0 .. n
    BY <1>1
  <2>5. PICK x \in Nat : x = Total(lens, k - 1)
    BY <1>4, <2>4
  <2>6. ~(k - 1 < m - 1) /\ ~(m - 1 < k - 1)
    BY <1>4, <2>3, <2>4, <2>5
  <2>7. k = m
    BY <2>6
  <2> QED
    BY <2>1, <2>2, <2>7
<1> QED
  BY <1>5, <1>6, <1>9, <1>10, <1>11 DEF Spread

LEMMA PickedSize ==
    ASSUME NEW o, o.size \in Range(Limits) \cup {None}, NEW count, NEW len, NEW limit, limit = PickLimit(o, count, len)
    PROVE  /\ limit = 0 \/ limit \in Range(Limits)
           /\ o.size = None /\ limit # 0 => Fits(limit, count, len)
<1>1. CASE o.size # None
  BY <1>1 DEF PickLimit
<1>2. CASE o.size = None
  <2> DEFINE J == {k \in DOMAIN Limits : /\ Fits(Limits[k], count, len)
                                         /\ \A j \in 1 .. k - 1 : ~Fits(Limits[j], count, len)}
             T == {0} \cup {Limits[i] : i \in J}
             Top(x) == x \in T /\ \A y \in T : x >= y
  <2>1. limit = CHOOSE x : Top(x)
    BY <1>2 DEF PickLimit, Max
  <2>2. PICK n \in Nat : n = MaxOffset + 1
    BY MaxOffsetNat
  <2>3. T \subseteq 0 .. n
    BY <2>2, MaxOffsetNat
  <2>4. 0 \in T /\ T # {}
    OBVIOUS
  <2>5. \E x : Top(x)
    <3> HIDE DEF T
    <3>1. PICK x \in T : \A y \in T : y <= x
      BY <2>3, <2>4, Greatest
    <3>2. \A y \in T : x >= y
      BY <2>3, <3>1
    <3> QED
      BY <3>1, <3>2
  <2>6. Top(limit)
    <3> HIDE DEF Top
    <3> QED
      BY Zenon, <2>1, <2>5
  <2>7. limit = 0 \/ \E i \in DOMAIN Limits : limit = Limits[i] /\ Fits(Limits[i], count, len)
    BY <2>6
  <2> QED
    BY <2>7 DEF Range
<1> QED
  BY <1>1, <1>2

-----------------------------------------------------------------------------
(***************************************************************************)
(* A number of the file stands for the record it was made of.              *)
(***************************************************************************)

(* Numbers below the node count lead on, the others stop a reader. *)
Leading(x, r, count) ==
    IF r.kind \in {"Node", "FixedNode", "Alias"} THEN x = r.arg - 1 /\ x \in Nat /\ x < count
    ELSE x \in Nat /\ x >= count

LEMMA EncodedPlace ==
    ASSUME NEW r, NEW count \in Nat, NEW p, Placed(r, count, p), NEW offset,
           r.kind = "Data" => offset[r.arg] \in Nat
    PROVE  Leading(Encode(r, count, Gap, offset), r, count)
<1>0. Gap \in Nat
  BY BuildAssumption
<1>1. CASE r.kind \in {"Node", "FixedNode", "Alias"}
  <2>1. r.arg \in 1 .. count
    BY <1>1, Kinds DEF Placed
  <2>2. r.kind \notin {"NoData", "Reserved"} /\ r.kind # "Data"
    BY <1>1
  <2> QED
    BY <1>1, <2>1, <2>2 DEF Encode, Leading
<1>2. CASE r.kind = "Data"
  <2>1. Encode(r, count, Gap, offset) = count + Gap + offset[r.arg]
    BY <1>2 DEF Encode
  <2>2. PICK z \in Nat : z = offset[r.arg]
    BY <1>2
  <2> QED
    BY <1>0, <1>2, <2>1, <2>2 DEF Leading
<1>3. CASE r.kind \in {"NoData", "Reserved"}
  <2>1. Encode(r, count, Gap, offset) = count
    BY <1>3 DEF Encode
  <2> QED
    BY <1>3, <2>1 DEF Leading
<1> QED
  BY <1>1, <1>2, <1>3, Kinds DEF Placed

-----------------------------------------------------------------------------
(***************************************************************************)
(* A reader follows the stroll, one number for each record.                *)
(***************************************************************************)
Raws(file, start, bits) ==
    LET Raw[k \in 0 .. Len(bits)] == IF k = 0 THEN start ELSE ReadStep(file, Raw[k - 1], bits[k])
    IN  Raw

LEMMA RawsDef ==
    ASSUME NEW file, NEW start, NEW bits, Len(bits) \in Nat
    PROVE  /\ Raws(file, start, bits)[0] = start
           /\ \A k \in 0 .. Len(bits) - 1 :
                  Raws(file, start, bits)[k + 1] = ReadStep(file, Raws(file, start, bits)[k], bits[k + 1])
<1> DEFINE Turn(h, k) == IF k = 0 THEN start ELSE ReadStep(file, h[k - 1], bits[k])
           Eq(h) == h = [k \in 0 .. Len(bits) |-> Turn(h, k)]
           T == {m \in Nat : \E h : h = [k \in 0 .. m |-> Turn(h, k)]}
<1>0. Len(bits) \in Nat
  OBVIOUS
<1>1. 0 \in T
  <2>1. PICK g : g = [k \in 0 .. 0 |-> start]
    OBVIOUS
  <2>2. g = [k \in 0 .. 0 |-> Turn(g, k)]
    BY <2>1
  <2> QED
    BY <2>2
<1>2. ASSUME NEW m \in Nat, m \in T PROVE m + 1 \in T
  <2>1. PICK e : e = [k \in 0 .. m |-> Turn(e, k)]
    BY <1>2
  <2>2. PICK z : z = ReadStep(file, e[m], bits[m + 1])
    OBVIOUS
  <2>3. PICK g : g = [k \in 0 .. m + 1 |-> IF k <= m THEN e[k] ELSE z]
    OBVIOUS
  <2>4. \A k \in 0 .. m + 1 : g[k] = Turn(g, k)
    <3>1. \A k \in 0 .. m : g[k] = e[k] /\ e[k] = Turn(e, k)
      <4>1. \A k \in 0 .. m : g[k] = e[k]
        BY <2>3
      <4>2. \A k \in 0 .. m : e[k] = Turn(e, k)
        <5> HIDE DEF Turn
        <5> QED
          BY ONLY <2>1
      <4> QED
        BY <4>1, <4>2
    <3>2. \A k \in 1 .. m + 1 : g[k - 1] = e[k - 1]
      BY <3>1
    <3>3. g[m + 1] = z
      BY <2>3
    <3>4. ASSUME NEW k \in 0 .. m PROVE Turn(g, k) = Turn(e, k)
      <4>1. CASE k = 0
        BY <4>1
      <4>2. CASE k # 0
        <5>1. g[k - 1] = e[k - 1]
          BY <3>2, <4>2
        <5> QED
          BY <4>2, <5>1
      <4> QED
        BY <4>1, <4>2
    <3>5. g[m + 1] = Turn(g, m + 1)
      <4>1. m + 1 # 0 /\ (m + 1) - 1 = m /\ g[m] = e[m]
        BY <3>1
      <4> QED
        BY <2>2, <3>3, <4>1
    <3>6. \A k \in 0 .. m : g[k] = Turn(g, k)
      BY <3>1, <3>4
    <3>7. \A k \in 0 .. m + 1 : k \in 0 .. m \/ k = m + 1
      OBVIOUS
    <3> HIDE DEF Turn
    <3> QED
      BY <3>5, <3>6, <3>7
  <2>5. g = [k \in 0 .. m + 1 |-> Turn(g, k)]
    <3> HIDE DEF Turn
    <3> QED
      BY <2>3, <2>4
  <2>6. \E h : h = [k \in 0 .. m + 1 |-> Turn(h, k)]
    BY Zenon, <2>5
  <2> QED
    BY <2>6
<1>3. Len(bits) \in T
  <2> HIDE DEF T
  <2> QED
    BY <1>0, <1>1, <1>2, Induction
<1>4. Raws(file, start, bits) = CHOOSE h : Eq(h)
  BY DEF Raws
<1>5. Eq(Raws(file, start, bits))
  <2>1. \E h : Eq(h)
    BY <1>3
  <2> HIDE DEF Eq
  <2> QED
    BY Zenon, <1>4, <2>1
<1>6. PICK W : W = Raws(file, start, bits) /\ W = [k \in 0 .. Len(bits) |-> Turn(W, k)]
  BY <1>5
<1>7. 0 \in 0 .. Len(bits) /\ \A k \in 0 .. Len(bits) - 1 : k + 1 \in 0 .. Len(bits) /\ k + 1 # 0 /\ (k + 1) - 1 = k
  BY <1>0
<1>8. \A k \in 0 .. Len(bits) : W[k] = Turn(W, k)
  <2> HIDE DEF Turn
  <2> QED
    BY ONLY <1>6
<1>9. W[0] = start
  BY <1>7, <1>8
<1>10. ASSUME NEW k \in 0 .. Len(bits) - 1 PROVE W[k + 1] = ReadStep(file, W[k], bits[k + 1])
  <2>1. k + 1 \in 0 .. Len(bits) /\ k + 1 # 0 /\ (k + 1) - 1 = k
    BY <1>7
  <2>2. W[k + 1] = Turn(W, k + 1)
    BY <1>8, <2>1
  <2> QED
    BY <2>1, <2>2
<1> QED
  BY <1>6, <1>9, <1>10

(* The value of r, if it has one, is in the section and below the offset that saturates. *)
InSection(r, offset) ==
    r.kind = "Data" =>
        r.arg \in DOMAIN offset /\ offset[r.arg] \in Nat /\ offset[r.arg] < MaxOffset

(* file holds the tree us, whose values are at these offsets. *)
Holds(file, us, p, offset) ==
    /\ AllPlaced(us, p) /\ file.meta.node_count = Len(us)
    /\ \A k \in 1 .. Len(us) : \A b \in Bit :
           /\ InSection(us[k][b], offset)
           /\ file.nodes[k][b] = Encode(us[k][b], Len(us), Gap, offset)

(* The number x at which a reader is, when the stroll is at r. *)
Numbers(x, r, count, p, offset) ==
    /\ Placed(r, count, p) /\ r.kind # "FixedNode"
    /\ InSection(r, offset)
    /\ x = Encode(r, count, Gap, offset)

LEMMA ReadStroll ==
    ASSUME NEW file, NEW us, NEW p, NEW offset, Holds(file, us, p, offset), NEW a \in Addr,
           Rest(us, a).kind # "Alias"
    PROVE  Numbers(ReadFrom(file, 0, a), Rest(us, a), Len(us), p, offset)
<1>1. PICK n \in Nat \ {0} : n = Len(us)
  BY DEF Holds, AllPlaced
<1>2. /\ Depth \in Nat \ {0} /\ Len(a) = Depth /\ p \in Nat
      /\ \A k \in 0 .. Depth - 1 : a[k + 1] \in Bit
  BY AddrBits, DepthAssumption DEF Holds, AllPlaced
<1>3. PICK f : f = Raws(file, 0, a)
  OBVIOUS
<1>4. f[0] = 0 /\ \A k \in 0 .. Depth - 1 : f[k + 1] = ReadStep(file, f[k], a[k + 1])
  BY <1>2, <1>3, RawsDef
<1>5. PICK g : g = Stroll(us, a)
  OBVIOUS
<1>6. g[0] = Node(1) /\ \A k \in 0 .. Depth - 1 : g[k + 1] = Ahead(us, g[k], a[k + 1])
  BY <1>5, StrollDef
<1> DEFINE S == {k \in Nat : k <= Depth => g[k].kind = "Alias" \/ Numbers(f[k], g[k], n, p, offset)}
<1>7. 0 \in S
  <2>1. Placed(Node(1), n, p) /\ Node(1).kind = "Node" /\ Node(1).arg = 1
    BY DEF Placed, Node, Rec
  <2>2. Encode(Node(1), n, Gap, offset) = 0
    BY <2>1 DEF Encode
  <2>3. Numbers(0, Node(1), n, p, offset)
    BY <2>1, <2>2 DEF Numbers, InSection
  <2> QED
    BY <1>4, <1>6, <2>3
<1>8. ASSUME NEW k \in Nat, k \in S PROVE k + 1 \in S
  <2> SUFFICES ASSUME k + 1 <= Depth
               PROVE g[k + 1].kind = "Alias" \/ Numbers(f[k + 1], g[k + 1], n, p, offset)
    OBVIOUS
  <2>1. k \in 0 .. Depth - 1
    BY <1>2
  <2>2. PICK b \in Bit : b = a[k + 1]
    BY <1>2, <2>1
  <2>3. PICK r : r = g[k]
    OBVIOUS
  <2>4. PICK x : x = f[k]
    OBVIOUS
  <2>5. f[k + 1] = ReadStep(file, x, b) /\ g[k + 1] = Ahead(us, r, b)
    BY <1>4, <1>6, <2>1, <2>2, <2>3, <2>4
  <2>6. r.kind = "Alias" \/ Numbers(x, r, n, p, offset)
    BY <1>2, <1>8, <2>1, <2>3, <2>4
  <2>7. CASE r.kind = "Alias"
    BY <2>5, <2>7 DEF Ahead
  <2>8. CASE r.kind # "Alias" /\ Numbers(x, r, n, p, offset)
    <3>1. /\ Placed(r, n, p) /\ r.kind # "FixedNode" /\ x = Encode(r, n, Gap, offset)
          /\ r.kind = "Data" => offset[r.arg] \in Nat
      BY <2>8 DEF Numbers, InSection
    <3>2. Leading(x, r, n)
      BY <1>1, <3>1, EncodedPlace
    <3>3. file.meta.node_count = n
      BY <1>1 DEF Holds
    <3>4. CASE r.kind = "Node"
      <4>1. r.arg \in 1 .. n /\ x = r.arg - 1 /\ x \in Nat /\ x < n
        BY <3>1, <3>2, <3>4, Kinds DEF Placed, Leading
      <4>2. PICK j \in 1 .. n : j = r.arg /\ x + 1 = j
        BY <4>1
      <4>3. ReadStep(file, x, b) = file.nodes[j][b]
        BY <3>3, <4>1, <4>2 DEF ReadStep
      <4>4. PICK q : q = us[j][b]
        OBVIOUS
      <4>5. /\ Placed(q, n, p) /\ InSection(q, offset)
            /\ file.nodes[j][b] = Encode(q, n, Gap, offset)
        BY <1>1, <4>4 DEF Holds, AllPlaced
      <4>6. Ahead(us, r, b) = Norm(q)
        BY <3>4, <4>2, <4>4 DEF Ahead
      <4>7. CASE q.kind = "FixedNode"
        <5>1. Norm(q) = Node(q.arg) /\ Norm(q).kind = "Node" /\ Norm(q).arg = q.arg
          BY <4>7 DEF Norm, Node, Rec
        <5>2. Encode(Norm(q), n, Gap, offset) = Encode(q, n, Gap, offset)
          BY <4>7, <5>1 DEF Encode
        <5>3. q.arg \in 1 .. n
          BY <4>5, <4>7, Kinds DEF Placed
        <5>4. Placed(Norm(q), n, p)
          BY <5>1, <5>3 DEF Placed, Node, Rec
        <5>5. Numbers(f[k + 1], g[k + 1], n, p, offset)
          BY <2>5, <4>3, <4>5, <4>6, <5>1, <5>2, <5>4 DEF Numbers, InSection
        <5> QED
          BY <5>5
      <4>8. CASE q.kind # "FixedNode"
        <5>1. Norm(q) = q
          BY <4>8 DEF Norm
        <5> QED
          BY <2>5, <4>3, <4>5, <4>6, <4>8, <5>1 DEF Numbers
      <4> QED
        BY <4>7, <4>8
    <3>5. CASE r.kind # "Node"
      <4>1. x \in Nat /\ x >= n
        BY <2>8, <3>1, <3>2, <3>5 DEF Leading
      <4>2. ReadStep(file, x, b) = x
        BY <1>1, <3>3, <4>1 DEF ReadStep
      <4>3. Ahead(us, r, b) = r
        BY <3>5 DEF Ahead
      <4> QED
        BY <2>5, <2>8, <4>2, <4>3
    <3> QED
      BY <3>4, <3>5
  <2> QED
    BY <2>6, <2>7, <2>8
<1>9. Depth \in S
  <2> HIDE DEF S
  <2> QED
    BY <1>2, <1>7, <1>8, Induction
<1>10. Rest(us, a) = g[Depth]
  BY <1>5 DEF Rest
<1>11. ReadFrom(file, 0, a) = f[Depth]
  BY <1>2, <1>3 DEF ReadFrom, Raws
<1> QED
  BY <1>1, <1>2, <1>9, <1>10, <1>11

LEMMA RawsAt ==
    ASSUME NEW file, NEW start, NEW bits, NEW n \in Nat, n = Len(bits), NEW f, f = Raws(file, start, bits)
    PROVE  f[0] = start /\ \A k \in 0 .. n - 1 : f[k + 1] = ReadStep(file, f[k], bits[k + 1])
BY RawsDef

Joined(z, x, c) == c = z \o x

LEMMA ReadOn ==
    ASSUME NEW file, NEW from, NEW z \in Seq(Bit), NEW x \in Seq(Bit), NEW c, Joined(z, x, c)
    PROVE  ReadFrom(file, ReadFrom(file, from, z), x) = ReadFrom(file, from, c)
<1>1. PICK m, n \in Nat : m = Len(z) /\ n = Len(x)
  BY LenProperties
<1>2. /\ c \in Seq(Bit) /\ Len(c) = m + n
      /\ \A k \in 1 .. m + n : c[k] = IF k <= m THEN z[k] ELSE x[k - m]
  BY <1>1, ConcatProperties DEF Joined
<1>3. PICK f : f = Raws(file, from, z)
  OBVIOUS
<1>4. PICK s : s = ReadFrom(file, from, z)
  OBVIOUS
<1>5. PICK g : g = Raws(file, s, x)
  OBVIOUS
<1>6. PICK h : h = Raws(file, from, c)
  OBVIOUS
<1>7. f[0] = from /\ \A k \in 0 .. m - 1 : f[k + 1] = ReadStep(file, f[k], z[k + 1])
  BY <1>1, <1>3, RawsAt
<1>8. g[0] = s /\ \A k \in 0 .. n - 1 : g[k + 1] = ReadStep(file, g[k], x[k + 1])
  BY <1>1, <1>5, RawsAt
<1>9. h[0] = from /\ \A k \in 0 .. (m + n) - 1 : h[k + 1] = ReadStep(file, h[k], c[k + 1])
  <2>1. PICK w \in Nat : w = m + n
    BY <1>1
  <2>2. w = Len(c)
    BY <1>2, <2>1
  <2> QED
    BY <1>6, <2>1, <2>2, RawsAt
<1>10. s = f[m]
  BY <1>1, <1>3, <1>4 DEF ReadFrom, Raws
<1>11. ReadFrom(file, s, x) = g[n] /\ ReadFrom(file, from, c) = h[m + n]
  BY <1>1, <1>2, <1>5, <1>6 DEF ReadFrom, Raws
<1> DEFINE S == {k \in Nat : k <= m => h[k] = f[k]}
           T == {k \in Nat : k <= n => h[m + k] = g[k]}
<1>12. m \in S
  <2>1. 0 \in S
    BY <1>7, <1>9
  <2>2. ASSUME NEW k \in Nat, k \in S PROVE k + 1 \in S
    <3> SUFFICES ASSUME k + 1 <= m PROVE h[k + 1] = f[k + 1]
      OBVIOUS
    <3>1. k \in 0 .. m - 1 /\ k \in 0 .. (m + n) - 1 /\ k + 1 \in 1 .. m + n /\ k + 1 <= m
      BY <1>1
    <3>2. c[k + 1] = z[k + 1] /\ h[k] = f[k]
      BY <1>2, <2>2, <3>1
    <3> QED
      BY <1>7, <1>9, <3>1, <3>2
  <2> HIDE DEF S
  <2> QED
    BY <1>1, <2>1, <2>2, Induction
<1>13. n \in T
  <2>1. 0 \in T
    BY <1>1, <1>8, <1>10, <1>12
  <2>2. ASSUME NEW k \in Nat, k \in T PROVE k + 1 \in T
    <3> SUFFICES ASSUME k + 1 <= n PROVE h[m + (k + 1)] = g[k + 1]
      OBVIOUS
    <3>1. PICK i \in Nat : i = m + k
      BY <1>1
    <3>2. /\ k \in 0 .. n - 1 /\ i \in 0 .. (m + n) - 1 /\ i + 1 \in 1 .. m + n /\ ~(i + 1 <= m)
          /\ (i + 1) - m = k + 1 /\ m + (k + 1) = i + 1
      BY <1>1, <3>1
    <3>3. c[i + 1] = x[k + 1] /\ h[i] = g[k]
      BY <1>2, <2>2, <3>1, <3>2
    <3>4. h[i + 1] = ReadStep(file, h[i], c[i + 1]) /\ g[k + 1] = ReadStep(file, g[k], x[k + 1])
      BY <1>8, <1>9, <3>2
    <3> QED
      BY <3>2, <3>3, <3>4
  <2> HIDE DEF T
  <2> QED
    BY <1>1, <2>1, <2>2, Induction
<1> QED
  BY <1>1, <1>4, <1>11, <1>13

(***************************************************************************)
(* An IPv4 lookup is the lookup of the address in the tree, which lies in  *)
(* no alias network.                                                       *)
(***************************************************************************)
LEMMA V4Plain ==
    ASSUME NEW x \in [1 .. V4Bits -> Bit], NEW a, a = TreePrefix([family |-> "V4", bits |-> x])
    PROVE  /\ a \in Addr /\ ~InAlias(a)
           /\ \A file : LookupV4(file, x) = Lookup(file, a)
<1>0. /\ IpVersion \in {"V4", "V6"} /\ V4Depth \in 1 .. Depth /\ Depth \in Nat \ {0}
      /\ V4Depth \in Nat /\ V4Bits \in Nat
      /\ IpVersion = "V6" => V4Bits = Depth - V4Depth
      /\ IpVersion = "V4" => V4Bits = Depth
  BY WriterAssumption, DepthAssumption DEF V4Bits
<1>1. x \in Seq(Bit) /\ Len(x) = V4Bits
  <2>1. x \in Seq(Bit)
    BY <1>0, SeqDef
  <2>2. DOMAIN x = 1 .. V4Bits /\ DOMAIN x = 1 .. Len(x) /\ Len(x) \in Nat
    BY <2>1, LenProperties
  <2> QED
    BY <1>0, <2>1, <2>2
<1>2. CASE IpVersion = "V4"
  <2>1. a = x /\ a \in Addr
    BY <1>0, <1>2 DEF TreePrefix, Addr
  <2>2. ~InAlias(a)
    BY <1>2 DEF InAlias
  <2>3. ASSUME NEW file PROVE LookupV4(file, x) = Lookup(file, a)
    <3>1. ReadFrom(file, 0, << >>) = Raws(file, 0, << >>)[0]
      BY DEF ReadFrom, Raws
    <3>2. ReadFrom(file, 0, << >>) = 0
      <4>1. PICK e, start : e = << >> /\ start = 0
        OBVIOUS
      <4>2. Len(e) = 0
        BY <4>1
      <4>3. Raws(file, start, e)[0] = start
        BY <4>2, RawsDef
      <4> QED
        BY <3>1, <4>1, <4>3
    <3>3. LookupV4(file, x) = Decoded(file, ReadFrom(file, ReadFrom(file, 0, << >>), x))
      BY <1>2 DEF LookupV4
    <3> QED
      BY <2>1, <3>2, <3>3 DEF Lookup
  <2> QED
    BY <2>1, <2>2, <2>3
<1>3. CASE IpVersion = "V6"
  <2>1. PICK z : z = V4Zeros
    OBVIOUS
  <2>2. z \in [1 .. V4Depth -> Bit]
    <3>1. [k \in 1 .. V4Depth |-> 0] \in [1 .. V4Depth -> Bit]
      BY DEF Bit
    <3> QED
      BY <2>1, <3>1 DEF V4Zeros
  <2>3. z \in Network
    <3>1. V4Depth \in 0 .. Depth
      BY <1>0
    <3> QED
      BY <2>2, <3>1 DEF Network
  <2>4. z \in Seq(Bit) /\ Len(z) = V4Depth
    <3>1. z \in Seq(Bit)
      BY <2>3, NetworkBits
    <3>2. DOMAIN z = 1 .. V4Depth /\ DOMAIN z = 1 .. Len(z) /\ Len(z) \in Nat
      BY <2>2, <3>1, LenProperties
    <3> QED
      BY <1>0, <3>1, <3>2
  <2>5. PICK c : c = z \o x
    OBVIOUS
  <2>6. a = c
    BY <1>3, <2>1, <2>5 DEF TreePrefix
  <2>7. /\ c \in Seq(Bit) /\ Len(c) = Depth
        /\ \A k \in 1 .. Len(z) : c[k] = z[k]
    <3>1. /\ c \in Seq(Bit) /\ Len(c) = Len(z) + Len(x)
          /\ \A k \in 1 .. Len(z) + Len(x) : c[k] = IF k <= Len(z) THEN z[k] ELSE x[k - Len(z)]
      BY <1>1, <2>4, <2>5, ConcatProperties
    <3>2. Len(z) + Len(x) = Depth
      BY <1>0, <1>1, <1>3, <2>4
    <3> QED
      BY <1>0, <1>1, <2>4, <3>1, <3>2
  <2>8. c \in Addr
    BY <2>7, LenProperties DEF Addr
  <2>9. Covers(z, c)
    BY <1>0, <2>4, <2>7 DEF Covers
  <2>10. ~InAlias(c)
    <3> SUFFICES ASSUME NEW i \in DOMAIN AliasNets, Covers(AliasNets[i], c) PROVE FALSE
      BY DEF InAlias
    <3>1. PICK n : n = AliasNets[i]
      OBVIOUS
    <3>2. n \in Network /\ ~Covers(n, z) /\ ~Covers(z, n)
      BY <1>3, <2>1, <3>1, ElementOfSeq, AliasNetsAssumption
    <3>3. Covers(n, c)
      BY <3>1
    <3> QED
      BY <2>3, <2>8, <2>9, <3>2, <3>3, NestedOrApart
  <2>11. ASSUME NEW file PROVE LookupV4(file, x) = Lookup(file, c)
    <3>1. ReadFrom(file, ReadFrom(file, 0, z), x) = ReadFrom(file, 0, c)
      <4>1. PICK start : start = 0
        OBVIOUS
      <4>2. ReadFrom(file, ReadFrom(file, start, z), x) = ReadFrom(file, start, c)
        <5>1. Joined(z, x, c)
          BY <2>5 DEF Joined
        <5> QED
          BY <1>1, <2>4, <5>1, ReadOn
      <4> QED
        BY <4>1, <4>2
    <3>2. LookupV4(file, x) = Decoded(file, ReadFrom(file, ReadFrom(file, 0, z), x))
      BY <1>3, <2>1 DEF LookupV4
    <3> QED
      BY <3>1, <3>2 DEF Lookup
  <2> QED
    BY <2>6, <2>8, <2>10, <2>11
<1> QED
  BY <1>0, <1>2, <1>3

-----------------------------------------------------------------------------
(***************************************************************************)
(* What the reader finds.                                                  *)
(***************************************************************************)

(* The value of a record. *)
ValueOf(pool, r) == IF r.kind = "Data" THEN pool[r.arg] ELSE None

(* x is the number of record r in the file. *)
Tells(file, offset, pool, r, x) ==
    /\ file.data = Contents(offset, pool) /\ file.meta.node_count \in Nat
    /\ r.kind \in {"NoData", "Reserved", "Data"} /\ InSection(r, offset)
    /\ x = Encode(r, file.meta.node_count, Gap, offset)

LEMMA NumberDecoded ==
    ASSUME NEW file, NEW offset, NEW T, NEW total, Spread(offset, T, total), NEW pool,
           NEW r, NEW x, Tells(file, offset, pool, r, x)
    PROVE  Decoded(file, x) = ValueOf(pool, r)
<1>3. PICK n : n = file.meta.node_count
  OBVIOUS
<1>4. /\ file.data = Contents(offset, pool) /\ n \in Nat /\ file.meta.node_count = n
      /\ r.kind \in {"NoData", "Reserved", "Data"} /\ InSection(r, offset)
      /\ x = Encode(r, n, Gap, offset)
  BY <1>3 DEF Tells
<1>0. PICK g \in Nat \ {0} : g = Gap
  BY BuildAssumption
<1>1. CASE r.kind # "Data"
  BY <1>1, <1>4 DEF Encode, Decoded, ValueOf
<1>2. CASE r.kind = "Data"
  <2>1. PICK id : id = r.arg
    OBVIOUS
  <2>2. PICK at : at = offset[id]
    OBVIOUS
  <2>3. id \in DOMAIN offset /\ at \in Nat /\ at < MaxOffset
    BY <1>2, <1>4, <2>1, <2>2 DEF InSection
  <2>4. x = n + g + at
    BY <1>0, <1>2, <1>4, <2>1, <2>2 DEF Encode
  <2>5. x # n /\ x - n - Gap = at
    BY <1>0, <1>4, <2>3, <2>4
  <2>6. at \in Range(offset)
    BY <2>2, <2>3 DEF Range
  <2>7. \A i \in DOMAIN offset : offset[i] = at => i = id
    BY <2>2, <2>3 DEF Spread
  <2>8. (CHOOSE i \in DOMAIN offset : offset[i] = at) = id
    BY <2>2, <2>3, <2>7
  <2>9. file.data[at] = pool[id] /\ at \in DOMAIN file.data
    BY <1>4, <2>6, <2>8 DEF Contents
  <2> QED
    BY <1>2, <1>4, <2>1, <2>5, <2>9 DEF Decoded, ValueOf
<1> QED
  BY <1>1, <1>2

(* What build makes, part by part. *)
Parts(o, t, file, us, ids, lens, offset, limit) ==
    /\ us = Snapshot(o, t) /\ ids = DataIds(us)
    /\ lens = [k \in DOMAIN ids |-> ValueLen[t.values[ids[k]]]]
    /\ offset = Offsets(ids, lens)
    /\ limit = PickLimit(o, Len(us), Total(lens, Len(lens)))
    /\ file = Written(Encoded(us, offset), limit, Contents(offset, t.values),
                      Metadata(o, Len(us), limit, Now))

LEMMA BuiltParts ==
    ASSUME NEW o, NEW t
    PROVE  \E us, ids, lens, offset, limit : Parts(o, t, Built(o, t, Now), us, ids, lens, offset, limit)
<1>1. PICK us : us = Snapshot(o, t)
  OBVIOUS
<1>2. PICK ids : ids = DataIds(us)
  OBVIOUS
<1>3. PICK lens : lens = [k \in DOMAIN ids |-> ValueLen[t.values[ids[k]]]]
  OBVIOUS
<1>4. PICK offset : offset = Offsets(ids, lens)
  OBVIOUS
<1>5. PICK limit : limit = PickLimit(o, Len(us), Total(lens, Len(lens)))
  OBVIOUS
<1>6. PICK file : file = WithIds(o, t.values, Now, us, ids)
  OBVIOUS
<1>7. Built(o, t, Now) = file
  <2>1. Built(o, t, Now) = CHOOSE z \in {file} : TRUE
    <3>1. {WithIds(o, t.values, Now, tree, DataIds(tree)) : tree \in {Snapshot(o, t)}} = {file}
      BY <1>1, <1>2, <1>6
    <3> QED
      BY <3>1 DEF Built
  <2> QED
    BY <2>1
<1>8. file = WithData(o, t.values, Now, us, lens, offset)
  BY <1>3, <1>4, <1>6 DEF WithIds
<1>9. file = Written(Encoded(us, offset), limit, Contents(offset, t.values), Metadata(o, Len(us), limit, Now))
  BY <1>5, <1>8 DEF WithData
<1>10. Parts(o, t, file, us, ids, lens, offset, limit)
  BY <1>1, <1>2, <1>3, <1>4, <1>5, <1>9 DEF Parts
<1> QED
  BY <1>7, <1>10

(* The section of a tree: the values it reaches, each at an offset of its own. *)
LEMMA PartsSection ==
    ASSUME NEW o, NEW t, NEW D, Sound(t, D), NEW file, NEW us, NEW ids, NEW lens, NEW offset, NEW limit,
           Parts(o, t, file, us, ids, lens, offset, limit)
    PROVE  /\ AllPlaced(us, Len(t.values))
           /\ Total(lens, Len(lens)) \in Nat /\ Spread(offset, ToSet(ids), Total(lens, Len(lens)))
           /\ \A k \in 1 .. Len(us) : \A b \in Bit :
                  us[k][b].kind = "Data" => us[k][b].arg \in DOMAIN offset
<1>1. PICK p : p = Len(t.values)
  OBVIOUS
<1>2. AllPlaced(us, p)
  BY <1>1, SnapshotRest DEF Parts
<1>3. ids = ReachableDataIds(us)
  BY DEF Parts, DataIds
<1>4. /\ ids \in Seq(1 .. p)
      /\ \A k \in 1 .. Len(us) : \A b \in Bit : us[k][b].kind = "Data" => Contains(ids, us[k][b].arg)
  BY <1>2, <1>3, IdsGathered
<1>5. ASSUME NEW k \in DOMAIN ids PROVE lens[k] \in Nat \ {0}
  <2>1. ids[k] \in 1 .. p
    <3>1. ids \in Seq(1 .. p) /\ k \in 1 .. Len(ids)
      BY <1>4, <1>5
    <3> QED
      BY <3>1, ElementOfSeq
  <2>2. t.values[ids[k]] \in Values
    BY <1>1, <2>1, SoundTypes
  <2>3. ValueLen[t.values[ids[k]]] \in Nat \ {0}
    BY <2>2, BuildAssumption
  <2> QED
    BY <2>3 DEF Parts
<1>6. Len(lens) = Len(ids)
  <2>1. DOMAIN lens = DOMAIN ids
    BY DEF Parts
  <2>2. ids \in Seq(1 .. p) /\ DOMAIN ids = 1 .. Len(ids) /\ Len(ids) \in Nat
    BY <1>4
  <2>3. lens = [k \in 1 .. Len(ids) |-> ValueLen[t.values[ids[k]]]]
    BY <2>2 DEF Parts
  <2> QED
    BY <2>2, <2>3
<1>7. offset = Offsets(ids, lens)
  BY DEF Parts
<1>8. PICK total : total = Total(lens, Len(ids))
  OBVIOUS
<1>9. Spread(offset, ToSet(ids), total) /\ total \in Nat
  BY <1>4, <1>5, <1>7, <1>8, OffsetsApart
<1>10. ASSUME NEW k \in 1 .. Len(us), NEW b \in Bit, us[k][b].kind = "Data"
       PROVE  us[k][b].arg \in DOMAIN offset
  <2>1. Contains(ids, us[k][b].arg)
    BY <1>4, <1>10
  <2>2. us[k][b].arg \in ToSet(ids)
    BY <1>4, <2>1 DEF Contains, ToSet
  <2> QED
    BY <1>9, <2>2 DEF Spread
<1> QED
  BY <1>1, <1>2, <1>6, <1>8, <1>9, <1>10

(* A file that was built holds its tree, every number uncut. *)
LEMMA BuiltHolds ==
    ASSUME NEW o, o.size \in Range(Limits) \cup {None}, NEW t, NEW D, Sound(t, D),
           NEW file, file # TooLarge, NEW us, NEW ids, NEW lens, NEW offset, NEW limit,
           Parts(o, t, file, us, ids, lens, offset, limit)
    PROVE  Holds(file, us, Len(t.values), offset) /\ file.data = Contents(offset, t.values)
<1>1. PICK n : n = Len(us)
  OBVIOUS
<1>2. PICK p : p = Len(t.values)
  OBVIOUS
<1>3. PICK total : total = Total(lens, Len(lens))
  OBVIOUS
<1>4. /\ AllPlaced(us, p) /\ total \in Nat /\ Spread(offset, ToSet(ids), total)
      /\ \A k \in 1 .. n : \A b \in Bit : us[k][b].kind = "Data" => us[k][b].arg \in DOMAIN offset
  BY <1>1, <1>2, <1>3, PartsSection
<1>5. n \in Nat \ {0} /\ DOMAIN us = 1 .. n
  BY <1>1, <1>4, LenProperties DEF AllPlaced
<1>6. PICK raw : raw = Encoded(us, offset)
  OBVIOUS
<1>7. limit > 0 /\ Addressable(raw, limit) /\ file = [nodes |-> Packed(raw, limit),
         data |-> Contents(offset, t.values), meta |-> Metadata(o, n, limit, Now)]
  BY <1>1, <1>6 DEF Parts, Written
<1>8. limit \in Nat \ {0} /\ limit <= MaxOffset + 1
  <2>1. limit = PickLimit(o, n, total)
    BY Zenon, <1>1, <1>3 DEF Parts
  <2>2. limit = 0 \/ limit \in Range(Limits)
    BY <2>1, PickedSize
  <2>3. limit \in Range(Limits)
    BY <1>7, <2>2
  <2> QED
    BY Zenon, <2>3, MaxOffsetNat DEF Range
<1>9. \A k \in 1 .. n : \A b \in Bit : raw[k][b] = Encode(us[k][b], n, Gap, offset)
  BY <1>1, <1>5, <1>6 DEF Encoded
<1>10. DOMAIN raw = 1 .. n
  BY <1>5, <1>6 DEF Encoded
<1>11. ASSUME NEW k \in 1 .. n, NEW b \in Bit
       PROVE  /\ InSection(us[k][b], offset)
              /\ file.nodes[k][b] = Encode(us[k][b], n, Gap, offset)
  <2>1. PICK r : r = us[k][b]
    OBVIOUS
  <2>2. PICK x : x = Encode(r, n, Gap, offset)
    OBVIOUS
  <2>3. Placed(r, n, p)
    BY <1>1, <1>4, <2>1 DEF AllPlaced
  <2>4. r.kind = "Data" => r.arg \in DOMAIN offset /\ offset[r.arg] \in Nat
    BY <1>4, <2>1 DEF Spread
  <2>5. x \in Nat
    <3>1. Leading(x, r, n)
      BY <1>5, <2>2, <2>3, <2>4, EncodedPlace
    <3> QED
      BY <3>1 DEF Leading
  <2>6. raw[k][b] = x
    BY <1>9, <2>1, <2>2
  <2>7. x < limit
    BY <1>7, <1>10, <2>6 DEF Addressable
  <2>8. x % limit = x
    BY <1>8, <2>5, <2>7
  <2>9. file.nodes[k][b] = x
    BY <1>7, <1>10, <2>6, <2>8 DEF Packed
  <2>10. ASSUME r.kind = "Data" PROVE offset[r.arg] < MaxOffset
    <3>1. PICK at \in Nat : at = offset[r.arg]
      BY <2>4, <2>10
    <3>2. PICK g \in Nat \ {0} : g = Gap
      BY BuildAssumption
    <3>3. x = n + g + at
      BY <2>2, <2>10, <3>1, <3>2 DEF Encode
    <3>4. PICK m \in Nat : m = MaxOffset
      BY MaxOffsetNat
    <3>5. n + g + at < m + 1
      BY <1>5, <1>8, <2>7, <3>3, <3>4
    <3>6. at < m
      BY <1>5, <3>5
    <3> QED
      BY <3>1, <3>4, <3>6
  <2> QED
    BY <2>1, <2>2, <2>4, <2>9, <2>10 DEF InSection
<1>12. file.meta.node_count = n /\ file.data = Contents(offset, t.values)
  BY <1>7 DEF Metadata
<1> QED
  BY <1>1, <1>2, <1>4, <1>11, <1>12 DEF Holds

(* Outside the alias networks, and for IPv4 addresses, the file has the writer's answers. *)
LEMMA BuiltAnswers ==
    ASSUME NEW o, o.size \in Range(Limits) \cup {None}, NEW t, NEW D, Sound(t, D),
           NEW file, file = Built(o, t, Now), file # TooLarge,
           NEW a \in Addr, ~(o.aliasing /\ InAlias(a))
    PROVE  Lookup(file, a) = ValueOf(t.values, RecordAt(t.nodes, a))
<1>1. PICK us, ids, lens, offset, limit : Parts(o, t, file, us, ids, lens, offset, limit)
  BY Zenon, BuiltParts
<1>2. PICK p : p = Len(t.values)
  OBVIOUS
<1>3. Holds(file, us, p, offset) /\ file.data = Contents(offset, t.values)
  BY <1>1, <1>2, BuiltHolds
<1>4. PICK r : r = RecordAt(t.nodes, a)
  OBVIOUS
<1>5. r.kind \in {"NoData", "Reserved", "Data"}
  BY <1>4, RecordAtSound, Kinds
<1>6. us = Snapshot(o, t)
  BY <1>1 DEF Parts
<1>7. Rest(us, a) = r
  BY <1>4, <1>6, SnapshotRest
<1>8. Numbers(ReadFrom(file, 0, a), r, Len(us), p, offset)
  BY <1>3, <1>5, <1>7, ReadStroll
<1>9. PICK total : total = Total(lens, Len(lens))
  OBVIOUS
<1>10. Spread(offset, ToSet(ids), total)
  BY <1>1, <1>9, PartsSection
<1>11. Len(us) \in Nat /\ file.meta.node_count = Len(us)
  BY <1>3 DEF Holds, AllPlaced
<1>12. PICK x : x = ReadFrom(file, 0, a)
  OBVIOUS
<1>13. x = Encode(r, Len(us), Gap, offset) /\ InSection(r, offset)
  BY <1>8, <1>12 DEF Numbers
<1>14. Tells(file, offset, t.values, r, x)
  BY <1>3, <1>5, <1>11, <1>13 DEF Tells
<1>15. Decoded(file, x) = ValueOf(t.values, r)
  BY <1>10, <1>14, NumberDecoded
<1> QED
  BY <1>4, <1>12, <1>14, <1>15 DEF Lookup

-----------------------------------------------------------------------------
(***************************************************************************)
(* The properties.                                                         *)
(***************************************************************************)
LEMMA InvOptions == IInv => options \in Options
BY WriterAssumption DEF IInv

LEMMA GetValue ==
    ASSUME IInv, NEW a \in Addr
    PROVE  Get(a) = ValueOf(values, RecordAt(nodes, a))
<1>1. PICK t : t = Arena
  OBVIOUS
<1>2. PICK D : Sound(t, D)
  BY <1>1 DEF IInv
<1>3. t.nodes = nodes /\ t.values = values
  BY <1>1 DEF Arena
<1>4. PICK r : r = RecordAt(nodes, a)
  OBVIOUS
<1>5. r \in {NoData, Reserved} \/ \E id \in 1 .. Len(t.values) : r = Data(id)
  BY <1>2, <1>3, <1>4, RecordAtSound
<1>6. r.kind = "Data" => r.arg # None
  <2> SUFFICES ASSUME r.kind = "Data" PROVE r.arg # None
    OBVIOUS
  <2>1. PICK id \in 1 .. Len(t.values) : r.arg = id
    BY <1>5, Kinds
  <2>2. id \in Nat
    BY <2>1
  <2> QED
    BY <2>1, <2>2, BuildAssumption
<1> QED
  BY <1>4, <1>6 DEF Get, TreeGet, ValueOf

LEMMA FileHasAnswers ==
    ASSUME IInv, NEW o, o.size \in Range(Limits) \cup {None}, NEW file, file # TooLarge,
           file = Built(o, [nodes |-> nodes, values |-> values], Now)
    PROVE  Answers(o, file)
<1>1. PICK t : t = Arena
  OBVIOUS
<1>2. PICK D : Sound(t, D)
  BY <1>1 DEF IInv
<1>3. t.nodes = nodes /\ t.values = values /\ file = Built(o, t, Now)
  BY <1>1 DEF Arena
<1>4. ASSUME NEW a \in Addr, ~(o.aliasing /\ InAlias(a)) PROVE Lookup(file, a) = Get(a)
  <2>1. Lookup(file, a) = ValueOf(t.values, RecordAt(t.nodes, a))
    BY <1>2, <1>3, <1>4, BuiltAnswers
  <2> QED
    BY <1>3, <2>1, GetValue
<1>5. ASSUME NEW x \in [1 .. V4Bits -> Bit]
      PROVE  LookupV4(file, x) = Get(TreePrefix([family |-> "V4", bits |-> x]))
  <2>1. PICK a : a = TreePrefix([family |-> "V4", bits |-> x])
    OBVIOUS
  <2>2. a \in Addr /\ ~InAlias(a) /\ LookupV4(file, x) = Lookup(file, a)
    BY <2>1, V4Plain
  <2>3. Lookup(file, a) = Get(a)
    BY <1>4, <2>2
  <2> QED
    BY <2>1, <2>2, <2>3
<1> QED
  BY <1>4, <1>5 DEF Answers

(***************************************************************************)
(* build: the file it writes answers every address outside the alias       *)
(* networks, and every IPv4 address, as Writer::get did: compaction, the   *)
(* renumbering, the aliases and the numbers of the records keep what is    *)
(* there for an address.                                                   *)
(***************************************************************************)
THEOREM FileAlwaysAnswers == Spec => []FileAnswers
<1>1. IInv => FileAnswers
  <2> SUFFICES ASSUME IInv, NEW file, file = File, file # TooLarge PROVE Answers(options, file)
    BY DEF FileAnswers, Files
  <2>1. options.size \in Range(Limits) \cup {None}
    BY InvOptions DEF Options
  <2> QED
    BY <2>1, FileHasAnswers DEF File
<1> QED
  BY <1>1, ArenaIsTree, PTL

(***************************************************************************)
(* So does a file of a size that the caller pinned, which build did not    *)
(* check as a whole: encode_record refuses the first number that would be  *)
(* cut, or none is.                                                        *)
(***************************************************************************)
THEOREM PinnedSizeAlwaysAnswers == Spec => []PinnedSizeAnswers
<1>1. IInv => PinnedSizeAnswers
  <2> SUFFICES ASSUME IInv, NEW i \in DOMAIN Limits, NEW o, o = [options EXCEPT !.size = Limits[i]],
                      NEW file, file = Built(o, [nodes |-> nodes, values |-> values], Now),
                      file # TooLarge
               PROVE  Answers(options, file)
    BY DEF PinnedSizeAnswers
  <2>1. o.size \in Range(Limits) /\ o.aliasing = options.aliasing
    BY InvOptions DEF Options, Range
  <2>2. Answers(o, file)
    BY <2>1, FileHasAnswers
  <2> QED
    BY <2>1, <2>2 DEF Answers
<1> QED
  BY <1>1, ArenaIsTree, PTL

(* A size that holds the whole section holds every number. *)
LEMMA FitsHolds ==
    ASSUME NEW us, NEW p, AllPlaced(us, p), NEW offset, NEW T, NEW total, total \in Nat, Spread(offset, T, total),
           \A k \in 1 .. Len(us) : \A b \in Bit : us[k][b].kind = "Data" => us[k][b].arg \in DOMAIN offset,
           NEW limit \in Nat, Fits(limit, Len(us), total)
    PROVE  Addressable(Encoded(us, offset), limit)
<1>1. PICK n : n = Len(us)
  OBVIOUS
<1>2. n \in Nat /\ DOMAIN us = 1 .. n
  BY <1>1, LenProperties DEF AllPlaced
<1>3. PICK g \in Nat \ {0} : g = Gap
  BY BuildAssumption
<1>4. n + g + total < limit
  BY <1>1, <1>3 DEF Fits
<1>5. ASSUME NEW k \in 1 .. n, NEW b \in Bit PROVE Encode(us[k][b], n, Gap, offset) < limit
  <2>1. PICK r : r = us[k][b]
    OBVIOUS
  <2>2. Placed(r, n, p)
    BY <1>1, <2>1 DEF AllPlaced
  <2>3. PICK x : x = Encode(r, n, Gap, offset)
    OBVIOUS
  <2>4. CASE r.kind \in {"Node", "FixedNode", "Alias"}
    <3>1. r.arg \in 1 .. n
      BY <2>2, <2>4, Kinds DEF Placed
    <3>2. x = r.arg - 1
      BY <2>3, <2>4 DEF Encode
    <3>3. x < limit
      BY <1>2, <1>4, <3>1, <3>2
    <3> QED
      BY <2>1, <2>3, <3>3
  <2>5. CASE r.kind = "Data"
    <3>1. PICK at : at = offset[r.arg]
      OBVIOUS
    <3>2. at \in Nat /\ at < total
      BY <1>1, <2>1, <2>5, <3>1 DEF Spread
    <3>3. x = n + g + at
      BY <1>3, <2>3, <2>5, <3>1 DEF Encode
    <3>4. x < limit
      BY <1>2, <1>4, <3>2, <3>3
    <3> QED
      BY <2>1, <2>3, <3>4
  <2>6. CASE r.kind \in {"NoData", "Reserved"}
    <3>1. x = n
      BY <2>3, <2>6 DEF Encode
    <3>2. x < limit
      BY <1>2, <1>4, <3>1
    <3> QED
      BY <2>1, <2>3, <3>2
  <2> QED
    BY <2>2, <2>4, <2>5, <2>6, Kinds DEF Placed
<1> QED
  BY <1>1, <1>2, <1>5 DEF Addressable, Encoded

(***************************************************************************)
(* pick_record_size: when it chose a size, encode_record never fails at    *)
(* it, so build with automatic selection fails only if no size fits.       *)
(***************************************************************************)
THEOREM ChosenSizeAlwaysHolds == Spec => []ChosenSizeHolds
<1>1. IInv => ChosenSizeHolds
  <2> SUFFICES ASSUME IInv, options.size = None, File = TooLarge,
                      NEW tree, tree = Snapshot(options, [nodes |-> nodes]),
                      NEW ids, ids = DataIds(tree),
                      NEW lens, lens = [k \in DOMAIN ids |-> ValueLen[values[ids[k]]]],
                      PickLimit(options, Len(tree), Total(lens, Len(lens))) # 0
               PROVE  FALSE
    BY DEF ChosenSizeHolds
  <2>1. PICK t : t = Arena
    OBVIOUS
  <2>2. PICK D : Sound(t, D)
    BY <2>1 DEF IInv
  <2>3. t.nodes = nodes /\ t.values = values /\ File = Built(options, t, Now)
    BY <2>1 DEF Arena, File
  <2>4. PICK us, is, ls, offset, limit : Parts(options, t, File, us, is, ls, offset, limit)
    BY Zenon, <2>3, BuiltParts
  <2>5. us = tree
    BY Zenon, <2>3, <2>4 DEF Parts, Snapshot
  <2>6. is = ids
    BY Zenon, <2>4, <2>5 DEF Parts
  <2>7. ls = lens
    BY <2>3, <2>4, <2>6 DEF Parts
  <2>8. PICK total : total = Total(lens, Len(lens))
    BY Zenon
  <2>9. limit = PickLimit(options, Len(us), total) /\ limit # 0
    BY Zenon, <2>4, <2>5, <2>7, <2>8 DEF Parts
  <2>10. options.size \in Range(Limits) \cup {None}
    BY InvOptions DEF Options
  <2>11. limit \in Range(Limits) /\ Fits(limit, Len(us), total)
    BY <2>9, <2>10, PickedSize
  <2>12. limit > 0 /\ limit \in Nat
    BY <2>11, MaxOffsetNat DEF Range
  <2>13. PICK p : p = Len(t.values)
    OBVIOUS
  <2>14. /\ AllPlaced(us, p) /\ total \in Nat /\ Spread(offset, ToSet(is), total)
         /\ \A k \in 1 .. Len(us) : \A b \in Bit : us[k][b].kind = "Data" => us[k][b].arg \in DOMAIN offset
    BY <2>2, <2>4, <2>7, <2>8, <2>13, PartsSection
  <2>15. Addressable(Encoded(us, offset), limit)
    BY <2>11, <2>12, <2>14, FitsHolds
  <2>16. File.meta.node_count = Len(us)
    <3>1. PICK raw, data, meta : /\ raw = Encoded(us, offset) /\ data = Contents(offset, t.values)
                                 /\ meta = Metadata(options, Len(us), limit, Now)
      BY Zenon
    <3>2. File = Written(raw, limit, data, meta)
      BY Zenon, <2>4, <3>1 DEF Parts
    <3>3. File = [nodes |-> Packed(raw, limit), data |-> data, meta |-> meta]
      BY <2>12, <2>15, <3>1, <3>2 DEF Written
    <3>4. File.meta = meta
      BY <3>3
    <3>5. meta.node_count = Len(us)
      BY <3>1 DEF Metadata
    <3> QED
      BY <3>4, <3>5
  <2>17. File.meta.node_count = 0
    BY DEF TooLarge
  <2> QED
    BY <2>14, <2>16, <2>17 DEF AllPlaced
<1> QED
  BY <1>1, ArenaIsTree, PTL

-----------------------------------------------------------------------------
(***************************************************************************)
(* The alias forms: install_marker over a network that has nothing in it.  *)
(***************************************************************************)

(* us has everything that ns has, and maybe something where ns has nothing. *)
Keeps(ns, us) ==
    /\ \A a \in Addr : \A k \in 0 .. Depth :
           Stroll(ns, a)[k] # NoData => Stroll(us, a)[k] = Stroll(ns, a)[k]
    /\ \A a \in Addr : \A k \in 0 .. Depth - 1 : Fixed(ns, a, k) => Fixed(us, a, k)

LEMMA KeepsSame == \A ns : Keeps(ns, ns)
BY DEF Keeps

LEMMA KeepsTwice ==
    ASSUME NEW ns, NEW ms, NEW us, Keeps(ns, ms), Keeps(ms, us)
    PROVE  Keeps(ns, us)
<1>1. \A a \in Addr : \A k \in 0 .. Depth - 1 : Fixed(ns, a, k) => Fixed(us, a, k)
  BY DEF Keeps
<1>2. \A a \in Addr : \A k \in 0 .. Depth :
          Stroll(ns, a)[k] # NoData => Stroll(us, a)[k] = Stroll(ns, a)[k]
  BY DEF Keeps
<1> QED
  BY <1>1, <1>2 DEF Keeps

LEMMA NodeKind == \A i, j : Node(i).kind = "Node" /\ (Node(i) = Node(j) => i = j) /\ Node(i) # NoData
BY DEF Node, Rec, NoData

(* A stroll comes to a node at the node's depth. *)
LEMMA NodeDepth ==
    ASSUME NEW ns, NEW D, NEW p, Fine(ns, D, p), NEW a \in Addr, NEW k \in 0 .. Depth, NEW m,
           Stroll(ns, a)[k] = Node(m)
    PROVE  m \in 1 .. Len(ns) /\ D[m] = k /\ k < Depth
<1>1. Comes(ns, D, p, Stroll(ns, a)[k], k)
  BY StrollFine
<1>2. Node(m) \notin Leafs(p)
  BY FineTypes, LeafsAre, NodeKind
<1> QED
  BY <1>1, <1>2, NodeKind DEF Comes

LEMMA FillKeeps ==
    ASSUME NEW ns, NEW D, NEW p, Fine(ns, D, p), NEW i \in 1 .. Len(ns), NEW b \in Bit, D[i] < Depth,
           ns[i][b] = NoData, NEW us, AtEdit(ns, us, i, b), Len(us) \in Nat, Len(ns) <= Len(us)
    PROVE  Keeps(ns, us)
<1>0. p \in Nat /\ D[i] \in Nat /\ Depth \in Nat /\ D[i] + 1 \in 0 .. Depth /\ Len(ns) \in Nat
  BY FineTypes
<1>1. NoData \in Leafs(p) /\ Norm(NoData) = NoData /\ NoData.kind # "FixedNode"
  BY DEF Leafs, Norm, NoData, Rec
<1>2. ASSUME NEW a \in Addr, NEW k \in 0 .. Depth, Stroll(ns, a)[k] # NoData
      PROVE  Stroll(us, a)[k] = Stroll(ns, a)[k]
  <2>1. CASE k \in 0 .. D[i] \/ ~Hits(ns, D, i, b, a)
    BY <2>1, EditStroll
  <2>2. CASE k \in D[i] + 1 .. Depth /\ Hits(ns, D, i, b, a)
    <3>1. Stroll(ns, a)[D[i] + 1] = NoData
      BY <1>1, <2>2, HitsLeaf
    <3> QED
      BY <1>0, <1>1, <1>2, <2>2, <3>1, LeafStays
  <2> QED
    BY <1>0, <2>1, <2>2
<1>3. ASSUME NEW a \in Addr, NEW k \in 0 .. Depth - 1, Fixed(ns, a, k) PROVE Fixed(us, a, k)
  <2>1. PICK m \in 1 .. Len(ns) : Stroll(ns, a)[k] = Node(m) /\ ns[m][a[k + 1]].kind = "FixedNode"
    BY <1>3 DEF Fixed
  <2>2. k \in 0 .. Depth /\ a[k + 1] \in Bit
    BY <1>0, AddrBits
  <2>3. Stroll(us, a)[k] = Node(m)
    BY <1>2, <2>1, <2>2, NodeKind
  <2>4. us[m][a[k + 1]] = ns[m][a[k + 1]]
    BY <1>1, <2>1, <2>2 DEF AtEdit
  <2>5. m \in 1 .. Len(us)
    BY <1>0
  <2> QED
    BY <2>1, <2>3, <2>4, <2>5 DEF Fixed
<1> QED
  BY <1>2, <1>3 DEF Keeps

(* Node i holds something after all. *)
LEMMA NotBare ==
    ASSUME NEW ns, NEW i, NEW b \in Bit, ns[i][b] # NoData,
           NEW X, NEW Y, Busy(ns, X), X \subseteq Y \cup {i}
    PROVE  Busy(ns, Y)
BY DEF Busy, Bare

(* Nothing is below node j, where the bits of w lead. *)
Vacant(ns, w, j) ==
    \A a \in Addr : Covers(w, a) => Stroll(ns, a)[Len(w)] = Node(j) /\ Rest(ns, a) = NoData

LEMMA Appended ==
    ASSUME NEW w \in Network, Len(w) < Depth, NEW b \in Bit
    PROVE  /\ Append(w, b) \in Network /\ Len(Append(w, b)) = Len(w) + 1
           /\ \A a \in Addr : Covers(Append(w, b), a) => Covers(w, a) /\ a[Len(w) + 1] = b
<1>0. w \in Seq(Bit) /\ Len(w) \in Nat /\ Depth \in Nat
  BY NetworkBits, DepthAssumption
<1>1. PICK v : v = Append(w, b)
  OBVIOUS
<1>2. /\ v \in Seq(Bit) /\ Len(v) = Len(w) + 1 /\ v[Len(w) + 1] = b
      /\ \A k \in 1 .. Len(w) : v[k] = w[k]
  BY <1>0, <1>1
<1>3. v \in [1 .. Len(v) -> Bit] /\ Len(v) \in 0 .. Depth
  BY <1>0, <1>2, SeqDef
<1>4. v \in Network
  BY <1>3 DEF Network
<1>5. \A a \in Addr : Covers(v, a) => Covers(w, a) /\ a[Len(w) + 1] = b
  <2> SUFFICES ASSUME NEW a \in Addr, Covers(v, a) PROVE Covers(w, a) /\ a[Len(w) + 1] = b
    OBVIOUS
  <2>1. Len(v) <= Len(a) /\ \A k \in 1 .. Len(v) : v[k] = a[k]
    BY DEF Covers
  <2>2. Len(w) + 1 \in 1 .. Len(v) /\ \A k \in 1 .. Len(w) : k \in 1 .. Len(v)
    BY <1>0, <1>2
  <2>3. \A k \in 1 .. Len(w) : w[k] = a[k]
    BY <1>2, <2>1, <2>2
  <2>4. a[Len(w) + 1] = b
    BY <1>2, <2>1, <2>2
  <2>5. Len(w) <= Len(a)
    BY <1>0, <1>2, <2>1, AddrBits
  <2> QED
    BY <2>3, <2>4, <2>5 DEF Covers
<1> QED
  BY <1>1, <1>2, <1>4, <1>5

(* Where merging left no pointer to a bare node, an empty network has no node of its own. *)
LEMMA VacantBare ==
    ASSUME NEW ns, NEW D, NEW p, Fine(ns, D, p), Busy(ns, {})
    PROVE  \A w \in Network : \A j : Vacant(ns, w, j) => j \in 1 .. Len(ns) /\ Bare(ns, j)
<1> DEFINE S == {m \in Nat : \A w \in Network : \A j :
                     Depth - Len(w) = m /\ Vacant(ns, w, j) => j \in 1 .. Len(ns) /\ Bare(ns, j)}
<1>0. Depth \in Nat /\ p \in Nat /\ NoData \in Leafs(p)
  BY FineTypes DEF Leafs
<1>1. ASSUME NEW w \in Network, NEW j, Vacant(ns, w, j)
      PROVE  j \in 1 .. Len(ns) /\ D[j] = Len(w) /\ Len(w) < Depth
  <2>1. PICK a \in Addr : Covers(w, a)
    BY AddressBelow
  <2>2. Stroll(ns, a)[Len(w)] = Node(j) /\ Len(w) \in 0 .. Depth
    BY <1>1, <2>1, NetworkBits DEF Vacant
  <2> QED
    BY <2>2, NodeDepth
<1>2. 0 \in S
  <2> SUFFICES ASSUME NEW w \in Network, NEW j, Depth - Len(w) = 0, Vacant(ns, w, j)
               PROVE  j \in 1 .. Len(ns) /\ Bare(ns, j)
    OBVIOUS
  <2>1. Len(w) < Depth /\ Len(w) \in Nat
    BY <1>1, NetworkBits
  <2> QED
    BY <1>0, <2>1
<1>3. ASSUME NEW m \in Nat, m \in S PROVE m + 1 \in S
  <2> SUFFICES ASSUME NEW w \in Network, NEW j, Depth - Len(w) = m + 1, Vacant(ns, w, j)
               PROVE  j \in 1 .. Len(ns) /\ Bare(ns, j)
    OBVIOUS
  <2>1. j \in 1 .. Len(ns) /\ D[j] = Len(w) /\ Len(w) < Depth /\ Len(w) \in Nat
    BY <1>1, NetworkBits
  <2>2. ASSUME NEW b \in Bit PROVE ns[j][b] = NoData
    <3>1. PICK v \in Network : v = Append(w, b) /\ Len(v) = Len(w) + 1
      BY <2>1, Appended
    <3>2. \A a \in Addr : Covers(v, a) => Covers(w, a) /\ a[Len(w) + 1] = b
      BY <2>1, <3>1, Appended
    <3>3. ASSUME NEW a \in Addr, Covers(v, a)
          PROVE  Hits(ns, D, j, b, a) /\ Rest(ns, a) = NoData /\ Stroll(ns, a)[Len(v)] = Norm(ns[j][b])
      <4>1. Stroll(ns, a)[Len(w)] = Node(j) /\ Rest(ns, a) = NoData /\ a[Len(w) + 1] = b
        BY <3>2, <3>3 DEF Vacant
      <4>2. Hits(ns, D, j, b, a) /\ D[j] < Depth
        BY <2>1, <4>1 DEF Hits
      <4>3. Stroll(ns, a)[D[j] + 1] = Norm(ns[j][b])
        BY <2>1, <4>2, HitsLeaf
      <4> QED
        BY <2>1, <3>1, <4>1, <4>2, <4>3
    <3>4. CASE ns[j][b] \in Leafs(p)
      <4>1. PICK a \in Addr : Covers(v, a)
        BY AddressBelow
      <4> QED
        BY <2>1, <3>3, <3>4, <4>1, HitsLeaf
    <3>5. CASE Leads(ns, D, ns[j][b], D[j] + 1)
      <4>1. PICK i : i = ns[j][b].arg
        OBVIOUS
      <4>2. Norm(ns[j][b]) = Node(i) /\ IsPointer(ns[j][b])
        BY <1>0, <3>5, <4>1, LeafsAre, NormFine DEF Leads
      <4>3. Vacant(ns, v, i)
        BY <3>3, <4>2 DEF Vacant
      <4>4. Depth - Len(v) = m
        BY <1>0, <2>1, <3>1
      <4>5. Bare(ns, i)
        BY <1>3, <4>3, <4>4
      <4>6. ~Bare(ns, i)
        BY <2>1, <4>1, <4>2 DEF Busy
      <4> QED
        BY <4>5, <4>6
    <3> QED
      BY <2>1, <3>4, <3>5 DEF Fine
  <2> QED
    BY <2>1, <2>2 DEF Bare
<1> HIDE DEF S
<1>4. \A m \in Nat : m \in S
  BY <1>2, <1>3, Induction
<1>5. \A w \in Network : Depth - Len(w) \in Nat
  BY <1>0, NetworkBits
<1> QED
  BY <1>4, <1>5 DEF S

(* install_marker on the way to the end of q, over nothing: every address of q comes to node s.at. *)
Way(ns, s, q, k) ==
    /\ s.at \in 1 .. Len(s.nodes) /\ Busy(s.nodes, {s.at}) /\ Keeps(ns, s.nodes)
    /\ \A a \in Addr : Covers(q, a) => Stroll(s.nodes, a)[k] = Node(s.at)

(* Nothing is in network q. *)
Blank(ns, q) == \A a \in Addr : Covers(q, a) => Rest(ns, a) = NoData

(* Every address of q comes to record b of node at, which has nothing, or leads on. *)
Untouched(ms, D, q, k, at, b) ==
    /\ ms[at][b] = NoData \/ IsPointer(ms[at][b])
    /\ D[at] = k /\ k < Depth
    /\ \A a \in Addr : Covers(q, a) => Hits(ms, D, at, b, a)

LEMMA WayRecord ==
    ASSUME NEW ns, NEW s, NEW p, NEW q \in Network, NEW k \in Nat, Blank(ns, q), Way(ns, s, q, k),
           k + 1 <= Len(q), NEW D, Fine(s.nodes, D, p), \A a \in Addr : Rest(s.nodes, a) = Rest(ns, a)
    PROVE  Untouched(s.nodes, D, q, k, s.at, q[k + 1])
<1>0. Len(q) \in 0 .. Depth /\ Depth \in Nat /\ k + 1 \in 1 .. Len(q) /\ q[k + 1] \in Bit /\ k \in 0 .. Depth
  BY NetworkBits, DepthAssumption
<1>1. PICK ms, at : ms = s.nodes /\ at = s.at
  OBVIOUS
<1>2. PICK b \in Bit : b = q[k + 1]
  BY <1>0
<1>3. /\ at \in 1 .. Len(ms) /\ Fine(ms, D, p) /\ p \in Nat
      /\ \A a \in Addr : Rest(ms, a) = Rest(ns, a)
      /\ \A a \in Addr : Covers(q, a) => Stroll(ms, a)[k] = Node(at)
  BY <1>1, FineTypes DEF Way
<1>4. PICK z \in Addr : Covers(q, z)
  BY AddressBelow
<1>5. D[at] = k /\ k < Depth
  BY <1>0, <1>3, <1>4, NodeDepth
<1>6. ASSUME NEW a \in Addr, Covers(q, a) PROVE Hits(ms, D, at, b, a)
  <2>1. a[k + 1] = b
    BY <1>0, <1>2, <1>6 DEF Covers
  <2> QED
    BY <1>3, <1>5, <1>6, <2>1 DEF Hits
<1>7. ms[at][b] = NoData \/ IsPointer(ms[at][b])
  <2>1. CASE ms[at][b] \in Leafs(p)
    <3>1. Rest(ms, z) = ms[at][b]
      BY <1>3, <1>4, <1>5, <1>6, <2>1, HitsLeaf
    <3> QED
      BY <1>3, <1>4, <3>1 DEF Blank
  <2>2. CASE Leads(ms, D, ms[at][b], D[at] + 1)
    BY <2>2 DEF Leads
  <2> QED
    BY <1>3, <2>1, <2>2 DEF Fine
<1> QED
  BY <1>1, <1>2, <1>5, <1>6, <1>7 DEF Untouched

LEMMA WayTurn ==
    ASSUME NEW ns, NEW s, NEW p, NEW q \in Network, NEW k \in Nat, Advancing(ns, s, p, q, k),
           Blank(ns, q), Way(ns, s, q, k), k + 1 < Len(q), NEW marker
    PROVE  Way(ns, MarkerStep(s, q, k + 1, marker), q, k + 1)
<1>0. Len(q) \in 0 .. Depth /\ q[k + 1] \in Bit /\ Depth \in Nat
  BY NetworkBits, DepthAssumption
<1>1. PICK D : Fine(s.nodes, D, p)
  BY DEF Advancing
<1>2. PICK ms, at : ms = s.nodes /\ at = s.at
  OBVIOUS
<1>3. s = [nodes |-> ms, at |-> at] /\ Fine(ms, D, p) /\ Len(ms) \in Nat
  BY <1>1, <1>2, FineTypes DEF Advancing
<1>4. PICK w : w = MarkerStep(s, q, k + 1, marker)
  OBVIOUS
<1>5. PICK b \in Bit : b = q[k + 1]
  BY <1>0
<1>6. PICK r : r = ms[at][b]
  OBVIOUS
<1>7. /\ r = NoData \/ IsPointer(r)
      /\ D[at] = k /\ k < Depth
      /\ \A a \in Addr : Covers(q, a) => Hits(ms, D, at, b, a)
  <2>1. \A a \in Addr : Rest(s.nodes, a) = Rest(ns, a)
    BY DEF Advancing
  <2>2. k + 1 <= Len(q)
    BY <1>0
  <2>3. Untouched(s.nodes, D, q, k, s.at, q[k + 1])
    BY <1>1, <2>1, <2>2, WayRecord
  <2> QED
    BY <1>1, <1>2, <1>5, <1>6, <2>3 DEF Untouched
<1>8. at \in 1 .. Len(ms) /\ Busy(ms, {at}) /\ Keeps(ns, ms) /\ at # NoNode /\ k + 1 # Len(q)
  BY <1>0, <1>2 DEF Way, NoNode
<1>9. ~IsPointer(NoData)
  BY DEF NoData, IsPointer, Rec
<1>10. CASE IsPointer(r)
  <2>1. w = [s EXCEPT !.at = r.arg]
    BY <1>2, <1>4, <1>5, <1>6, <1>8, <1>10 DEF MarkerStep
  <2>2. w.nodes = ms /\ w.at = r.arg
    BY <1>3, <2>1
  <2>3. Busy(ms, {})
    <3>1. ms[at][b] # NoData /\ {at} \subseteq {} \cup {at}
      BY <1>6, <1>9, <1>10
    <3> QED
      BY <1>8, <3>1, NotBare
  <2>4. Busy(ms, {r.arg})
    BY <2>3, BusyMore
  <2>5. r.arg \in 1 .. Len(ms)
    BY <1>6, <1>8, <1>10 DEF Busy
  <2>6. Norm(r) = Node(r.arg)
    <3>1. r \in Leafs(p) \/ Leads(ms, D, r, D[at] + 1)
      BY <1>3, <1>6, <1>8 DEF Fine
    <3> QED
      BY <1>3, <1>10, <3>1, FineTypes, LeafsAre, NormFine
  <2>7. ASSUME NEW a \in Addr, Covers(q, a) PROVE Stroll(ms, a)[k + 1] = Node(r.arg)
    BY <1>3, <1>6, <1>7, <1>8, <2>6, <2>7, HitsLeaf
  <2> QED
    BY <1>4, <1>8, <2>2, <2>4, <2>5, <2>7 DEF Way
<1>11. CASE r = NoData
  <2>1. PICK j : j = NewIndex(ms)
    OBVIOUS
  <2>2. PICK us : us = Append(Put(ms, at, b, Node(j)), EmptyNode)
    OBVIOUS
  <2>3. w = [nodes |-> us, at |-> j]
    BY <1>2, <1>4, <1>5, <1>6, <1>8, <1>9, <1>11, <2>1, <2>2 DEF MarkerStep
  <2>4. w.nodes = us /\ w.at = j
    BY <2>3
  <2>5. j = Len(ms) + 1 /\ j \in Nat
    BY <1>3, <2>1 DEF NewIndex
  <2>6. Lengthened(ms, at, b, Node(j), NoData, us)
    BY <1>3, <1>8, <2>2, <2>5, Kinds, FineTypes, SplitNodes DEF EmptyNode
  <2>7. /\ Len(us) = j /\ AtEdit(ms, us, at, b) /\ us[at][b] = Node(j)
    BY <2>5, <2>6 DEF Lengthened, AtEdit
  <2>8. Busy(us, {at, j})
    <3>1. PICK X, Y : X = {at} /\ Y = {at, j}
      OBVIOUS
    <3>2. /\ at \in X /\ X \subseteq Y /\ Busy(ms, X)
          /\ ~IsPointer(Node(j)) \/ (Node(j) = Node(Len(ms) + 1) /\ Len(ms) + 1 \in Y)
      BY <1>8, <2>5, <3>1
    <3>3. Busy(us, Y)
      BY <1>3, <1>8, <1>9, <2>6, <3>2, BusyLengthened
    <3> QED
      BY <3>1, <3>3
  <2>9. Busy(us, {j})
    <3>1. us[at][b] # NoData /\ {at, j} \subseteq {j} \cup {at}
      BY <2>7, NodeKind
    <3> QED
      BY <2>8, <3>1, NotBare
  <2>10. Keeps(ms, us)
    <3>1. Len(us) \in Nat /\ Len(ms) <= Len(us) /\ D[at] < Depth /\ ms[at][b] = NoData
      BY <1>3, <1>6, <1>7, <1>11, <2>5, <2>7
    <3> QED
      BY <1>3, <1>8, <2>7, <3>1, FillKeeps
  <2>11. Keeps(ns, us)
    BY <1>8, <2>10, KeepsTwice
  <2>12. ASSUME NEW a \in Addr, Covers(q, a) PROVE Stroll(us, a)[k + 1] = Node(j)
    <3>1. Hits(ms, D, at, b, a) /\ Norm(Node(j)) = Node(j)
      BY <1>7, <2>12 DEF Norm, Node, Rec
    <3> QED
      BY <1>3, <1>7, <1>8, <2>7, <3>1, EditStroll
  <2>13. j \in 1 .. Len(us)
    BY <2>5, <2>7
  <2> QED
    BY <1>4, <2>4, <2>9, <2>11, <2>12, <2>13 DEF Way
<1> QED
  BY <1>7, <1>10, <1>11

(* A marker over nothing is found at the end of its network. *)
Installed(ns, us, q, marker) ==
    /\ Keeps(ns, us) /\ Busy(us, {})
    /\ \A a \in Addr : Covers(q, a) => Stroll(us, a)[Len(q)] = marker

LEMMA WayEnd ==
    ASSUME NEW ns, NEW s, NEW p, NEW q \in Network, NEW k \in Nat, Advancing(ns, s, p, q, k),
           Blank(ns, q), Way(ns, s, q, k), k + 1 = Len(q), NEW marker \in Leafs(p), marker # NoData
    PROVE  Installed(ns, MarkerStep(s, q, k + 1, marker).nodes, q, marker)
<1>0. Len(q) \in 0 .. Depth /\ q[k + 1] \in Bit /\ Depth \in Nat
  BY NetworkBits, DepthAssumption
<1>1. PICK D : Fine(s.nodes, D, p)
  BY DEF Advancing
<1>2. PICK ms, at : ms = s.nodes /\ at = s.at
  OBVIOUS
<1>3. Fine(ms, D, p) /\ Len(ms) \in Nat /\ p \in Nat
  BY <1>1, <1>2, FineTypes
<1>4. PICK w : w = MarkerStep(s, q, k + 1, marker)
  OBVIOUS
<1>5. PICK b \in Bit : b = q[k + 1]
  BY <1>0
<1>6. PICK r : r = ms[at][b]
  OBVIOUS
<1>7. \A a \in Addr : Rest(ms, a) = Rest(ns, a)
  BY <1>2 DEF Advancing
<1>8. /\ r = NoData \/ IsPointer(r)
      /\ D[at] = k /\ k < Depth
      /\ \A a \in Addr : Covers(q, a) => Hits(ms, D, at, b, a)
  <2>1. k + 1 <= Len(q)
    BY <1>0
  <2>2. Untouched(s.nodes, D, q, k, s.at, q[k + 1])
    BY <1>1, <1>2, <1>7, <2>1, WayRecord
  <2> QED
    BY <1>2, <1>5, <1>6, <2>2 DEF Untouched
<1>9. at \in 1 .. Len(ms) /\ Busy(ms, {at}) /\ Keeps(ns, ms) /\ at # NoNode
  BY <1>2 DEF Way, NoNode
<1>10. ~IsPointer(NoData) /\ Norm(marker) = marker /\ ~IsPointer(marker)
  BY <1>3, LeafsAre DEF NoData, IsPointer, Rec
<1>11. r = NoData
  <2> SUFFICES ASSUME IsPointer(r) PROVE FALSE
    BY <1>8
  <2>1. Busy(ms, {})
    <3>1. ms[at][b] # NoData /\ {at} \subseteq {} \cup {at}
      BY <1>6, <1>10
    <3> QED
      BY <1>9, <3>1, NotBare
  <2>2. Norm(r) = Node(r.arg)
    <3>1. r \in Leafs(p) \/ Leads(ms, D, r, D[at] + 1)
      BY <1>3, <1>6, <1>9 DEF Fine
    <3> QED
      BY <1>3, <3>1, LeafsAre, NormFine
  <2>3. \A a \in Addr : Covers(q, a) => Stroll(ms, a)[Len(q)] = Node(r.arg)
    BY <1>3, <1>6, <1>8, <1>9, <2>2, HitsLeaf
  <2>4. Vacant(ms, q, r.arg)
    BY <1>7, <2>3 DEF Vacant, Blank
  <2>5. Bare(ms, r.arg)
    BY <1>3, <2>1, <2>4, VacantBare
  <2> QED
    BY <1>6, <1>9, <2>1, <2>5 DEF Busy
<1>12. PICK us : us = Put(ms, at, b, marker)
  OBVIOUS
<1>13. w.nodes = us
  BY <1>2, <1>4, <1>5, <1>6, <1>9, <1>11, <1>12 DEF MarkerStep
<1>14. Updated(ms, at, b, marker, us) /\ AtEdit(ms, us, at, b)
  BY <1>3, <1>9, <1>12, PutFine DEF MayHold
<1>15. Len(us) = Len(ms) /\ us[at][b] = marker
  BY <1>14 DEF Updated
<1>16. Busy(us, {at})
  BY <1>9, <1>10, <1>14, BusyUpdated
<1>17. Busy(us, {})
  <2>1. us[at][b] # NoData /\ {at} \subseteq {} \cup {at}
    BY <1>15
  <2> QED
    BY <1>16, <2>1, NotBare
<1>18. Keeps(ms, us)
  <2>1. Len(us) \in Nat /\ Len(ms) <= Len(us) /\ D[at] < Depth /\ ms[at][b] = NoData
    BY <1>3, <1>6, <1>8, <1>11, <1>15
  <2> QED
    BY <1>3, <1>9, <1>14, <2>1, FillKeeps
<1>19. Keeps(ns, us)
  BY <1>9, <1>18, KeepsTwice
<1>20. \A a \in Addr : Covers(q, a) => Stroll(us, a)[Len(q)] = marker
  BY <1>3, <1>8, <1>9, <1>10, <1>14, <1>15, EditStroll
<1> QED
  BY <1>4, <1>13, <1>17, <1>19, <1>20 DEF Installed

LEMMA MarkerInstalled ==
    ASSUME NEW ns, NEW D, NEW p, Fine(ns, D, p), Busy(ns, {}), NEW q \in Network, Len(q) # 0,
           NEW marker \in Leafs(p), marker # NoData, Blank(ns, q)
    PROVE  Installed(ns, InstallMarker(ns, q, marker), q, marker)
<1>0. Len(q) \in Nat /\ Depth \in Nat
  BY NetworkBits, DepthAssumption
<1>a. PICK ts : ts = Turns(ns, q, marker)
  OBVIOUS
<1>b. /\ InstallMarker(ns, q, marker) = ts[Len(q)].nodes
       /\ ts[0] = [nodes |-> ns, at |-> 1]
       /\ \A k \in 0 .. Len(q) - 1 : ts[k + 1] = MarkerStep(ts[k], q, k + 1, marker)
  BY <1>0, <1>a, TurnsDef
<1> DEFINE S == {k \in Nat : k + 1 <= Len(q) => Advancing(ns, ts[k], p, q, k) /\ Way(ns, ts[k], q, k)}
<1>1. 0 \in S
  <2>1. PICK s : s = [nodes |-> ns, at |-> 1]
    OBVIOUS
  <2>2. s.nodes = ns /\ s.at = 1
    BY <2>1
  <2>3. OnWay(ns, D, q, 0, 1)
    BY FineTypes DEF OnWay
  <2>4. Advancing(ns, s, p, q, 0)
    BY <2>1, <2>2, <2>3 DEF Advancing
  <2>5. Busy(ns, {1})
    BY BusyMore
  <2>6. Way(ns, s, q, 0)
    BY <2>2, <2>5, FineTypes, StrollDef, KeepsSame DEF Way
  <2> QED
    BY <1>b, <2>1, <2>4, <2>6
<1>2. ASSUME NEW k \in Nat, k \in S PROVE k + 1 \in S
  <2> SUFFICES ASSUME (k + 1) + 1 <= Len(q)
               PROVE  Advancing(ns, ts[k + 1], p, q, k + 1) /\ Way(ns, ts[k + 1], q, k + 1)
    OBVIOUS
  <2>1. PICK s : s = ts[k]
    OBVIOUS
  <2>2. Advancing(ns, s, p, q, k) /\ Way(ns, s, q, k) /\ k + 1 < Len(q) /\ k \in 0 .. Len(q) - 1
    BY <1>0, <1>2, <2>1
  <2>3. ts[k + 1] = MarkerStep(s, q, k + 1, marker)
    BY <1>b, <2>1, <2>2
  <2> HIDE DEF S
  <2>4. Advancing(ns, MarkerStep(s, q, k + 1, marker), p, q, k + 1)
    BY <2>2, MarkerTurn
  <2>5. Way(ns, MarkerStep(s, q, k + 1, marker), q, k + 1)
    BY Zenon, <2>2, WayTurn
  <2> QED
    BY <2>3, <2>4, <2>5
<1> HIDE DEF S
<1>3. PICK k \in Nat : k + 1 = Len(q)
  <2>1. Len(q) - 1 \in Nat /\ (Len(q) - 1) + 1 = Len(q)
    BY <1>0
  <2> QED
    BY Zenon, <2>1
<1>4. k \in S
  BY <1>1, <1>2, Induction
<1>5. PICK s : s = ts[k]
  OBVIOUS
<1>6. Advancing(ns, s, p, q, k) /\ Way(ns, s, q, k) /\ k \in 0 .. Len(q) - 1
  BY <1>0, <1>3, <1>4, <1>5 DEF S
<1>7. ts[k + 1] = MarkerStep(s, q, k + 1, marker)
  BY <1>b, <1>5, <1>6
<1>8. InstallMarker(ns, q, marker) = MarkerStep(s, q, k + 1, marker).nodes
  BY <1>b, <1>3, <1>7
<1> QED
  BY <1>3, <1>6, <1>8, WayEnd

-----------------------------------------------------------------------------
(***************************************************************************)
(* install_aliases.                                                        *)
(***************************************************************************)

LEMMA AliasNet ==
    ASSUME IpVersion = "V6"
    PROVE  /\ Len(AliasNets) \in Nat /\ DOMAIN AliasNets = 1 .. Len(AliasNets)
           /\ \A i \in 1 .. Len(AliasNets) : AliasNets[i] \in Network /\ Len(AliasNets[i]) \in 1 .. Depth
<1>0. /\ AliasNets \in Seq(Network) /\ Len(AliasNets) \in Nat /\ DOMAIN AliasNets = 1 .. Len(AliasNets)
      /\ V4Depth \in Nat /\ Depth \in Nat
  BY AliasNetsAssumption, WriterAssumption, DepthAssumption, LenProperties
<1>1. ASSUME NEW i \in 1 .. Len(AliasNets) PROVE AliasNets[i] \in Network /\ Len(AliasNets[i]) \in 1 .. Depth
  <2>1. PICK n : n = AliasNets[i]
    OBVIOUS
  <2>2. n \in Network /\ ~Covers(n, V4Zeros)
    BY <1>0, <2>1, AliasNetsAssumption, ElementOfSeq
  <2>3. Len(V4Zeros) = V4Depth /\ Len(n) \in 0 .. Depth
    BY <1>0, <2>2, NetworkBits DEF V4Zeros
  <2>4. ASSUME Len(n) = 0 PROVE Covers(n, V4Zeros)
    BY <1>0, <2>3, <2>4 DEF Covers
  <2> QED
    BY <2>1, <2>2, <2>3, <2>4
<1> QED
  BY <1>0, <1>1

LEMMA V4ZerosBits ==
    /\ V4Depth \in 1 .. Depth /\ V4Zeros \in Network /\ Len(V4Zeros) = V4Depth
    /\ \A a : Covers(V4Zeros, a) => \A k \in 1 .. V4Depth : a[k] = 0
<1>0. V4Depth \in 1 .. Depth /\ Depth \in Nat /\ 0 \in Bit
  BY WriterAssumption, DepthAssumption DEF Bit
<1>1. V4Zeros \in [1 .. V4Depth -> Bit] /\ Len(V4Zeros) = V4Depth
  BY <1>0 DEF V4Zeros
<1>2. V4Depth \in 0 .. Depth
  BY <1>0
<1>3. V4Zeros \in Network
  BY <1>1, <1>2 DEF Network
<1>4. \A a : Covers(V4Zeros, a) => \A k \in 1 .. V4Depth : a[k] = 0
  BY <1>0, <1>1 DEF Covers, V4Zeros
<1> QED
  BY <1>0, <1>1, <1>3, <1>4

(* find_ipv4_root goes where the zeros lead. *)
LEMMA SpineStroll ==
    ASSUME NEW ns, NEW D, NEW p, Fine(ns, D, p), NEW a \in Addr, Covers(V4Zeros, a)
    PROVE  \A k \in 0 .. V4Depth :
               LeftSpine(ns, k) # NoNode => Stroll(ns, a)[k] = Node(LeftSpine(ns, k))
<1> DEFINE S == {k \in Nat : k <= V4Depth =>
                     (LeftSpine(ns, k) # NoNode => Stroll(ns, a)[k] = Node(LeftSpine(ns, k)))}
<1>0. V4Depth \in 1 .. Depth /\ Depth \in Nat /\ \A k \in 1 .. V4Depth : a[k] = 0
  BY V4ZerosBits, DepthAssumption
<1>1. 0 \in S
  <2>1. Spine(ns, 0)[0] = 1
    BY SpineDef
  <2>2. LeftSpine(ns, 0) = 1
    BY <2>1 DEF LeftSpine, Spine
  <2> QED
    BY <2>2, StrollDef
<1>2. ASSUME NEW k \in Nat, k \in S PROVE k + 1 \in S
  <2> SUFFICES ASSUME k + 1 <= V4Depth, LeftSpine(ns, k + 1) # NoNode
               PROVE  Stroll(ns, a)[k + 1] = Node(LeftSpine(ns, k + 1))
    OBVIOUS
  <2>1. PICK q, root : q = LeftSpine(ns, k) /\ root = LeftSpine(ns, k + 1)
    OBVIOUS
  <2>2. q \in 1 .. Len(ns) /\ ns[q][0] = Node(root)
    BY <2>1, SpineRoot
  <2>3. q # NoNode /\ k <= V4Depth /\ k \in 0 .. Depth - 1 /\ a[k + 1] = 0
    BY <1>0, <2>2, FineTypes DEF NoNode
  <2>4. Stroll(ns, a)[k] = Node(q)
    BY <1>2, <2>1, <2>3
  <2>5. Stroll(ns, a)[k + 1] = Norm(Node(root))
    BY <2>2, <2>3, <2>4, StrollDef, AheadFromNode
  <2>6. Norm(Node(root)) = Node(root)
    BY DEF Norm, Node, Rec
  <2> QED
    BY <2>1, <2>5, <2>6
<1> HIDE DEF S
<1>3. \A k \in Nat : k \in S
  BY <1>1, <1>2, Induction
<1> QED
  BY <1>0, <1>3 DEF S

(* The zeros lead to node root, through a pinned record. *)
Pinned(us, root) ==
    \A a \in Addr : Covers(V4Zeros, a) =>
        Stroll(us, a)[V4Depth] = Node(root) /\ Fixed(us, a, V4Depth - 1)

LEMMA PinnedRoot ==
    ASSUME NEW ns, NEW D, NEW p, Fine(ns, D, p), Busy(ns, {}),
           NEW root, root = LeftSpine(ns, V4Depth), root # NoNode, NEW us, us = PinRoot(ns, root)
    PROVE  /\ root \in Nat /\ Fine(us, D, p) /\ Busy(us, {}) /\ Pinned(us, root)
           /\ \A a \in Addr : Rest(us, a) = Rest(ns, a)
<1>0. /\ V4Depth \in 1 .. Depth /\ Depth \in Nat /\ V4Depth - 1 \in Nat /\ (V4Depth - 1) + 1 = V4Depth
      /\ V4Depth - 1 \in 0 .. Depth - 1 /\ V4Depth - 1 \in 0 .. V4Depth /\ V4Depth \in 0 .. V4Depth
      /\ V4Depth - 1 \in 0 .. Depth /\ V4Depth \in 0 .. Depth /\ 0 \in Bit
  BY V4ZerosBits, DepthAssumption DEF Bit
<1>1. PICK q : q = LeftSpine(ns, V4Depth - 1)
  OBVIOUS
<1>2. q \in 1 .. Len(ns) /\ root \in Nat /\ ns[q][0] = Node(root)
  BY <1>0, <1>1, SpineRoot
<1>3. us = Put(ns, q, 0, FixedNode(root))
  BY <1>1 DEF PinRoot
<1>4. /\ Fine(us, D, p)
      /\ \A a \in Addr : Rest(us, a) = Rest(ns, a) /\ \A k \in 0 .. Depth : Stroll(us, a)[k] = Stroll(ns, a)[k]
  BY <1>0, <1>2, <1>3, PinRest
<1>5. /\ FixedNode(root) \in Record /\ IsPointer(FixedNode(root)) /\ IsPointer(Node(root))
      /\ FixedNode(root).arg = root /\ Node(root).arg = root /\ FixedNode(root).kind = "FixedNode"
      /\ FixedNode(root) # NoData
  BY <1>2 DEF FixedNode, Node, Rec, Record, IsPointer, NoData
<1>6. Updated(ns, q, 0, FixedNode(root), us)
  BY <1>0, <1>2, <1>3, <1>5, FineTypes, PutRecord
<1>7. Len(us) = Len(ns) /\ us[q][0] = FixedNode(root)
      /\ \A k \in 1 .. Len(ns) : \A c \in Bit : k # q \/ c # 0 => us[k][c] = ns[k][c]
  BY <1>6 DEF Updated
<1>8. Busy(us, {})
  <2>1. ASSUME NEW j \in 1 .. Len(ns), ~Bare(ns, j) PROVE ~Bare(us, j)
    BY <1>5, <1>7, <2>1 DEF Bare
  <2>2. ASSUME NEW i \in 1 .. Len(us), NEW b \in Bit, IsPointer(us[i][b])
        PROVE  us[i][b].arg \in 1 .. Len(us) /\ ~Bare(us, us[i][b].arg)
    <3>1. IsPointer(ns[i][b]) /\ ns[i][b].arg = us[i][b].arg
      BY <1>2, <1>5, <1>7, <2>2
    <3>2. ns[i][b].arg \in 1 .. Len(ns) /\ ~Bare(ns, ns[i][b].arg)
      BY <1>7, <3>1 DEF Busy
    <3> QED
      BY <1>7, <2>1, <3>1, <3>2
  <2> QED
    BY <2>2 DEF Busy
<1>9. ASSUME NEW a \in Addr, Covers(V4Zeros, a)
      PROVE  Stroll(us, a)[V4Depth] = Node(root) /\ Fixed(us, a, V4Depth - 1)
  <2>1. Stroll(us, a)[V4Depth] = Node(root)
    BY <1>0, <1>4, <1>9, SpineStroll
  <2>2. q # NoNode
    BY <1>2, FineTypes DEF NoNode
  <2>3. Stroll(us, a)[V4Depth - 1] = Node(q)
    BY <1>0, <1>1, <1>4, <1>9, <2>2, SpineStroll
  <2>4. a[(V4Depth - 1) + 1] = 0
    BY <1>0, <1>9, V4ZerosBits
  <2>5. q \in 1 .. Len(us) /\ us[q][a[(V4Depth - 1) + 1]].kind = "FixedNode"
    BY <1>2, <1>5, <1>7, <2>4
  <2> QED
    BY <2>1, <2>3, <2>5 DEF Fixed
<1> QED
  BY <1>2, <1>4, <1>8, <1>9 DEF Pinned

LEMMA PinnedKept ==
    ASSUME NEW ns, NEW us, Keeps(ns, us), NEW root, Pinned(ns, root)
    PROVE  Pinned(us, root)
BY V4ZerosBits, DepthAssumption, NodeKind DEF Keeps, Pinned

(* The first k alias networks have their alias, and nothing is in the others. *)
Lined(us, root, p, k) ==
    /\ \E E : Fine(us, E, p)
    /\ Busy(us, {}) /\ Pinned(us, root)
    /\ \A i \in 1 .. k : \A a \in Addr :
           Covers(AliasNets[i], a) => Stroll(us, a)[Len(AliasNets[i])] = Alias(root)
    /\ \A i \in k + 1 .. Len(AliasNets) : Blank(us, AliasNets[i])

LEMMA LinedTurn ==
    ASSUME IpVersion = "V6", NEW ns, NEW root \in Nat, NEW p, NEW k \in Nat, Lined(ns, root, p, k),
           k + 1 <= Len(AliasNets), NEW us, us = InstallMarker(ns, AliasNets[k + 1], Alias(root))
    PROVE  Lined(us, root, p, k + 1)
<1>0. /\ Len(AliasNets) \in Nat /\ DOMAIN AliasNets = 1 .. Len(AliasNets)
      /\ \A i \in 1 .. Len(AliasNets) : AliasNets[i] \in Network /\ Len(AliasNets[i]) \in 1 .. Depth
      /\ Depth \in Nat
  BY AliasNet, DepthAssumption
<1>1. PICK D : Fine(ns, D, p)
  BY DEF Lined
<1>2. PICK n \in Network : n = AliasNets[k + 1] /\ Len(n) # 0
  BY <1>0
<1>3. Alias(root) \in Leafs(p) /\ Alias(root) # NoData
  BY DEF Leafs, Alias, NoData, Rec
<1>4. k + 1 \in k + 1 .. Len(AliasNets) /\ k + 1 \in 1 .. Len(AliasNets)
  BY <1>0
<1>5. Blank(ns, n) /\ Busy(ns, {}) /\ Pinned(ns, root)
  BY <1>2, <1>4 DEF Lined
<1>6. us = InstallMarker(ns, n, Alias(root))
  BY <1>2
<1>7. Installed(ns, us, n, Alias(root))
  BY <1>1, <1>2, <1>3, <1>5, <1>6, MarkerInstalled
<1>8. Marked(ns, us, p, n)
  BY <1>1, <1>2, <1>3, <1>6, MarkerFine
<1>9. Pinned(us, root)
  BY <1>5, <1>7, PinnedKept DEF Installed
<1>10. ASSUME NEW i \in 1 .. k + 1, NEW a \in Addr, Covers(AliasNets[i], a)
       PROVE  Stroll(us, a)[Len(AliasNets[i])] = Alias(root)
  <2>1. CASE i = k + 1
    BY <1>2, <1>7, <1>10, <2>1 DEF Installed
  <2>2. CASE i \in 1 .. k
    <3>1. Stroll(ns, a)[Len(AliasNets[i])] = Alias(root)
      BY <1>10, <2>2 DEF Lined
    <3>2. Len(AliasNets[i]) \in 0 .. Depth
      BY <1>0, <2>2
    <3> QED
      BY <1>3, <1>7, <3>1, <3>2 DEF Installed, Keeps
  <2> QED
    BY <2>1, <2>2
<1>11. ASSUME NEW i \in (k + 1) + 1 .. Len(AliasNets) PROVE Blank(us, AliasNets[i])
  <2>1. i \in k + 1 .. Len(AliasNets) /\ i \in 1 .. Len(AliasNets) /\ i # k + 1
    BY <1>0
  <2>2. ASSUME NEW a \in Addr, Covers(AliasNets[i], a) PROVE Rest(us, a) = NoData
    <3>1. ~Covers(n, a)
      <4> SUFFICES ASSUME Covers(n, a) PROVE FALSE
        OBVIOUS
      <4>1. Covers(n, AliasNets[i]) \/ Covers(AliasNets[i], n)
        BY <1>0, <2>1, <2>2, NestedOrApart
      <4> QED
        BY <1>0, <1>2, <1>4, <2>1, <4>1, AliasNetsApart
    <3>2. Rest(us, a) = Rest(ns, a)
      BY <1>8, <3>1 DEF Marked
    <3>3. Blank(ns, AliasNets[i])
      BY <2>1 DEF Lined
    <3> QED
      BY <2>2, <3>2, <3>3 DEF Blank
  <2> QED
    BY <2>2 DEF Blank
<1>12. (\E E : Fine(us, E, p)) /\ Busy(us, {})
  BY <1>7, <1>8 DEF Marked, Installed
<1> QED
  BY <1>9, <1>10, <1>11, <1>12 DEF Lined

(* install_aliases where nothing is in the way: every alias is in its place. *)
LEMMA AliasesLined ==
    ASSUME IpVersion = "V6", NEW ns, NEW D, NEW p, Fine(ns, D, p), Busy(ns, {}),
           \A i \in DOMAIN AliasNets : Blank(ns, AliasNets[i]),
           NEW root, root = LeftSpine(ns, V4Depth), root # NoNode, NEW us, us = InstallAliases(ns)
    PROVE  root \in Nat /\ Lined(us, root, p, Len(AliasNets))
<1>0. Len(AliasNets) \in Nat /\ DOMAIN AliasNets = 1 .. Len(AliasNets)
  BY AliasNet
<1>1. PICK f : f = Aliased(ns, root)
  OBVIOUS
<1>2. us = f[Len(AliasNets)]
  BY <1>1 DEF InstallAliases, Aliased
<1>3. /\ f[0] = PinRoot(ns, root)
      /\ \A k \in 0 .. Len(AliasNets) - 1 : f[k + 1] = InstallMarker(f[k], AliasNets[k + 1], Alias(root))
  BY <1>0, <1>1, AliasedDef
<1>4. PICK ms : ms = PinRoot(ns, root)
  OBVIOUS
<1>5. /\ root \in Nat /\ Fine(ms, D, p) /\ Busy(ms, {}) /\ Pinned(ms, root)
      /\ \A a \in Addr : Rest(ms, a) = Rest(ns, a)
  BY <1>4, PinnedRoot
<1> DEFINE S == {k \in Nat : k <= Len(AliasNets) => Lined(f[k], root, p, k)}
<1>6. 0 \in S
  <2>1. \A i \in 0 + 1 .. Len(AliasNets) : Blank(ms, AliasNets[i])
    BY <1>0, <1>5 DEF Blank
  <2>2. Lined(ms, root, p, 0)
    BY <1>5, <2>1 DEF Lined
  <2> QED
    BY <1>3, <1>4, <2>2
<1>7. ASSUME NEW k \in Nat, k \in S PROVE k + 1 \in S
  <2> SUFFICES ASSUME k + 1 <= Len(AliasNets) PROVE Lined(f[k + 1], root, p, k + 1)
    OBVIOUS
  <2>1. Lined(f[k], root, p, k) /\ k \in 0 .. Len(AliasNets) - 1
    BY <1>0, <1>7
  <2>2. f[k + 1] = InstallMarker(f[k], AliasNets[k + 1], Alias(root))
    BY <1>3, <2>1
  <2> HIDE DEF S
  <2> QED
    BY <1>5, <2>1, <2>2, LinedTurn
<1>8. Len(AliasNets) \in S
  <2> HIDE DEF S
  <2> QED
    BY <1>0, <1>6, <1>7, Induction
<1> QED
  BY <1>0, <1>2, <1>5, <1>8

-----------------------------------------------------------------------------
(***************************************************************************)
(* Compaction and renumbering keep the aliases in their places.            *)
(***************************************************************************)

(* Two addresses have the same first bits. *)
Agree(a, d, m) == \A k \in 1 .. m : a[k] = d[k]

LEMMA StrollCut ==
    ASSUME NEW ns, NEW a, NEW d, NEW m \in 0 .. Depth, Agree(a, d, m)
    PROVE  Stroll(ns, a)[m] = Stroll(ns, d)[m]
<1> DEFINE S == {k \in Nat : k <= m => Stroll(ns, a)[k] = Stroll(ns, d)[k]}
<1>0. Depth \in Nat
  BY DepthAssumption
<1>1. 0 \in S
  BY StrollDef
<1>2. ASSUME NEW k \in Nat, k \in S PROVE k + 1 \in S
  <2> SUFFICES ASSUME k + 1 <= m PROVE Stroll(ns, a)[k + 1] = Stroll(ns, d)[k + 1]
    OBVIOUS
  <2>1. k <= m /\ k \in 0 .. Depth - 1 /\ k + 1 \in 1 .. m
    BY <1>0
  <2>2. Stroll(ns, a)[k] = Stroll(ns, d)[k] /\ a[k + 1] = d[k + 1]
    BY <1>2, <2>1 DEF Agree
  <2>3. Stroll(ns, a)[k + 1] = Ahead(ns, Stroll(ns, a)[k], a[k + 1])
    BY <2>1, StrollDef
  <2>4. Stroll(ns, d)[k + 1] = Ahead(ns, Stroll(ns, d)[k], d[k + 1])
    BY <2>1, StrollDef
  <2> QED
    BY <2>2, <2>3, <2>4
<1> HIDE DEF S
<1>3. m \in S
  BY <1>1, <1>2, Induction
<1> QED
  BY <1>3 DEF S

(* The zeros lead to node root, and each alias network, by nodes, to its alias. *)
InPlace(us, root) ==
    /\ \A a \in Addr : Covers(V4Zeros, a) => Stroll(us, a)[V4Depth] = Node(root)
    /\ \A i \in 1 .. Len(AliasNets) : \A a \in Addr : Covers(AliasNets[i], a) =>
           /\ Stroll(us, a)[Len(AliasNets[i])] = Alias(root)
           /\ \E e : Stroll(us, a)[Len(AliasNets[i]) - 1] = Node(e)

(* Compaction leaves the aliases where they were: beside each of them is something else. *)
LEMMA ThinnedInPlace ==
    ASSUME IpVersion = "V6", NEW ns, NEW root \in Nat, NEW p, Lined(ns, root, p, Len(AliasNets)),
           NEW us, NEW D, Fine(us, D, p), Thinned(ns, us),
           \A a \in Addr : ~InAlias(a) => Rest(ns, a).kind # "Alias"
    PROVE  InPlace(us, root)
<1>0. /\ Len(AliasNets) \in Nat /\ DOMAIN AliasNets = 1 .. Len(AliasNets) /\ p \in Nat
      /\ \A i \in 1 .. Len(AliasNets) : AliasNets[i] \in Network /\ Len(AliasNets[i]) \in 1 .. Depth
      /\ Depth \in Nat
  BY AliasNet, DepthAssumption, FineTypes
<1>1. V4Depth - 1 \in 0 .. Depth - 1 /\ (V4Depth - 1) + 1 = V4Depth /\ V4Depth \in 0 .. Depth
  BY <1>0, V4ZerosBits
<1>2. Alias(root) \in Leafs(p) /\ Alias(root).kind = "Alias"
  BY DEF Leafs, Alias, Rec
<1>3. ASSUME NEW a \in Addr, Covers(V4Zeros, a) PROVE Stroll(us, a)[V4Depth] = Node(root)
  <2>1. Stroll(ns, a)[V4Depth] = Node(root) /\ Fixed(ns, a, V4Depth - 1)
    BY <1>3 DEF Lined, Pinned
  <2>2. Fixed(us, a, V4Depth - 1)
    BY <1>1, <2>1 DEF Thinned
  <2>3. PICK i : Stroll(us, a)[V4Depth - 1] = Node(i) /\ us[i][a[V4Depth]].kind = "FixedNode"
    BY <1>1, <2>2 DEF Fixed
  <2>4. Stroll(us, a)[V4Depth] = Norm(us[i][a[V4Depth]])
    BY <1>1, <2>3, StrollDef, AheadFromNode
  <2>5. Stroll(us, a)[V4Depth].kind = "Node"
    BY <2>3, <2>4 DEF Norm, Node, Rec
  <2> QED
    BY <1>1, <2>1, <2>5 DEF Thinned
<1>4. ASSUME NEW i \in 1 .. Len(AliasNets), NEW a \in Addr, Covers(AliasNets[i], a)
      PROVE  /\ Stroll(us, a)[Len(AliasNets[i])] = Alias(root)
             /\ \E e : Stroll(us, a)[Len(AliasNets[i]) - 1] = Node(e)
  <2>1. PICK q \in Network : q = AliasNets[i] /\ Len(q) \in 1 .. Depth
    BY <1>0
  <2>21. PICK n : n = Len(q)
    OBVIOUS
  <2>22. PICK m : m = n - 1
    OBVIOUS
  <2>23. n \in 1 .. Depth
    BY <2>1, <2>21
  <2>24. n \in 0 .. Depth /\ m \in 0 .. Depth - 1 /\ m \in 0 .. Depth /\ m + 1 = n /\ m \in Nat /\ n \in Nat
    BY <1>0, <2>22, <2>23
  <2>2. n = Len(q) /\ m = n - 1 /\ n \in 0 .. Depth /\ m \in 0 .. Depth - 1 /\ m \in 0 .. Depth /\ m + 1 = n
    BY <2>21, <2>22, <2>24
  <2>3. Stroll(ns, a)[n] = Alias(root)
    BY <1>4, <2>1, <2>2 DEF Lined
  <2>4. Rest(us, a) = Alias(root)
    <3>1. Rest(ns, a) = Alias(root)
      BY <1>0, <1>2, <2>2, <2>3, StrollRests
    <3> QED
      BY <3>1 DEF Thinned
  <2>5. Stroll(us, a)[n] = Alias(root)
    <3>1. CASE Stroll(us, a)[n] \in Leafs(p)
      BY <1>0, <2>2, <2>4, <3>1, StrollRests
    <3>2. CASE Stroll(us, a)[n] \notin Leafs(p)
      <4>1. Comes(us, D, p, Stroll(us, a)[n], n)
        BY <2>2, StrollFine
      <4>2. Stroll(us, a)[n].kind = "Node"
        BY <3>2, <4>1, NodeKind DEF Comes
      <4> QED
        BY <2>2, <2>3, <4>2 DEF Thinned
    <3> QED
      BY <3>1, <3>2
  <2>6. Stroll(us, a)[m] \notin Leafs(p)
    <3> SUFFICES ASSUME Stroll(us, a)[m] \in Leafs(p) PROVE FALSE
      OBVIOUS
    <3>1. Stroll(us, a)[m] = Alias(root)
      BY <1>0, <2>2, <2>4, StrollRests
    <3>2. PICK d \in Addr : /\ \A k \in 1 .. Len(q) - 1 : d[k] = q[k]
                            /\ \A j \in DOMAIN AliasNets : ~Covers(AliasNets[j], d)
      <4>1. \A j \in DOMAIN AliasNets :
                \E d \in Addr : /\ \A k \in 1 .. Len(AliasNets[j]) - 1 : d[k] = AliasNets[j][k]
                                /\ \A e \in DOMAIN AliasNets : ~Covers(AliasNets[e], d)
        BY AliasNetsApart
      <4>2. i \in DOMAIN AliasNets
        BY <1>0
      <4> QED
        BY <2>1, <4>1, <4>2
    <3>3. ASSUME NEW k \in 1 .. m PROVE a[k] = d[k]
      <4>1. k \in 1 .. Len(q) - 1 /\ k \in 1 .. Len(q)
        BY <2>2, <2>23, <2>24
      <4>2. \A j \in 1 .. Len(q) : q[j] = a[j]
        BY <1>4, <2>1 DEF Covers
      <4> QED
        BY <3>2, <4>1, <4>2
    <3>31. Agree(a, d, m)
      BY <3>3 DEF Agree
    <3>32. Stroll(us, a)[m] = Stroll(us, d)[m]
      BY <2>24, <3>31, StrollCut
    <3>4. Stroll(us, d)[m] = Alias(root)
      BY <3>1, <3>32
    <3>5. Rest(us, d) = Alias(root)
      BY <1>0, <1>2, <2>2, <3>4, StrollRests
    <3>6. Rest(ns, d).kind # "Alias"
      BY <3>2 DEF InAlias
    <3> QED
      BY <1>2, <3>5, <3>6 DEF Thinned
  <2>7. Comes(us, D, p, Stroll(us, a)[m], m)
    BY <2>2, StrollFine
  <2>8. \E e : Stroll(us, a)[m] = Node(e)
    BY <2>6, <2>7 DEF Comes
  <2> QED
    BY <2>1, <2>2, <2>5, <2>8
<1> QED
  BY <1>3, <1>4 DEF InPlace

(* The place of node e in an order. *)
Place(order, e) == CHOOSE k \in DOMAIN order : order[k] = e

(* Renumbering keeps the way to a node, which is then the node at its place. *)
Renamed(us, order, a, m, e) ==
    \E j \in 1 .. Len(us) : order[j] = e /\ Stroll(us, a)[m] = Node(j) /\ (m > 0 => j = Place(order, e))

(* A pointer, remapped. *)
LEMMA RemapPlace ==
    ASSUME NEW S, NEW order \in Seq(S), NEW r, IsPointer(r) \/ r.kind = "Alias", NEW j \in 1 .. Len(order),
           order[j] = r.arg
    PROVE  /\ Remap(r, order) = Rec(r.kind, Place(order, r.arg))
           /\ Place(order, r.arg) \in 1 .. Len(order) /\ order[Place(order, r.arg)] = r.arg
<1>1. DOMAIN order = 1 .. Len(order)
  BY LenProperties
<1>2. Contains(order, r.arg)
  BY DEF Contains
<1>3. Remap(r, order) = Rec(r.kind, Place(order, r.arg))
  BY <1>2 DEF Remap, Place
<1>4. Place(order, r.arg) \in DOMAIN order /\ order[Place(order, r.arg)] = r.arg
  BY <1>1 DEF Place
<1> QED
  BY <1>1, <1>3, <1>4

LEMMA MirrorStroll ==
    ASSUME NEW ns, NEW D, NEW p, Fine(ns, D, p), NEW us, NEW order, Mirrors(ns, us, order, p),
           Remapped(ns, us, order), NEW a \in Addr
    PROVE  \A m \in 0 .. Depth : \A e : Stroll(ns, a)[m] = Node(e) => Renamed(us, order, a, m, e)
<1> DEFINE S == {k \in Nat : k <= Depth => \A e : Stroll(ns, a)[k] = Node(e) => Renamed(us, order, a, k, e)}
<1>0. p \in Nat /\ Depth \in Nat \ {0} /\ \A k \in 0 .. Depth - 1 : a[k + 1] \in Bit
  BY FineTypes, AddrBits
<1>1. 0 \in S
  <2>1. order[1] = 1 /\ 1 \in 1 .. Len(us)
    BY DEF Mirrors
  <2>2. ASSUME NEW e, Stroll(ns, a)[0] = Node(e) PROVE Renamed(us, order, a, 0, e)
    <3>1. e = 1 /\ Stroll(us, a)[0] = Node(1)
      BY <2>2, StrollDef, NodeKind
    <3> QED
      BY <2>1, <3>1 DEF Renamed
  <2> QED
    BY <2>2
<1>2. ASSUME NEW k \in Nat, k \in S PROVE k + 1 \in S
  <2> SUFFICES ASSUME k + 1 <= Depth, NEW e, Stroll(ns, a)[k + 1] = Node(e)
               PROVE  Renamed(us, order, a, k + 1, e)
    OBVIOUS
  <2>1. k \in 0 .. Depth - 1 /\ k \in 0 .. Depth /\ k + 1 > 0
    BY <1>0
  <2>2. PICK b \in Bit : b = a[k + 1]
    BY <1>0, <2>1
  <2>3. PICK y : y = Stroll(ns, a)[k]
    OBVIOUS
  <2>4. Comes(ns, D, p, y, k)
    BY <2>1, <2>3, StrollFine
  <2>5. Ahead(ns, y, b) = Node(e)
    BY <2>1, <2>2, <2>3, StrollDef
  <2>6. Node(e).kind = "Node"
    BY NodeKind
  <2>7. y \notin Leafs(p)
    BY <1>0, <2>5, <2>6, LeafsAre
  <2>8. PICK c \in 1 .. Len(ns) : y = Node(c)
    BY <2>4, <2>7 DEF Comes
  <2>81. Stroll(ns, a)[k] = Node(c) /\ k <= Depth
    BY <1>0, <2>1, <2>3, <2>8
  <2>82. \A i : Stroll(ns, a)[k] = Node(i) => Renamed(us, order, a, k, i)
    BY <1>2, <2>81
  <2>9. Renamed(us, order, a, k, c)
    BY <2>81, <2>82
  <2>10. PICK j \in 1 .. Len(us) : order[j] = c /\ Stroll(us, a)[k] = Node(j)
    BY <2>9 DEF Renamed
  <2>11. PICK r : r = ns[c][b]
    OBVIOUS
  <2>12. Norm(r) = Node(e)
    BY <2>5, <2>8, <2>11, AheadFromNode
  <2>13. Mirrored(ns, us, order, p, j, b)
    BY DEF Mirrors
  <2>14. r \notin Leafs(p)
    BY <1>0, <2>6, <2>12, LeafsAre
  <2>15. PICK m \in 1 .. Len(us) : order[m] = r.arg /\ Norm(r) = Node(r.arg)
    BY <2>10, <2>11, <2>13, <2>14 DEF Mirrored
  <2>16. r.arg = e
    BY <2>12, <2>15, NodeKind
  <2>17. IsPointer(r)
    BY <2>6, <2>12 DEF IsPointer, Norm
  <2>18. order \in Seq(1 .. Len(ns)) /\ Len(us) = Len(order) /\ us[j][b] = Remap(r, order)
    BY <2>10, <2>11 DEF Remapped
  <2>19. /\ Remap(r, order) = Rec(r.kind, Place(order, e))
         /\ Place(order, e) \in 1 .. Len(us) /\ order[Place(order, e)] = e
    BY <2>15, <2>16, <2>17, <2>18, RemapPlace
  <2>20. Norm(us[j][b]) = Node(Place(order, e))
    BY <2>17, <2>18, <2>19 DEF Norm, Rec, Node, IsPointer
  <2>21. Stroll(us, a)[k + 1] = Node(Place(order, e))
    BY <2>1, <2>2, <2>10, <2>20, StrollDef, AheadFromNode
  <2> QED
    BY <2>19, <2>21 DEF Renamed
<1>3. ASSUME NEW m \in 0 .. Depth PROVE m \in S
  <2> HIDE DEF S
  <2> QED
    BY <1>0, <1>1, <1>2, <1>3, Induction
<1> QED
  BY <1>0, <1>3

LEMMA MirrorAlias ==
    ASSUME NEW ns, NEW D, NEW p, Fine(ns, D, p), NEW us, NEW order, Mirrors(ns, us, order, p),
           Remapped(ns, us, order), NEW a \in Addr, NEW m \in 0 .. Depth - 1, NEW e, Stroll(ns, a)[m] = Node(e),
           NEW x, Stroll(ns, a)[m + 1] = Alias(x), NEW i \in 1 .. Len(order), order[i] = x
    PROVE  /\ Stroll(us, a)[m + 1] = Alias(Place(order, x))
           /\ \E j : Stroll(us, a)[m] = Node(j)
<1>1. m \in 0 .. Depth /\ \A k \in 0 .. Depth - 1 : a[k + 1] \in Bit
  BY AddrBits
<1>2. PICK b \in Bit : b = a[m + 1]
  BY <1>1
<1>3. Renamed(us, order, a, m, e)
  BY <1>1, MirrorStroll
<1>4. PICK j \in 1 .. Len(us) : order[j] = e /\ Stroll(us, a)[m] = Node(j)
  BY <1>3 DEF Renamed
<1>5. PICK r : r = ns[e][b]
  OBVIOUS
<1>6. Norm(r) = Alias(x)
  BY <1>2, <1>5, StrollDef, AheadFromNode
<1>7. Alias(x).kind = "Alias" /\ Alias(x).arg = x
  BY DEF Alias, Rec
<1>8. r = Alias(x)
  BY <1>6, <1>7 DEF Norm, Node, Rec
<1>9. order \in Seq(1 .. Len(ns)) /\ us[j][b] = Remap(r, order)
  BY <1>4, <1>5 DEF Remapped
<1>10. Remap(r, order) = Rec("Alias", Place(order, x))
  BY <1>7, <1>8, <1>9, RemapPlace
<1>11. Norm(us[j][b]) = Alias(Place(order, x))
  BY <1>9, <1>10 DEF Norm, Alias, Rec
<1>12. Stroll(us, a)[m + 1] = Alias(Place(order, x))
  BY <1>2, <1>4, <1>11, StrollDef, AheadFromNode
<1> QED
  BY <1>4, <1>12

(* The aliases lead to the new number of the IPv4 root. *)
LEMMA RenumberedInPlace ==
    ASSUME IpVersion = "V6", NEW ns, NEW D, NEW p, Fine(ns, D, p), NEW root, InPlace(ns, root),
           NEW us, us = RenumberReachable(ns)
    PROVE  \E k : InPlace(us, k)
<1>0. /\ \A i \in 1 .. Len(AliasNets) : Len(AliasNets[i]) \in 1 .. Depth
      /\ V4Depth \in 1 .. Depth /\ V4Zeros \in Network /\ Depth \in Nat
  BY AliasNet, V4ZerosBits, DepthAssumption
<1>1. PICK order : Mirrors(ns, us, order, p) /\ Remapped(ns, us, order)
  BY Zenon, Renumbered
<1>2. PICK k : k = Place(order, root)
  OBVIOUS
<1>3. V4Depth \in 0 .. Depth /\ V4Depth > 0
  BY <1>0
<1>4. ASSUME NEW a \in Addr, Covers(V4Zeros, a)
      PROVE  /\ Stroll(us, a)[V4Depth] = Node(k)
             /\ \E i \in 1 .. Len(order) : order[i] = root
  <2>1. Stroll(ns, a)[V4Depth] = Node(root)
    BY <1>4 DEF InPlace
  <2>2. Renamed(us, order, a, V4Depth, root)
    BY <1>1, <1>3, <2>1, MirrorStroll
  <2>3. Len(us) = Len(order)
    BY <1>1 DEF Remapped
  <2> QED
    BY <1>2, <1>3, <2>2, <2>3 DEF Renamed
<1>5. \E a \in Addr : Covers(V4Zeros, a)
  BY <1>0, AddressBelow
<1>6. PICK x \in 1 .. Len(order) : order[x] = root
  BY <1>4, <1>5
<1>7. ASSUME NEW i \in 1 .. Len(AliasNets), NEW a \in Addr, Covers(AliasNets[i], a)
      PROVE  /\ Stroll(us, a)[Len(AliasNets[i])] = Alias(k)
             /\ \E e : Stroll(us, a)[Len(AliasNets[i]) - 1] = Node(e)
  <2>1. PICK n \in 1 .. Depth : n = Len(AliasNets[i])
    BY <1>0
  <2>2. PICK m \in 0 .. Depth - 1 : m = n - 1 /\ m + 1 = n
    BY <1>0
  <2>3. Stroll(ns, a)[n] = Alias(root) /\ \E e : Stroll(ns, a)[n - 1] = Node(e)
    BY <1>7, <2>1 DEF InPlace
  <2>4. PICK e : Stroll(ns, a)[m] = Node(e)
    BY <2>2, <2>3
  <2>5. Stroll(ns, a)[m + 1] = Alias(root)
    BY <2>2, <2>3
  <2>6. Stroll(us, a)[m + 1] = Alias(Place(order, root)) /\ \E j : Stroll(us, a)[m] = Node(j)
    BY <1>1, <1>6, <2>4, <2>5, MirrorAlias
  <2> QED
    BY <1>2, <2>1, <2>2, <2>6
<1>8. InPlace(us, k)
  BY <1>4, <1>7 DEF InPlace
<1> QED
  BY <1>8

-----------------------------------------------------------------------------
(***************************************************************************)
(* A reader of the first bits of an address.                               *)
(***************************************************************************)

(* A reader is at the number of the node that the stroll has come to. *)
LEMMA ReadNode ==
    ASSUME NEW file, NEW us, NEW p, NEW offset, Holds(file, us, p, offset), NEW a \in Addr
    PROVE  \A m \in 0 .. Depth : \A j : Stroll(us, a)[m] = Node(j) =>
               j \in 1 .. Len(us) /\ Raws(file, 0, a)[m] = j - 1
<1>1. PICK n \in Nat \ {0} : n = Len(us)
  BY DEF Holds, AllPlaced
<1>2. /\ Depth \in Nat \ {0} /\ Len(a) = Depth
      /\ \A k \in 0 .. Depth - 1 : a[k + 1] \in Bit
  BY AddrBits
<1>3. PICK f : f = Raws(file, 0, a)
  OBVIOUS
<1>4. f[0] = 0 /\ \A k \in 0 .. Depth - 1 : f[k + 1] = ReadStep(file, f[k], a[k + 1])
  BY <1>2, <1>3, RawsDef
<1>5. PICK g : g = Stroll(us, a)
  OBVIOUS
<1>6. g[0] = Node(1) /\ \A k \in 0 .. Depth - 1 : g[k + 1] = Ahead(us, g[k], a[k + 1])
  BY <1>5, StrollDef
<1> DEFINE At(x, r) == r.kind # "Node" \/ \E j \in 1 .. n : r = Node(j) /\ x = j - 1
           S == {k \in Nat : k <= Depth => At(f[k], g[k])}
<1>7. 0 \in S
  BY <1>1, <1>4, <1>6
<1>8. ASSUME NEW k \in Nat, k \in S PROVE k + 1 \in S
  <2> SUFFICES ASSUME k + 1 <= Depth PROVE At(f[k + 1], g[k + 1])
    OBVIOUS
  <2>1. k \in 0 .. Depth - 1 /\ k <= Depth
    BY <1>2
  <2>2. PICK b \in Bit : b = a[k + 1]
    BY <1>2, <2>1
  <2>3. At(f[k], g[k])
    BY <1>8, <2>1
  <2>4. f[k + 1] = ReadStep(file, f[k], b) /\ g[k + 1] = Ahead(us, g[k], b)
    BY <1>4, <1>6, <2>1, <2>2
  <2>5. CASE g[k].kind # "Node"
    BY <2>4, <2>5 DEF Ahead
  <2>6. CASE \E j \in 1 .. n : g[k] = Node(j) /\ f[k] = j - 1
    <3>1. PICK j \in 1 .. n : g[k] = Node(j) /\ f[k] = j - 1
      BY <2>6
    <3>2. PICK q : q = us[j][b]
      OBVIOUS
    <3>3. /\ Placed(q, n, p) /\ file.nodes[j][b] = Encode(q, n, Gap, offset)
          /\ file.meta.node_count = n
      BY <1>1, <3>2 DEF Holds, AllPlaced
    <3>4. g[k + 1] = Norm(q)
      BY <2>4, <3>1, <3>2, AheadFromNode
    <3>5. j - 1 < n /\ (j - 1) + 1 = j
      BY <1>1
    <3>6. f[k + 1] = Encode(q, n, Gap, offset)
      BY <2>4, <3>1, <3>3, <3>5 DEF ReadStep
    <3>7. CASE q.kind \in {"Node", "FixedNode"}
      <4>1. q.arg \in 1 .. n /\ q = Rec(q.kind, q.arg)
        BY <3>3, <3>7, Kinds DEF Placed
      <4>2. Norm(q) = Node(q.arg)
        BY <3>7, <4>1 DEF Norm, Node, Rec
      <4>3. Encode(q, n, Gap, offset) = q.arg - 1
        BY <3>7 DEF Encode
      <4> QED
        BY <3>4, <3>6, <4>1, <4>2, <4>3
    <3>8. CASE q.kind \notin {"Node", "FixedNode"}
      BY <3>4, <3>8 DEF Norm
    <3> QED
      BY <3>7, <3>8
  <2> QED
    BY <2>3, <2>5, <2>6
<1>9. ASSUME NEW m \in 0 .. Depth PROVE At(f[m], g[m])
  <2>1. m \in S
    <3> HIDE DEF S
    <3> QED
      BY <1>2, <1>7, <1>8, <1>9, Induction
  <2> QED
    BY <1>2, <1>9, <2>1
<1>10. ASSUME NEW m \in 0 .. Depth, NEW j, g[m] = Node(j)
       PROVE  j \in 1 .. n /\ f[m] = j - 1
  <2>1. At(f[m], g[m]) /\ g[m].kind = "Node"
    BY <1>9, <1>10, NodeKind
  <2> QED
    BY <1>10, <2>1, NodeKind
<1> QED
  BY <1>1, <1>3, <1>5, <1>10

(* Where the stroll comes to an alias, the reader is at the number of its target. *)
LEMMA ReadAlias ==
    ASSUME NEW file, NEW us, NEW p, NEW offset, Holds(file, us, p, offset), NEW a \in Addr,
           NEW m \in 0 .. Depth - 1, NEW j, Stroll(us, a)[m] = Node(j),
           NEW x, Stroll(us, a)[m + 1] = Alias(x)
    PROVE  Raws(file, 0, a)[m + 1] = x - 1
<1>0. Depth \in Nat \ {0} /\ Len(a) = Depth /\ (\A k \in 0 .. Depth - 1 : a[k + 1] \in Bit) /\ m \in 0 .. Depth
  BY AddrBits
<1>1. PICK b \in Bit : b = a[m + 1]
  BY <1>0
<1>2. j \in 1 .. Len(us) /\ Raws(file, 0, a)[m] = j - 1
  BY <1>0, ReadNode
<1>3. Raws(file, 0, a)[m + 1] = ReadStep(file, j - 1, b)
  BY <1>0, <1>1, <1>2, RawsDef
<1>4. PICK q : q = us[j][b]
  OBVIOUS
<1>5. Norm(q) = Alias(x)
  BY <1>1, <1>4, StrollDef, AheadFromNode
<1>6. Alias(x).kind = "Alias" /\ Alias(x).arg = x
  BY DEF Alias, Rec
<1>7. q = Alias(x)
  BY <1>5, <1>6 DEF Norm, Node, Rec
<1>8. /\ Len(us) \in Nat /\ file.meta.node_count = Len(us)
      /\ file.nodes[j][b] = Encode(q, Len(us), Gap, offset)
  BY <1>2, <1>4 DEF Holds, AllPlaced
<1>9. j - 1 < Len(us) /\ (j - 1) + 1 = j
  BY <1>2, <1>8
<1>10. ReadStep(file, j - 1, b) = Encode(q, Len(us), Gap, offset)
  BY <1>8, <1>9 DEF ReadStep
<1>11. Encode(q, Len(us), Gap, offset) = x - 1
  BY <1>6, <1>7 DEF Encode
<1> QED
  BY <1>3, <1>10, <1>11

(* A reader of a network's bits goes as far as it goes with an address below it. *)
LEMMA ReadCut ==
    ASSUME NEW file, NEW q \in Network, NEW a \in Addr, Covers(q, a)
    PROVE  ReadFrom(file, 0, q) = Raws(file, 0, a)[Len(q)]
<1>0. Len(q) \in 0 .. Depth /\ Len(a) = Depth /\ Depth \in Nat
  BY NetworkBits, AddrBits
<1>1. PICK n \in Nat : n = Len(q) /\ n <= Depth
  BY <1>0
<1>2. PICK f : f = Raws(file, 0, q)
  OBVIOUS
<1>3. PICK g : g = Raws(file, 0, a)
  OBVIOUS
<1>4. f[0] = 0 /\ \A k \in 0 .. n - 1 : f[k + 1] = ReadStep(file, f[k], q[k + 1])
  BY <1>1, <1>2, RawsAt
<1>5. g[0] = 0 /\ \A k \in 0 .. Depth - 1 : g[k + 1] = ReadStep(file, g[k], a[k + 1])
  BY <1>0, <1>3, RawsAt
<1>6. \A k \in 1 .. n : q[k] = a[k]
  BY <1>1 DEF Covers
<1> DEFINE S == {k \in Nat : k <= n => f[k] = g[k]}
<1>7. 0 \in S
  BY <1>4, <1>5
<1>8. ASSUME NEW k \in Nat, k \in S PROVE k + 1 \in S
  <2> SUFFICES ASSUME k + 1 <= n PROVE f[k + 1] = g[k + 1]
    OBVIOUS
  <2>1. k \in 0 .. n - 1 /\ k \in 0 .. Depth - 1 /\ k + 1 \in 1 .. n /\ k <= n
    BY <1>0, <1>1
  <2>2. f[k] = g[k] /\ q[k + 1] = a[k + 1]
    BY <1>6, <1>8, <2>1
  <2> QED
    BY <1>4, <1>5, <2>1, <2>2
<1>9. n \in S
  <2> HIDE DEF S
  <2> QED
    BY <1>7, <1>8, Induction
<1>10. f[n] = g[n]
  BY <1>9
<1>11. ReadFrom(file, 0, q) = f[n]
  BY <1>1, <1>2 DEF ReadFrom, Raws
<1> QED
  BY <1>1, <1>3, <1>10, <1>11

(* Beyond the nodes a reader stays where it is. *)
LEMMA ReadStays ==
    ASSUME NEW file, file.meta.node_count \in Nat, NEW a \in Addr, NEW m \in 0 .. Depth,
           NEW y \in Nat, y >= file.meta.node_count, Raws(file, 0, a)[m] = y
    PROVE  ReadFrom(file, 0, a) = y
<1>0. Depth \in Nat /\ Len(a) = Depth
  BY AddrBits
<1>1. PICK f : f = Raws(file, 0, a)
  OBVIOUS
<1>2. \A k \in 0 .. Depth - 1 : f[k + 1] = ReadStep(file, f[k], a[k + 1])
  BY <1>0, <1>1, RawsDef
<1>3. \A b : ReadStep(file, y, b) = y
  <2>1. PICK c \in Nat : c = file.meta.node_count
    OBVIOUS
  <2>2. y >= c
    BY <2>1
  <2>3. ~(y < c)
    BY ONLY <2>2, y \in Nat, c \in Nat
  <2> QED
    BY <2>1, <2>3 DEF ReadStep
<1> DEFINE S == {k \in Nat : m <= k /\ k <= Depth => f[k] = y}
<1>4. 0 \in S
  BY <1>0, <1>1
<1>5. ASSUME NEW k \in Nat, k \in S PROVE k + 1 \in S
  <2> SUFFICES ASSUME m <= k + 1, k + 1 <= Depth PROVE f[k + 1] = y
    OBVIOUS
  <2>1. CASE m = k + 1
    BY <1>1, <2>1
  <2>2. CASE m # k + 1
    <3>1. m <= k /\ k <= Depth /\ k \in 0 .. Depth - 1
      BY <1>0, <2>2
    <3>2. f[k] = y
      BY <1>5, <3>1
    <3> QED
      BY <1>2, <1>3, <3>1, <3>2
  <2> QED
    BY <2>1, <2>2
<1>6. f[Depth] = y
  <2>1. Depth \in S
    <3> HIDE DEF S
    <3> QED
      BY <1>0, <1>4, <1>5, Induction
  <2> QED
    BY <1>0, <2>1
<1> QED
  BY <1>0, <1>1, <1>6 DEF ReadFrom, Raws

(* An alias network leads the reader where the IPv4 zeros do. *)
LEMMA AliasLeads ==
    ASSUME IpVersion = "V6", NEW file, NEW us, NEW p, NEW offset, Holds(file, us, p, offset),
           NEW root, InPlace(us, root), NEW i \in 1 .. Len(AliasNets)
    PROVE  ReadFrom(file, 0, AliasNets[i]) = ReadFrom(file, 0, V4Zeros)
<1>0. /\ AliasNets[i] \in Network /\ Len(AliasNets[i]) \in 1 .. Depth
      /\ V4Depth \in 1 .. Depth /\ V4Zeros \in Network /\ Len(V4Zeros) = V4Depth /\ Depth \in Nat
  BY AliasNet, V4ZerosBits, DepthAssumption
<1>1. ReadFrom(file, 0, V4Zeros) = root - 1
  <2>1. PICK a \in Addr : Covers(V4Zeros, a)
    BY <1>0, AddressBelow
  <2>2. Stroll(us, a)[V4Depth] = Node(root) /\ V4Depth \in 0 .. Depth
    BY <1>0, <2>1 DEF InPlace
  <2>3. Raws(file, 0, a)[V4Depth] = root - 1
    BY <2>2, ReadNode
  <2> QED
    BY <1>0, <2>1, <2>3, ReadCut
<1>2. ReadFrom(file, 0, AliasNets[i]) = root - 1
  <2>1. PICK a \in Addr : Covers(AliasNets[i], a)
    BY <1>0, AddressBelow
  <2>2. PICK n \in 1 .. Depth : n = Len(AliasNets[i])
    BY <1>0
  <2>3. PICK m \in 0 .. Depth - 1 : m = n - 1 /\ m + 1 = n
    BY <1>0
  <2>4. Stroll(us, a)[n] = Alias(root) /\ \E e : Stroll(us, a)[n - 1] = Node(e)
    BY <2>1, <2>2 DEF InPlace
  <2>5. PICK e : Stroll(us, a)[m] = Node(e)
    BY <2>3, <2>4
  <2>6. Stroll(us, a)[m + 1] = Alias(root)
    BY <2>3, <2>4
  <2>7. Raws(file, 0, a)[m + 1] = root - 1
    BY <2>5, <2>6, ReadAlias
  <2> QED
    BY <1>0, <2>1, <2>2, <2>3, <2>7, ReadCut
<1> QED
  BY <1>1, <1>2

(* x is what an IPv4 reader finds: no address ends on a node, or on an alias. *)
Ends(us, a) == Rest(us, a).kind \in {"NoData", "Reserved", "Data"}

(* An alias form of an IPv4 address leads the reader where the address itself does. *)
LEMMA FormRead ==
    ASSUME IpVersion = "V6", NEW file, NEW us, NEW p, NEW offset, Holds(file, us, p, offset),
           NEW root, InPlace(us, root), NEW i \in 1 .. Len(AliasNets),
           NEW x \in [1 .. V4Bits -> Bit], Ends(us, TreePrefix([family |-> "V4", bits |-> x])),
           NEW a \in Forms(AliasNets[i], x)
    PROVE  Lookup(file, a) = LookupV4(file, x)
<1>1. PICK n \in Network : n = AliasNets[i]
  BY AliasNet
<1>2. a \in Addr /\ Covers(n \o x, a)
  BY <1>1 DEF Forms
<1>3. PICK c : c = n \o x
  OBVIOUS
<1>4. n \in Seq(Bit) /\ x \in Seq(Bit) /\ Len(a) = Depth /\ Depth \in Nat
  <2>1. V4Bits \in Nat
    BY WriterAssumption, DepthAssumption DEF V4Bits
  <2> QED
    BY <1>2, <2>1, NetworkBits, AddrBits, SeqDef
<1>5. c \in Seq(Bit)
  BY <1>3, <1>4
<1>6. Len(c) \in 0 .. Depth /\ c \in Network
  <2>1. Len(c) \in Nat /\ Len(c) <= Len(a)
    BY <1>2, <1>3, <1>5, LenProperties DEF Covers
  <2>2. Len(c) \in 0 .. Depth
    BY <1>4, <2>1
  <2>3. c \in [1 .. Len(c) -> Bit]
    BY <1>5, LenProperties
  <2> QED
    BY <2>2, <2>3 DEF Network
<1>7. PICK s : s = ReadFrom(file, 0, V4Zeros)
  OBVIOUS
<1>8. ReadFrom(file, 0, n) = s
  BY <1>1, <1>7, AliasLeads
<1>9. PICK y : y = ReadFrom(file, s, x)
  OBVIOUS
<1>10. ReadFrom(file, 0, c) = y
  <2>1. PICK start : start = 0
    OBVIOUS
  <2>2. Joined(n, x, c)
    BY <1>3 DEF Joined
  <2>3. ReadFrom(file, ReadFrom(file, start, n), x) = ReadFrom(file, start, c)
    BY <1>4, <2>2, ReadOn
  <2> QED
    BY <1>8, <1>9, <2>1, <2>3
<1>11. LookupV4(file, x) = Decoded(file, y)
  BY <1>7, <1>9 DEF LookupV4
<1>12. PICK d : d = TreePrefix([family |-> "V4", bits |-> x])
  OBVIOUS
<1>13. d \in Addr /\ ReadFrom(file, 0, d) = y
  <2>1. d \in Addr
    BY <1>12, V4Plain
  <2>2. d = V4Zeros \o x
    BY <1>12 DEF TreePrefix
  <2>3. PICK start, z : start = 0 /\ z = V4Zeros
    OBVIOUS
  <2>4. Joined(z, x, d) /\ z \in Seq(Bit)
    BY <2>2, <2>3, V4ZerosBits, NetworkBits DEF Joined
  <2>5. ReadFrom(file, ReadFrom(file, start, z), x) = ReadFrom(file, start, d)
    BY <1>4, <2>4, ReadOn
  <2> QED
    BY <1>7, <1>9, <2>1, <2>3, <2>5
<1>14. y \in Nat /\ y >= file.meta.node_count /\ file.meta.node_count \in Nat
  <2>1. PICK r : r = Rest(us, d)
    OBVIOUS
  <2>2. r.kind \in {"NoData", "Reserved", "Data"}
    BY <1>12, <2>1 DEF Ends
  <2>3. Numbers(y, r, Len(us), p, offset)
    BY <1>13, <2>1, <2>2, ReadStroll
  <2>4. Len(us) \in Nat /\ file.meta.node_count = Len(us)
    BY DEF Holds, AllPlaced
  <2>5. /\ Placed(r, Len(us), p) /\ y = Encode(r, Len(us), Gap, offset)
        /\ r.kind = "Data" => offset[r.arg] \in Nat
    BY <2>3 DEF Numbers, InSection
  <2>6. Leading(y, r, Len(us))
    BY <2>4, <2>5, EncodedPlace
  <2> QED
    BY <2>2, <2>4, <2>6 DEF Leading
<1>15. Raws(file, 0, a)[Len(c)] = y
  BY <1>2, <1>3, <1>6, <1>10, ReadCut
<1>16. ReadFrom(file, 0, a) = y
  BY <1>2, <1>6, <1>14, <1>15, ReadStays
<1> QED
  BY <1>11, <1>16 DEF Lookup

-----------------------------------------------------------------------------
(***************************************************************************)
(* The file.                                                               *)
(***************************************************************************)

(* Where no broader insert painted an alias network, nothing is in it. *)
LEMMA BlankAliases ==
    ASSUME IpVersion = "V6", TendedInv, ~AliasPainted, NEW i \in DOMAIN AliasNets
    PROVE  Blank(nodes, AliasNets[i])
<1>1. PICK t : t = Arena
  OBVIOUS
<1>2. PICK D : Sound(t, D)
  BY <1>1 DEF TendedInv, IInv
<1>3. t.nodes = nodes /\ t.values = values
  BY <1>1 DEF Arena
<1>4. PICK n \in Network : n = AliasNets[i]
  BY AliasNet
<1>5. ASSUME NEW a \in Addr, Covers(n, a) PROVE Rest(nodes, a) = NoData
  <2>1. PICK r : r = RecordAt(nodes, a)
    OBVIOUS
  <2>2. r \in {NoData, Reserved} \/ \E id \in 1 .. Len(t.values) : r = Data(id)
    BY <1>2, <1>3, <2>1, RecordAtSound
  <2>3. ASSUME NEW id \in 1 .. Len(t.values), r = Data(id) PROVE FALSE
    <3>1. Get(a) = t.values[id]
      <4>1. IInv
        BY DEF TendedInv
      <4>2. Get(a) = ValueOf(values, r)
        BY <2>1, <4>1, GetValue
      <4>3. r.kind = "Data" /\ r.arg = id
        BY <2>3, Kinds
      <4> QED
        BY <1>3, <4>2, <4>3 DEF ValueOf
    <3>2. t.values[id] \in Values
      BY <1>2, SoundTypes
    <3>3. InAlias(a)
      BY <1>4, <1>5 DEF InAlias
    <3> QED
      BY <3>1, <3>2, <3>3, WriterAssumption DEF AliasPainted
  <2>4. ASSUME r = Reserved PROVE FALSE
    <3>1. See(t, a).kind = "Reserved"
      BY <1>3, <2>1, <2>4, Kinds DEF See, View
    <3>2. PICK q \in Carved(options) : Covers(q, a)
      BY <1>1, <3>1 DEF TendedInv, OnlyCarved
    <3>3. PICK k \in DOMAIN ReservedList : q = TreePrefix(ReservedList[k])
      BY <3>2 DEF Carved
    <3>4. q \in Network
      BY <3>3, ReservedListAssumption, PrefixNetwork
    <3>5. Covers(n, q) \/ Covers(q, n)
      BY <1>5, <3>2, <3>4, NestedOrApart
    <3> QED
      BY <1>4, <3>3, <3>5, AliasNetsApart
  <2>5. Rest(nodes, a) = r
    BY <1>2, <1>3, <2>1, ArenaRest
  <2> QED
    BY <2>2, <2>3, <2>4, <2>5
<1> QED
  BY <1>4, <1>5 DEF Blank

(* The tree that build lays out has its aliases in their places. *)
LEMMA SnapshotInPlace ==
    ASSUME IpVersion = "V6", TendedInv, ~AliasPainted, LeftSpine(nodes, V4Depth) # NoNode,
           NEW o, o.aliasing, NEW us, us = Snapshot(o, Arena)
    PROVE  \E k : InPlace(us, k)
<1>1. PICK t : t = Arena
  OBVIOUS
<1>2. PICK D : Sound(t, D)
  BY <1>1 DEF TendedInv, IInv
<1>3. PICK p : p = Len(t.values)
  OBVIOUS
<1>4. PICK ns : ns = nodes
  OBVIOUS
<1>5. t.nodes = ns
  BY <1>1, <1>4 DEF Arena
<1>6. Fine(ns, D, p) /\ \A a \in Addr : Rest(ns, a) = RecordAt(ns, a)
  BY <1>2, <1>3, <1>5, ArenaFine, ArenaRest
<1>7. Busy(ns, {})
  BY <1>1, <1>5 DEF TendedInv, Tended
<1>8. \A i \in DOMAIN AliasNets : Blank(ns, AliasNets[i])
  BY <1>4, BlankAliases
<1>9. PICK root : root = LeftSpine(ns, V4Depth)
  OBVIOUS
<1>10. PICK ms : ms = InstallAliases(ns)
  OBVIOUS
<1>11. root \in Nat /\ Lined(ms, root, p, Len(AliasNets))
  BY <1>4, <1>6, <1>7, <1>8, <1>9, <1>10, AliasesLined
<1>12. /\ \E E : Fine(ms, E, p)
       /\ \A a \in Addr : ~InAlias(a) => Rest(ms, a) = Rest(ns, a)
  BY <1>6, <1>10, AliasesFine
<1>13. PICK E : Fine(ms, E, p)
  BY <1>12
<1>14. ASSUME NEW a \in Addr, ~InAlias(a) PROVE Rest(ms, a).kind # "Alias"
  <2>1. PICK r : r = RecordAt(ns, a)
    OBVIOUS
  <2>2. r \in {NoData, Reserved} \/ \E id \in 1 .. Len(t.values) : r = Data(id)
    BY <1>2, <1>5, <2>1, RecordAtSound
  <2>3. r.kind # "Alias"
    BY <2>2, Kinds
  <2>4. Rest(ms, a) = r
    BY <1>6, <1>12, <1>14, <2>1
  <2> QED
    BY <2>3, <2>4
<1>15. PICK rs : rs = Rooted(ms)
  OBVIOUS
<1>16. Fine(rs, E, p) /\ Thinned(ms, rs)
  BY <1>13, <1>15, RootedRightly
<1>17. InPlace(rs, root)
  BY <1>11, <1>14, <1>16, ThinnedInPlace
<1>18. us = RenumberReachable(rs)
  BY <1>1, <1>5, <1>10, <1>15 DEF Snapshot, Compact, Rooted
<1> QED
  BY <1>16, <1>17, <1>18, RenumberedInPlace

(***************************************************************************)
(* build, with aliases: where the alias networks were empty and the IPv4   *)
(* space has a node of its own, a query in an alias form finds what the    *)
(* plain IPv4 lookup finds: compaction leaves the way to each alias as it  *)
(* was, and renumbering leads it to the new number of the IPv4 root.       *)
(***************************************************************************)
THEOREM AliasesAlwaysAgree == Spec => []AliasesAgreeWhereInstalled
<1>1. TendedInv => AliasesAgreeWhereInstalled
  <2> SUFFICES ASSUME TendedInv, ~AliasPainted, LeftSpine(nodes, V4Depth) # NoNode,
                      IpVersion = "V6", options.aliasing,
                      NEW file, file = File, file # TooLarge, NEW i \in DOMAIN AliasNets,
                      NEW x \in [1 .. V4Bits -> Bit], NEW a \in Forms(AliasNets[i], x)
               PROVE  Lookup(file, a) = LookupV4(file, x)
    BY DEF AliasesAgreeWhereInstalled, AliasesAgree, Files
  <2>1. options.size \in Range(Limits) \cup {None}
    BY InvOptions DEF Options, TendedInv
  <2>2. PICK t : t = Arena
    OBVIOUS
  <2>3. PICK D : Sound(t, D)
    BY <2>2 DEF TendedInv, IInv
  <2>4. file = Built(options, t, Now)
    BY <2>2 DEF File, Arena
  <2>5. PICK us, ids, lens, offset, limit : Parts(options, t, file, us, ids, lens, offset, limit)
    BY <2>4, Zenon, BuiltParts
  <2>6. Holds(file, us, Len(t.values), offset)
    BY <2>1, <2>3, <2>5, BuiltHolds
  <2>7. us = Snapshot(options, t)
    BY <2>5 DEF Parts
  <2>8. PICK k : InPlace(us, k)
    BY <2>2, <2>7, SnapshotInPlace
  <2>9. Ends(us, TreePrefix([family |-> "V4", bits |-> x]))
    <3>1. PICK d : d = TreePrefix([family |-> "V4", bits |-> x])
      OBVIOUS
    <3>2. d \in Addr /\ ~InAlias(d)
      BY <3>1, V4Plain
    <3>3. Rest(us, d) = RecordAt(t.nodes, d)
      BY <2>3, <2>7, <3>2, SnapshotRest
    <3>4. RecordAt(t.nodes, d).kind \in {"NoData", "Reserved", "Data"}
      BY <2>3, <3>2, RecordAtSound, Kinds
    <3> QED
      BY <3>1, <3>3, <3>4 DEF Ends
  <2>10. i \in 1 .. Len(AliasNets)
    BY AliasNet
  <2> QED
    BY <2>6, <2>8, <2>9, <2>10, FormRead
<1>2. Spec => []TendedInv
  BY InitTended, StepTended, PTL DEF Spec
<1> QED
  BY <1>1, <1>2, PTL
=============================================================================
