-------------------------------- MODULE Build --------------------------------
(***************************************************************************)
(* The file that build of writer.rs makes of a writer, and load, which     *)
(* makes a writer of a file.  What a reader finds in the file is modelled  *)
(* from how the tests and load.rs use the maxminddb crate.                 *)
(***************************************************************************)
EXTENDS Writer, TreeFile

CONSTANTS Gap,          \* 16
          ValueLen      \* bytes of each value, encoded

ASSUME BuildAssumption ==
    /\ ValueLen \in [Values -> Nat \ {0}] /\ Gap \in Nat \ {0} /\ None \notin Nat
    /\ Limits \in Seq(Nat \ {0}) /\ Limits # << >>
    /\ \A i, j \in DOMAIN Limits : i < j => Limits[i] < Limits[j]

(* alias_networks: none of them lies in the IPv4 subtree or around it. *)
ASSUME AliasNetsAssumption ==
    IpVersion = "V6" =>
        /\ AliasNets \in Seq(Network)
        /\ \A i \in DOMAIN AliasNets :
               ~Covers(AliasNets[i], V4Zeros) /\ ~Covers(V4Zeros, AliasNets[i])

(***************************************************************************)
(* None of them contains another, or a network of reserved.rs, or lies in  *)
(* one, and the space beside each, as wide as the network, is not all      *)
(* alias space.                                                            *)
(***************************************************************************)
ASSUME AliasNetsApart ==
    IpVersion = "V6" =>
        /\ \A i, j \in DOMAIN AliasNets : Covers(AliasNets[i], AliasNets[j]) => i = j
        /\ \A i \in DOMAIN AliasNets, k \in DOMAIN ReservedList :
               /\ ~Covers(AliasNets[i], TreePrefix(ReservedList[k]))
               /\ ~Covers(TreePrefix(ReservedList[k]), AliasNets[i])
        /\ \A i \in DOMAIN AliasNets :
               \E a \in Addr :
                   /\ \A k \in 1 .. Len(AliasNets[i]) - 1 : a[k] = AliasNets[i][k]
                   /\ \A j \in DOMAIN AliasNets : ~Covers(AliasNets[j], a)

-----------------------------------------------------------------------------
(***************************************************************************)
(* build.                                                                  *)
(***************************************************************************)

(* Fault: the numbers the format leaves after the nodes are forgotten. *)
FitsWithoutGap(limit, count, len) == count + len < limit

(* fits_record_size *)
Fits(limit, count, len) == count + Gap + len < limit

TooLarge == [nodes |-> << >>, data |-> << >>, meta |-> [node_count |-> 0]]

(* pick_record_size: 0 when no size fits; a pinned size is taken as it is. *)
PickLimit(o, count, len) ==
    IF o.size # None THEN o.size
    ELSE Max({0} \cup {Limits[i] : i \in {k \in DOMAIN Limits :
                 /\ Fits(Limits[k], count, len)
                 /\ \A j \in 1 .. k - 1 : ~Fits(Limits[j], count, len)}})

(* Fault: values are laid out in the order in which the pool met them. *)
DataIdsByPool(tree) ==
    LET ids == ToSet(ReachableDataIds(tree))
    IN  SelectSeq([i \in 1 .. Max({0} \cup ids) |-> i], LAMBDA i : i \in ids)

DataIds(tree) == ReachableDataIds(tree)

(* Fault: the limit itself is let through. *)
AddressableToo(raw, limit) == \A i \in DOMAIN raw : \A b \in Bit : raw[i][b] <= limit

(* encode_record fails at the limit of the record size. *)
Addressable(raw, limit) == \A i \in DOMAIN raw : \A b \in Bit : raw[i][b] < limit

(* write_record_pair: the bits of the size that was chosen are all that is kept. *)
Packed(raw, limit) == [i \in DOMAIN raw |-> [b \in Bit |-> raw[i][b] % limit]]

(* u32::MAX, as DataOffset has it: the widest record holds one more. *)
MaxOffset == Limits[Len(Limits)] - 1

(* Bytes of the first k values of a section. *)
Total(lens, k) ==
    LET Sum[m \in 0 .. k] == IF m = 0 THEN 0 ELSE Sum[m - 1] + lens[m]
    IN  Sum[k]

(* Fault: the conversion cuts the offset to 32 bits. *)
OffsetCut(lens, k) == Total(lens, k - 1) % (MaxOffset + 1)

(* What push returns for the k-th value: u32_from_usize saturates. *)
Offset(lens, k) == Min({Total(lens, k - 1), MaxOffset})

(* build_epoch_secs *)
BuildEpoch(o, now) == LET t == IF o.epoch = None THEN now ELSE o.epoch IN IF t < 0 THEN 0 ELSE t

(* Metadata: the format version is always the same, and the node count a u32 already. *)
Metadata(o, count, limit, now) ==
    [texts |-> o.texts, ip_version |-> IpVersion, record_size |-> limit, node_count |-> count,
     build_epoch |-> BuildEpoch(o, now), inline |-> o.inline]

(* The tree as build lays it out: a copy of self.tree with the aliases, compacted. *)
Snapshot(o, t) ==
    Compact(IF IpVersion = "V6" /\ o.aliasing THEN InstallAliases(t.nodes) ELSE t.nodes)

(* The offset of each id, when its value is pushed in this order. *)
Offsets(ids, lens) ==
    [id \in ToSet(ids) |-> Offset(lens, CHOOSE k \in DOMAIN ids : ids[k] = id)]

(* What a reader finds at each offset. *)
Contents(offset, pool) ==
    [at \in Range(offset) |-> pool[CHOOSE id \in DOMAIN offset : offset[id] = at]]

(* Every record as a number, not yet cut to the record size. *)
Encoded(tree, offset) ==
    [i \in DOMAIN tree |-> [b \in Bit |-> Encode(tree[i][b], Len(tree), Gap, offset)]]

(* The file of these records, or TooLarge for Error::TreeTooLarge. *)
Written(raw, limit, data, meta) ==
    IF limit > 0 /\ Addressable(raw, limit)
    THEN [nodes |-> Packed(raw, limit), data |-> data, meta |-> meta]
    ELSE TooLarge

WithData(o, pool, now, tree, lens, offset) ==
    LET limit == PickLimit(o, Len(tree), Total(lens, Len(lens)))
    IN  Written(Encoded(tree, offset), limit, Contents(offset, pool),
                Metadata(o, Len(tree), limit, now))

WithIds(o, pool, now, tree, ids) ==
    LET lens == [k \in DOMAIN ids |-> ValueLen[pool[ids[k]]]]
    IN  WithData(o, pool, now, tree, lens, Offsets(ids, lens))

(* build at some time: first the tree, then the section of the values it reaches, then the records. *)
Built(o, t, now) ==
    CHOOSE file \in {WithIds(o, t.values, now, tree, DataIds(tree)) : tree \in {Snapshot(o, t)}} : TRUE

(* The times of two builds. *)
Now   == 1
Later == 2

File == Built(options, [nodes |-> nodes, values |-> values], Now)

(* The file that build makes, if it makes one. *)
Files == {File} \ {TooLarge}

-----------------------------------------------------------------------------
(***************************************************************************)
(* A reader of the file.                                                   *)
(***************************************************************************)
ReadStep(file, raw, b) == IF raw < file.meta.node_count THEN file.nodes[raw + 1][b] ELSE raw

ReadFrom(file, start, bits) ==
    LET Raw[k \in 0 .. Len(bits)] == IF k = 0 THEN start ELSE ReadStep(file, Raw[k - 1], bits[k])
    IN  Raw[Len(bits)]

(* The value a raw record stands for; an address never ends on a node. *)
Decoded(file, raw) ==
    LET count == file.meta.node_count
    IN  IF raw = count THEN None
        ELSE IF raw - count - Gap \in DOMAIN file.data THEN file.data[raw - count - Gap]
        ELSE "InvalidDatabase"

Lookup(file, a) == Decoded(file, ReadFrom(file, 0, a))

(* find_ipv4_start, then one step for each bit of the IPv4 address. *)
LookupV4(file, x) ==
    Decoded(file, ReadFrom(file, ReadFrom(file, 0, IF IpVersion = "V6" THEN V4Zeros ELSE << >>), x))

-----------------------------------------------------------------------------
(***************************************************************************)
(* Properties.                                                             *)
(***************************************************************************)

(* Writer::get of an address, as a value. *)
Get(a) == LET id == TreeGet(nodes, a) IN IF id = None THEN None ELSE values[id]

InAlias(a) == IpVersion = "V6" /\ \E i \in DOMAIN AliasNets : Covers(AliasNets[i], a)

(* file, built with o, answers the addresses that Writer::get answers as it does. *)
Answers(o, file) ==
    /\ \A a \in Addr : ~(o.aliasing /\ InAlias(a)) => Lookup(file, a) = Get(a)
    /\ \A x \in [1 .. V4Bits -> Bit] :
           LookupV4(file, x) = Get(TreePrefix([family |-> "V4", bits |-> x]))

(***************************************************************************)
(* A file that is built answers every address outside the alias networks   *)
(* as Writer::get did, and an IPv4 address looked up as such or as ::a.    *)
(***************************************************************************)
FileAnswers == \A file \in Files : Answers(options, file)

(***************************************************************************)
(* So does a file of a pinned size, for which nothing was checked but the  *)
(* single records: build fails, or no record was cut short.                *)
(***************************************************************************)
PinnedSizeAnswers ==
    LET pinned(i) == Built([options EXCEPT !.size = Limits[i]], [nodes |-> nodes, values |-> values], Now)
    IN  \A file \in {pinned(i) : i \in DOMAIN Limits} \ {TooLarge} : Answers(options, file)

(* The alias form of IPv4 address x, with any address bits after it. *)
Forms(n, x) == {a \in Addr : Covers(n \o x, a)}

(* "queries arriving in IPv4-mapped, 6to4 and Teredo form resolve to the same data as the plain IPv4 lookup" *)
AliasesAgree ==
    IpVersion = "V6" /\ options.aliasing =>
        \A file \in Files, i \in DOMAIN AliasNets, x \in [1 .. V4Bits -> Bit] :
            \A a \in Forms(AliasNets[i], x) : Lookup(file, a) = LookupV4(file, x)

(* Some value was inserted over a whole alias network. *)
AliasPainted == \E a \in Addr : InAlias(a) /\ Get(a) # None

(***************************************************************************)
(* Aliased queries agree with the plain IPv4 lookup as long as no broader  *)
(* insert has put data in an alias network and the IPv4 space is more than *)
(* a single leaf.                                                          *)
(***************************************************************************)
AliasesAgreeWhereInstalled ==
    ~AliasPainted /\ LeftSpine(nodes, V4Depth) # NoNode => AliasesAgree

(***************************************************************************)
(* "A net that contains a blocked network is allowed - it is carved out at *)
(* build time": once there is an IPv4 root for the aliases to lead to,     *)
(* alias space answers only what an IPv4 lookup answers.                   *)
(***************************************************************************)
AliasSpaceCarved ==
    options.aliasing /\ LeftSpine(nodes, V4Depth) # NoNode =>
        \A file \in Files, a \in Addr :
            InAlias(a) => Lookup(file, a) \in {None} \cup {LookupV4(file, x) : x \in [1 .. V4Bits -> Bit]}

(* A fresh writer that was given every address's answer, one host route at a time. *)
AllAddresses ==
    [m \in 1 .. 2 ^ Depth |-> [k \in 1 .. Depth |-> ((m - 1) \div 2 ^ (Depth - k)) % 2]]

Replayed ==
    LET put(t, a) == IF Get(a) = None THEN t
                     ELSE ValueStored(t, [family |-> "V6", bits |-> a], Get(a))
    IN  FoldLeft(put, [nodes |-> Fresh(options), values |-> << >>], AllAddresses)

(***************************************************************************)
(* The file depends on what the addresses hold and not on how it came to   *)
(* be: the order of the inserts, splits that were merged back, values that *)
(* were overwritten and the ids that the pool gave leave no trace in it.   *)
(***************************************************************************)
Reproducible == File = Built(options, Replayed, Now)

(***************************************************************************)
(* A size that pick_record_size chose holds every record: when build fails *)
(* with automatic selection, no size was chosen.                           *)
(***************************************************************************)
ChosenSizeHolds ==
    options.size = None /\ File = TooLarge =>
        \A tree \in {Snapshot(options, [nodes |-> nodes])} :
            LET lens == [k \in DOMAIN DataIds(tree) |-> ValueLen[values[DataIds(tree)[k]]]]
            IN  PickLimit(options, Len(tree), Total(lens, Len(lens))) = 0

-----------------------------------------------------------------------------
(***************************************************************************)
(* load: a default writer, given every network of the file that has data   *)
(* and was not reached through an alias.                                   *)
(***************************************************************************)
NetworksBelow(file) ==
    LET aliased(raw, path) == IpVersion = "V6" /\ path # V4Zeros
                                /\ raw = ReadFrom(file, 0, V4Zeros) /\ raw > 0
        Item(raw, path) == [at |-> path, value |-> Decoded(file, raw)]
        Below[levels \in 0 .. Depth] == [raw \in Nat |-> [path \in Network |->
            IF raw >= file.meta.node_count
            THEN IF Decoded(file, raw) = None THEN << >> ELSE <<Item(raw, path)>>
            ELSE IF aliased(raw, path) \/ levels = 0 THEN << >>
            ELSE Below[levels - 1][file.nodes[raw + 1][0]][Append(path, 0)]
                   \o Below[levels - 1][file.nodes[raw + 1][1]][Append(path, 1)]]]
    IN  Below[Depth][0][<< >>]

(* What load takes from the metadata; everything else is a default. *)
Defaults(file) ==
    [aliasing |-> TRUE, excluded |-> FALSE, size |-> None, inline |-> FALSE, epoch |-> None,
     texts |-> file.meta.texts]

(* Fault: the loaded writer gets the time when it is built. *)
LoadOptionsUndated(file) == [Defaults(file) EXCEPT !.size = file.meta.record_size]

LoadOptions(file) ==
    [Defaults(file) EXCEPT !.size = file.meta.record_size, !.epoch = file.meta.build_epoch]

(* The item's network: a V6 database holds its IPv4 networks below ::/96. *)
ItemNet(path) ==
    IF IpVersion = "V4" THEN [family |-> "V4", bits |-> path]
    ELSE IF Covers(V4Zeros, path) THEN [family |-> "V4", bits |-> SubSeq(path, V4Depth + 1, Len(path))]
    ELSE [family |-> "V6", bits |-> path]

(* `?' on the first insert that is refused. *)
Loaded(file) ==
    LET o == LoadOptions(file)
        put(w, item) ==
            IF w.result # "ok" THEN w
            ELSE IF Outcome(o, ItemNet(item.at)) # "ok" THEN [w EXCEPT !.result = Outcome(o, ItemNet(item.at))]
            ELSE [result |-> "ok", tree |-> ValueStored(w.tree, ItemNet(item.at), item.value)]
    IN  FoldLeft(put,
                 [result |-> "ok", tree |-> [nodes |-> Fresh(o), values |-> << >>]],
                 NetworksBelow(file))

(***************************************************************************)
(* load refuses a file only for data that lies in an alias network.  What  *)
(* it loads builds the same file again, at the record size and the time it *)
(* read, but for options that the format does not store: reserved networks *)
(* that were kept out leave no trace, aliases come back, the metadata uses *)
(* pointers again.  The answers, and the metadata that is loaded, are the  *)
(* same in any case, if the file fits in the record size with the aliases. *)
(***************************************************************************)
LoadRoundTrip ==
    \A file \in Files : \A w \in {Loaded(file)} :
        \/ w.result = "AliasedNetwork" /\ AliasPainted
        \/ /\ w.result = "ok"
           /\ \A again \in {Built(LoadOptions(file), w.tree, Later)} :
                  /\ options.aliasing /\ ~options.excluded => again = [file EXCEPT !.meta.inline = FALSE]
                  /\ again # TooLarge => Answers(LoadOptions(file), again)
                                         /\ again.meta.build_epoch = file.meta.build_epoch
=============================================================================
