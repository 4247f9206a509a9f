# TLA+ models of mmdb-writer

`mmdb-writer` builds MaxMind DB files: a caller inserts values at IP networks,
the crate keeps them in a binary tree, and `to_bytes` turns the tree into a file
that any reader walks bit by bit. This directory holds TLA+ modules that model
that program, the TLC configurations that check them on small instances, and
proofs that TLAPS checks for every instance.

The program is sequential: every mutating call takes `&mut self`, there are no
threads, no callbacks out of a call other than the caller's closure, and nothing
is persisted between calls. What makes it hard is history: trees that were
split, painted, merged and re-split by any earlier sequence of inserts; values
that are merged with whatever earlier calls left; recursions that may stop half
way; and a file format whose bit fields have boundaries that no test of ordinary
size comes near.

## 1. The system

| part | source | state | operations |
|---|---|---|---|
| search tree | `tree.rs` | `nodes`, a growing vector of record pairs; a record is NoData, Data(id), Node, FixedNode, Alias or Reserved | `insert`, `get`, `paint_reserved`, `install_ipv4_aliases`, `compact`, `reachable_data_ids`, `fits_record_size`, `serialize` |
| writer | `writer.rs` | the tree, the value pool, the options | the builder, `insert`, `insert_value`, `insert_with`, `insert_merged`, `insert_value_merged`, `insert_range`, `get`, `to_bytes`, `write_to` |
| networks and ranges | `net.rs` | none | `to_tree_prefix`, `range_to_networks`, `alias_networks` |
| reserved networks | `reserved.rs` | two constant lists | `networks` |
| value pool | `pool.rs` | values by id and ids by value | `intern`, `get` |
| data section | `data_section.rs` | bytes, dedup table, `no_pointers` | `push` and, below it, `emit_inline`, `encode`, `write_control_byte`, `write_pointer` |
| metadata | `metadata.rs` | none | `to_bytes`: one push into a section of its own |
| record sizes, options | `record_size.rs`, `options.rs` | what the builder was told, fixed for the writer's life | widths, limits, switches |
| values and merging | `value.rs` | none | constructors, `From`, equality and hashing by bits, `merge_top_level`, `merge_deep` |
| loading | `load.rs` | none | `load`: the networks of a file are inserted into a new writer, its metadata into the builder |
| serde | `ser.rs`, `value/serde_impls.rs` | the compounds that are open, each with its elements or entries and the pending key of a map | Rust values to `Value` and back |

How they interact. The caller talks to the writer only. An insert asks
`ensure_insertable` (networks, reserved lists, options), maps the network to a
tree prefix, interns the value and hands the tree a closure from an old value id
to a new one; `insert_with` wraps the caller's closure so that the pool is read
and extended inside the tree's recursion. `build` copies the tree, installs the
aliases on the copy, compacts and renumbers it, pushes the values that are left
into a data section in the order of the new tree, picks a record size, and
encodes. `load` drives the same inserts from a reader's iteration over a file.
`insert` and `insert_merged` first drive `ValueSerializer` through the caller's
`Serialize` impl, which calls back part by part; the value that comes out is
stored, or merged leaf by leaf with what the pool holds.

What is hard, and what makes each part correct:

- **insert** descends bit by bit, turns leaves above the prefix end into nodes,
  broadcasts to both children below it, merges equal siblings on the way back,
  and returns through all of that with `?` when a node cannot be allocated.
  Correct means: exactly the addresses of the network change, each by one
  application of the closure, reserved leaves stay, a failed insert changes no
  address, and the live records stay a tree. A network that is a single address
  needs a node *below* the last bit for as long as the insert runs.
- **aliases and markers** are installed around whatever is there already: history
  decides whether there is an IPv4 root to alias and room for an alias.
- **compaction** must collapse everything but the node that aliases point at, and
  renumber what it keeps in a way that depends on the contents only.
- **serialization** checks sizes twice, in two different ways, and must never let
  a record be cut short.
- **deduplication** compares the price of a pointer with the length of an earlier
  emission; the length must be right and the pointer must lead to the value.
- **bit fields**: four size layouts and four pointer classes with biases, integers
  that lose their leading zeros, three node layouts, one with a byte that two
  records share, and offsets that saturate.
- **the serializer** meets keys without values, values without keys, absent parts
  and errors deep inside, from any `Serialize` impl; **the pool** must know NaN
  again and keep the two zeros apart; **merges** must keep every path that nothing
  new stands in the way of.
- **ranges**: shifts by the full width of `u128`, and a last block that ends at
  the last address of the space.
- **load** replays a file under options that may differ from the file's writer's.

## 2. The modules

```
BitPaths --- Leaves --- AddressMap               what an insert promises
   |            \-- TreeInsert (INSTANCE AddressMap) -- MCTreeInsert
   |                   \-- TreeInsertProofs
   \-- Tree --- Writer (INSTANCE AddressMap) ---------- WriterProofs
          \        \-- Build ------------------------- MCWriter, BuildProofs
           \-- TreeFile --/
Values --- Serializer --- ValueInsert --------------- MCValues, ValueProofs
RangeSplit ---------------------------------------- RangeSplitProofs
Wire --------------- MCWire --\                     WireProofs (Wire and NodeBytes)
NodeBytes ------------------- MCSections
DataSection --- DataReader -- MCDataReader          DataReaderProofs
InductionLemmas (cited by RangeSplitProofs, DataReaderProofs, ValueProofs,
WriterProofs and, which extends WriterProofs, BuildProofs)
```

- **BitPaths**: bits, networks and addresses as bit sequences of a space of
  `Depth` bits (32 or 128), and when one covers another. A `Path` may be one bit
  longer than an address and a `Point` is an address with one more bit, because
  the code's tree may be a level deeper than its addresses.
- **Leaves**: what a leaf may hold, and a closure as a relation: for each old
  value, the set of answers it may give. `op` is an `FnMut`, so its answer may
  depend on its captures; `PureOps` says that every closure has one answer each.
- **AddressMap**: the abstract specification. A table from addresses to leaves;
  one action, an insert that applies a closure to every address of a network in
  one step and carves out reserved space.
- **TreeInsert**: `Tree::insert` one record visit at a time. A record is named by
  the bits that lead to it (`slot`), since live nodes have one parent; the call
  stack is the path `at` being visited together with `phase`, since the frames of
  `insert_at_node`/`insert_at_record` are its prefixes. One action per arm of
  `insert_at_record` (`VisitNode`, `VisitReserved`, `ApplyOp`, `Descend`), one
  for the error of `alloc_node` (`AllocFails`), and one for each way a frame
  returns (`VisitRight`, `MergeNode`, `Finish`). `allocated` counts nodes that
  were ever allocated, as `nodes.len()` does; `MaxNodes` is 2^32.
- **Tree**: the same tree with its node vector and indices, and what the calls of a
  writer do to it: insert, the markers of reserved networks, `get`. An insert is one
  operator here; `TreeInsert` is the reason why that is enough, and the one-parent
  rule it relies on is a conjunct of `Writer!TypeOK`. The recursion of
  `insert_at_node` is a function of the levels that are left (`Inserting`), so that
  it can be reasoned about. **TreeFile** has what `tree.rs` does to the copy that is
  serialized: aliases, `compact`, renumbering, the numbers of records.
- **Writer**: the state of a writer is `options`, `nodes` and `values`. The options
  are chosen at the start and kept, as by the builder. Actions are the calls:
  `InsertValue`, `InsertWith` (with any function as its closure, which includes
  the merge strategies), `InsertRange` and `Refused`. A range is given as the
  networks that `range_to_networks` makes of it, which do not nest (that is
  `RangeSplit`'s to show). The lists of reserved networks are a constant; none of
  them nests in another and none is the whole space.
- **Build**: `Built` is `build`, an operator of a writer's state and the time that
  returns a file or `TooLarge`; its stages are those of the code: `Snapshot` (the
  copy with its aliases, compacted), `DataIds`, `Offsets` (the sum of what was
  pushed before, saturated at `MaxOffset`), `PickLimit`, `Encoded`, `Written` and
  `Metadata`. A reader of the file (`Lookup`, `LookupV4`, `NetworksBelow`) is
  modelled from how the tests and `load.rs` use the `maxminddb` crate, and `Loaded`
  is `load` with the options it makes of the metadata (`LoadOptions`). The bits of a
  record that `write_record_pair` keeps are `Packed`; its bytes are in NodeBytes.
- **Values**: `Value` as a type, an atom and items (those of a map are a function of
  its keys); `From` and the constructors, the equality by bits and the hash, and the
  two merges. What recurses in the code is a function on the values that nest at most
  `n` deep, for `n` up to `Nesting`. **Serializer**: the trait
  methods of `ser.rs` as actions over a stack of frames, one for every open
  `SeqSer`, `MapSer` and so on; the caller's data is the tree of calls that its
  `Serialize` impl makes. `AsData` is `Serialize for Value`, `Visited` the visitor
  behind `Deserialize` (with serde's default for a `char`, and `String` as the type of a
  map's keys), and `Projection` what the value constructors would build
  of the same data: the reference definition. **ValueInsert** composes both with
  the pool and the strategies of `insert_merged` over a table from addresses to
  ids, which is what `AddressMap` promises of the tree.
- **RangeSplit**: the loops of `range_to_networks` and `range_to_cidrs`, with a word
  whose width is a constant, one action per branch of the code; a shift by the
  whole width is a branch (`ShiftPanics`).
- **Wire**: control bytes, the type byte of the extended types, trimmed integers and
  pointers byte by byte with the real numbers of the format, and a reader of them.
- **NodeBytes**: the loop of `Tree::serialize` with the three layouts of
  `write_record_pair`, the check of each record, and a reader that multiplies an
  index by the node length. `MCSections` puts it beside Wire: the two buffers that
  `build` fills are independent, so that a behaviour fills one of them.
- **DataSection**: the dedup table, the pointer-or-inline decision and the recursion
  of `encode`, one header at a time. A value is a name, the length of its header
  and payload, and its items. `noPointers` is chosen at the start, so both the
  data section and the section of the metadata are covered. **DataReader** is the
  recursive reader of it: the reader of depth `d` leaves what is nested to the
  reader of depth `d - 1`, so that it is a function and can be reasoned about.

Where an operator in a module is preceded by a comment that begins with *Fault*,
it is a wrong variant of the definition below it, there to test that the
properties notice it. No specification uses one.

## 3. The runs

Passing runs find no error; a run that is expected to violate its property shows
a disagreement between the code and something the repository says of it.

| run | instance | what it shows |
|---|---|---|
| `insert_pure` | depth 2, two ids, closures that set, clear and compute, two adjacent reserved host routes, 8 nodes | the tree stays a tree in mid-insert and after a failed allocation (`TreeShape`), nothing outside the network changes (`OutsideUntouched`); `AtomicInsert`: `TreeInsert` implements `AddressMap`, and the atomic step is the insert of the call's own network and closure; `InsertReturns`; after a call every address has a leaf within its bits (`EveryAddressResolves`) and the merge on the way back left no two equal siblings (`MergedWhereWalked`) |
| `range_split` | a 5-bit word, a 3-bit IPv4 space, every pair of endpoints | `MinimalCoverElsewhere`, `GapFree` in every state of the loop, `Terminates` |
| `range_from_zero` (violation) | 4 and 2 bits | a range from `::` to below the last address shifts by the whole word |
| `writer_ipv6` | 4-bit IPv6 over 1-bit IPv4, three calls, by writers of three kinds: default, reserved networks excluded, aliases off with inline metadata | see below |
| `ipv4_sizes` | 3-bit IPv4, reserved networks excluded, four calls, record limits 9, 11 and 13, a value of 13 bytes | `ChosenSizeHolds`, `PinnedSizeAnswers`: no file has a record cut short, offsets that saturate included; `RangeStopsAtRefusal` in reserved space |
| `alias_whole_ipv4` (violation) | the same IPv6 space, IPv4 networks only | one value for all of IPv4 leaves nothing to alias |
| `alias_painted` (violation) | the same IPv6 space | beside IPv4 data, data over a whole alias network stays in the file |
| `wire_headers` | both sides of every boundary, two headers or two nodes in a row | headers read back as written, integers digit by digit (`NumbersReadBack`), a pointer costs what `pointer_bytes` says; both records of a node are found by its index (`NodesReadBack`) |
| `extended_sizes` (violation) | arrays of 27 to 30 elements | the size bytes of an extended type stand in front of the type byte |
| `size_overflow` (violation) | sizes from 2^24 + 65 820 on | the widest size field overflows |
| `values` | two inserts over two addresses by every strategy, 25 kinds of data | see below |
| `data_section` | ten nested values, four pushes, class ends scaled to 5, 14, 24 | what push returns decodes to what was pushed; pointers lead to headers and only save bytes; a copy costs what its entry says |

`writer_ipv6` asks six questions of every history of three calls. In every
state, the file that it builds answers each address outside the alias networks as
`Writer::get` does (`FileAnswers`), aliased forms answer as the plain IPv4 lookup
where aliases can be installed (`AliasesAgreeWhereInstalled`), the file is that of
a fresh writer that was told each address's value in ascending order
(`Reproducible`), and `load` either refuses the file because of data in alias
space or gives a writer that builds the same file at the same build time, or,
where options are lost on the way, one with the same answers (`LoadRoundTrip`).
Each step is a step of `AddressMap` (`LaterInsertsWin`), and a range stores a
beginning of itself (`RangeStopsAtRefusal`).

`values` runs the serializer call by call over data that calls every trait
method, in the orders that derived impls have and in those that only a
hand-written one has (a key twice, a key without a value, a value without a key,
errors inside). What the serializer returns is what the constructors would build
of the data without its absent parts, or the first error (`Projected`); what is
stored comes back bit for bit through serde (`Transparent`); no value is stored
twice (`StoredOnce`); and each address of the network gets what its strategy
promises of its own old value, path by path, while no other address changes and
none if the call fails (`MergesPathwise`). The second insert may be of a value
that `get` returned.

### Bounds, and why they are enough

The tree code looks at an address only through its bits, so the space is scaled:
what matters is that networks above, at, below and beside each special place
exist. Depth 2 has a record at the root, one in the middle and the level below
the last bit. Four bits of IPv6 over one of IPv4 leave room for an alias network
beside the IPv4 root and two elsewhere, one of them with an address below its
alias, and for networks that cover both an alias and something else. Two values
suffice to tell same from different; a third insert is needed for the histories
of interest (populate, cover, uncover). `MaxCalls` bounds the number of calls;
`insert_pure` needs no such bound, since its calls are bounded by the nodes that
were ever allocated and go on for ever without allocating. Closures with state
are not part of the runs: the theorems of section 4 about them have no bound.
`MaxNodes` is small so that `alloc_node` fails within a few calls, at every place
of a walk.

The record limits of `ipv4_sizes` lie inside the range of sizes that the
instance's files have. `Gap`
stands for 16 and `ValueLen` for the bytes of a value; the value of 13 bytes fills
a section up to the last offset, so that the next one saturates. Class ends of
`data_section` are scaled so that a handful of values reaches the last class,
`DepthLimit` is that of the most nested value;
`Wire`, by contrast, uses the real numbers, up to what TLC's integers hold, and
its theorems cover the rest, and so does NodeBytes with the limits of 24 and 28
bits on both sides.

In `values`, keys, texts and numbers are small integers (a key and an array index
must not be equal in TLC, and are not), and `I32Max` is 1 so that an `i8` and an
`u8` meet on both sides of the line that decodes an integer as signed. Two inserts
(`MaxInserts`) have every strategy merge every kind of value with every other;
the data nests three levels deep (`Nesting` counts from 0), one more than
`merge_top_level` looks at. The theorems of section 4 have no such bounds: `Texts` is
any finite set, `Nesting` any number, `Data` anything that a caller can make.

`range_split` takes every pair of endpoints; a word of five bits has all the
alignments and ends that longer words have, in both a space as wide as the word
and a narrower one.

### Fairness and stopping

`TreeInsert` has `WF_vars(Step)`: a call that has been made runs to its end,
since nothing in the code can suspend it (it is a recursion without loops that
calls only the caller's closure, which is assumed to return). No fairness is
assumed of the callers. `RangeSplit` has `WF_vars(Next)`: it is one sequential
call. The other specifications state safety only.

`CHECK_DEADLOCK FALSE` is set where a system really stops: `RangeSplit` returns
from its only call, and the other modules run out of the calls, pushes or headers
that their bounds allow. The run of `TreeInsert` checks for deadlock.

## 4. What is proved

TLAPS checks these with no bound on the constants but their named assumptions.

**TreeInsertProofs** assumes of the constants what `BitPaths`, `Leaves` and
`TreeInsert` state: a positive depth, closures that answer with ids or `None`,
reserved networks that do not nest and are not the whole space (true of
`reserved.rs`), and enough nodes for the painted tree (the `.expect` in
`writer.rs`).

- `TypeCorrect`: `Spec => []TypeOK`.
- `ShapeCorrect`: `Spec => []TreeShape`, for closures with state too.
- `Isolation`: `Spec => OutsideUntouched`, for stateful closures too.
- `Refinement`: under `PureOps`, `Spec => AtomicInsert`.

The inductive invariant is `IInv == TypeOK /\ TreeShape`. None of the parts of
`TreeShape` is inductive alone: that a split or a merge keeps the tree a tree
(`PrefixClosed`, `Resolves`) rests on the recursion standing on a live record
(`CursorOK`), and that the recursion comes back to a live record rests on the
tree being one. Isolation follows because `CursorOK` keeps `at` comparable with
the network, and a split copies a leaf to both of its children. For the
refinement the atomic step is the one in which the walk passes the end of its
prefix (`VisitNode` or `Descend`, or `Insert` itself for the empty prefix). From
there to the end `Promised` gives each address that the frames have still to
reach (`Pending`) the result it is going to have; each step must then leave
`Promised` as it is, and a failed allocation can only come before it.

The same module has two invariants of what an insert leaves behind, on the same
assumptions:

- `MergedAfterInsert`: `Spec => []MergedWhereWalked`, for stateful closures too.
  The invariant says that every node that the walk has already come back from
  (`Walked`: to the left of `at` below the network and, once a frame returns, from
  `at` down) has two children that differ or one that is a node (`WalkedMerged`). A broadcast
  comes back from a node only by `MergeNode`, which compares its two records after
  both were written.
- `AddressesResolve`: under `PureOps`, `Spec => []EveryAddressResolves`. A node at
  depth `Depth` exists only as `net` itself while the call is below it
  (`DeepNodes`), and its two records hold either the two copies of the split leaf
  or, one after the other, the closure's one answer (`LastLevel`), so that they
  are equal when the frame returns and the node is merged away. This is where the
  purity of the closure is needed; a closure with state breaks it (section 5).

**WireProofs**: `WritesBytes`, `ReadsBack`, `NumbersKept` and `Priced`, for every
offset below 2^32, every size that the format holds and every integer of every
width. The invariant says that the bytes from
each header to the next are the code of that header; appending to a sequence does
not disturb it, and the decoding of a code is arithmetic in each class. For the
node section, `NodesInWholeBytes` and `RecordsKept`: every record of every tree
reads back in each record size, for every number that `encode_record` lets
through. A node takes `NodeLength` bytes, so that appending one leaves those before
it where a reader seeks them, and the bytes of a record, a nibble of the middle
byte included, add up to the record (`BytesHold`, `HalvesHold`).

**DataReaderProofs** begins with the section itself: `ResultsLead` (what `push` returns and the table keeps are
offsets of headers of the very value, in a section without holes) and
`PointersLead` (no pointer leads to a pointer, or forward), for all values, class
ends and sequences of pushes. The invariant adds that every frame of the recursion
stands at its value's header (`FramesWritten`): a new entry is that of the
innermost frame, and a new pointer leads where an entry does.

There too, `CopiesPriced`: a copy costs what the entry of its value
says (`CopiesCostTheSame`), for all values, of whatever nesting, and class ends.
An entry is made when its value is first written, and by the time of a copy some of
its items have become known that were not then, so that a pointer may stand where
the first emission spelt an item out; why should both be as long? The invariant
(`Costed`) says that there is a `Book` with the price of each item of every value
that gets copied (its entry's length, or a pointer where that is shorter), and that
each frame on the stack has spent the prices of its items so far (`Sound`). A first
emission may have spent more, on an item that became known in it and was spelt out
though a pointer to it is shorter; but then the value around it, which begins
further to the front and is longer still, is one that a pointer is shorter for, and
is never copied. This rests on `pointer_bytes` not falling as the offset grows
(`PointersCost`).

What a reader finds needs besides that values are finite:
what a value contains is nested less deep (`Height`) than it, and no value deeper
than the reader goes (`DepthLimit`).

- `ReadsBack`: `Spec => []DecodesBack`. What `push` returned decodes to what was
  pushed, and each entry of the table decodes to its value and ends where its
  length says, in the middle of a later push too.
- `PointersSave`: `Spec => []PointersPay`. A section is no larger than its values
  written out, and without pointers exactly that large.

The inductive invariant `Spoken` is about what a reader finds in the part that is
written: headers stand where they say and in front of the end (`Placed`), what an
entry's bytes spell is its value, and they end where its length says (`Entered`),
what has been returned spells its value (`Returned`), behind the header of each
frame stand its items up to the one in work, which the next frame encodes
(`Parts`), and no value, whole or in part, takes more bytes than written out
(`Pays`, and the last conjunct for the pushes). A token is never changed once written, so a reader of
a longer section finds what it found before (`SameStart`); that a pointer leads to
the value meant is `PointersAim` and `TypeOK`. The reader of depth `d` agrees with
itself at every greater depth on values that are not so deep, by induction on `d`.

**RangeSplitProofs**: `GapFreeAlways` and `MinimalCoverAlways`, for every word
width, both families and every pair of endpoints, mixed and reversed ones
included, and `::` with an end below the last address excepted (section 5). The
invariant of the loop says that what was emitted is gap free up to the current
start and maximal in the range, that `size` is at most the alignment of the start,
and that no block larger than `2^size` at the start fits. That the emitted
networks are *all* the maximal ones follows as two aligned networks nest or are
disjoint, of which the range is made. Powers of two are a recursive function
(`Pow2`), whose laws (`Pow2Def`, its monotony, and what divides what) are proved.

**WriterProofs** is about the arena itself: a growing vector of nodes that name each
other by index, in which splits add nodes and merges leave garbage behind. It assumes
of the constants what `Writer` states: a positive depth, reserved networks that do not
nest and are not the whole space, ranges whose networks do not nest, closures that
answer with values or `None`.

- `ArenaIsTree`: `Spec => []IInv`, and from it `WriterTypeOK`: `Spec => []TypeOK`.
- `LaterInsertsAlwaysWin`: `Spec => LaterInsertsWin`. The table that `get` reads off
  the arena starts with the reserved networks carved out, and `insert_value` and
  `insert_with` do to it what `AddressMap` says of an insert.
- `RangeAlwaysStops`: `Spec => RangeStopsAtRefusal`.

The invariant gives every node of the arena, reachable or not, a depth (`Sound`): the
root has depth 0, a record is a leaf that the pool knows or leads to a node one deeper
and above the last bit, no two records lead to one node, and no value has two ids.
That there is such a depth is what makes a walk end, and garbage needs it too, since
an orphan is still a record's target in the eyes of the one-parent rule. An insert is
a recursion, so what it does is shown by induction on the levels that are left
(`VisitsRightly`): a visit at node `i` keeps everything less deep than `i` (`Kept`),
only adds to the arena (`Grown`), and changes what the addresses see that walk through
`i` and lie below the network, by the closure's answer, and no others (`NodeVisited`).
Splits and merges are steps that no address sees (`SplitStep`, `MergeStep`); the one
that is special is the node below the last bit that a host route is given and loses
again in the same visit (`HostStep`), to which the depth of the invariant does not
reach. The start needs more, as `install_marker` gives up where it meets a leaf: while
the reserved lists are painted, every node but the root is there for some reserved
address below it (`Painting`, `Marking`), so that a marker that nests with none before
it finds its place empty (`MarkNetwork`).

What aliases need of the tree besides is in `TendedInv`, an invariant too
(`InitTended`, `StepTended`). No record leads to a node that holds nothing (`Busy`),
as an insert merges such a node into its parent's record on the way back
(`InsertBusy`: while an insert is on its way the nodes on it may be bare,
`BusyVisits`), and nothing is reserved but what the builder painted (`OnlyCarved`).

**BuildProofs** follows a writer's answers through the whole of `build` into the
file. Beside what WriterProofs assumes, the record limits ascend, the gap is not
empty, a value takes at least one byte, and no alias network lies in the IPv4 subtree
or around it (`AliasNetsAssumption`; `::ffff:0:0/96`, `2001::/32` and `2002::/16`
beside `::/96`). For the alias forms, none of them contains another, or a network of
`reserved.rs`, or lies in one, and the space beside each, of the same width, is not
all alias space (`AliasNetsApart`; `::fffe:0:0/96`, `2001:1::/32` and `2003::/16`
are not).

- `FileAlwaysAnswers`: `Spec => []FileAnswers`.
- `PinnedSizeAlwaysAnswers`: `Spec => []PinnedSizeAnswers`.
- `ChosenSizeAlwaysHolds`: `Spec => []ChosenSizeHolds`.
- `AliasesAlwaysAgree`: `Spec => []AliasesAgreeWhereInstalled`.

The argument goes stage by stage, on trees in which a fixed node is a node and a walk
ends where it meets an alias (`Stroll`, `Rest`), so that one statement, *what is there
for this address*, can be kept from the arena to the numbers of the file. A tree is
`Fine` if its nodes have depths as in `Sound`; the arena is (`ArenaFine`), and each
stage keeps that:

- *Aliases* (`AliasesFine`): the marker's path is a turn of the walk at a time
  (`MarkerTurn`), new nodes hold copies of nothing, and only addresses that the
  network covers find something else. The root of the IPv4 subtree becomes fixed in its
  one parent (`PinRoot`, `SpineRoot`), which no stroll notices.
- *Compaction* (`CompactsRightly`) is a recursion, so its lemma is an induction on the
  levels that are left: a visit of node `i` leaves the records outside the nodes below
  `i` alone, and the record that it returns has for every address below `i` what `i`
  had.
- *Renumbering* (`Renumbered`): the pre-order holds every node that the root reaches
  and what a node in it leads to (`VisitsRight`), and so the new tree mirrors the old
  one (`Mirrored`). An alias's target may be gone, but no stroll goes through it.
- *Numbers* (`ReadStroll`): a reader is at the number of the record at which the stroll
  is (`Numbers`), a node's number is below the count and a leaf's is not.
- *Offsets* (`OffsetsApart`): different values begin at different offsets, as none is
  empty, unless the conversion to 32 bits saturated; and then the record is at least
  as large as the limit of the widest record, and `encode_record` refuses it.

`ChosenSizeHolds` is the same bound from the other side: every offset is less than the
section is long, so that a size that holds count, gap and section holds each record.

For the alias forms it is not enough what there is for an address: the way to it must
stay. The argument goes through the same stages, from `TendedInv`.

- *Aliases* (`AliasesLined`): an alias network that has no data has nothing in it
  (`BlankAliases`, where `~AliasPainted` is needed), and as no pointer leads to a bare
  node, the walk to it stands in front of a record without data, or of a node that has
  some elsewhere (`VacantBare`, `WayRecord`). So `install_marker` never gives up, and
  puts its marker at the very end of the network (`MarkerInstalled`); later markers and
  the pinned root keep it (`Keeps`).
- *Compaction* may let a walk come to its leaf earlier (`Thinned`), but not in front of
  a pinned record, so that the IPv4 root stays a node, and not in front of an alias:
  an address beside it, with the same bits but the last, finds something else
  (`ThinnedInPlace`, which needs the last part of `AliasNetsApart`).
- *Renumbering* gives root and aliases the same new number (`RenumberedInPlace`): the
  root is among the nodes that are kept, since the zeros lead to it, and nodes are
  named by their first place in the order (`Place`).
- *Numbers*: a reader of the alias network's bits is where a reader of the IPv4 zeros is
  (`AliasLeads`). From there both read the same bits (`ReadOn`), and what the IPv4
  reader finds is no node, so that the other stays there for the rest of its bits
  (`ReadStays`, `FormRead`).

**ValueProofs** is about values and serde, from the calls that a `Serialize` impl
makes to what each address holds. It assumes that data and what becomes of it nest no
deeper than `Nesting`, for any `Nesting`, and that a network has no address twice.

- `SerializerProjects`: `Spec => []Projected`, for all data and every order of calls.
- `RoundTrip`: every value comes back as it was from the serializer and from the
  visitor; `ValuesTransparent`, `Spec => []Transparent`, follows, since the pool holds
  nothing but values.
- `ValuesStoredOnce`: `Spec => []StoredOnce`.
- `DeepIsPathwise`: for any two values, `merge_deep` keeps the paths that it should.
  `InsertsMergePathwise`, `Spec => MergesPathwise`, is what every strategy does to
  every address in every step.
- `InsertTypes`: `Spec => []TypeOK`.

The inductive invariant is `InsertInv`. Its first part (`StackInv`) says what the open
frames stand for: a frame's items are the values of its parts so far (`ItemsTo`), its
entries for each key that of the last part under it (`EntriesTo`), its pending key the
one that waits before the next part (`Resting1`), and what is in work above it
projects to what the part it waits for projects to (`Serves`); that is a chain from
the caller's data to the datum in work (`Asks`) or to the result on its way back
(`Answers`). Each trait method keeps it, and when the last frame is closed it says
`Projected`. The second part says that the table's ids are the pool's and the pool has
no value twice. `Stored` goes through the leaves of a network while the pool grows;
that a leaf is merged with its own old value is an induction over the leaves that are
done (`FilledTo`).

Round trip and merges are inductions on the nesting: each level of such a function is
the one below, unfolded (`ValuesUnfold` to `ProjectionUnfold`, from the lemma
`Recursion`), and it agrees with the deeper ones on what is not so deep
(`ProjectionGrows`). For a map the induction goes over its keys in their order besides
(`EntriesComeBack`). That `merge_deep` is path by path what it says is an induction
along a path (`PathMirrored`): at each step the merged value is the merge of what both
have there, or one of the two where the other one ends (`Mirrors`).

**InductionLemmas**: induction on numbers. The library's induction theorems take a
predicate as a parameter, which the installed provers cannot instantiate. Here a
property is the *set* of the numbers that have it: `Least` gives a set of numbers
its least element from the well-foundedness of `<`, `Induction` and
`StrongInduction` follow, and from them `Recursion`, that a function defined by
recursion on numbers exists and satisfies its equation.

### What is only model-checked

Liveness (`InsertReturns`, `Terminates`), which is out of the prover's reach. Of the
properties of `Build`, those that compare a file with something other than the writer
it was built from: `Reproducible` and `LoadRoundTrip` (that two compacted trees with
the same answers are one tree, record for record, is a canonical form theorem of its
own, and the second needs the iteration of a reader besides).

## 5. Where the code and its documentation disagree

The five runs that are expected to fail (details are with the findings in
`PROJECT.json`):

- `range_from_zero`: `range_to_cidrs` computes `1u128 << 128` for an IPv6 range
  that begins at `::` and ends before the last address (`net.rs:145`). A build that
  checks overflow panics; one that does not shifts by 0, pushes `::/0` as if it fitted,
  and goes on from `::1`.
- `alias_painted`: data inserted over a network that contains a whole alias
  network stays visible there (`tree.rs:308`, against `writer.rs:237`), although there
  is an IPv4 root to alias. Without one nothing is installed at all, which
  `tree.rs:232` documents, and `AliasSpaceCarved` leaves that case out.
- `alias_whole_ipv4`: a single value for `0.0.0.0/0` leaves no node at `::/96`, so
  no alias is installed (`tree.rs:243`, against `options.rs:6`).
- `extended_sizes`: an array (or any extended type) of 29 elements or more is
  written with its size bytes in front of the type byte, where every reader looks
  for the type (`data_section.rs:207`).
- `size_overflow`: sizes above 65 820 + 2^24 lose their high byte
  (`data_section.rs:232`).

More were met while modelling and are kept as notes:

- A closure is called once per *leaf* it reaches, not once per distinct value as
  `writer.rs:259` has it.
- A closure with state on a host route may answer differently for the two records
  below the last bit; the node there then survives, and neither `get` nor a reader
  finds a value. `EveryAddressResolves` therefore is checked with pure closures.
- A reserved IPv4 network in IPv6 notation (`::10.0.0.0/104`) is accepted by an
  IPv6 writer that excludes reserved networks, and stores nothing, where
  `options.rs:40` promises an error.
- `load` fails on a file that holds data in alias space, which a default writer
  may build. `LoadRoundTrip` says that this is the only reason why it fails.
- `load` pins the record size of the file. Where the file was written without
  aliases, the loaded writer installs them and the rebuilt tree may not fit
  (`TooLarge`); `LoadRoundTrip` excepts that case.
- An enum variant whose payload is absent (`V(None)`) becomes an empty map: its tag
  is lost (`ser.rs:149`), where the documentation of `insert` speaks of the
  externally tagged form.
- Absent elements of sequences and tuples are dropped and the rest moves up;
  `ser.rs:4` speaks of maps and structs only.
- `merge_deep` is neither idempotent, since arrays are appended to one another,
  nor associative, since an atom in between hides what was there before.
- `error.rs` calls excluding reserved networks the default; in `options.rs` the
  default is to include them.

## 6. What is not modelled

- The contents of texts and blobs, the digits of floats, and UTF-8: atoms.
- The file's marker and the zeros between its sections, and `write_to` and file
  I/O: constant bytes and one call to the writer it is given.
- The panic of the pool past 2^32 values, and the limit on nodes in
  `paint_reserved` and `install_ipv4_aliases`; `alloc_node` may fail in `TreeInsert`
  only.
- Callers whose `Serialize` impl swallows an error it got from a part.
- `build` has no action: it takes `&self`, so that it leaves the writer as it was is
  the compiler's, and it is an operator here.
- The parser of the `maxminddb` crate: the reader is modelled as far as the tests
  and `load.rs` rely on it, and marked external in the map.
- `error.rs`, `lib.rs`, tests and examples: declarations, documentation, and the
  reference for what a reader does.

## 7. Plan

Done: the insert and its promise, with what it leaves behind; the writer with its
options, its file, its metadata and its reader; loading; ranges; values, merging
and serde; the wire format and the node section; deduplication. Left, in the order
of their importance:

1. The canonical form of a compacted tree, from which `Reproducible` would follow.
2. `ValueInsert` on the writer's own tree, in one composition, rather than on the
   table that the tree implements.
