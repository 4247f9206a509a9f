------------------------------ MODULE NodeBytes ------------------------------
(***************************************************************************)
(* The node section of a file: the loop of Tree::serialize, which writes   *)
(* the encoded records of node after node in one of three layouts, and a   *)
(* reader that seeks a node by its index.  Which number a record becomes   *)
(* is Encode of Tree; here it is any number.                               *)
(***************************************************************************)
EXTENDS Integers, Sequences

CONSTANTS Records,      \* numbers that records become
          MaxLength     \* bound on the nodes of the tree

ASSUME NodeBytesAssumption == Records \subseteq Nat

RecordSizes == {24, 28, 32}
Octet == 0 .. 255

VARIABLES recordSize,   \* record_size
          out,          \* the bytes written
          nodes,        \* the nodes written, as pairs of numbers
          failed        \* serialize has returned TreeTooLarge

nodeVars == <<recordSize, out, nodes, failed>>

(* Fault: a record takes whole bytes. *)
NodeLengthPadded(s) == IF s = 24 THEN 6 ELSE 8

(* node_bytes *)
NodeLength(s) == IF s = 24 THEN 6 ELSE IF s = 28 THEN 7 ELSE 8

(* The bits of a record above its low three bytes. *)
High(record) == record \div 16777216

(* How many values those bits have. *)
HighEnd(s) == IF s = 24 THEN 1 ELSE IF s = 28 THEN 16 ELSE 256

(* Fault: the limit itself is let through. *)
EncodableAtLimit(s) ==
    {n \in Nat : High(n) < HighEnd(s) \/ (High(n) = HighEnd(s) /\ n % 16777216 = 0)}

(* What encode_record lets through: the records below max_value. *)
Encodable(s) == {n \in Nat : High(n) < HighEnd(s)}

(***************************************************************************)
(* write_record_pair.  `as u8' keeps the low byte of what was shifted; the *)
(* middle byte of a 28-bit node has four bits of either record.            *)
(***************************************************************************)
RecordPair(l, r, s) ==
    IF s = 24
    THEN <<(l \div 65536) % 256, (l \div 256) % 256, l % 256,
           (r \div 65536) % 256, (r \div 256) % 256, r % 256>>
    ELSE IF s = 28
    THEN <<(l \div 65536) % 256, (l \div 256) % 256, l % 256,
           (High(l) % 16) * 16 + (High(r) % 16),
           (r \div 65536) % 256, (r \div 256) % 256, r % 256>>
    ELSE <<High(l) % 256, (l \div 65536) % 256, (l \div 256) % 256, l % 256,
           High(r) % 256, (r \div 65536) % 256, (r \div 256) % 256, r % 256>>

-----------------------------------------------------------------------------
NodesInit == recordSize \in RecordSizes /\ out = << >> /\ nodes = << >> /\ failed = FALSE

(* One turn of the loop. *)
WriteNode(l, r) ==
    /\ ~failed /\ Len(nodes) < MaxLength
    /\ {l, r} \subseteq Encodable(recordSize)
    /\ out' = out \o RecordPair(l, r, recordSize)
    /\ nodes' = Append(nodes, <<l, r>>)
    /\ UNCHANGED <<recordSize, failed>>

(* The first record that does not fit ends the loop, and its bytes are dropped. *)
TreeTooLarge(l, r) ==
    /\ ~failed /\ Len(nodes) < MaxLength
    /\ ~({l, r} \subseteq Encodable(recordSize))
    /\ failed' = TRUE
    /\ out' = << >> /\ nodes' = << >>
    /\ UNCHANGED recordSize

NodesNext == \E l, r \in Records : WriteNode(l, r) \/ TreeTooLarge(l, r)

NodesSpec == NodesInit /\ [][NodesNext]_nodeVars

-----------------------------------------------------------------------------
(* A reader of the records of the node that begins behind byte j of o. *)
Record(high, a, b, c) == high * 16777216 + a * 65536 + b * 256 + c

LeftRecord(o, j, s) ==
    IF s = 24 THEN Record(0, o[j + 1], o[j + 2], o[j + 3])
    ELSE IF s = 28 THEN Record(o[j + 4] \div 16, o[j + 1], o[j + 2], o[j + 3])
    ELSE Record(o[j + 1], o[j + 2], o[j + 3], o[j + 4])

RightRecord(o, j, s) ==
    IF s = 24 THEN Record(0, o[j + 4], o[j + 5], o[j + 6])
    ELSE IF s = 28 THEN Record(o[j + 4] % 16, o[j + 5], o[j + 6], o[j + 7])
    ELSE Record(o[j + 5], o[j + 6], o[j + 7], o[j + 8])

-----------------------------------------------------------------------------
(* Nodes of one length, in whole bytes. *)
NodesAligned ==
    /\ recordSize \in RecordSizes /\ failed \in BOOLEAN
    /\ nodes \in Seq(Nat \X Nat)
    /\ out \in Seq(Octet)
    /\ Len(out) = Len(nodes) * NodeLength(recordSize)

(***************************************************************************)
(* A reader that multiplies an index by the node length finds both records *)
(* of that node as they were encoded, in every record size: no bit of one  *)
(* is lost or taken for a bit of the other ("left in the high nibble,      *)
(* right in the low nibble", write_record_pair).                           *)
(***************************************************************************)
NodesReadBack ==
    \A k \in DOMAIN nodes :
        LET j == (k - 1) * NodeLength(recordSize)
        IN  nodes[k] = <<LeftRecord(out, j, recordSize), RightRecord(out, j, recordSize)>>
=============================================================================
