----------------------------- MODULE MCSections -----------------------------
(* The two sections of a file that have a layout of their own, the nodes   *)
(* and the data.  build writes each into a buffer of its own, and neither  *)
(* looks at the other, so that a behaviour may stand for one of them.      *)
EXTENDS MCWire, NodeBytes

(* Both sides of the limits of the record sizes and of the bytes of a record. *)
BoundaryRecords == {0, 1, 255, 256, 65535, 65536, 16777215, 16777216, 100663297,
                    251658240, 268435455, 268435456, 2147483647}

SectionsInit == Init /\ NodesInit

SectionsNext ==
    \/ nodes = << >> /\ ~failed /\ recordSize = 28 /\ Next /\ UNCHANGED nodeVars
    \/ bytes = << >> /\ NodesNext /\ UNCHANGED vars

SectionsSpec == SectionsInit /\ [][SectionsNext]_<<vars, nodeVars>>
=============================================================================
