------------------------------- MODULE Leaves -------------------------------
(***************************************************************************)
(* What a leaf of the tree may hold, and the closures that insert applies  *)
(* to leaves.  Shared by the promise (AddressMap) and the tree that keeps  *)
(* it (TreeInsert).                                                        *)
(***************************************************************************)
EXTENDS BitPaths

CONSTANTS Ids,            \* value ids the pool has handed out
          None,           \* Option::None, for an id
          Ops,            \* closures: the results each may give for an Option<ValueId>
          ReservedNets    \* networks painted as reserved before any insert

ASSUME IdsAssumption == None \notin Ids

OptId == Ids \cup {None}

(***************************************************************************)
(* op is an FnMut, so its answer may depend on what it captured: a closure *)
(* is a relation, and a pure one gives a single result for each argument.  *)
(***************************************************************************)
ASSUME OpsAssumption == Ops \subseteq [OptId -> (SUBSET OptId) \ {{}}]

(***************************************************************************)
(* The lists of reserved.rs: whole-space prefixes do not occur in them and *)
(* no entry contains another.                                              *)
(***************************************************************************)
ASSUME ReservedNetsAssumption ==
    /\ ReservedNets \subseteq Network \ {<< >>}
    /\ \A m, n \in ReservedNets : Covers(m, n) => m = n

NoData   == [kind |-> "NoData", id |-> None]
Reserved == [kind |-> "Reserved", id |-> None]
Data(i)  == [kind |-> "Data", id |-> i]
Leaf     == {NoData, Reserved} \cup {Data(i) : i \in Ids}

(* The leaf that stores a closure's answer: None clears the leaf. *)
Stored(o) == IF o = None THEN NoData ELSE Data(o)

(* Leaves that applying f to a leaf may store; reserved space is carved out. *)
Results(f, leaf) ==
    IF leaf = Reserved THEN {Reserved} ELSE {Stored(o) : o \in f[leaf.id]}

(* Every closure gives the same answer whenever it is asked the same thing. *)
PureOps == \A f \in Ops : \A o \in OptId : \E r \in OptId : f[o] = {r}
=============================================================================
