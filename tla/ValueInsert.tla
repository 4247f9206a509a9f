---------------------------- MODULE ValueInsert -----------------------------
(***************************************************************************)
(* Inserts as the data sees them: the caller's value is serialized, merged *)
(* by a strategy with what each address holds, and interned in the pool.   *)
(* The tree is reduced to what AddressMap promises of it, a table from     *)
(* addresses to ids; refused networks are module Writer's.                 *)
(***************************************************************************)
EXTENDS Serializer

CONSTANTS Addresses,     \* of the space, as integers in their order
          Nets,          \* networks, as the sequences of their addresses, lowest first
          Data,          \* what callers insert
          MaxInserts     \* bound on the inserts

Strategies == {"Replace", "TopLevelMerge", "DeepMerge"}

ASSUME ValueInsertAssumption ==
    /\ \A net \in Nets : net \in Seq(Addresses) /\ IsInjective(net)
    /\ Data \subseteq AnyCall
    /\ \A t \in Data : Projection(t).is = "some" => Projection(t).value \in AnyValue
    /\ None \notin AnyCall
    /\ MaxInserts \in Nat

VARIABLES values,        \* pool.values
          ids,           \* the id that the tree holds for each address, or None
          request,       \* network and strategy of the call that is under way
          inserts

vars == <<data, focus, frames, out, values, ids, request, inserts>>

-----------------------------------------------------------------------------
(* What the index has for a value: a hash is looked up before it is compared. *)
Indexed(pool, v) == {id \in DOMAIN pool : Hashed(pool[id]) = Hashed(v) /\ SameValue(pool[id], v)}

(* Fault: the id is taken before the value is looked up. *)
InternEarly(pool, v) ==
    [pool |-> IF Indexed(pool, v) = {} THEN Append(pool, v) ELSE pool, id |-> Len(pool) + 1]

(* ValuePool::intern *)
Intern(pool, v) ==
    IF Indexed(pool, v) = {} THEN [pool |-> Append(pool, v), id |-> Len(pool) + 1]
    ELSE [pool |-> pool, id |-> Min(Indexed(pool, v))]

Held(pool, id) == IF id = None THEN None ELSE pool[id]

(* Writer::get *)
Get(a) == Held(values, ids[a])

(* Fault: the value that is there wins. *)
MergedBackwards(strategy, existing, new) ==
    CASE existing = None \/ strategy = "Replace" -> new
      [] existing # None /\ strategy = "TopLevelMerge" -> MergeTopLevel(new, existing)
      [] existing # None /\ strategy = "DeepMerge"     -> MergeDeep(new, existing)

(* The closures of insert_value_merged, and that of insert_value. *)
Merged(strategy, existing, new) ==
    CASE existing = None \/ strategy = "Replace" -> new
      [] existing # None /\ strategy = "TopLevelMerge" -> MergeTopLevel(existing, new)
      [] existing # None /\ strategy = "DeepMerge"     -> MergeDeep(existing, new)

(* One leaf: its value is fetched from the pool, and the answer interned. *)
StoredAt(t, a, strategy, new) ==
    LET interned == Intern(t.pool, Merged(strategy, Held(t.pool, t.ids[a]), new))
    IN  [pool |-> interned.pool, ids |-> [t.ids EXCEPT ![a] = interned.id]]

(* tree.insert, from the lowest address of the network to the highest. *)
Stored(net, strategy, new) ==
    LET After[k \in 0 .. Len(net)] ==
            IF k = 0 THEN [pool |-> values, ids |-> ids]
            ELSE StoredAt(After[k - 1], net[k], strategy, new)
    IN  After[Len(net)]

-----------------------------------------------------------------------------
Init ==
    /\ data = None /\ focus = None /\ frames = << >> /\ out = Nothing
    /\ values = << >>
    /\ ids = [a \in Addresses |-> None]
    /\ request = None
    /\ inserts = 0

(* insert and insert_merged begin with to_value. *)
Insert(t, net, strategy) ==
    /\ Idle /\ inserts < MaxInserts
    /\ Begin(t)
    /\ request' = [net |-> net, strategy |-> strategy]
    /\ inserts' = inserts + 1
    /\ UNCHANGED <<values, ids>>

(* A caller that inserts what it got. *)
InsertCopy(a, net, strategy) == Get(a) # None /\ Insert(AsData(Get(a)), net, strategy)

Serialize == Serializing /\ UNCHANGED <<values, ids, request, inserts>>

(* to_value fails, on an error or on a value that is absent. *)
Fail ==
    /\ Returned /\ out.is # "some"
    /\ Done
    /\ UNCHANGED <<values, ids, request, inserts>>

(* insert_value or insert_value_merged *)
Store ==
    /\ Returned /\ out.is = "some"
    /\ LET t == Stored(request.net, request.strategy, out.value)
       IN  values' = t.pool /\ ids' = t.ids
    /\ Done
    /\ UNCHANGED <<request, inserts>>

Next == \/ \E net \in Nets, strategy \in Strategies :
               \/ \E t \in Data : Insert(t, net, strategy)
               \/ \E a \in Addresses : InsertCopy(a, net, strategy)
        \/ Serialize
        \/ Fail
        \/ Store

Spec == Init /\ [][Next]_vars

-----------------------------------------------------------------------------
(***************************************************************************)
(* Properties.                                                             *)
(***************************************************************************)

(***************************************************************************)
(* The ids of the tree are the pool's, a frame is open for the very part   *)
(* that the frame below it waits for, and only a map has a pending key.    *)
(***************************************************************************)
TypeOK ==
    /\ \A a \in Addresses : ids[a] \in DOMAIN values \cup {None}
    /\ \A i \in DOMAIN frames :
           LET f == frames[i]
           IN  /\ f.at \in 0 .. Len(f.of.parts)
               /\ f.pending_key # None => f.of.call = "map" /\ f.items = << >>
               /\ f.items # << >> => f.entries = NoEntries
               /\ i < Len(frames) => f.at > 0
    /\ focus # None /\ frames # << >> => Frame.at > 0
    /\ inserts \in 0 .. MaxInserts

(***************************************************************************)
(* A value is stored once, however it came about and however it compares:  *)
(* NaN is itself, and the two zeros are two values.                        *)
(***************************************************************************)
StoredOnce == IsInjective(values)

(***************************************************************************)
(* Value is transparent to serde: what is stored comes back bit for bit,   *)
(* with the types it had, when it is serialized into the serializer or     *)
(* into the visitor that load decodes with.                                *)
(***************************************************************************)
Transparent ==
    \A id \in DOMAIN values :
        LET again == AsData(values[id])
        IN  Projection(again) = Some(values[id]) /\ Visited(again) = Some(values[id])

At(v, path) ==
    LET Step[i \in 0 .. Len(path)] == IF i = 0 THEN v ELSE Step[i - 1].items[path[i]]
    IN  Step[Len(path)]

IsMapAt(v, path) == At(v, path).type = "Map"

(* The ways through nested maps, from a value to every value in it. *)
KeyPaths(v) ==
    LET Paths[n \in 0 .. Nesting + 1] ==
            IF n = 0 THEN {<< >>}
            ELSE UNION {{Append(p, k) : k \in KeysOf(At(v, p))} :
                           p \in {p \in Paths[n - 1] : IsMapAt(v, p)}}
    IN  UNION {Paths[n] : n \in 0 .. Nesting + 1}

(* Some value of new that is no map stands in the way of the path. *)
Hidden(new, path) ==
    \E n \in 0 .. Len(path) : LET q == SubSeq(path, 1, n)
                              IN  q \in KeyPaths(new) /\ ~IsMapAt(new, q)

(***************************************************************************)
(* Deep: every path of the new value is there, and every path of the old   *)
(* one that no new value hides; the new value wins, but two arrays follow  *)
(* one another.                                                            *)
(***************************************************************************)
DeeplyMerged(old, new, result) ==
    /\ KeyPaths(result) = KeyPaths(new) \cup {p \in KeyPaths(old) : ~Hidden(new, p)}
    /\ \A p \in KeyPaths(result) :
           LET both == p \in KeyPaths(old) \cap KeyPaths(new)
               won  == IF p \in KeyPaths(new) THEN At(new, p) ELSE At(old, p)
               r    == At(result, p)
           IN  /\ r.type = won.type
               /\ IF both /\ {At(old, p).type, won.type} = {"Array"}
                  THEN r.items = At(old, p).items \o won.items
                  ELSE won.type # "Map" => r = won

(* Top level: each key has one side's value, and the old side's if the new side has none. *)
TopMerged(old, new, result) ==
    IF {old.type, new.type} # {"Map"} THEN result = new
    ELSE /\ result.type = "Map"
         /\ KeysOf(result) = KeysOf(old) \cup KeysOf(new)
         /\ \A k \in KeysOf(result) :
                result.items[k] = (IF k \in KeysOf(new) THEN new ELSE old).items[k]

(***************************************************************************)
(* An insert gives each address of its network the value that its strategy *)
(* promises of what was there and of what the caller's data stands for,    *)
(* address by address; it changes no other address, and none if it fails.  *)
(***************************************************************************)
MergesPathwise ==
    [][\A a \in Addresses :
          LET new == Projection(data)
              old == Get(a)
          IN  IF ~(Returned /\ new.is = "some" /\ a \in ToSet(request.net)) THEN Get(a)' = old
              ELSE CASE old = None \/ request.strategy = "Replace" -> Get(a)' = new.value
                     [] old # None /\ request.strategy = "TopLevelMerge" ->
                            TopMerged(old, new.value, Get(a)')
                     [] old # None /\ request.strategy = "DeepMerge" ->
                            DeeplyMerged(old, new.value, Get(a)')]_vars
=============================================================================
