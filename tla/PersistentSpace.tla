-------------------------- MODULE PersistentSpace ---------------------------
(***************************************************************************)
(* packages/core/src/persistent-space.ts over the tables of pmap.ts: a     *)
(* version of a space as a value.  Every atom has an id and is held in a   *)
(* table of all atoms and in the table of its head symbol, or in the one   *)
(* of the atoms without a head symbol.                                     *)
(***************************************************************************)
EXTENDS SpaceAtoms, Functions, TLC

Put(f, key, val) == [k \in DOMAIN f \cup {key} |-> IF k = key THEN val ELSE f[k]]

(* Tables.  keys: the keys in the order they were set, those of deleted    *)
(* entries included.                                                       *)
EmptyTable == [root |-> << >>, size |-> 0, keys |-> << >>]

\* Mutant: the value is set, the key is not pushed while others are dead.
PtSetUnlisted(t, key, val) ==
    [root |-> Put(t.root, key, val),
     size |-> t.size + 1,
     keys |-> IF t.size < Len(t.keys) THEN t.keys ELSE Append(t.keys, key)]

PtSet(t, key, val) ==
    [root |-> Put(t.root, key, val),
     size |-> IF key \in DOMAIN t.root THEN t.size ELSE t.size + 1,
     keys |-> IF key \in DOMAIN t.root THEN t.keys ELSE Append(t.keys, key)]

PtDelete(t, key) ==
    IF key \notin DOMAIN t.root THEN t
    ELSE [root |-> Restrict(t.root, DOMAIN t.root \ {key}), size |-> t.size - 1, keys |-> t.keys]

(* The live keys in the order of the stack; ids are set once.              *)
PtKeys(t) == Filtered(t.keys, DOMAIN t.root)

-----------------------------------------------------------------------------
EmptyVersion == [entries |-> EmptyTable, byHead |-> << >>, unindexed |-> EmptyTable, nextId |-> 0]

(* The table an atom with the head key is held in.                         *)
Bucket(v, key) ==
    CASE key = NoHead -> v.unindexed
      [] key # NoHead /\ key \in DOMAIN v.byHead -> v.byHead[key]
      [] OTHER -> EmptyTable

WithBucket(v, key, t) ==
    IF key = NoHead THEN [v EXCEPT !.unindexed = t] ELSE [v EXCEPT !.byHead = Put(@, key, t)]

VersionAdd(v, a) ==
    LET key == HeadKey(a)
    IN  [WithBucket(v, key, PtSet(Bucket(v, key), v.nextId, a)) EXCEPT
            !.entries = PtSet(@, v.nextId, a),
            !.nextId = @ + 1]

VersionAddAll(v, batch) ==
    LET added[i \in 0..Len(batch)] == IF i = 0 THEN v ELSE VersionAdd(added[i - 1], batch[i])
    IN  added[Len(batch)]

(* The ids of the atoms equal to a, in the order of the bucket's key stack.*)
FindIds(v, a) ==
    LET bucket == Bucket(v, HeadKey(a))
    IN  Filtered(PtKeys(bucket), {id \in DOMAIN bucket.root : Same(bucket.root[id], a)})

\* Mutant: the atom leaves the table of all atoms only.
VersionRemoveUnindexed(v, a) ==
    LET ids == FindIds(v, a)
    IN  IF ids = << >> THEN v ELSE [v EXCEPT !.entries = PtDelete(@, ids[1])]

VersionRemove(v, a) ==
    LET ids == FindIds(v, a)
        key == HeadKey(a)
    IN  IF ids = << >> THEN v
        ELSE [WithBucket(v, key, PtDelete(Bucket(v, key), ids[1])) EXCEPT !.entries = PtDelete(@, ids[1])]

VersionAtoms(v) == LET keys == PtKeys(v.entries) IN [i \in DOMAIN keys |-> v.entries.root[keys[i]]]

(* The atoms a pattern could match, the two tables merged by id.           *)
VersionCandidates(v, p) ==
    LET bucket == Bucket(v, HeadKey(p))
        ids == Filtered([i \in 1..v.nextId |-> i - 1], DOMAIN bucket.root \cup DOMAIN v.unindexed.root)
    IN  IF HeadKey(p) = NoHead THEN VersionAtoms(v)
        ELSE [i \in DOMAIN ids |-> IF ids[i] \in DOMAIN bucket.root THEN bucket.root[ids[i]]
                                   ELSE v.unindexed.root[ids[i]]]
=============================================================================
