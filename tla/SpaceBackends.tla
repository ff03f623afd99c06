--------------------------- MODULE SpaceBackends ----------------------------
(***************************************************************************)
(* The two stores with versions of packages/core, given the same calls:    *)
(* PersistentSpace, and the runtime atoms of a world (appendSpace,         *)
(* spliceRuntimeSelf, clearSelfSpace and runtimeCandidates of eval.ts).  A *)
(* handle holds a version of each: a space or a snapshot, a world of a     *)
(* branch.  Versions of worlds share tables of facts; the equations among  *)
(* the atoms of a world, stamped with a version, tell which facts are      *)
(* suspect.                                                                *)
(***************************************************************************)
EXTENDS PersistentSpace, FlatAtomSpace

CONSTANTS
    Handles,    \* holders of a version
    Batches,    \* what is added at once, sequences of atoms
    Patterns,   \* what is removed and queried
    Importable, \* symbols a type declaration may be imported for
    MaxChanges  \* bound of the model: additions, removals and clears

ASSUME BackendsAssumption ==
    /\ Batches \subseteq Seq(Atom) \ {<< >>} /\ Patterns \subseteq Atom
    /\ Importable \subseteq Heads /\ MaxChanges \in Nat

VARIABLES
    current,    \* the persistent version of a handle
    world,      \* the world of a handle
    tables,     \* the flat tables made so far
    sigs,       \* symbols with an imported signature, of the environment
    stamps,     \* versions of rule sets handed out
    changes

vars == <<current, world, tables, sigs, stamps, changes>>

EmptyWorld == [table |-> 0, ranges |-> << >>, dead |-> {}, live |-> 0, nonGround |-> 0,
               log |-> << >>, rules |-> {}, ruleVersion |-> 0]

Init ==
    /\ current = [h \in Handles |-> EmptyVersion]
    /\ world = [h \in Handles |-> EmptyWorld]
    /\ tables = << >> /\ sigs = {} /\ stamps = 0
    /\ changes = 0

(* A world without a flat store has the table no fact of which it sees.    *)
TableOf(w) == IF Flat(w) THEN tables[w.table] ELSE NewTable
RuntimeAtoms(w) == AtomsOf(TableOf(w), Live(w)) \o w.log

Change == changes < MaxChanges /\ changes' = changes + 1

-----------------------------------------------------------------------------
WithFlat(w, i, table, batch) == AppendAll([w EXCEPT !.table = i], table, batch)
AllToLog(w, batch) ==
    [w EXCEPT !.log = AtomsOf(TableOf(w), Live(w)) \o @ \o batch,
              !.table = 0, !.ranges = << >>, !.dead = {}, !.live = 0, !.nonGround = 0]

(* A batch goes to the flat store, made anew where the world holds no log, *)
(* and with everything else to the log when it is not compactable.         *)
Stored(w, batch) ==
    LET i == IF Flat(w) THEN w.table ELSE Len(tables) + 1
        table == TableOf(w)
    IN  CASE ~Flat(w) /\ w.log # << >> -> [to |-> [w EXCEPT !.log = @ \o batch], tables |-> tables]
          [] OTHER ->
                [to |-> IF CompactPrefix(batch) = batch THEN WithFlat(w, i, table, batch) ELSE AllToLog(w, batch),
                 tables |-> [j \in 1..(IF i > Len(tables) THEN i ELSE Len(tables)) |->
                                IF j = i THEN Inserted(table, batch) ELSE tables[j]]]

HasEquation(batch) == Defines(batch) # {}

Indexed(w, batch) ==
    [w EXCEPT !.rules = @ \cup Defines(batch),
              !.ruleVersion = IF HasEquation(batch) THEN stamps + 1 ELSE @]

AppendSpace(h, batch) ==
    LET stored == Stored(world[h], batch)
    IN  /\ world' = [world EXCEPT ![h] = Indexed(stored.to, batch)]
        /\ tables' = stored.tables
        /\ stamps' = IF HasEquation(batch) THEN stamps + 1 ELSE stamps

Add(h, batch) ==
    /\ Change
    /\ current' = [current EXCEPT ![h] = VersionAddAll(@, batch)]
    /\ AppendSpace(h, batch)
    /\ UNCHANGED sigs

(* One occurrence leaves the world: from the flat store if it has one, from*)
(* the log otherwise; the rules are indexed again.                         *)
Removed(w, a) ==
    LET flat == RemoveOneFlat(w, TableOf(w), a)
    IN  IF Flat(w) /\ flat.live # w.live THEN flat
        ELSE [w EXCEPT !.log = RemoveFirstAlike("value", @, a)]

Reindexed(w) == [w EXCEPT !.rules = Defines(RuntimeAtoms(w)), !.ruleVersion = stamps + 1]

RemoveOne(h, a) ==
    LET version == VersionRemove(current[h], a)
        w == Removed(world[h], a)
    IN  /\ Change
        /\ current' = [current EXCEPT ![h] = version]
        /\ world' = IF w = world[h] THEN world ELSE [world EXCEPT ![h] = Reindexed(w)]
        /\ stamps' = IF w = world[h] THEN stamps ELSE stamps + 1
        /\ UNCHANGED <<tables, sigs>>

Clear(h) ==
    /\ Change
    /\ current' = [current EXCEPT ![h] = EmptyVersion]
    /\ world' = [world EXCEPT ![h] = Reindexed(EmptyWorld)]
    /\ stamps' = stamps + 1
    /\ UNCHANGED <<tables, sigs>>

(* snapshot, restore and fork; a branch that starts from another's world.  *)
Become(h, k) ==
    /\ h # k
    /\ current' = [current EXCEPT ![h] = current[k]]
    /\ world' = [world EXCEPT ![h] = world[k]]
    /\ UNCHANGED <<tables, sigs, stamps, changes>>

-----------------------------------------------------------------------------
LogCount(log, a) == Cardinality({i \in DOMAIN log : Ground(log[i]) /\ Same(log[i], a)})

(* The exact path is taken when no runtime atom has a variable.            *)
Exact(w, p) == Ground(p) /\ NumNonGround(w.log) = 0 /\ w.nonGround = 0

RuntimeCandidates(w, p) ==
    LET key == HeadKey(p)
    IN  CandidatesFor(w, TableOf(w), p)
            \o Filtered(w.log, {a \in ToSet(w.log) : key = NoHead \/ HeadKey(a) \in {key, NoHead}})

RuntimeMatches(w, p) ==
    IF Exact(w, p)
    THEN [i \in 1..(LogCount(w.log, p) + ExactCount(w, TableOf(w), p)) |-> p]
    ELSE MatchesIn(p, RuntimeCandidates(w, p))

(* isDefinedHead, as far as it changes.                                    *)
Defined(w) == w.rules \cup sigs

(* selfDomainNormal asks whether a fact is suspect.                        *)
AskSuspect(h) ==
    LET w == world[h]
    IN  /\ Flat(w)
        /\ tables' = [tables EXCEPT ![w.table] = Scanned(@, Defined(w), <<w.ruleVersion>>)]
        /\ UNCHANGED <<current, world, sigs, stamps, changes>>

(* registerImportedTypes: a signature enters the environment.              *)
ImportSignature(f) ==
    /\ f \notin sigs /\ sigs' = sigs \cup {f}
    /\ UNCHANGED <<current, world, tables, stamps, changes>>

Next ==
    \/ \E h \in Handles :
        \/ \E batch \in Batches : Add(h, batch)
        \/ \E p \in Patterns : RemoveOne(h, p)
        \/ \E k \in Handles : Become(h, k)
        \/ Clear(h)
        \/ AskSuspect(h)
    \/ \E f \in Importable : ImportSignature(f)

Spec == Init /\ [][Next]_vars

-----------------------------------------------------------------------------
IsWorld(w) ==
    /\ w.table \in 0..Len(tables) /\ w.rules \subseteq Heads \cup {NoHead}
    /\ Visible(w) \subseteq Facts(TableOf(w)) /\ w.dead \subseteq Visible(w)
    /\ w.log \in Seq(Atom) /\ w.ruleVersion \in 0..stamps
    /\ w.live \in Nat /\ w.nonGround \in 0..w.live

(* Type invariant: a version sees facts of its table only, removed facts   *)
(* among them, a table holds compactable atoms, a scan covers what is there.*)
TypeOK ==
    /\ \A h \in Handles : IsWorld(world[h]) /\ current[h].nextId \in Nat
    /\ \A i \in DOMAIN tables : tables[i].scan.upTo \in 0..Len(tables[i].facts)
    /\ \A i \in DOMAIN tables : \A f \in Facts(tables[i]) : Compact(tables[i].facts[f])
    /\ sigs \subseteq Importable /\ changes \in 0..MaxChanges

(* Each store implements the abstract space: what a handle sees is what it *)
(* or those it took versions from put there in that order, a removal takes *)
(* the first atom alike, and no change of one version shows in another.  A *)
(* persistent version and the log go by value, the flat store by term.     *)
Persistent == INSTANCE VersionedSpace WITH
    contents <- [h \in Handles |-> VersionAtoms(current[h])], RemovedBy <- {"value"}
PersistentRefines == Persistent!Spec

Runtime == INSTANCE VersionedSpace WITH
    contents <- [h \in Handles |-> RuntimeAtoms(world[h])], RemovedBy <- {"value", "term"}
RuntimeRefines == Runtime!Spec

(* "The first visible live one is the same fact a front-to-back scan of    *)
(* the whole space would remove": the two stores, given the same calls,    *)
(* hold the same atoms.  They do not once 1 is held and 1.0 removed.       *)
StoresAgree == \A h \in Handles : RuntimeAtoms(world[h]) = VersionAtoms(current[h])

(* What is equal to a in the flat store of a world is a itself: no 1.0     *)
(* beside the 1 asked for.                                                 *)
OneSpelling(w, a) == \A f \in Live(w) : Same(TableOf(w).facts[f], a) => TableOf(w).facts[f] = a

(* Queries find what a scan of all atoms finds, in insertion order, by     *)
(* whichever index or count they go; but a count of the flat store is one  *)
(* of terms, and says what matching would only where a has one spelling.   *)
MatchesExact ==
    \A h \in Handles, p \in Patterns :
        /\ MatchesIn(p, VersionCandidates(current[h], p)) = MatchesIn(p, VersionAtoms(current[h]))
        /\ ~Exact(world[h], p) \/ OneSpelling(world[h], p)
               => RuntimeMatches(world[h], p) = MatchesIn(p, RuntimeAtoms(world[h]))

(* The tables of a persistent version agree: an atom is under its id in    *)
(* the table of all atoms and in that of its head and in no other, sizes   *)
(* count the live entries, and no id is handed out twice.                  *)
IdsIndexed ==
    \A h \in Handles :
        LET v == current[h]
            buckets == {v.unindexed} \cup Range(v.byHead)
        IN  /\ \A t \in buckets \cup {v.entries} :
                    t.size = Cardinality(DOMAIN t.root) /\ Len(PtKeys(t)) = t.size
            /\ \A id \in DOMAIN v.entries.root :
                    LET a == v.entries.root[id]
                    IN  id < v.nextId /\ {t \in buckets : id \in DOMAIN t.root} = {Bucket(v, HeadKey(a))}
            /\ \A t \in buckets : \A id \in DOMAIN t.root :
                    id \in DOMAIN v.entries.root /\ t.root[id] = v.entries.root[id]

(* The counts a world answers without decoding are those of its atoms: how *)
(* many it holds, how many have variables, and how many a pattern          *)
(* (key $v) finds; and it never has atoms in both its stores, whose order  *)
(* could not be told.                                                      *)
CountsExact ==
    \A h \in Handles :
        LET w == world[h]
            atoms == RuntimeAtoms(w)
            All(key) == [head |-> key, nest |-> NoHead, leaf |-> Var]
        IN  /\ Flat(w) => w.log = << >>
            /\ w.live + Len(w.log) = Len(atoms)
            /\ w.nonGround + NumNonGround(w.log) = NumNonGround(atoms)
            /\ Flat(w) => \A key \in Heads : CountHead(w, TableOf(w), key) = Len(MatchesIn(All(key), atoms))

(* Whether by scan, index or count, a query sees the atoms of its world.   *)
QueriesExact == MatchesExact /\ CountsExact

(* The rules of a world are those of its atoms, and worlds with one stamp  *)
(* have the same rules, which the caches keyed by the stamp rely on.       *)
RulesStamped ==
    \A h, k \in Handles :
        /\ world[h].rules = Defines(RuntimeAtoms(world[h]))
        /\ world[h].ruleVersion = world[k].ruleVersion => world[h].rules = world[k].rules

(* Live facts that are suspect if these symbols are defined, where the     *)
(* scan done under the stamp of the asking world says that none is.        *)
Missed(w, defined) ==
    LET table == TableOf(w)
        Suspect(a) == a.head \in {Var, NoHead} \/ Symbols(a) \cap defined # {}
        scanned == IF Flat(w) /\ table.scan.tokens = <<w.ruleVersion>> THEN 1..table.scan.upTo ELSE {}
    IN  {f \in Live(w) \cap scanned : Suspect(table.facts[f]) /\ ~AnySuspect(table, HeadKey(table.facts[f]))}

(* Rule sets are stamped rightly, and the scan a world may rely on misses  *)
(* no fact it sees that is suspect by the world's rules or by a signature  *)
(* imported before the scan began, whichever worlds the table was scanned  *)
(* for and whatever was imported during it.                                *)
SuspectsFound ==
    RulesStamped /\ \A h \in Handles : Missed(world[h], world[h].rules \cup TableOf(world[h]).scan.known) = {}

(* "A stale positive only widens a conservative caller's answer, never     *)
(* narrows it": what the scan calls unsuspect holds no defined symbol.  A  *)
(* signature imported after the scan began breaks it, since                *)
(* registerImportedTypes moves neither token.                              *)
NoSuspectMissed == \A h \in Handles : Missed(world[h], Defined(world[h])) = {}
=============================================================================
