--------------------------- MODULE FlatAtomSpace ----------------------------
(***************************************************************************)
(* The runtime atoms of a world: the flat store of packages/core/src/      *)
(* flat-atomspace.ts, the log of atomlog.ts, and the choice between them   *)
(* that eval.ts makes.  A table of facts is shared by every version that   *)
(* grew from it and is only appended to; a version is the ranges of facts  *)
(* it sees and the set of those it removed.                                *)
(*                                                                         *)
(* A fact is the term it holds: terms are interned, so equal terms are one *)
(* term.                                                                   *)
(***************************************************************************)
EXTENDS SpaceAtoms, FiniteSetsExt

Facts(table) == DOMAIN table.facts
NewTable == [facts |-> << >>, scan |-> [upTo |-> 0, heads |-> {}, tokens |-> << >>, judged |-> << >>, known |-> {}]]

(* insertFact with its two indexes.                                        *)
FactsForTerm(table, term) == {f \in Facts(table) : table.facts[f] = term}

FactsForNested(table, head, nest) ==
    {f \in Facts(table) : Ground(table.facts[f]) /\ table.facts[f].head = head /\ table.facts[f].nest = nest}

-----------------------------------------------------------------------------
(* Versions.  table: 0 while the world has no flat store.                  *)

Flat(w) == w.table # 0

Visible(w) == UNION {r[1]..r[2] : r \in ToSet(w.ranges)}
Live(w) == Visible(w) \ w.dead
AtomsOf(table, facts) ==
    LET ids == Filtered([f \in Facts(table) |-> f], facts)
    IN  [i \in DOMAIN ids |-> table.facts[ids[i]]]

AppendRange(ranges, first, last) ==
    IF ranges # << >> /\ Last(ranges)[2] + 1 = first
    THEN Append(Front(ranges), <<Last(ranges)[1], last>>)
    ELSE Append(ranges, <<first, last>>)

NumNonGround(atoms) == Cardinality({i \in DOMAIN atoms : ~Ground(atoms[i])})

(* The facts insertFact pushes before it meets an atom that is not         *)
(* compactable.                                                            *)
CompactPrefix(batch) ==
    LET bad == {i \in DOMAIN batch : ~Compact(batch[i])}
    IN  IF bad = {} THEN batch ELSE SubSeq(batch, 1, Min(bad) - 1)

\* Mutant: the whole batch stays in the table.
InsertedWhole(table, batch) == [table EXCEPT !.facts = @ \o batch]
Inserted(table, batch) == [table EXCEPT !.facts = @ \o CompactPrefix(batch)]

\* Mutant: the range starts after the last fact the version sees.
AppendAllFromLast(w, table, batch) ==
    LET first == IF w.ranges = << >> THEN 1 ELSE Last(w.ranges)[2] + 1
    IN  [w EXCEPT !.ranges = AppendRange(@, first, Len(table.facts) + Len(batch)),
                  !.live = @ + Len(batch),
                  !.nonGround = @ + NumNonGround(batch)]

AppendAll(w, table, batch) ==
    [w EXCEPT !.ranges = AppendRange(@, Len(table.facts) + 1, Len(table.facts) + Len(batch)),
              !.live = @ + Len(batch),
              !.nonGround = @ + NumNonGround(batch)]

RemoveOneFlat(w, table, a) ==
    LET facts == FactsForTerm(table, a) \cap Live(w)
    IN  IF facts = {} THEN w
        ELSE [w EXCEPT !.dead = @ \cup {Min(facts)},
                       !.live = @ - 1,
                       !.nonGround = IF Ground(a) THEN @ ELSE @ - 1]

ExactCount(w, table, a) == Cardinality(FactsForTerm(table, a) \cap Live(w))

\* Mutant: the nested index is used although it lists ground facts only.
CandidatesForNested(w, table, p) ==
    LET key == HeadKey(p)
        admitted == IF p.nest # NoHead THEN FactsForNested(table, key, p.nest)
                    ELSE {f \in Live(w) : HeadKey(table.facts[f]) \in {key, NoHead}}
    IN  AtomsOf(table, IF key = NoHead THEN Live(w) ELSE admitted \cap Live(w))

CandidatesFor(w, table, p) ==
    LET key == HeadKey(p)
        admitted == IF p.nest # NoHead /\ w.nonGround = 0 THEN FactsForNested(table, key, p.nest)
                    ELSE {f \in Live(w) : HeadKey(table.facts[f]) \in {key, NoHead}}
    IN  AtomsOf(table, IF key = NoHead THEN Live(w) ELSE admitted \cap Live(w))

(* How many facts the pattern (key $v) unifies with.                       *)
CountHead(w, table, key) == Cardinality({f \in Live(w) : table.facts[f].head \in {key, Var}})

-----------------------------------------------------------------------------
(* The scan for suspect facts, those holding a defined symbol or an        *)
(* expression without a head symbol.  judged: the answers on symbols under *)
(* the tokens.  known: history, what was defined when the scan began.      *)

Symbols(a) == {a.head, a.nest} \cap Heads

\* Mutant: the scan goes on where it stopped although the rules changed.
RescanKept(scan, defined, tokens) ==
    IF scan.tokens = tokens THEN scan ELSE [scan EXCEPT !.tokens = tokens, !.known = defined]
Rescan(scan, defined, tokens) ==
    IF scan.tokens = tokens THEN scan
    ELSE [upTo |-> 0, heads |-> {}, tokens |-> tokens, judged |-> << >>, known |-> defined]

Scanned(table, defined, tokens) ==
    LET scan == Rescan(table.scan, defined, tokens)
        new == {table.facts[f] : f \in scan.upTo + 1..Len(table.facts)}
        judged == [s \in DOMAIN scan.judged \cup UNION {Symbols(a) : a \in new} |->
                        IF s \in DOMAIN scan.judged THEN scan.judged[s] ELSE s \in defined]
        Suspect(a) == a.head \in {Var, NoHead} \/ \E s \in Symbols(a) : judged[s]
    IN  [table EXCEPT !.scan =
            [upTo |-> Len(table.facts), tokens |-> tokens, judged |-> judged, known |-> scan.known,
             heads |-> scan.heads \cup {HeadKey(a) : a \in {b \in new : Suspect(b)}}]]

AnySuspect(table, key) ==
    IF key = NoHead THEN table.scan.heads # {} ELSE table.scan.heads \cap {key, NoHead} # {}
=============================================================================
