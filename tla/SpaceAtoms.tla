----------------------------- MODULE SpaceAtoms -----------------------------
(***************************************************************************)
(* The atoms the stores of a space tell apart: (h x) and (h (n x)), where  *)
(* h is a symbol, a variable or an expression and x a leaf or a variable.  *)
(* A leaf that is an operation cannot be stored flat; leaves of one value, *)
(* such as 1 and 1.0, are different terms that atomEq identifies.          *)
(***************************************************************************)
EXTENDS Integers, Sequences, FiniteSets, SequencesExt, SequenceFunctions

CONSTANTS Heads, Leaves, Operations, ValueOf

Var == "$"
NoHead == "no symbol"
Equals == "="

ASSUME AtomsAssumption ==
    /\ Equals \in Heads /\ {Var, NoHead} \cap (Heads \cup Leaves) = {}
    /\ Operations \subseteq Leaves
    /\ ValueOf \in [Leaves -> Leaves]

Atom == [head : Heads \cup {Var, NoHead}, nest : Heads \cup {NoHead}, leaf : Leaves \cup {Var}]

(* The head symbol, NoHead when there is none.                             *)
HeadKey(a) == IF a.head = Var THEN NoHead ELSE a.head

Ground(a) == a.head # Var /\ a.leaf # Var
Compact(a) == a.leaf \notin Operations

SameLeaf(x, y) == x = y \/ (Var \notin {x, y} /\ ValueOf[x] = ValueOf[y])

(* atomEq.                                                                 *)
Same(a, b) == a.head = b.head /\ a.nest = b.nest /\ SameLeaf(a.leaf, b.leaf)

(* Atoms are found by value or, where they are interned, by term.          *)
Alike(by, b, a) == IF by = "value" THEN Same(b, a) ELSE b = a

(* One occurrence leaves a sequence of atoms: the first.                   *)
RemoveFirstAlike(by, atoms, a) == RemoveFirstMatch(atoms, LAMBDA b : Alike(by, b, a))

IsVariable(a) == a.nest = NoHead /\ a.leaf = Var

(* matchAtoms, for a pattern and an atom that share no variable.           *)
Matches(p, a) ==
    /\ p.head = a.head \/ Var \in {p.head, a.head}
    /\ \/ IsVariable(p) \/ IsVariable(a)
       \/ p.nest = a.nest /\ (SameLeaf(p.leaf, a.leaf) \/ Var \in {p.leaf, a.leaf})

(* What a match leaves to see: a ground pattern matches a ground atom with *)
(* no bindings.                                                            *)
Match(p, a) == IF Ground(p) /\ Ground(a) THEN p ELSE a

MatchesIn(p, atoms) ==
    LET found == Filtered(atoms, {a \in ToSet(atoms) : Matches(p, a)})
    IN  [i \in DOMAIN found |-> Match(p, found[i])]

Defines(atoms) == {a.nest : a \in {b \in ToSet(atoms) : b.head = Equals /\ b.nest # NoHead}}
=============================================================================
