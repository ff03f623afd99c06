------------------------------- MODULE Worlds -------------------------------
(***************************************************************************)
(* The evaluator's world: the immutable value every effect replaces, and   *)
(* the merge that joins the worlds of concurrent branches                  *)
(* (packages/core/src/eval.ts).  An atom is a model value, a space a bag   *)
(* of atoms; the value of a state cell stands for the object the cell      *)
(* holds, which is what the merge compares.  The order of the atoms of a   *)
(* space, the rule index derived from them, the token table, which merges  *)
(* the way the cells do, and the interpreter's settings are left out.      *)
(***************************************************************************)
EXTENDS Integers, Sequences, FiniteSets

CONSTANTS
    Atoms,
    Static      \* atoms of the loaded program: in &self until tombstoned

ASSUME AtomAssumption == Static \subseteq Atoms

EmptyBag == [a \in Atoms |-> 0]

NewWorld ==
    [ self |-> EmptyBag,        \* runtime additions to &self
      removed |-> {},           \* tombstones of static atoms
      spaces |-> << >>,         \* id -> bag; no named space yet
      cells |-> << >>,          \* id -> value
      version |-> 0 ]           \* spaceVersion

Put(f, k, v) == [x \in DOMAIN f \cup {k} |-> IF x = k THEN v ELSE f[x]]

Self == -1     \* &self, told apart from the ids of named spaces

Visible(w, s) ==
    IF s = Self
    THEN [a \in Atoms |-> w.self[a] + IF a \in Static \ w.removed THEN 1 ELSE 0]
    ELSE w.spaces[s]

-----------------------------------------------------------------------------
(* Effects.  Each stamps the world with the next content version.          *)

AppendSpace(w, s, atoms, stamp) ==
    LET plus(bag) == [a \in Atoms |-> bag[a] + IF a \in atoms THEN 1 ELSE 0]
    IN  IF s = Self THEN [w EXCEPT !.self = plus(@), !.version = stamp]
                    ELSE [w EXCEPT !.spaces[s] = plus(@), !.version = stamp]

\* Mutant: a removal leaves the version of the world.
EraseUnmarked(w, s, a, stamp) ==
    CASE s = Self /\ w.self[a] > 0 -> [w EXCEPT !.self[a] = @ - 1]
      [] s = Self /\ w.self[a] = 0 -> [w EXCEPT !.removed = @ \cup ({a} \cap Static)]
      [] s # Self -> [w EXCEPT !.spaces[s][a] = IF @ > 0 THEN @ - 1 ELSE 0]
\* Mutant: an atom that is not there is taken out all the same.
EraseUnfound(w, s, a, stamp) ==
    IF s = Self THEN [w EXCEPT !.self[a] = @ - 1, !.version = stamp]
                ELSE [w EXCEPT !.spaces[s][a] = @ - 1, !.version = stamp]

\* One runtime copy goes; a static atom without one is tombstoned.
EraseSpace(w, s, a, stamp) ==
    LET marked == [w EXCEPT !.version = stamp]
    IN  CASE s = Self /\ w.self[a] > 0 -> [marked EXCEPT !.self[a] = @ - 1]
          [] s = Self /\ w.self[a] = 0 -> [marked EXCEPT !.removed = @ \cup ({a} \cap Static)]
          [] s # Self -> [marked EXCEPT !.spaces[s][a] = IF @ > 0 THEN @ - 1 ELSE 0]

AddSpace(w, id, bag, stamp) ==
    [w EXCEPT !.spaces = Put(@, id, bag), !.version = stamp]

\* A state cell is no space content: the version stays.
SetCell(w, id, value) == [w EXCEPT !.cells = Put(@, id, value)]

-----------------------------------------------------------------------------
(* mergeWorlds.                                                            *)

Monus(m, n) == IF m > n THEN m - n ELSE 0

\* Mutant: the delta is taken against the worlds merged so far.
DeltaAgainstMerged(into, base, branch) ==
    [a \in Atoms |-> Monus(into[a], Monus(into[a], branch[a])) + Monus(branch[a], into[a])]

\* multisetDelta of a branch against the base, applied to what is merged so far.
ApplyDelta(into, base, branch) ==
    [a \in Atoms |-> Monus(into[a], Monus(base[a], branch[a])) + Monus(branch[a], base[a])]

SpaceOf(spaces, id) == IF id \in DOMAIN spaces THEN spaces[id] ELSE EmptyBag

\* Cells that are new or hold another object than in the base.
Changed(base, w) ==
    {id \in DOMAIN w.cells : id \notin DOMAIN base.cells \/ base.cells[id] # w.cells[id]}

\* One turn of the loop of mergeWorlds.
MergeOne(base, into, w) ==
    [into EXCEPT
        !.self = ApplyDelta(@, base.self, w.self),
        !.removed = @ \cup w.removed,
        !.spaces = [id \in DOMAIN @ \cup DOMAIN w.spaces |->
                        IF id \in DOMAIN w.spaces
                        THEN ApplyDelta(SpaceOf(@, id), SpaceOf(base.spaces, id), w.spaces[id])
                        ELSE @[id]],
        !.cells = [id \in DOMAIN @ \cup DOMAIN w.cells |->
                        IF id \in Changed(base, w) THEN w.cells[id] ELSE @[id]]]

MergeWorlds(base, branches, stamp) ==
    LET merged[n \in 0..Len(branches)] ==
            IF n = 0 THEN base ELSE MergeOne(base, merged[n - 1], branches[n])
    IN  [merged[Len(branches)] EXCEPT !.version = stamp]
=============================================================================
