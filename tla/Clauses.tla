------------------------------ MODULE Clauses ------------------------------
(***************************************************************************)
(* A MeTTa program as the tabling of calls sees it, and what its calls     *)
(* mean without tables.  A call has the clauses of its equations, each a   *)
(* fact or a body of one or two nested lets                                *)
(*     (let $x (c) $x)      (let $x (c) (let $y (d) $y))                   *)
(* whose premises are the calls c and d.  A result is an answer or one of  *)
(* the two errors tabling deals with; the results of a call are a bag.     *)
(***************************************************************************)
EXTENDS Integers, Sequences, FiniteSets, Functions

CONSTANTS Calls, Answers

Overflow == "StackOverflow"
Refused == "TableResourceLimit"
Errors == {Overflow, Refused}
Results == Answers \cup Errors

ASSUME ResultAssumption == IsFiniteSet(Answers) /\ Answers \cap Errors = {}

Kinds == {"ground", "moded", "plain"}
Clause == [needs : UNION {[1..n -> Calls] : n \in 0..2}, fact : Answers]
Program == [kind : [Calls -> Kinds], clauses : [Calls -> Seq(Clause)]]

Fact(a) == [needs |-> << >>, fact |-> a]

-----------------------------------------------------------------------------
(* Bags of results.                                                        *)

Zero == [r \in Results |-> 0]
Single(x) == [r \in Results |-> IF r = x THEN 1 ELSE 0]
EachOnce(S) == [r \in Results |-> IF r \in S THEN 1 ELSE 0]
Plus(b, d) == [r \in Results |-> b[r] + d[r]]
Times(n, b) == [r \in Results |-> n * b[r]]
OnlyErrors(b) == [r \in Results |-> IF r \in Errors THEN b[r] ELSE 0]
Support(b) == {r \in Results : b[r] > 0}
NumAnswers(b) == Cardinality(UNION {{a} \X (1..b[a]) : a \in Answers})

-----------------------------------------------------------------------------
(* Evaluation without tables, with n levels left below max-stack-depth: a  *)
(* call at the bound is cut.  An error of a premise is a result of the     *)
(* clause; each answer of the first premise evaluates the second.          *)

ClauseBag(cl, meaning) ==
    CASE cl.needs = << >> -> Single(cl.fact)
      [] Len(cl.needs) = 1 -> meaning[cl.needs[1]]
      [] OTHER -> LET first == meaning[cl.needs[1]]
                  IN  Plus(OnlyErrors(first), Times(NumAnswers(first), meaning[cl.needs[2]]))

(* The sums of the first i bags, for each i.                               *)
Sums(bags) ==
    LET sum[i \in 0..Len(bags)] == IF i = 0 THEN Zero ELSE Plus(sum[i - 1], bags[i]) IN sum

SumBags(bags) == Sums(bags)[Len(bags)]

ClauseBags(p, c, meaning) == [i \in DOMAIN p.clauses[c] |-> ClauseBag(p.clauses[c][i], meaning)]

Untabled(p, depth) ==
    LET bags[n \in 0..depth] ==
            [c \in Calls |->
                IF n = 0 THEN Single(Overflow)
                ELSE SumBags(ClauseBags(p, c, bags[n - 1]))]
    IN  bags

(* What the clauses give when the answers of the calls are known.          *)
ClauseAnswers(cl, known) ==
    CASE cl.needs = << >> -> {cl.fact}
      [] Len(cl.needs) = 1 -> known[cl.needs[1]]
      [] OTHER -> IF known[cl.needs[1]] = {} THEN {} ELSE known[cl.needs[2]]

Consequences(p, c, known) == UNION {ClauseAnswers(p.clauses[c][i], known) : i \in DOMAIN p.clauses[c]}

Interpretation == [Calls -> SUBSET Answers]
IsModel(p, m) == \A c \in Calls : Consequences(p, c, m) \subseteq m[c]

(* The answers every model has: those that some finite derivation gives.   *)
LeastModel(p) == [c \in Calls |-> {a \in Answers : \A m \in Interpretation : IsModel(p, m) => a \in m[c]}]

(* <<c, d>> is in Reaches(p) when evaluating c may evaluate d: d is in     *)
(* every set that holds the premises of c and those of its own calls.      *)
Premises(p, c) == UNION {Range(p.clauses[c][i].needs) : i \in DOMAIN p.clauses[c]}

Reaches(p) ==
    {e \in Calls \X Calls :
        \A S \in SUBSET Calls :
            Premises(p, e[1]) \subseteq S /\ (\A d \in S : Premises(p, d) \subseteq S) => e[2] \in S}

(* least: the answers; untabled: the bags by levels; plain: calls that     *)
(* reach no cycle with a moded call on it; mixed: a cycle goes through a   *)
(* moded and a ground call.                                                *)
Meaning(p, depth) ==
    LET reaches == Reaches(p)
        recurs == {c \in Calls : p.kind[c] = "moded" /\ <<c, c>> \in reaches}
    IN  [least |-> LeastModel(p),
         untabled |-> [n \in 0..depth |-> Untabled(p, depth)[n]],
         plain |-> {c \in Calls : c \notin recurs /\ \A d \in recurs : <<c, d>> \notin reaches},
         mixed |-> \E c \in recurs, d \in Calls :
                        p.kind[d] = "ground" /\ <<c, d>> \in reaches /\ <<d, c>> \in reaches]
=============================================================================
