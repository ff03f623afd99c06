---------------------------- MODULE MCTableSpace ----------------------------
(* A small store: three variants of one functor, two answers, limits that every *)
(* kind of eviction and both interner resets run into.                           *)
EXTENDS TableSpace

CONSTANTS c1, c2, c3, a1, a2, head, l1, l2, l3, l4

MCCalls == {c1, c2, c3}
MCAnswers == {a1, a2}
MCBags == {<<a1>>, <<a2, a1>>}
MCFunctors == {head}
MCHeadOf == [c \in MCCalls |-> head]
MCCallVars == [c \in MCCalls |-> IF c = c2 THEN 1 ELSE 0]
MCCallLeaves == [c \in MCCalls |-> CASE c = c1 -> {l1} [] c = c2 -> {l1, l2} [] c = c3 -> {l3}]
MCAnswerLeaves == [a \in MCAnswers |-> IF a = a1 THEN {l1} ELSE {l4}]
MCAnswerSize == [a \in MCAnswers |-> IF a = a1 THEN 1 ELSE 2]
=============================================================================
