--------------------------- MODULE MCFlatMatcher ---------------------------
(* Workers over three facts; a call that matches some, one whose pattern has *)
(* an unknown symbol, and one that matches others.                           *)
EXTENDS FlatMatcher

CONSTANTS w1, w2

MCHits == [c \in 1..Calls |-> CASE c = 1 -> {0, 1} [] c = 3 -> {1, 2} [] c = 4 -> {0} [] OTHER -> {}]
=============================================================================
