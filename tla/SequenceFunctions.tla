------------------------- MODULE SequenceFunctions --------------------------
(***************************************************************************)
(* Functions of sequences that the models are written with, as recursive   *)
(* functions, so that TLC evaluates them and TLAPS can reason about them   *)
(* (see SequenceFunctionsProofs): sums of naturals, with which every       *)
(* running counter of the table store is compared, and the elements of a   *)
(* sequence that are in a set, which is how a store lists what it holds.   *)
(***************************************************************************)
EXTENDS Integers, Sequences

\* PrefixSums(ws)[i] is the sum of the first i weights.
PrefixSums(ws) ==
    LET p[i \in 0..Len(ws)] == IF i = 0 THEN 0 ELSE p[i - 1] + ws[i]
    IN  p

Total(ws) == PrefixSums(ws)[Len(ws)]

\* The elements of s that are in S, in their order.
Filtered(s, S) ==
    LET kept[i \in 0..Len(s)] ==
            IF i = 0 THEN << >> ELSE IF s[i] \in S THEN Append(kept[i - 1], s[i]) ELSE kept[i - 1]
    IN  kept[Len(s)]
=============================================================================
