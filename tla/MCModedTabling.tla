--------------------------- MODULE MCModedTabling ---------------------------
(* Programs of a moded call, a moded or ground one and a ground or plain    *)
(* one, each with one or two clauses: facts, a copy of any call and, for    *)
(* the first, a join.                                                       *)
EXTENDS ModedTabling, TLC

CONSTANTS m, n, g, a, b

Shapes == {<<Fact(a), Fact(a)>>} \cup {<<Fact(b), [needs |-> <<d>>, fact |-> a]>> : d \in Calls}
Copies == {<<[needs |-> <<d>>, fact |-> a]>> : d \in Calls}
Joins == {<<[needs |-> <<d, e>>, fact |-> a], Fact(a)>> : d \in Calls, e \in {m, n}}

MCPrograms ==
    {[kind |-> m :> "moded" @@ n :> k[1] @@ g :> k[2], clauses |-> m :> x @@ n :> y @@ g :> z] :
        k \in {<<"moded", "ground">>, <<"moded", "moded">>, <<"ground", "plain">>},
        x \in Shapes \cup Joins, y \in Shapes \cup Copies, z \in Shapes}
=============================================================================
