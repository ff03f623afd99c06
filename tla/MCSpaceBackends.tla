-------------------------- MODULE MCSpaceBackends ---------------------------
(* Two handles; facts that are ground, nested, general, headed by a        *)
(* variable, an equation and one that cannot be stored flat; one and onef  *)
(* are spellings of one number.                                            *)
EXTENDS SpaceBackends

CONSTANTS f, n, one, onef, op, h1, h2

It(head, nest, leaf) == [head |-> head, nest |-> nest, leaf |-> leaf]

\* Nothing tells one holder of versions from another.
MCSymmetry == Permutations(Handles)

MCHeads == {f, n, Equals}
MCValues == [x \in Leaves |-> IF x = onef THEN one ELSE x]

MCBatches ==
    {<<It(f, NoHead, one), It(f, n, onef)>>, <<It(f, n, one), It(f, NoHead, Var)>>,
     <<It(Var, n, one)>>, <<It(Equals, n, one)>>, <<It(f, n, one), It(f, NoHead, op)>>}
MCPatterns ==
    {It(f, n, one), It(f, n, Var), It(f, NoHead, Var), It(Equals, n, one), It(Var, NoHead, Var)}
=============================================================================
