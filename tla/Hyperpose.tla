------------------------------ MODULE Hyperpose ------------------------------
(***************************************************************************)
(* A hyperpose whose branches are evaluated in parallel, as both parallel  *)
(* evaluations see it: on worker threads (ParHyperpose) and in Web Workers *)
(* (BrowserHyperpose).  A branch is abstracted to what its evaluation      *)
(* comes to.                                                               *)
(***************************************************************************)
EXTENDS Integers, FiniteSets

CONSTANT N      \* number of branches

ASSUME SomeBranch == N \in Nat \ {0}

Branches == 1..N

\* "fails": it throws, runs out of fuel or does not fit its slice.  A branch that
\* never finishes is a worker that takes no step: nothing obliges it to.
Outcomes == {"answers", "empty", "fails"}

VARIABLES
    firstOnly,  \* the call is (once (hyperpose ...))
    outcome,    \* what evaluating each branch comes to
    worker      \* control state of the worker of each branch

inputs == <<firstOnly, outcome>>
=============================================================================
