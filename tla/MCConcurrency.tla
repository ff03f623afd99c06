---------------------------- MODULE MCConcurrency ----------------------------
(* A program with one atom of its own, one the loaded text holds, one that holds *)
(* the first state handle and one module.                                       *)
EXTENDS Concurrency

CONSTANTS fact, given, holder, def, module, L

MCDefs == [m \in {module} |-> {def}]
MCHandleIn == [a \in {holder} |-> 0]
MCNone == << >>
=============================================================================
