--------------------------- MODULE VersionedSpace ---------------------------
(***************************************************************************)
(* What a space with versions promises: every holder of a version has a    *)
(* sequence of atoms of its own, in the order they were added.  Taking     *)
(* another holder's version (snapshot, restore, fork, or a branch of the   *)
(* evaluation) copies it and leaves nothing shared that a change could     *)
(* show through.  A removal takes the first atom that is alike, in one of  *)
(* the ways the store goes by.                                             *)
(***************************************************************************)
EXTENDS SpaceAtoms

CONSTANTS Handles, Batches, Patterns,
    RemovedBy   \* "value", or "term" as well

VARIABLE contents

Init == contents = [h \in Handles |-> << >>]

Add(h, batch) == contents' = [contents EXCEPT ![h] = @ \o batch]

RemoveOne(h, a) == \E by \in RemovedBy : contents' = [contents EXCEPT ![h] = RemoveFirstAlike(by, @, a)]

Become(h, k) == contents' = [contents EXCEPT ![h] = contents[k]]

Clear(h) == contents' = [contents EXCEPT ![h] = << >>]

Next ==
    \E h \in Handles :
        \/ \E batch \in Batches : Add(h, batch)
        \/ \E p \in Patterns : RemoveOne(h, p)
        \/ \E k \in Handles : Become(h, k)
        \/ Clear(h)

Spec == Init /\ [][Next]_contents
=============================================================================
