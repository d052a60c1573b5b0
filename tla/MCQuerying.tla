---------------------------- MODULE MCQuerying ----------------------------
(* Values of the constants of Querying. *)
EXTENDS Querying, TLC

CONSTANTS s1, s2      \* the slots

MCSlots == {s1, s2}
SlotSymmetry == Permutations(MCSlots)
OneSlot == {s1}

\* Similarity is not transitive: "b" is near "a" and "c", which are not near each other.
MCQueries == {"a", "b", "c"}
MCNear == [a |-> <<"a", "b">>, b |-> <<"b", "a", "c">>, c |-> <<"c", "b">>]
OneQuery == {"a"}
OneNear == [a |-> <<"a">>]
=============================================================================
