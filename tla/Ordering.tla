------------------------------- MODULE Ordering -------------------------------
(* Sorting and filtering of lists, by counting: both pipelines do it. *)
EXTENDS Integers, Sequences, FiniteSets

\* The elements of a set, each after those that are before it.
InOrder(S, before) ==
    [p \in 1..Cardinality(S) |-> CHOOSE e \in S : Cardinality(before[e]) = p - 1]

\* A list without the elements at the other positions.
Keep(seq, positions) ==
    LET at == InOrder(positions, [i \in positions |-> {j \in positions : j < i}])
    IN  [p \in 1..Cardinality(positions) |-> seq[at[p]]]

=============================================================================
