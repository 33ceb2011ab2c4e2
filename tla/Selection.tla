----------------------------- MODULE Selection -----------------------------
(***************************************************************************)
(* Some of the elements of a list, in their order: what the filters of the *)
(* planners keep.  S is a finite set of positions of the list s.           *)
(***************************************************************************)
EXTENDS Integers, Sequences, FiniteSets

UpTo(S, i) == {k \in S : k <= i}

\* The n-th smallest member of S, and the members of S in order.
Nth(S, n) == CHOOSE i \in S : Cardinality(UpTo(S, i)) = n
Ranked(S) == [n \in 1..Cardinality(S) |-> Nth(S, n)]

Chosen(s, S) == [n \in 1..Cardinality(S) |-> s[Ranked(S)[n]]]

=============================================================================
