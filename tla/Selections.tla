------------------------------ MODULE Selections ------------------------------
(***************************************************************************)
(* What a list comprehension with a condition keeps of a list: its items   *)
(* at some places, in their order.  SelectSeq would be the same, but is    *)
(* recursive; this definition can be reasoned about in proofs.             *)
(***************************************************************************)
EXTENDS Integers, Sequences, FiniteSets

\* the k-th place of S
Place(S, k) == CHOOSE i \in S : Cardinality({j \in S : j <= i}) = k

\* the items of list s at the places in S
Pick(s, S) == [k \in 1..Cardinality(S) |-> s[Place(S, k)]]
=============================================================================
