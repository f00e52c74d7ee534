------------------------------- MODULE Sublists -------------------------------
(***************************************************************************)
(* List comprehensions with a condition, [x for x in s if keep(x)], in a   *)
(* form the proofs can use: SelectSeq is built in and opaque to them.      *)
(***************************************************************************)
EXTENDS Naturals, FiniteSets, Sequences

\* The members of s at the places K, in their order.
MembersAt(s, K) == [k \in 1..Cardinality(K) |-> s[CHOOSE n \in K : Cardinality({m \in K : m < n}) = k - 1]]
Filtered(s, Keeps(_)) == MembersAt(s, {n \in DOMAIN s : Keeps(s[n])})
=============================================================================
