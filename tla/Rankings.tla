------------------------------ MODULE Rankings ------------------------------
(***************************************************************************)
(* The order in which a set of different things is presented: the result   *)
(* of list.sort() by a key that ends in an identifier, so that of two      *)
(* things one always comes first.                                          *)
(***************************************************************************)
EXTENDS Naturals, FiniteSets

\* The members of S that the relation R puts before x.
Preceding(x, S, R) == {y \in S : <<y, x>> \in R}

\* S as a sequence in the order of R: the k-th member has k - 1 before it.
InOrder(S, R) ==
    [k \in 1..Cardinality(S) |-> CHOOSE x \in S : Cardinality(Preceding(x, S, R)) = k - 1]
=============================================================================
