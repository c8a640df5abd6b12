-------------------------------- MODULE Lists --------------------------------
(***************************************************************************)
(* The loops of the program that go over a slice and append what passes a  *)
(* test to another.  They are written as recursive functions over the      *)
(* positions, so that ListProofs can say what they collect.                *)
(***************************************************************************)
EXTENDS Naturals, Sequences

\* The positions in P among the first n, in order.
Positions(P, n) ==
    LET upTo[i \in 0 .. n] ==
          IF i = 0 THEN <<>>
          ELSE IF i \in P THEN Append(upTo[i - 1], i) ELSE upTo[i - 1]
    IN  upTo[n]

\* The elements of s at the positions in P.
Kept(s, P) == LET at == Positions(P, Len(s)) IN [k \in DOMAIN at |-> s[at[k]]]

Elems(s) == {s[i] : i \in DOMAIN s}

\* The least and the greatest of a set of positions.
FirstOf(P) == CHOOSE i \in P : \A j \in P : i <= j
LastOf(P)  == CHOOSE i \in P : \A j \in P : j <= i
==============================================================================
