------------------------------ MODULE ListProofs ------------------------------
(***************************************************************************)
(* What the operators of Lists compute, for lists of any length.  The      *)
(* prover has no induction over operators; induction over a set of natural *)
(* numbers follows from the theorem that < is well-founded, and with it    *)
(* recursion, which is all a loop needs.                                   *)
(***************************************************************************)
EXTENDS Lists, Integers, SequenceTheorems, WellFoundedInduction, TLAPS

(***************************************************************************)
(* Natural numbers.                                                        *)

\* Every nonempty set of natural numbers has a least element.
LEMMA LeastNatural ==
    ASSUME NEW T, T \subseteq Nat, T # {}
    PROVE  \E x \in T : \A y \in T : x <= y
  <1> DEFINE R == OpToRel(<, Nat)
  <1>1. IsWellFoundedOn(R, Nat)
    BY NatLessThanWellFounded
  <1>2. \A x, y \in Nat : y < x => <<y, x>> \in R
    BY DEF OpToRel
  <1> HIDE DEF R
  <1>3. PICK x \in T : \A y \in T : ~ (<<y, x>> \in R)
    BY <1>1, WFMin
  <1>4. ASSUME NEW y \in T
        PROVE  x <= y
    <2>1. x \in Nat /\ y \in Nat
      OBVIOUS
    <2>2. ~ (y < x)
      BY <1>2, <1>3, <2>1
    <2> QED
      BY <2>1, <2>2
  <1> QED
    BY <1>4

\* Induction: a set with 0 and with the successor of each of its numbers.
LEMMA Induction ==
    ASSUME NEW S, 0 \in S, \A n \in Nat : n \in S => n + 1 \in S
    PROVE  \A n \in Nat : n \in S
  <1> SUFFICES ASSUME Nat \ S # {} PROVE FALSE
    OBVIOUS
  <1>1. PICK x \in Nat \ S : \A y \in Nat \ S : x <= y
    BY LeastNatural
  <1>2. x - 1 \in Nat /\ (x - 1) + 1 = x
    <2>1. x # 0
      OBVIOUS
    <2> QED
      BY <2>1
  <1>3. x - 1 \in S
    <2>1. ~ (x <= x - 1)
      OBVIOUS
    <2> QED
      BY <1>1, <1>2, <2>1
  <1> QED
    BY <1>2, <1>3

\* FirstOf is what its name says.
LEMMA FirstIs ==
    ASSUME NEW P, P \subseteq Nat, P # {}
    PROVE  FirstOf(P) \in P /\ \A j \in P : FirstOf(P) <= j
  <1>1. \E i \in P : \A j \in P : i <= j
    BY LeastNatural
  <1> QED
    BY <1>1 DEF FirstOf

\* So is LastOf, for a bounded set.
LEMMA LastIs ==
    ASSUME NEW n \in Nat, NEW P, P \subseteq 1 .. n, P # {}
    PROVE  LastOf(P) \in P /\ \A j \in P : j <= LastOf(P)
  <1> DEFINE T == {n - i : i \in P}
  <1>1. T \subseteq Nat /\ T # {}
    OBVIOUS
  <1>2. PICK x \in T : \A y \in T : x <= y
    BY <1>1, LeastNatural
  <1>3. PICK i \in P : x = n - i
    OBVIOUS
  <1>4. ASSUME NEW j \in P
        PROVE  j <= i
    <2>1. n - i <= n - j
      BY <1>2, <1>3
    <2> QED
      BY <2>1
  <1>5. \E k \in P : \A j \in P : j <= k
    BY <1>4
  <1> QED
    BY <1>5 DEF LastOf

\* Of finitely many numbers one is the least, and one is the greatest.
LEMMA LeastOfMany ==
    ASSUME NEW n \in Nat \ {0}, NEW f, \A i \in 1 .. n : f[i] \in Nat
    PROVE  \E i \in 1 .. n : \A j \in 1 .. n : f[i] <= f[j]
  <1> DEFINE T == {f[i] : i \in 1 .. n}
  <1>1. T \subseteq Nat /\ f[1] \in T
    OBVIOUS
  <1>2. PICK x \in T : \A y \in T : x <= y
    BY <1>1, LeastNatural
  <1> QED
    BY <1>2

LEMMA GreatestOfMany ==
    ASSUME NEW n \in Nat \ {0}, NEW f, \A i \in 1 .. n : f[i] \in Nat
    PROVE  \E i \in 1 .. n : \A j \in 1 .. n : f[j] <= f[i]
  <1> DEFINE Best(k) == \E i \in 1 .. k : \A j \in 1 .. k : f[j] <= f[i]
             S == {k \in Nat : k \in 1 .. n => Best(k)}
  <1>1. 0 \in S
    OBVIOUS
  <1>2. ASSUME NEW k \in Nat, k \in S
        PROVE  k + 1 \in S
    <2> SUFFICES ASSUME k + 1 \in 1 .. n
                 PROVE  Best(k + 1)
      OBVIOUS
    <2>1. \A j \in 1 .. k + 1 : j \in 1 .. k \/ j = k + 1
      OBVIOUS
    <2>2. CASE k = 0
      <3>1. \A j \in 1 .. k + 1 : j = k + 1
        BY <2>2
      <3>2. k + 1 \in 1 .. k + 1 /\ f[k + 1] <= f[k + 1]
        OBVIOUS
      <3> QED
        BY <3>1, <3>2
    <2>3. CASE k # 0
      <3>1. k \in 1 .. n
        BY <2>3
      <3>2. PICK i \in 1 .. k : \A j \in 1 .. k : f[j] <= f[i]
        BY <1>2, <3>1
      <3>3. /\ f[i] \in Nat /\ f[k + 1] \in Nat /\ i \in 1 .. k + 1 /\ k + 1 \in 1 .. k + 1
            /\ \A j \in 1 .. k : f[j] \in Nat
        BY <3>1
      <3>4. CASE f[k + 1] <= f[i]
        <4>1. \A j \in 1 .. k + 1 : f[j] <= f[i]
          BY <2>1, <3>2, <3>4
        <4> QED
          BY <3>3, <4>1
      <3>5. CASE f[i] <= f[k + 1]
        <4>1. \A j \in 1 .. k : f[j] <= f[k + 1]
          BY <3>2, <3>3, <3>5
        <4> QED
          BY <2>1, <3>3, <4>1
      <3> QED
        BY <3>3, <3>4, <3>5
    <2> QED
      BY <2>2, <2>3
  <1> HIDE DEF S
  <1>3. n \in S
    BY <1>1, <1>2, Induction
  <1> QED
    BY <1>3 DEF S
-----------------------------------------------------------------------------
(***************************************************************************)
(* Recursion.                                                              *)

\* f is what a variable is after 0, 1, ..., k rounds of a loop.
Runs(f, k, base, step) ==
    /\ f[0] = base
    /\ \A i \in 1 .. k : f[i] = step[<<i, f[i - 1]>>]

\* Every loop runs.
LEMMA Recursion ==
    ASSUME NEW V, NEW base, NEW step, NEW m,
           base \in V, step \in [Nat \X V -> V], m \in Nat
    PROVE  \E f : f \in [0 .. m -> V] /\ Runs(f, m, base, step)
  <1> USE DEF Runs
  <1> DEFINE S == {k \in Nat : \E f \in [0 .. k -> V] : Runs(f, k, base, step)}
  <1>1. 0 \in S
    <2>1. [i \in 0 .. 0 |-> base] \in [0 .. 0 -> V]
      OBVIOUS
    <2>2. Runs([i \in 0 .. 0 |-> base], 0, base, step)
      OBVIOUS
    <2> QED
      BY <2>1, <2>2
  <1>2. ASSUME NEW k \in Nat, k \in S
        PROVE  k + 1 \in S
    <2>1. PICK f \in [0 .. k -> V] : Runs(f, k, base, step)
      BY <1>2
    <2> DEFINE g == [i \in 0 .. k + 1 |-> IF i = k + 1 THEN step[<<k + 1, f[k]>>] ELSE f[i]]
    <2>2. f[k] \in V /\ step[<<k + 1, f[k]>>] \in V
      <3>1. f[k] \in V
        OBVIOUS
      <3>2. <<k + 1, f[k]>> \in Nat \X V
        BY <3>1
      <3> QED
        BY <3>1, <3>2
    <2>3. g \in [0 .. k + 1 -> V]
      BY <2>2
    <2>4. g[0] = base
      BY <2>1
    <2>5. ASSUME NEW i \in 1 .. k + 1
          PROVE  g[i] = step[<<i, g[i - 1]>>]
      <3>1. i - 1 \in 0 .. k /\ i - 1 # k + 1 /\ i \in 0 .. k + 1 /\ i - 1 \in 0 .. k + 1
        OBVIOUS
      <3>2. g[i - 1] = f[i - 1]
        BY <3>1
      <3>3. CASE i = k + 1
        <4>1. i - 1 = k /\ g[i] = step[<<k + 1, f[k]>>]
          BY <3>1, <3>3
        <4> QED
          BY <3>2, <3>3, <4>1
      <3>4. CASE i # k + 1
        <4>1. i \in 1 .. k /\ g[i] = f[i]
          BY <3>1, <3>4
        <4> QED
          BY <2>1, <3>2, <4>1
      <3> QED
        BY <3>3, <3>4
    <2> QED
      <3> HIDE DEF g
      <3>1. Runs(g, k + 1, base, step)
        BY <2>4, <2>5
      <3> QED
        BY <2>3, <3>1
  <1> HIDE DEF S
  <1>3. m \in S
    BY <1>1, <1>2, Induction
  <1> QED
    BY <1>3 DEF S
-----------------------------------------------------------------------------
(***************************************************************************)
(* Positions and Kept.                                                     *)

\* The loop behind Positions.
LEMMA PositionsLoop ==
    ASSUME NEW P, NEW n \in Nat
    PROVE  \E f : /\ f[0] = <<>>
                  /\ \A i \in 1 .. n :
                       f[i] = IF i \in P THEN Append(f[i - 1], i) ELSE f[i - 1]
                  /\ Positions(P, n) = f[n]
  <1> DEFINE Loop(f) == [i \in 0 .. n |->
                           IF i = 0 THEN <<>>
                           ELSE IF i \in P THEN Append(f[i - 1], i) ELSE f[i - 1]]
  <1>1. \E f : f = Loop(f)
    <2> DEFINE step == [a \in Nat \X Seq(Nat) |->
                          IF a[1] \in P THEN Append(a[2], a[1]) ELSE a[2]]
    <2>1. step \in [Nat \X Seq(Nat) -> Seq(Nat)]
      OBVIOUS
    <2>2. \A i \in Nat, s \in Seq(Nat) :
             step[<<i, s>>] = IF i \in P THEN Append(s, i) ELSE s
      OBVIOUS
    <2>3. <<>> \in Seq(Nat)
      OBVIOUS
    <2> HIDE DEF step
    <2>4. PICK f \in [0 .. n -> Seq(Nat)] :
             /\ f[0] = <<>>
             /\ \A i \in 1 .. n : f[i] = step[<<i, f[i - 1]>>]
      <3>1. \E f : f \in [0 .. n -> Seq(Nat)] /\ Runs(f, n, <<>>, step)
        BY <2>1, <2>3, Recursion
      <3> QED
        BY <3>1 DEF Runs
    <2>5. ASSUME NEW i \in 0 .. n
          PROVE  f[i] = Loop(f)[i]
      <3>1. CASE i = 0
        BY <2>4, <3>1
      <3>2. CASE i # 0
        <4>1. i \in 1 .. n /\ i \in Nat /\ f[i - 1] \in Seq(Nat)
          BY <3>2
        <4> QED
          BY <2>2, <2>4, <3>2, <4>1
      <3> QED
        BY <3>1, <3>2
    <2>6. f = Loop(f)
      BY <2>5
    <2> QED
      BY <2>6
  <1>2. PICK g : g = Loop(g) /\ Positions(P, n) = g[n]
    BY <1>1, Zenon DEF Positions
  <1>3. g[0] = <<>>
    BY <1>2
  <1>4. ASSUME NEW i \in 1 .. n
        PROVE  g[i] = IF i \in P THEN Append(g[i - 1], i) ELSE g[i - 1]
    <2>1. i \in 0 .. n /\ i # 0
      OBVIOUS
    <2>2. g[i] = Loop(g)[i]
      BY <1>2
    <2> QED
      BY <2>1, <2>2
  <1> QED
    BY <1>2, <1>3, <1>4

\* list names the members of Q, each once and in order.
Enumerates(list, Q) ==
    /\ list \in Seq(Q)
    /\ \A q \in Q : \E k \in 1 .. Len(list) : list[k] = q
    /\ \A j, k \in 1 .. Len(list) : j < k => list[j] < list[k]

\* A number that is greater than all of Q goes to the end.
LEMMA EnumeratesOneMore ==
    ASSUME NEW Q, Q \subseteq Nat, NEW list, Enumerates(list, Q),
           NEW n \in Nat, \A q \in Q : q < n
    PROVE  Enumerates(Append(list, n), Q \cup {n})
  <1> DEFINE more == Append(list, n)
             R    == Q \cup {n}
  <1>1. list \in Seq(R) /\ Len(list) \in Nat /\ \A k \in 1 .. Len(list) : list[k] \in Q
    BY DEF Enumerates
  <1>2. /\ more \in Seq(R) /\ Len(more) = Len(list) + 1
        /\ \A k \in 1 .. Len(list) : more[k] = list[k]
        /\ more[Len(list) + 1] = n
    BY <1>1, AppendProperties
  <1> HIDE DEF more
  <1>3. ASSUME NEW q \in R
        PROVE  \E k \in 1 .. Len(more) : more[k] = q
    <2>1. CASE q \in Q
      <3>1. PICK k \in 1 .. Len(list) : list[k] = q
        BY <2>1 DEF Enumerates
      <3>2. k \in 1 .. Len(more) /\ more[k] = q
        BY <1>1, <1>2, <3>1
      <3> QED
        BY <3>2
    <2>2. CASE q = n
      <3>1. Len(list) + 1 \in 1 .. Len(more)
        BY <1>1, <1>2
      <3> QED
        BY <1>2, <2>2, <3>1
    <2> QED
      BY <2>1, <2>2
  <1>4. ASSUME NEW j \in 1 .. Len(more), NEW k \in 1 .. Len(more), j < k
        PROVE  more[j] < more[k]
    <2>1. j \in 1 .. Len(list) /\ more[j] = list[j] /\ list[j] \in Q
      BY <1>1, <1>2, <1>4
    <2>2. CASE k \in 1 .. Len(list)
      BY <1>2, <1>4, <2>1, <2>2 DEF Enumerates
    <2>3. CASE k = Len(list) + 1
      BY <1>2, <2>1, <2>3
    <2> QED
      BY <1>1, <1>2, <2>2, <2>3
  <1> QED
    BY <1>2, <1>3, <1>4 DEF Enumerates, more

\* The positions of P are listed, each once and in order.
LEMMA PositionsEnumerate ==
    ASSUME NEW P, NEW n \in Nat
    PROVE  Enumerates(Positions(P, n), P \cap (1 .. n))
  <1>1. PICK f : /\ f[0] = <<>>
                 /\ \A i \in 1 .. n :
                      f[i] = IF i \in P THEN Append(f[i - 1], i) ELSE f[i - 1]
                 /\ Positions(P, n) = f[n]
    BY PositionsLoop
  <1> DEFINE S == {i \in Nat : i <= n => Enumerates(f[i], P \cap (1 .. i))}
  <1>2. 0 \in S
    <2>1. P \cap (1 .. 0) = {}
      OBVIOUS
    <2>2. Enumerates(<<>>, {})
      BY DEF Enumerates
    <2> QED
      BY <1>1, <2>1, <2>2
  <1>3. ASSUME NEW i \in Nat, i \in S
        PROVE  i + 1 \in S
    <2> SUFFICES ASSUME i + 1 <= n
                 PROVE  Enumerates(f[i + 1], P \cap (1 .. i + 1))
      OBVIOUS
    <2> DEFINE Q == P \cap (1 .. i)
    <2>1. Enumerates(f[i], Q) /\ i + 1 \in 1 .. n /\ (i + 1) - 1 = i
      BY <1>3
    <2>2. f[i + 1] = IF i + 1 \in P THEN Append(f[i], i + 1) ELSE f[i]
      BY <1>1, <2>1
    <2>3. CASE i + 1 \in P
      <3>1. Q \subseteq Nat /\ \A q \in Q : q < i + 1
        OBVIOUS
      <3>2. P \cap (1 .. i + 1) = Q \cup {i + 1}
        BY <2>3
      <3> HIDE DEF Q
      <3>3. PICK list, m : list = f[i] /\ m = i + 1
        OBVIOUS
      <3>4. Enumerates(list, Q) /\ m \in Nat /\ \A q \in Q : q < m
        BY <2>1, <3>1, <3>3
      <3>5. Enumerates(Append(list, m), Q \cup {m})
        BY <3>1, <3>4, EnumeratesOneMore
      <3> QED
        BY <2>2, <2>3, <3>2, <3>3, <3>5
    <2>4. CASE i + 1 \notin P
      <3>1. P \cap (1 .. i + 1) = Q
        BY <2>4
      <3> QED
        BY <2>1, <2>2, <2>4, <3>1
    <2> QED
      BY <2>3, <2>4
  <1> HIDE DEF S
  <1>4. n \in S
    BY <1>2, <1>3, Induction
  <1> QED
    BY <1>1, <1>4 DEF S

\* The k-th element that is kept of s is its element at at[k].
KeepsAt(s, P, at) ==
    /\ Enumerates(at, P) /\ Len(at) \in Nat
    /\ Kept(s, P) = [k \in 1 .. Len(at) |-> s[at[k]]]
    /\ DOMAIN Kept(s, P) = 1 .. Len(at) /\ Len(Kept(s, P)) = Len(at)
    /\ \A k \in 1 .. Len(at) : at[k] \in P /\ Kept(s, P)[k] = s[at[k]]
    /\ \A p \in P : \E k \in 1 .. Len(at) : at[k] = p
    /\ \A j, k \in 1 .. Len(at) : j < k => at[j] < at[k]

\* The loop that keeps the elements at the positions in P: they are all in the
\* new list, and nothing else is, and later ones come later.
LEMMA KeptIs ==
    ASSUME NEW s, NEW P, P \subseteq 1 .. Len(s), Len(s) \in Nat
    PROVE  KeepsAt(s, P, Positions(P, Len(s)))
  <1>1. PICK at : at = Positions(P, Len(s))
    OBVIOUS
  <1>2. Enumerates(at, P)
    <2>1. P \cap (1 .. Len(s)) = P
      OBVIOUS
    <2> QED
      BY <1>1, <2>1, PositionsEnumerate
  <1>3. at \in Seq(P) /\ Len(at) \in Nat /\ DOMAIN at = 1 .. Len(at)
    BY <1>2, LenProperties DEF Enumerates
  <1>4. \A k \in 1 .. Len(at) : at[k] \in P
    BY <1>3, ElementOfSeq
  <1>5. Kept(s, P) = [k \in 1 .. Len(at) |-> s[at[k]]]
    BY <1>1, <1>3 DEF Kept
  <1>6. Len(Kept(s, P)) = Len(at)
    <2> DEFINE T == {s[p] : p \in P}
               list == [k \in 1 .. Len(at) |-> s[at[k]]]
    <2>1. list \in [1 .. Len(at) -> T]
      BY <1>4
    <2>2. list \in Seq(T) /\ DOMAIN list = 1 .. Len(at)
      BY <1>3, <2>1, SeqDef
    <2> QED
      BY <1>3, <1>5, <2>2, LenProperties
  <1> QED
    BY <1>1, <1>2, <1>3, <1>4, <1>5, <1>6 DEF KeepsAt, Enumerates

\* As sets: the elements of the new list are the elements at P.
LEMMA KeptElems ==
    ASSUME NEW s, NEW P, P \subseteq 1 .. Len(s), Len(s) \in Nat
    PROVE  Elems(Kept(s, P)) = {s[p] : p \in P}
  <1>1. PICK at : KeepsAt(s, P, at)
    BY KeptIs
  <1>2. /\ DOMAIN Kept(s, P) = 1 .. Len(at)
        /\ \A p \in P : \E k \in 1 .. Len(at) : at[k] = p
    BY <1>1 DEF KeepsAt
  <1>3. \A k \in 1 .. Len(at) : Kept(s, P)[k] \in {s[p] : p \in P}
    BY <1>1 DEF KeepsAt
  <1>4. \A p \in P : s[p] \in Elems(Kept(s, P))
    BY <1>1, <1>2 DEF KeepsAt, Elems
  <1> QED
    BY <1>2, <1>3, <1>4 DEF Elems

\* A list that is empty keeps nothing, and what keeps nothing is empty.
LEMMA KeptEmpty ==
    ASSUME NEW s, NEW P, P \subseteq 1 .. Len(s), Len(s) \in Nat
    PROVE  Kept(s, P) = <<>> <=> P = {}
  <1>1. PICK at : KeepsAt(s, P, at)
    BY KeptIs
  <1>2. ASSUME P = {}
        PROVE  Kept(s, P) = <<>>
    <2>1. Len(at) = 0
      BY <1>1, <1>2 DEF KeepsAt
    <2>2. Kept(s, P) = [k \in 1 .. 0 |-> s[at[k]]]
      BY <1>1, <2>1 DEF KeepsAt
    <2> QED
      BY <2>2
  <1>3. ASSUME Kept(s, P) = <<>>, NEW p \in P
        PROVE  FALSE
    <2>1. Len(at) = 0
      BY <1>1, <1>3 DEF KeepsAt
    <2> QED
      BY <1>1, <2>1 DEF KeepsAt
  <1> QED
    BY <1>2, <1>3
===============================================================================
