----------------------------- MODULE LeastNumber -----------------------------
(* The least number principle, for the proofs that argue from a first       *)
(* counterexample, and what follows from it: the greatest number of a       *)
(* bounded set, induction on a set, recursive functions.                    *)
EXTENDS Naturals, WellFoundedInduction, TLAPS

(* A nonempty set of numbers has a smallest one.                           *)
LEMMA Smallest ==
    ASSUME NEW D, D \subseteq Nat, D # {}
    PROVE  \E d \in D : \A e \in D : ~(e < d)
<1>1. PICK d \in D : \A e \in D : ~(<<e, d>> \in OpToRel(<, Nat))
  BY NatLessThanWellFounded, WFMin, Zenon
<1>2. ASSUME NEW e \in D, e < d PROVE FALSE
  <2>1. <<e, d>> \in Nat \X Nat /\ <<e, d>>[1] < <<e, d>>[2]
    BY <1>2
  <2>2. <<e, d>> \in OpToRel(<, Nat)
    BY <2>1, Zenon DEF OpToRel
  <2>. QED  BY <1>1, <2>2, Zenon
<1>. QED  BY <1>2

(* A nonempty set of numbers that has a bound has a greatest one.          *)
LEMMA Greatest ==
    ASSUME NEW n \in Nat, NEW S, S \subseteq 0 .. n, S # {}
    PROVE  \E x \in S : \A y \in S : y <= x
<1>. DEFINE D == {n - x : x \in S}
<1>1. D \subseteq Nat /\ D # {}
  <2>1. \A x \in S : n - x \in Nat
    OBVIOUS
  <2>. QED  BY <2>1
<1>2. PICK d \in D : \A e \in D : ~(e < d)
  <2>. HIDE DEF D
  <2>. QED  BY <1>1, Smallest
<1>3. PICK x \in S : d = n - x
  OBVIOUS
<1>4. \A y \in S : y <= x
  BY <1>2, <1>3, SMTT(60)
<1>. QED  BY <1>4

(* Induction up to n on a set.                                             *)
LEMMA UpTo ==
    ASSUME NEW n \in Nat, NEW P, 0 \in P, \A k \in 1 .. n : k - 1 \in P => k \in P
    PROVE  \A k \in 0 .. n : k \in P
<1>. DEFINE D == {k \in 0 .. n : k \notin P}
<1>. SUFFICES ASSUME D # {} PROVE FALSE
  OBVIOUS
<1>1. PICK k \in D : \A e \in D : ~(e < k)
  <2>1. D \subseteq Nat
    OBVIOUS
  <2>. HIDE DEF D
  <2>. QED  BY <2>1, Smallest
<1>2. k # 0 /\ k \in 1 .. n /\ k - 1 \in 0 .. n /\ k - 1 < k
  BY <1>1
<1>3. k - 1 \in P
  BY <1>1, <1>2
<1>. QED  BY <1>1, <1>2, <1>3

\* f starts with m and goes on by F.
Recursive(f, n, S, m, F) ==
    f \in [0 .. n -> S] /\ f[0] = m /\ \A k \in 1 .. n : f[k] = F[k][f[k - 1]]

(* There is such a function.                                               *)
LEMMA Recursion ==
    ASSUME NEW n \in Nat, NEW S, NEW m \in S, NEW F \in [1 .. n -> [S -> S]]
    PROVE  \E f : Recursive(f, n, S, m, F)
<1>. DEFINE Goes(f, j) == /\ f \in [0 .. n -> S] /\ f[0] = m
                          /\ \A k \in 1 .. j : f[k] = F[k][f[k - 1]]
            P == {j \in 0 .. n : \E f : Goes(f, j)}
<1>1. 0 \in P
  <2>1. Goes([k \in 0 .. n |-> m], 0)
    OBVIOUS
  <2>. HIDE DEF Goes
  <2>. QED  BY <2>1
<1>2. ASSUME NEW j \in 1 .. n, j - 1 \in P PROVE j \in P
  <2>1. PICK f : Goes(f, j - 1)
    BY <1>2
  <2>2. f[j - 1] \in S /\ F[j][f[j - 1]] \in S
    BY <2>1
  <2>. DEFINE g == [f EXCEPT ![j] = F[j][f[j - 1]]]
  <2>3. g \in [0 .. n -> S] /\ g[0] = m /\ \A k \in 0 .. j - 1 : g[k] = f[k]
    BY <2>1, <2>2
  <2>4. g[j] = F[j][g[j - 1]]
    BY <2>1, <2>3
  <2>5. ASSUME NEW k \in 1 .. j PROVE g[k] = F[k][g[k - 1]]
    <3>1. CASE k = j
      BY <2>4, <3>1
    <3>2. CASE k # j
      <4>1. k \in 1 .. j - 1 /\ k - 1 \in 0 .. j - 1
        BY <3>2
      <4>. QED  BY <2>1, <2>3, <4>1
    <3>. QED  BY <3>1, <3>2
  <2>6. Goes(g, j)
    BY <2>3, <2>5
  <2>. HIDE DEF Goes
  <2>. QED  BY <2>6
<1>3. n \in P
  <2>. HIDE DEF P
  <2>1. \A k \in 0 .. n : k \in P
    BY <1>1, <1>2, UpTo
  <2>. QED  BY <2>1
<1>. QED  BY <1>3 DEF Recursive
=============================================================================
