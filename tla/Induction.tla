----------------------------- MODULE Induction -----------------------------
(***************************************************************************)
(* Induction over the natural numbers, and the functions it defines.  What *)
(* is shown by induction is a set, and what a step of a recursion does is  *)
(* a function: no parameter is an operator, so that the provers can use    *)
(* these facts.                                                            *)
(***************************************************************************)
EXTENDS Integers, WellFoundedInduction, TLAPS

Below == {p \in Nat \X Nat : p[1] < p[2]}

\* The natural numbers are well-founded.
LEMMA BelowIsWellFounded == IsWellFoundedOn(Below, Nat)
<1>1. Below = OpToRel(<, Nat)
  BY DEF OpToRel, Below
<1> QED
  BY <1>1, NatLessThanWellFounded, Zenon

\* Some natural numbers have a least one.
LEMMA Least ==
    ASSUME NEW T \in SUBSET Nat, T # {}
    PROVE  \E n \in T : \A m \in T : n <= m
<1>1. PICK n \in T : \A m \in T : ~(<<m, n>> \in Below)
  BY BelowIsWellFounded, WFMin
<1>2. ASSUME NEW m \in T
      PROVE  n <= m
  <2>1. m < n => <<m, n>> \in Below
    BY DEF Below
  <2> QED
    BY <1>1, <2>1
<1> QED
  BY <1>2

\* A set that contains 0, and n + 1 whenever it contains n, contains every number.
LEMMA Induct ==
    ASSUME NEW T, 0 \in T, \A n \in Nat : n \in T => n + 1 \in T
    PROVE  Nat \subseteq T
<1> SUFFICES ASSUME Nat \ T # {}
             PROVE  FALSE
  OBVIOUS
<1>1. PICK n \in Nat \ T : \A m \in Nat \ T : n <= m
  BY Least
<1>2. n - 1 \in Nat /\ n - 1 \notin Nat \ T
  BY <1>1
<1> QED
  BY <1>2

-----------------------------------------------------------------------------
\* f begins with base and takes n steps.
Steps(f, n, base, step) ==
    /\ f[0] = base
    /\ \A i \in 1..n : f[i] = step[i][f[i - 1]]

\* Recursion can go on for any number of steps.
LEMMA FiniteRecursion ==
    ASSUME NEW S, NEW base \in S, NEW step \in [Nat \ {0} -> [S -> S]], NEW n \in Nat
    PROVE  \E f \in [0..n -> S] : Steps(f, n, base, step)
<1> DEFINE T == {m \in Nat : \E f \in [0..m -> S] : Steps(f, m, base, step)}
<1>1. 0 \in T
  <2>1. [i \in 0..0 |-> base] \in [0..0 -> S] /\ Steps([i \in 0..0 |-> base], 0, base, step)
    BY DEF Steps
  <2> QED
    BY <2>1
<1>2. ASSUME NEW m \in Nat, m \in T
      PROVE  m + 1 \in T
  <2>1. PICK f \in [0..m -> S] : Steps(f, m, base, step)
    BY <1>2
  <2>2. PICK x \in S : x = step[m + 1][f[m]]
    <3>1. f[m] \in S /\ step[m + 1] \in [S -> S]
      OBVIOUS
    <3> QED
      BY <3>1
  <2>3. PICK g : g = [i \in 0..(m + 1) |-> IF i = m + 1 THEN x ELSE f[i]]
    OBVIOUS
  <2>4. g \in [0..(m + 1) -> S] /\ g[m + 1] = x /\ \A i \in 0..m : g[i] = f[i]
    BY <2>3
  <2>5. Steps(g, m + 1, base, step)
    <3>1. g[0] = base /\ g[m + 1] = step[m + 1][g[m]]
      BY <2>1, <2>2, <2>4 DEF Steps
    <3>2. ASSUME NEW i \in 1..m
          PROVE  g[i] = step[i][g[i - 1]]
      BY <2>1, <2>4 DEF Steps
    <3> QED
      BY <3>1, <3>2 DEF Steps
  <2> QED
    BY <2>4, <2>5
<1> HIDE DEF T
<1>3. Nat \subseteq T
  BY <1>1, <1>2, Induct
<1> QED
  BY <1>3 DEF T

\* Two recursions that take the same steps agree, as far as both go.
LEMMA RecursionsAgree ==
    ASSUME NEW base, NEW step, NEW m \in Nat, NEW n \in Nat, m <= n, NEW f, NEW g,
           Steps(f, m, base, step), Steps(g, n, base, step)
    PROVE  \A i \in 0..m : f[i] = g[i]
<1> DEFINE T == {i \in Nat : i <= m => f[i] = g[i]}
<1>1. 0 \in T
  BY DEF Steps
<1>2. ASSUME NEW i \in Nat, i \in T
      PROVE  i + 1 \in T
  <2>1. SUFFICES ASSUME i + 1 <= m
                 PROVE  f[i + 1] = g[i + 1]
    OBVIOUS
  <2>2. f[i] = g[i] /\ i + 1 \in 1..m /\ i + 1 \in 1..n /\ (i + 1) - 1 = i
    BY <1>2, <2>1
  <2> QED
    BY <2>2 DEF Steps
<1> HIDE DEF T
<1>3. Nat \subseteq T
  BY <1>1, <1>2, Induct
<1> QED
  BY <1>3 DEF T

\* Recursion defines a function of every number.
LEMMA Recursion ==
    ASSUME NEW S, NEW base \in S, NEW step \in [Nat \ {0} -> [S -> S]]
    PROVE  \E f \in [Nat -> S] : \A n \in Nat : Steps(f, n, base, step)
<1> DEFINE F(n) == CHOOSE f \in [0..n -> S] : Steps(f, n, base, step)
<1>1. \A n \in Nat : F(n) \in [0..n -> S] /\ Steps(F(n), n, base, step)
  BY FiniteRecursion
<1> HIDE DEF F
<1>2. PICK f : f = [n \in Nat |-> F(n)[n]]
  OBVIOUS
<1>3. f \in [Nat -> S]
  <2>1. ASSUME NEW n \in Nat
        PROVE  F(n)[n] \in S
    BY <1>1
  <2> QED
    BY <1>2, <2>1
<1>4. ASSUME NEW n \in Nat, NEW i \in 0..n
      PROVE  f[i] = F(n)[i]
  <2>1. i \in Nat /\ i <= n /\ i \in 0..i /\ f[i] = F(i)[i]
    BY <1>2
  <2> QED
    BY <1>1, <2>1, RecursionsAgree
<1>5. ASSUME NEW n \in Nat
      PROVE  Steps(f, n, base, step)
  <2>1. f[0] = F(n)[0]
    BY <1>4
  <2>2. ASSUME NEW i \in 1..n
        PROVE  f[i] = F(n)[i] /\ f[i - 1] = F(n)[i - 1]
    BY <1>4
  <2> QED
    BY <1>1, <2>1, <2>2 DEF Steps
<1> QED
  BY <1>3, <1>5
=============================================================================
