----------------------------- MODULE NatRecursion -----------------------------
(***************************************************************************)
(* Iteration: a recursive function on the naturals that starts at Base(p)  *)
(* and takes Step from each value to the next.  That such a function       *)
(* exists, and so that the recursive definition means what it says, is     *)
(* shown once for every Base and Step; modules that define functions in    *)
(* this way get it by INSTANCE.                                            *)
(***************************************************************************)
EXTENDS Integers, WellFoundedInduction, TLAPS

CONSTANTS Base(_), Step(_)

Iterate(p) ==
    LET iterate[n \in Nat] == IF n = 0 THEN Base(p) ELSE Step(iterate[n - 1])
    IN  iterate

(* Induction, for a set of naturals.                                       *)
LEMMA NatSetInduction ==
    ASSUME NEW S \in SUBSET Nat, 0 \in S, \A n \in S : n + 1 \in S
    PROVE  S = Nat
<1> DEFINE less == {ss \in Nat \X Nat : ss[1] < ss[2]}
<1>1. IsWellFoundedOn(less, Nat)
  BY NatLessThanWellFounded DEF OpToRel
<1>2. SUFFICES ASSUME Nat \ S # {} PROVE FALSE
  OBVIOUS
<1>3. PICK x \in Nat \ S : \A y \in Nat \ S : ~ (<<y, x>> \in less)
  BY <1>1, <1>2, WFMin
<1>4. x - 1 \in Nat /\ <<x - 1, x>> \in Nat \X Nat /\ x - 1 < x
  BY <1>3
<1>5. x - 1 \in S
  BY <1>3, <1>4
<1> QED
  BY <1>3, <1>5

(* A set of naturals that is bounded and not empty has a greatest element. *)
LEMMA GreatestElement ==
    ASSUME NEW N \in Nat, NEW T, T \subseteq 0..N, T # {}
    PROVE  \E x \in T : \A y \in T : y <= x
<1> DEFINE less == {ss \in Nat \X Nat : ss[1] < ss[2]}
           R == {N - x : x \in T}
<1>1. IsWellFoundedOn(less, Nat)
  BY NatLessThanWellFounded DEF OpToRel
<1>2. R \subseteq Nat /\ R # {}
  <2>1. \A x \in T : N - x \in Nat
    OBVIOUS
  <2>2. PICK x : x \in T
    OBVIOUS
  <2>3. N - x \in R
    BY <2>2
  <2> QED
    BY <2>1, <2>3
<1> HIDE DEF R
<1>3. PICK r \in R : \A y \in R : ~ (<<y, r>> \in less)
  BY <1>1, <1>2, WFMin
<1>4. PICK x \in T : r = N - x
  BY DEF R
<1>5. ASSUME NEW y \in T PROVE y <= x
  <2>1. N - y \in R /\ <<N - y, r>> \in Nat \X Nat
    BY <1>2, <1>3 DEF R
  <2>2. ~(N - y < r)
    BY <1>3, <2>1
  <2> QED
    BY <1>4, <2>2
<1> QED
  BY <1>5

-----------------------------------------------------------------------------
(* a is the function up to n.                                              *)
Partial(p, n, a) ==
    /\ DOMAIN a = 0..n
    /\ a[0] = Base(p)
    /\ \A k \in 1..n : a[k] = Step(a[k - 1])

LEMMA PartialExists ==
    ASSUME NEW p, NEW n \in Nat
    PROVE  \E a : Partial(p, n, a)
<1> DEFINE S == {m \in Nat : \E a : Partial(p, m, a)}
<1>1. 0 \in S
  <2>1. Partial(p, 0, [k \in 0..0 |-> Base(p)])
    BY DEF Partial
  <2> QED
    BY <2>1
<1>2. ASSUME NEW m \in S PROVE m + 1 \in S
  <2>1. PICK a : Partial(p, m, a)
    OBVIOUS
  <2> DEFINE b == [k \in 0..(m + 1) |-> IF k = m + 1 THEN Step(a[m]) ELSE a[k]]
  <2>2. DOMAIN b = 0..(m + 1) /\ b[0] = Base(p)
    BY <2>1 DEF Partial
  <2>3. ASSUME NEW k \in 1..(m + 1) PROVE b[k] = Step(b[k - 1])
    <3>1. /\ k \in 0..(m + 1) /\ k - 1 \in 0..(m + 1)
          /\ k - 1 # m + 1 /\ k - 1 \in Nat
      OBVIOUS
    <3>2. CASE k = m + 1
      BY <3>1, <3>2
    <3>3. CASE k # m + 1
      <4>1. k \in 1..m
        BY <3>3
      <4> QED
        BY <2>1, <3>1, <3>3, <4>1 DEF Partial
    <3> QED
      BY <3>2, <3>3
  <2> HIDE DEF b
  <2>4. Partial(p, m + 1, b)
    BY <2>2, <2>3 DEF Partial
  <2> QED
    BY <2>4
<1> HIDE DEF S
<1>3. S \in SUBSET Nat
  BY DEF S
<1>4. S = Nat
  BY <1>1, <1>2, <1>3, NatSetInduction
<1> QED
  BY <1>4 DEF S

(* Of two such functions the longer continues the shorter.                 *)
LEMMA PartialUnique ==
    ASSUME NEW p, NEW m \in Nat, NEW n \in Nat, m <= n, NEW a, NEW b,
           Partial(p, m, a), Partial(p, n, b)
    PROVE  \A k \in 0..m : a[k] = b[k]
<1> DEFINE S == {k \in Nat : k <= m => a[k] = b[k]}
<1>1. 0 \in S
  BY DEF Partial
<1>2. ASSUME NEW k \in S PROVE k + 1 \in S
  <2> SUFFICES ASSUME k + 1 <= m PROVE a[k + 1] = b[k + 1]
    OBVIOUS
  <2>1. k + 1 \in 1..m /\ k + 1 \in 1..n /\ (k + 1) - 1 = k /\ a[k] = b[k]
    OBVIOUS
  <2> QED
    BY <2>1 DEF Partial
<1> HIDE DEF S
<1>3. S = Nat
  <2>1. S \in SUBSET Nat
    BY DEF S
  <2> QED
    BY <1>1, <1>2, <2>1, NatSetInduction
<1> QED
  BY <1>3 DEF S

(* The recursive definition has a solution: Iterate(p) starts with Base(p) *)
(* and goes on by Step, as the loops of the code do.                       *)
THEOREM IterateDefined ==
    \A p : /\ DOMAIN Iterate(p) = Nat
           /\ Iterate(p)[0] = Base(p)
           /\ \A n \in Nat : Iterate(p)[n + 1] = Step(Iterate(p)[n])
<1> SUFFICES ASSUME NEW p
             PROVE  /\ DOMAIN Iterate(p) = Nat
                    /\ Iterate(p)[0] = Base(p)
                    /\ \A n \in Nat : Iterate(p)[n + 1] = Step(Iterate(p)[n])
  OBVIOUS
<1> DEFINE part(n) == CHOOSE a : Partial(p, n, a)
           Eqn(g) ==
               g = [n \in Nat |-> IF n = 0 THEN Base(p) ELSE Step(g[n - 1])]
           g0 == [n \in Nat |-> part(n)[n]]
<1>1. \A n \in Nat : Partial(p, n, part(n))
  BY PartialExists
<1> HIDE DEF part
<1>2. Eqn(g0)
  <2>1. ASSUME NEW n \in Nat
        PROVE  part(n)[n] = IF n = 0 THEN Base(p) ELSE Step(g0[n - 1])
    <3>1. CASE n = 0
      BY <1>1, <3>1 DEF Partial
    <3>2. CASE n # 0
      <4>1. n - 1 \in Nat /\ n \in 1..n /\ n - 1 <= n /\ n - 1 \in 0..(n - 1)
        BY <3>2
      <4>2. part(n)[n] = Step(part(n)[n - 1])
        BY <1>1, <4>1 DEF Partial
      <4>3. part(n)[n - 1] = part(n - 1)[n - 1]
        BY <1>1, <4>1, PartialUnique
      <4>4. g0[n - 1] = part(n - 1)[n - 1]
        BY <4>1
      <4> QED
        BY <3>2, <4>2, <4>3, <4>4
    <3> QED
      BY <3>1, <3>2
  <2> QED
    BY <2>1
<1> HIDE DEF g0
<1>3. Eqn(Iterate(p))
  <2>1. Iterate(p) = CHOOSE g : Eqn(g)
    BY DEF Iterate
  <2> HIDE DEF Eqn
  <2> QED
    BY <1>2, <2>1
<1> DEFINE it == Iterate(p)
<1> HIDE DEF it
<1>4. it = [n \in Nat |-> IF n = 0 THEN Base(p) ELSE Step(it[n - 1])]
  BY <1>3 DEF it
<1>5. ASSUME NEW n \in Nat PROVE it[n + 1] = Step(it[n])
  <2>1. n + 1 \in Nat /\ n + 1 # 0 /\ (n + 1) - 1 = n
    OBVIOUS
  <2> QED
    BY <1>4, <2>1
<1>6. DOMAIN it = Nat /\ it[0] = Base(p)
  BY <1>4
<1> QED
  BY <1>5, <1>6 DEF it

=============================================================================
