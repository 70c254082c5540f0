------------------------------ MODULE Induction -----------------------------
(***************************************************************************)
(* Induction and recursion over the numbers up to a bound, in the form of  *)
(* sets of naturals, which have a least element.  The recursive functions  *)
(* of the models are reasoned about with these lemmas.                     *)
(***************************************************************************)
EXTENDS Integers, WellFoundedInduction, TLAPS

Below == {p \in Nat \X Nat : p[1] < p[2]}

LEMMA LeastNat ==
    ASSUME NEW S, S \subseteq Nat, S # {}
    PROVE  \E m \in S : \A n \in S : m <= n
  <1>1. IsWellFoundedOn(Below, Nat)
    BY NatLessThanWellFounded DEF Below, OpToRel
  <1>2. PICK m \in S : \A n \in S : ~ (<< n, m >> \in Below)
    BY <1>1, WFMin
  <1>3. \A n \in S : ~(n < m)
    BY <1>2 DEF Below
  <1>4. QED
    BY <1>3

\* Induction from 0 to n.
LEMMA UpTo ==
    ASSUME NEW n \in Nat, NEW S, 0 \in S, \A k \in 0 .. n - 1 : k \in S => k + 1 \in S
    PROVE  \A k \in 0 .. n : k \in S
  <1> SUFFICES ASSUME NEW k \in 0 .. n, k \notin S PROVE FALSE
    OBVIOUS
  <1>1. PICK T : T = {i \in 0 .. n : i \notin S}
    OBVIOUS
  <1>2. T \subseteq Nat /\ T # {}
    BY <1>1
  <1>3. PICK m \in T : \A i \in T : m <= i
    BY <1>2, LeastNat
  <1>4. m \in 1 .. n /\ m \notin S
    BY <1>1, <1>3
  <1>5. m - 1 \in 0 .. n - 1 /\ m - 1 \notin T
    BY <1>3, <1>4
  <1>6. m - 1 \in S
    BY <1>1, <1>5
  <1>7. (m - 1) + 1 \in S
    BY <1>5, <1>6
  <1>8. QED
    BY <1>4, <1>7

Closed(step, n, D) == \A i \in 1 .. n : \A d \in D : step[<< i, d >>] \in D
Steps(f, n, a, step) ==
    f[0] = a /\ \A i \in 1 .. n : f[i] = step[<< i, f[i - 1] >>]

\* A function on 0 .. n may be defined by its first value and its steps.
LEMMA Recursion ==
    ASSUME NEW n \in Nat, NEW D, NEW a \in D, NEW step,
           Closed(step, n, D)
    PROVE  \E f \in [0 .. n -> D] : Steps(f, n, a, step)
  <1>1. PICK S : S = {k \in 0 .. n : \E f \in [0 .. k -> D] : Steps(f, k, a, step)}
    OBVIOUS
  <1>2. 0 \in S
    <2>1. PICK f : f = [i \in 0 .. 0 |-> a]
      OBVIOUS
    <2>2. f \in [0 .. 0 -> D] /\ f[0] = a
      BY <2>1
    <2>3. QED
      BY <1>1, <2>2 DEF Steps
  <1>3. ASSUME NEW k \in 0 .. n - 1, k \in S PROVE k + 1 \in S
    <2>1. PICK f \in [0 .. k -> D] :
            f[0] = a /\ \A i \in 1 .. k : f[i] = step[<< i, f[i - 1] >>]
      BY <1>1, <1>3 DEF Steps
    <2>2. PICK d : d = step[<< k + 1, f[k] >>]
      OBVIOUS
    <2>3. d \in D
      <3>1. k + 1 \in 1 .. n /\ f[k] \in D
        BY <2>1
      <3>2. QED
        BY <2>2, <3>1 DEF Closed
    <2>4. PICK g : g = [i \in 0 .. k + 1 |-> IF i = k + 1 THEN d ELSE f[i]]
      OBVIOUS
    <2>5. g \in [0 .. k + 1 -> D] /\ g[0] = a
      BY <2>1, <2>3, <2>4
    <2>6. ASSUME NEW i \in 1 .. k + 1 PROVE g[i] = step[<< i, g[i - 1] >>]
      <3>1. i - 1 \in 0 .. k /\ g[i - 1] = f[i - 1]
        BY <2>4
      <3>2. CASE i = k + 1
        <4>1. g[i] = d /\ f[i - 1] = f[k]
          BY <2>4, <3>2
        <4>2. QED
          BY <2>2, <3>1, <3>2, <4>1
      <3>3. CASE i # k + 1
        <4>1. i \in 1 .. k /\ g[i] = f[i]
          BY <2>4, <3>3
        <4>2. QED
          BY <2>1, <3>1, <4>1
      <3>4. QED
        BY <3>2, <3>3
    <2>7. k + 1 \in 0 .. n
      OBVIOUS
    <2>8. QED
      BY <1>1, <2>5, <2>6, <2>7 DEF Steps
  <1>4. n \in S
    BY <1>2, <1>3, UpTo
  <1>5. QED
    BY <1>1, <1>4
=============================================================================
