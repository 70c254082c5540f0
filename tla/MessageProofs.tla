---------------------------- MODULE MessageProofs ---------------------------
(***************************************************************************)
(* What a connection makes of the bytes it receives is proved for every    *)
(* string and every width of numbers.  WordsOf, StringToUnsigned and       *)
(* Joined are recursive functions over positions of a string; they are     *)
(* reasoned about with UpTo, and Recursion says that such functions exist. *)
(***************************************************************************)
EXTENDS Messages, Induction

(* Numbers.                                                                *)

\* f is the value of each prefix of s.
IsMeaning(f, s) ==
    /\ f \in [0 .. Len(s) -> Int]
    /\ f[0] = 0
    /\ \A i \in 1 .. Len(s) : f[i] = f[i - 1] * 10 + Value[s[i]]

Digits(s) == \A i \in 1 .. Len(s) : IsDigit(s[i])

LEMMA ValueType ==
    ASSUME NEW s \in Seq(Char), NEW i \in 1 .. Len(s)
    PROVE  s[i] \in Char /\ Value[s[i]] \in Int
  <1>1. s[i] \in Char
    OBVIOUS
  <1>2. QED
    BY <1>1, MessageAssumption

LEMMA MeaningIs ==
    ASSUME NEW s \in Seq(Char)
    PROVE  \E f : IsMeaning(f, s) /\ Meaning(s) = f[Len(s)]
  <1>1. PICK n \in Nat : n = Len(s)
    OBVIOUS
  <1>2. PICK step : step = [p \in (1 .. n) \X Int |-> p[2] * 10 + Value[s[p[1]]]]
    OBVIOUS
  <1>3. \A i \in 1 .. n, d \in Int : step[<< i, d >>] = d * 10 + Value[s[i]]
    BY <1>2
  <1>4. PICK f \in [0 .. n -> Int] :
          f[0] = 0 /\ \A i \in 1 .. n : f[i] = step[<< i, f[i - 1] >>]
    <2>1. PICK D : D = Int
      OBVIOUS
    <2>2. PICK z : z = 0
      OBVIOUS
    <2>3. Closed(step, n, D)
      <3>1. ASSUME NEW i \in 1 .. n, NEW d \in Int PROVE step[<< i, d >>] \in Int
        <4>1. Value[s[i]] \in Int
          BY <1>1, ValueType
        <4>2. d * 10 + Value[s[i]] \in Int
          BY <4>1
        <4>3. QED
          BY <1>3, <4>2
      <3>2. QED
        BY <2>1, <3>1 DEF Closed
    <2>4. z \in D
      BY <2>1, <2>2
    <2>5. \E f \in [0 .. n -> D] : Steps(f, n, z, step)
      BY <2>3, <2>4, Recursion
    <2>6. QED
      BY <2>1, <2>2, <2>5 DEF Steps
  <1>5. \A i \in 1 .. n : f[i] = f[i - 1] * 10 + Value[s[i]]
    <2>1. ASSUME NEW i \in 1 .. n PROVE f[i] = f[i - 1] * 10 + Value[s[i]]
      <3>1. f[i - 1] \in Int
        BY <1>4
      <3>2. QED
        BY <1>3, <1>4, <3>1
    <2>2. QED
      BY <2>1
  <1>6. f = [i \in 0 .. Len(s) |-> IF i = 0 THEN 0 ELSE f[i - 1] * 10 + Value[s[i]]]
    BY <1>1, <1>4, <1>5
  <1>7. PICK g : /\ g = [i \in 0 .. Len(s) |->
                           IF i = 0 THEN 0 ELSE g[i - 1] * 10 + Value[s[i]]]
                 /\ Meaning(s) = g[Len(s)]
    BY <1>6 DEF Meaning
  <1>8. g[0] = 0 /\ DOMAIN g = 0 .. n
    BY <1>1, <1>7
  <1>9. \A i \in 1 .. n : g[i] = g[i - 1] * 10 + Value[s[i]]
    BY <1>1, <1>7
  <1>10. \A i \in 0 .. n : i \in {k \in 0 .. n : g[k] = f[k]}
    <2>1. 0 \in {k \in 0 .. n : g[k] = f[k]}
      BY <1>4, <1>8
    <2>2. ASSUME NEW k \in 0 .. n - 1, k \in {j \in 0 .. n : g[j] = f[j]}
          PROVE  k + 1 \in {j \in 0 .. n : g[j] = f[j]}
      <3>1. k + 1 \in 1 .. n /\ (k + 1) - 1 = k
        OBVIOUS
      <3>2. QED
        BY <1>5, <1>9, <2>2, <3>1
    <2>3. QED
      BY <2>1, <2>2, UpTo
  <1>11. g = f
    BY <1>4, <1>7, <1>1, <1>10
  <1>12. QED
    BY <1>1, <1>4, <1>5, <1>7, <1>11 DEF IsMeaning

LEMMA DigitSteps ==
    ASSUME NEW s \in Seq(Char), Digits(s), NEW f, IsMeaning(f, s)
    PROVE  /\ \A i \in 0 .. Len(s) : f[i] \in Nat
           /\ \A i \in 1 .. Len(s) : /\ f[i] = f[i - 1] * 10 + Value[s[i]]
                                     /\ Value[s[i]] \in 0 .. 9
                                     /\ f[i - 1] <= f[i]
  <1>1. PICK n \in Nat : n = Len(s)
    OBVIOUS
  <1>2. \A i \in 1 .. n : f[i] = f[i - 1] * 10 + Value[s[i]] /\ Value[s[i]] \in 0 .. 9
    BY <1>1 DEF IsMeaning, Digits, IsDigit
  <1>3. PICK S : S = {i \in 0 .. n : f[i] \in Nat}
    OBVIOUS
  <1>4. 0 \in S
    BY <1>3 DEF IsMeaning
  <1>5. ASSUME NEW k \in 0 .. n - 1, k \in S PROVE k + 1 \in S
    <2>1. k + 1 \in 1 .. n /\ (k + 1) - 1 = k /\ f[k] \in Nat
      BY <1>3, <1>5
    <2>2. f[k + 1] = f[k] * 10 + Value[s[k + 1]] /\ Value[s[k + 1]] \in 0 .. 9
      BY <1>2, <2>1
    <2>3. f[k + 1] \in Nat
      BY <2>1, <2>2
    <2>4. QED
      BY <1>3, <2>1, <2>3
  <1>6. \A i \in 0 .. n : f[i] \in Nat
    BY <1>3, <1>4, <1>5, UpTo
  <1>7. ASSUME NEW i \in 1 .. n PROVE f[i - 1] <= f[i]
    <2>1. PICK a \in Nat, c \in 0 .. 9 : a = f[i - 1] /\ f[i] = a * 10 + c
      <3>1. f[i - 1] \in Nat
        BY <1>6
      <3>2. QED
        BY <1>2, <3>1
    <2>2. QED
      BY <2>1
  <1>8. QED
    BY <1>1, <1>2, <1>6, <1>7

LEMMA MeaningGrows ==
    ASSUME NEW s \in Seq(Char), Digits(s), NEW f, IsMeaning(f, s),
           NEW i \in 0 .. Len(s), NEW j \in i .. Len(s)
    PROVE  f[i] <= f[j]
  <1>1. PICK n \in Nat : n = Len(s) - i
    OBVIOUS
  <1>2. PICK S : S = {k \in 0 .. n : f[i] <= f[i + k]}
    OBVIOUS
  <1>3. \A k \in 0 .. n : f[i + k] \in Nat
    BY <1>1, DigitSteps
  <1>4. 0 \in S
    <2>1. f[i] \in Nat /\ i + 0 = i
      BY DigitSteps
    <2>2. QED
      BY <1>2, <2>1
  <1>5. ASSUME NEW k \in 0 .. n - 1, k \in S PROVE k + 1 \in S
    <2>1. i + (k + 1) \in 1 .. Len(s) /\ (i + (k + 1)) - 1 = i + k
      BY <1>1
    <2>2. f[i + k] <= f[i + (k + 1)]
      BY <2>1, DigitSteps
    <2>3. f[i] \in Nat /\ f[i + k] \in Nat /\ f[i + (k + 1)] \in Nat
      <3>1. f[i] \in Nat
        BY DigitSteps
      <3>2. k \in 0 .. n /\ k + 1 \in 0 .. n
        OBVIOUS
      <3>3. QED
        BY <1>3, <3>1, <3>2
    <2>4. f[i] <= f[i + k]
      BY <1>2, <1>5
    <2>5. f[i] <= f[i + (k + 1)]
      BY <2>2, <2>3, <2>4
    <2>6. QED
      BY <1>2, <2>5
  <1>6. j - i \in 0 .. n /\ i + (j - i) = j
    BY <1>1
  <1>7. j - i \in S
    BY <1>4, <1>5, <1>6, UpTo
  <1>8. QED
    BY <1>2, <1>6, <1>7

\* Once a number is less than another at some digit, it stays less for as
\* many digits more.
LEMMA StaysLess ==
    ASSUME NEW s \in Seq(Char), NEW t \in Seq(Char), Digits(s), Digits(t),
           NEW f, IsMeaning(f, s), NEW g, IsMeaning(g, t),
           NEW i \in 0 .. Len(s), NEW j \in 0 .. Len(t),
           Len(s) - i = Len(t) - j, f[i] < g[j]
    PROVE  f[Len(s)] < g[Len(t)]
  <1>1. PICK n \in Nat : n = Len(s) - i /\ n = Len(t) - j
    <2>1. Len(s) \in Nat /\ Len(t) \in Nat
      OBVIOUS
    <2>2. Len(s) - i \in Nat
      BY <2>1
    <2>3. QED
      BY <2>2
  <1>2. PICK S : S = {k \in 0 .. n : f[i + k] < g[j + k]}
    OBVIOUS
  <1>3. \A k \in 0 .. n : i + k \in 0 .. Len(s) /\ j + k \in 0 .. Len(t)
    BY <1>1
  <1>4. 0 \in S
    BY <1>2
  <1>5. ASSUME NEW k \in 0 .. n - 1, k \in S PROVE k + 1 \in S
    <2>1. /\ i + (k + 1) \in 1 .. Len(s) /\ (i + (k + 1)) - 1 = i + k
          /\ j + (k + 1) \in 1 .. Len(t) /\ (j + (k + 1)) - 1 = j + k
      BY <1>1
    <2>2. PICK a \in Nat, b \in Nat, c \in 0 .. 9, d \in 0 .. 9 :
            /\ a = f[i + k] /\ b = g[j + k]
            /\ f[i + (k + 1)] = a * 10 + c /\ g[j + (k + 1)] = b * 10 + d
      <3>1. f[i + k] \in Nat /\ g[j + k] \in Nat
        BY <1>3, DigitSteps
      <3>2. /\ f[i + (k + 1)] = f[i + k] * 10 + Value[s[i + (k + 1)]]
            /\ Value[s[i + (k + 1)]] \in 0 .. 9
        BY <2>1, DigitSteps
      <3>3. /\ g[j + (k + 1)] = g[j + k] * 10 + Value[t[j + (k + 1)]]
            /\ Value[t[j + (k + 1)]] \in 0 .. 9
        BY <2>1, DigitSteps
      <3>4. QED
        BY <3>1, <3>2, <3>3
    <2>3. a < b
      BY <1>2, <1>5, <2>2
    <2>4. a * 10 + c < b * 10 + d
      BY <2>3
    <2>5. QED
      BY <1>2, <2>2, <2>4
  <1>6. n \in S
    <2>1. \A k \in 0 .. n : k \in S
      BY <1>4, <1>5, UpTo
    <2>2. QED
      BY <2>1
  <1>7. QED
    BY <1>1, <1>2, <1>6

LEMMA ShorterIsLess ==
    ASSUME NEW s \in Seq(Char), NEW t \in Seq(Char), Digits(s), Digits(t),
           Len(s) < Len(t), Value[t[1]] # 0
    PROVE  Meaning(s) < Meaning(t)
  <1>1. PICK f : IsMeaning(f, s) /\ Meaning(s) = f[Len(s)]
    BY MeaningIs
  <1>2. PICK g : IsMeaning(g, t) /\ Meaning(t) = g[Len(t)]
    BY MeaningIs
  <1>3. PICK j \in 1 .. Len(t) : j = Len(t) - Len(s)
    <2>1. Len(s) \in Nat /\ Len(t) \in Nat
      OBVIOUS
    <2>2. Len(t) - Len(s) \in 1 .. Len(t)
      BY <2>1
    <2>3. QED
      BY <2>2
  <1>4. f[0] = 0 /\ g[0] = 0
    BY <1>1, <1>2 DEF IsMeaning
  <1>5. g[1] \in Nat /\ g[1] > 0
    <2>1. 1 \in 1 .. Len(t) /\ 1 - 1 = 0
      BY <1>3
    <2>2. g[1] = g[0] * 10 + Value[t[1]] /\ Value[t[1]] \in 0 .. 9
      BY <1>2, <2>1, DigitSteps
    <2>3. QED
      BY <1>4, <2>2
  <1>6. g[1] <= g[j] /\ g[j] \in Nat
    BY <1>2, MeaningGrows, DigitSteps
  <1>7. f[0] < g[j]
    BY <1>4, <1>5, <1>6
  <1>8. f[Len(s)] < g[Len(t)]
    <2>1. 0 \in 0 .. Len(s) /\ j \in 0 .. Len(t) /\ Len(s) - 0 = Len(t) - j
      BY <1>3
    <2>2. QED
      BY <1>1, <1>2, <1>7, <2>1, StaysLess
  <1>9. QED
    BY <1>1, <1>2, <1>8

\* Two strings that agree up to some digit have the same value there.
LEMMA SamePrefixValue ==
    ASSUME NEW s \in Seq(Char), NEW t \in Seq(Char),
           NEW f, IsMeaning(f, s), NEW g, IsMeaning(g, t),
           NEW n \in Nat, n <= Len(s), n <= Len(t), \A j \in 1 .. n : s[j] = t[j]
    PROVE  f[n] = g[n]
  <1>1. PICK S : S = {k \in 0 .. n : f[k] = g[k]}
    OBVIOUS
  <1>2. 0 \in S
    BY <1>1 DEF IsMeaning
  <1>3. ASSUME NEW k \in 0 .. n - 1, k \in S PROVE k + 1 \in S
    <2>1. k + 1 \in 1 .. n /\ k + 1 \in 1 .. Len(s) /\ k + 1 \in 1 .. Len(t) /\ (k + 1) - 1 = k
      OBVIOUS
    <2>2. s[k + 1] = t[k + 1] /\ f[k] = g[k]
      BY <1>1, <1>3, <2>1
    <2>3. f[k + 1] = f[k] * 10 + Value[s[k + 1]] /\ g[k + 1] = g[k] * 10 + Value[t[k + 1]]
      BY <2>1 DEF IsMeaning
    <2>4. f[k + 1] = g[k + 1]
      BY <2>2, <2>3
    <2>5. QED
      BY <1>1, <2>1, <2>4
  <1>4. n \in S
    <2>1. \A k \in 0 .. n : k \in S
      BY <1>2, <1>3, UpTo
    <2>2. QED
      BY <2>1
  <1>5. QED
    BY <1>1, <1>4

LEMMA LessIsLess ==
    ASSUME NEW s \in Seq(Char), NEW t \in Seq(Char), Digits(s), Digits(t),
           Len(s) = Len(t), Less(s, t)
    PROVE  Meaning(s) < Meaning(t)
  <1>1. PICK f : IsMeaning(f, s) /\ Meaning(s) = f[Len(s)]
    BY MeaningIs
  <1>2. PICK g : IsMeaning(g, t) /\ Meaning(t) = g[Len(t)]
    BY MeaningIs
  <1>3. PICK i \in 1 .. Len(s) : /\ Value[s[i]] < Value[t[i]]
                                 /\ \A j \in 1 .. i - 1 : s[j] = t[j]
    BY DEF Less
  <1>4. f[i - 1] = g[i - 1]
    <2>1. i - 1 \in Nat /\ i - 1 <= Len(s) /\ i - 1 <= Len(t)
      OBVIOUS
    <2>2. QED
      BY <1>1, <1>2, <1>3, <2>1, SamePrefixValue
  <1>5. f[i] < g[i]
    <2>1. /\ f[i] = f[i - 1] * 10 + Value[s[i]] /\ Value[s[i]] \in 0 .. 9
          /\ f[i - 1] \in Nat
      <3>1. i - 1 \in 0 .. Len(s)
        OBVIOUS
      <3>2. QED
        BY <1>1, <3>1, DigitSteps
    <2>2. g[i] = g[i - 1] * 10 + Value[t[i]] /\ Value[t[i]] \in 0 .. 9
      BY <1>2, DigitSteps
    <2>3. PICK a \in Nat, c \in 0 .. 9, d \in 0 .. 9 :
            a = f[i - 1] /\ c = Value[s[i]] /\ d = Value[t[i]]
      BY <2>1, <2>2
    <2>4. a * 10 + c < a * 10 + d
      BY <1>3, <2>3
    <2>5. QED
      BY <1>4, <2>1, <2>2, <2>3, <2>4
  <1>6. i \in 0 .. Len(s) /\ i \in 0 .. Len(t) /\ Len(s) - i = Len(t) - i
    OBVIOUS
  <1>7. QED
    BY <1>1, <1>2, <1>5, <1>6, StaysLess

\* Of two numbers with as many digits one is less, or they are the same.
LEMMA LessOrNot ==
    ASSUME NEW s \in Seq(Char), NEW t \in Seq(Char), Digits(s), Digits(t),
           Len(s) = Len(t), Meaning(s) < Meaning(t)
    PROVE  Less(s, t)
  <1>1. PICK D : D = {i \in 1 .. Len(s) : s[i] # t[i]}
    OBVIOUS
  <1>2. D # {}
    <2>1. SUFFICES ASSUME D = {} PROVE FALSE
      OBVIOUS
    <2>2. s = t
      BY <1>1, <2>1
    <2>3. PICK f : IsMeaning(f, s) /\ Meaning(s) = f[Len(s)]
      BY MeaningIs
    <2>4. f[Len(s)] \in Int
      BY <2>3 DEF IsMeaning
    <2>5. QED
      BY <2>2, <2>3, <2>4
  <1>3. PICK i \in D : \A j \in D : i <= j
    <2>1. D \subseteq Nat
      BY <1>1
    <2>2. QED
      BY <1>2, <2>1, LeastNat
  <1>4. i \in 1 .. Len(s) /\ i \in DOMAIN s /\ i \in DOMAIN t /\ s[i] # t[i]
    BY <1>1, <1>3
  <1>5. \A j \in 1 .. i - 1 : s[j] = t[j]
    BY <1>1, <1>3, <1>4
  <1>6. Value[s[i]] # Value[t[i]] /\ Value[s[i]] \in Int /\ Value[t[i]] \in Int
    <2>1. s[i] \in Char /\ t[i] \in Char /\ IsDigit(s[i]) /\ IsDigit(t[i])
      BY <1>4 DEF Digits
    <2>2. QED
      BY <1>4, <2>1, MessageAssumption DEF IsDigit
  <1>7. ~ (Value[t[i]] < Value[s[i]])
    <2>1. SUFFICES ASSUME Value[t[i]] < Value[s[i]] PROVE FALSE
      OBVIOUS
    <2>2. Less(t, s)
      BY <1>4, <1>5, <2>1 DEF Less
    <2>3. Meaning(t) < Meaning(s)
      BY <2>2, LessIsLess
    <2>4. PICK f : IsMeaning(f, s) /\ Meaning(s) = f[Len(s)]
      BY MeaningIs
    <2>5. PICK g : IsMeaning(g, t) /\ Meaning(t) = g[Len(t)]
      BY MeaningIs
    <2>6. f[Len(s)] \in Int /\ g[Len(t)] \in Int
      BY <2>4, <2>5 DEF IsMeaning
    <2>7. QED
      BY <2>3, <2>4, <2>5, <2>6
  <1>8. QED
    BY <1>4, <1>5, <1>6, <1>7 DEF Less

\* No prefix of a number that fits an unsigned int wraps around.
LEMMA NoWrap ==
    ASSUME NEW s \in Seq(Char), Digits(s), Meaning(s) < Word
    PROVE  StringToUnsigned(s) = Meaning(s) /\ Meaning(s) \in Nat
  <1>1. PICK f : IsMeaning(f, s) /\ Meaning(s) = f[Len(s)]
    BY MeaningIs
  <1>2. PICK n \in Nat : n = Len(s)
    OBVIOUS
  <1>3. \A i \in 0 .. n : f[i] \in Nat /\ f[i] < Word
    <2>1. ASSUME NEW i \in 0 .. n PROVE f[i] \in Nat /\ f[i] < Word
      <3>1. f[i] \in Nat /\ f[n] \in Nat /\ f[i] <= f[n]
        <4>1. n \in i .. Len(s)
          BY <1>2
        <4>2. QED
          BY <1>1, <1>2, <4>1, DigitSteps, MeaningGrows
      <3>2. f[n] < Word /\ Word \in Nat
        BY <1>1, <1>2, MessageAssumption
      <3>3. QED
        BY <3>1, <3>2
    <2>2. QED
      BY <2>1
  <1>4. \A i \in 1 .. n : f[i] = Unsigned(f[i - 1] * 10 + Value[s[i]])
    <2>1. ASSUME NEW i \in 1 .. n PROVE f[i] = Unsigned(f[i - 1] * 10 + Value[s[i]])
      <3>1. f[i] = f[i - 1] * 10 + Value[s[i]] /\ f[i] \in Nat /\ f[i] < Word
        BY <1>1, <1>2, <1>3 DEF IsMeaning
      <3>2. \A m \in Nat : m < Word => m % Word = m
        BY MessageAssumption
      <3>3. QED
        BY <3>1, <3>2 DEF Unsigned
    <2>2. QED
      BY <2>1
  <1>5. DOMAIN f = 0 .. n /\ f = [i \in 0 .. n |-> f[i]] /\ f[0] = 0
    BY <1>1, <1>2 DEF IsMeaning
  <1>6. f = [i \in 0 .. Len(s) |->
               IF i = 0 THEN 0 ELSE Unsigned(f[i - 1] * 10 + Value[s[i]])]
    BY <1>2, <1>4, <1>5
  <1>7. PICK g : /\ g = [i \in 0 .. Len(s) |->
                           IF i = 0 THEN 0 ELSE Unsigned(g[i - 1] * 10 + Value[s[i]])]
                 /\ StringToUnsigned(s) = g[Len(s)]
    BY <1>6 DEF StringToUnsigned
  <1>8. g[0] = 0 /\ \A i \in 1 .. n : g[i] = Unsigned(g[i - 1] * 10 + Value[s[i]])
    BY <1>2, <1>7
  <1>9. PICK S : S = {k \in 0 .. n : g[k] = f[k]}
    OBVIOUS
  <1>10. 0 \in S
    BY <1>5, <1>8, <1>9
  <1>11. ASSUME NEW k \in 0 .. n - 1, k \in S PROVE k + 1 \in S
    <2>1. k + 1 \in 1 .. n /\ (k + 1) - 1 = k /\ g[k] = f[k]
      BY <1>9, <1>11
    <2>2. g[k + 1] = f[k + 1]
      BY <1>4, <1>8, <2>1
    <2>3. QED
      BY <1>9, <2>1, <2>2
  <1>12. n \in S
    <2>1. \A k \in 0 .. n : k \in S
      BY <1>10, <1>11, UpTo
    <2>2. QED
      BY <2>1
  <1>13. QED
    BY <1>1, <1>2, <1>3, <1>7, <1>9, <1>12

\* if_unsigned takes a string of digits that does not begin with a 0 for
\* nothing exactly if its number fits an unsigned int (fs.cc:117-139).
THEOREM IfUnsignedExact ==
    ASSUME NEW s \in Seq(Char)
    PROVE  /\ IfUnsigned(s) => Writes(s, StringToUnsigned(s))
           /\ Writes(s, Meaning(s)) => IfUnsigned(s)
  <1>1. /\ Limit \in Seq(Char) /\ Digits(Limit) /\ Value[Limit[1]] # 0 /\ Len(Limit) >= 1
        /\ Meaning(Limit) = Word
    BY LimitAssumption DEF Digits
  <1>2. ASSUME IfUnsigned(s) PROVE Writes(s, StringToUnsigned(s))
    <2>1. Digits(s) /\ s # << >> /\ Len(s) <= Len(Limit)
      BY <1>2 DEF IfUnsigned, Digits
    <2>2. Meaning(s) < Word
      <3>1. CASE Len(s) = Len(Limit)
        BY <1>1, <1>2, <2>1, <3>1, LessIsLess DEF IfUnsigned
      <3>2. CASE Len(s) < Len(Limit)
        BY <1>1, <2>1, <3>2, ShorterIsLess
      <3>3. QED
        BY <1>1, <2>1, <3>1, <3>2
    <2>3. StringToUnsigned(s) = Meaning(s)
      BY <2>1, <2>2, NoWrap
    <2>4. Value[s[1]] = 0 => Len(s) = 1
      <3>1. Len(s) \in Nat \ {0}
        BY <2>1
      <3>2. QED
        BY <1>2, <3>1 DEF IfUnsigned
    <2>5. QED
      BY <2>1, <2>2, <2>3, <2>4 DEF Writes, Digits
  <1>3. ASSUME Writes(s, Meaning(s)) PROVE IfUnsigned(s)
    <2>1. Digits(s) /\ Len(s) \in Nat \ {0} /\ (Value[s[1]] = 0 => Len(s) = 1)
      BY <1>3 DEF Writes, Digits
    <2>2. Meaning(s) < Word /\ Meaning(s) \in Nat /\ Word \in Nat
      <3>1. Meaning(s) < Word
        BY <1>3 DEF Writes
      <3>2. QED
        BY <2>1, <3>1, NoWrap, MessageAssumption
    <2>3. Len(s) <= Len(Limit)
      <3>1. SUFFICES ASSUME Len(Limit) < Len(s) PROVE FALSE
        BY <1>1
      <3>2. Value[s[1]] # 0
        BY <1>1, <2>1, <3>1
      <3>3. Meaning(Limit) < Meaning(s)
        BY <1>1, <2>1, <3>1, <3>2, ShorterIsLess
      <3>4. QED
        BY <1>1, <2>2, <3>3
    <2>4. Len(s) = Len(Limit) => Less(s, Limit)
      BY <1>1, <2>1, <2>2, LessOrNot
    <2>5. QED
      BY <2>1, <2>3, <2>4 DEF IfUnsigned, Digits
  <1>4. QED
    BY <1>2, <1>3

-----------------------------------------------------------------------------
(* Words, as WordsOf finds them in a text before its Nul.                  *)

Strings == Seq(Char)
WordSeqs == Seq(Strings) \ {<< >>}

Words(p) == WordsOf(Append(p, Nul))

IsCut(v, p) ==
    /\ v \in [0 .. Len(p) -> WordSeqs]
    /\ v[0] = << << >> >>
    /\ \A i \in 1 .. Len(p) : v[i] = Cut(v[i - 1], p[i])

LEMMA CutType ==
    ASSUME NEW v \in WordSeqs, NEW c \in Char
    PROVE  /\ Cut(v, c) \in WordSeqs
           /\ c = Space => Cut(v, c) = Append(v, << >>)
           /\ c # Space => /\ Len(Cut(v, c)) = Len(v)
                           /\ \A i \in 1 .. Len(v) - 1 : Cut(v, c)[i] = v[i]
                           /\ Cut(v, c)[Len(v)] = Append(v[Len(v)], c)
  <1>1. PICK n \in Nat \ {0} : n = Len(v)
    BY DEF WordSeqs
  <1>2. v \in Seq(Strings) /\ v[n] \in Strings /\ << >> \in Strings
    BY <1>1 DEF WordSeqs, Strings
  <1>3. Append(v[n], c) \in Strings
    BY <1>2 DEF Strings
  <1>4. CASE c = Space
    BY <1>2, <1>4 DEF Cut, WordSeqs
  <1>5. CASE c # Space
    <2>1. Cut(v, c) = [v EXCEPT ![n] = Append(v[n], c)]
      BY <1>1, <1>5 DEF Cut
    <2>2. Cut(v, c) = [i \in 1 .. n |-> IF i = n THEN Append(v[n], c) ELSE v[i]]
      <3>1. DOMAIN v = 1 .. n
        BY <1>1, <1>2
      <3>2. QED
        BY <2>1, <3>1
    <2>3. \A i \in 1 .. n : (IF i = n THEN Append(v[n], c) ELSE v[i]) \in Strings
      BY <1>1, <1>2, <1>3
    <2>4. Cut(v, c) \in Seq(Strings) /\ Len(Cut(v, c)) = n
      BY <2>2, <2>3
    <2>5. QED
      BY <1>1, <1>5, <2>2, <2>4 DEF WordSeqs
  <1>6. QED
    BY <1>4, <1>5

LEMMA WordsAre ==
    ASSUME NEW p \in Strings
    PROVE  \E v : IsCut(v, p) /\ Words(p) = v[Len(p)]
  <1>1. PICK n \in Nat : n = Len(p)
    BY DEF Strings
  <1>2. PICK s : s = Append(p, Nul)
    OBVIOUS
  <1>3. /\ Len(s) - 1 = n /\ \A i \in 1 .. n : s[i] = p[i] /\ p[i] \in Char
    BY <1>1, <1>2, MessageAssumption DEF Strings
  <1>4. PICK D : D = WordSeqs
    OBVIOUS
  <1>5. PICK z : z = << << >> >>
    OBVIOUS
  <1>6. z \in D
    BY <1>4, <1>5 DEF WordSeqs, Strings
  <1>7. PICK step : step = [q \in (1 .. n) \X D |-> Cut(q[2], p[q[1]])]
    OBVIOUS
  <1>8. \A i \in 1 .. n : \A d \in D : step[<< i, d >>] = Cut(d, p[i])
    BY <1>7
  <1>9. Closed(step, n, D)
    BY <1>3, <1>4, <1>8, CutType DEF Closed
  <1>10. PICK f \in [0 .. n -> D] : Steps(f, n, z, step)
    BY <1>6, <1>9, Recursion
  <1>11. f[0] = << << >> >> /\ \A i \in 1 .. n : f[i] = Cut(f[i - 1], p[i])
    <2>1. ASSUME NEW i \in 1 .. n PROVE f[i] = Cut(f[i - 1], p[i])
      <3>1. f[i - 1] \in D
        BY <1>10
      <3>2. QED
        BY <1>8, <1>10, <3>1 DEF Steps
    <2>2. QED
      BY <1>5, <1>10, <2>1 DEF Steps
  <1>12. f = [i \in 0 .. Len(s) - 1 |->
                IF i = 0 THEN << << >> >> ELSE Cut(f[i - 1], s[i])]
    <2>1. f = [i \in 0 .. n |-> f[i]]
      BY <1>10
    <2>2. \A i \in 0 .. n :
            f[i] = IF i = 0 THEN << << >> >> ELSE Cut(f[i - 1], s[i])
      <3>1. ASSUME NEW i \in 0 .. n, i # 0 PROVE f[i] = Cut(f[i - 1], s[i])
        BY <1>3, <1>11, <3>1
      <3>2. QED
        BY <1>11, <3>1
    <2>3. f = [i \in 0 .. n |-> IF i = 0 THEN << << >> >> ELSE Cut(f[i - 1], s[i])]
      BY <2>1, <2>2
    <2>4. QED
      BY <1>3, <2>3
  <1>13. PICK v : /\ v = [i \in 0 .. Len(s) - 1 |->
                            IF i = 0 THEN << << >> >> ELSE Cut(v[i - 1], s[i])]
                  /\ WordsOf(s) = v[Len(s) - 1]
    BY <1>12 DEF WordsOf
  <1>14. v[0] = << << >> >> /\ \A i \in 1 .. n : v[i] = Cut(v[i - 1], p[i])
    BY <1>3, <1>13
  <1>15. PICK S : S = {k \in 0 .. n : v[k] = f[k]}
    OBVIOUS
  <1>16. 0 \in S
    BY <1>11, <1>14, <1>15
  <1>17. ASSUME NEW k \in 0 .. n - 1, k \in S PROVE k + 1 \in S
    <2>1. k + 1 \in 1 .. n /\ (k + 1) - 1 = k /\ v[k] = f[k]
      BY <1>15, <1>17
    <2>2. v[k + 1] = f[k + 1]
      BY <1>11, <1>14, <2>1
    <2>3. QED
      BY <1>15, <2>1, <2>2
  <1>18. n \in S
    <2>1. \A k \in 0 .. n : k \in S
      BY <1>16, <1>17, UpTo
    <2>2. QED
      BY <2>1
  <1>19. IsCut(f, p)
    BY <1>1, <1>4, <1>10, <1>11 DEF IsCut
  <1>20. Words(p) = f[n]
    BY <1>2, <1>3, <1>13, <1>15, <1>18 DEF Words
  <1>21. QED
    BY <1>1, <1>19, <1>20

\* A character more cuts the words once more.
LEMMA WordsStep ==
    ASSUME NEW p \in Strings, NEW c \in Char
    PROVE  Words(Append(p, c)) = Cut(Words(p), c)
  <1>1. PICK q : q = Append(p, c)
    OBVIOUS
  <1>2. PICK n \in Nat : n = Len(p)
    BY DEF Strings
  <1>3. q \in Strings /\ Len(q) = n + 1 /\ q[n + 1] = c /\ \A i \in 1 .. n : q[i] = p[i]
    BY <1>1, <1>2 DEF Strings
  <1>4. PICK v : IsCut(v, p) /\ Words(p) = v[n]
    BY <1>2, WordsAre
  <1>5. PICK w : IsCut(w, q) /\ Words(q) = w[n + 1]
    BY <1>3, WordsAre
  <1>6. PICK S : S = {k \in 0 .. n : v[k] = w[k]}
    OBVIOUS
  <1>7. 0 \in S
    BY <1>4, <1>5, <1>6 DEF IsCut
  <1>8. ASSUME NEW k \in 0 .. n - 1, k \in S PROVE k + 1 \in S
    <2>1. k + 1 \in 1 .. n /\ k + 1 \in 1 .. n + 1 /\ (k + 1) - 1 = k /\ v[k] = w[k]
      BY <1>6, <1>8
    <2>2. v[k + 1] = Cut(v[k], p[k + 1])
      BY <1>2, <1>4, <2>1 DEF IsCut
    <2>3. w[k + 1] = Cut(w[k], q[k + 1])
      BY <1>3, <1>5, <2>1 DEF IsCut
    <2>4. QED
      BY <1>3, <1>6, <2>1, <2>2, <2>3
  <1>9. n \in S
    <2>1. \A k \in 0 .. n : k \in S
      BY <1>7, <1>8, UpTo
    <2>2. QED
      BY <2>1
  <1>10. w[n + 1] = Cut(w[n], c)
    <2>1. n + 1 \in 1 .. Len(q) /\ (n + 1) - 1 = n
      BY <1>3
    <2>2. QED
      BY <1>3, <1>5, <2>1 DEF IsCut
  <1>11. QED
    BY <1>1, <1>4, <1>5, <1>6, <1>9, <1>10

LEMMA WordsType ==
    ASSUME NEW p \in Strings
    PROVE  Words(p) \in WordSeqs /\ Words(<< >>) = << << >> >>
  <1>1. PICK v : IsCut(v, p) /\ Words(p) = v[Len(p)]
    BY WordsAre
  <1>2. Len(p) \in Nat
    BY DEF Strings
  <1>3. Words(p) \in WordSeqs
    BY <1>1, <1>2 DEF IsCut
  <1>4. PICK e \in Strings : e = << >>
    <2>1. << >> \in Strings
      BY DEF Strings
    <2>2. QED
      BY <2>1
  <1>5. PICK w : IsCut(w, e) /\ Words(e) = w[Len(e)]
    BY WordsAre
  <1>6. Len(e) = 0
    BY <1>4
  <1>7. QED
    BY <1>3, <1>4, <1>5, <1>6 DEF IsCut

-----------------------------------------------------------------------------
(* Joining words.                                                          *)

IsJoined(j, w) ==
    /\ j \in [1 .. Len(w) -> Strings]
    /\ j[1] = w[1]
    /\ \A i \in 2 .. Len(w) : j[i] = j[i - 1] \o << Space >> \o w[i]

LEMMA JoinType ==
    ASSUME NEW x \in Strings, NEW y \in Strings
    PROVE  x \o << Space >> \o y \in Strings
  <1>1. << Space >> \in Strings
    BY MessageAssumption DEF Strings
  <1>2. x \o << Space >> \in Strings
    BY <1>1 DEF Strings
  <1>3. QED
    BY <1>2 DEF Strings

LEMMA JoinedIs ==
    ASSUME NEW w \in WordSeqs
    PROVE  \E j : IsJoined(j, w) /\ Joined(w) = j[Len(w)]
  <1>1. PICK n \in Nat : n = Len(w) - 1
    BY DEF WordSeqs
  <1>2. Len(w) = n + 1 /\ \A i \in 1 .. n + 1 : w[i] \in Strings
    BY <1>1 DEF WordSeqs
  <1>3. PICK D : D = Strings
    OBVIOUS
  <1>4. PICK z : z = w[1]
    OBVIOUS
  <1>5. z \in D
    BY <1>2, <1>3, <1>4
  <1>6. PICK step : step = [q \in (1 .. n) \X D |-> q[2] \o << Space >> \o w[q[1] + 1]]
    OBVIOUS
  <1>7. \A i \in 1 .. n : \A d \in D : step[<< i, d >>] = d \o << Space >> \o w[i + 1]
    BY <1>6
  <1>8. Closed(step, n, D)
    <2>1. ASSUME NEW i \in 1 .. n, NEW d \in D PROVE step[<< i, d >>] \in D
      <3>1. w[i + 1] \in Strings /\ d \in Strings
        BY <1>2, <1>3
      <3>2. d \o << Space >> \o w[i + 1] \in Strings
        BY <3>1, JoinType
      <3>3. QED
        BY <1>3, <1>7, <3>2
    <2>2. QED
      BY <2>1 DEF Closed
  <1>9. PICK f \in [0 .. n -> D] : Steps(f, n, z, step)
    BY <1>5, <1>8, Recursion
  <1>10. f[0] = w[1] /\ \A i \in 1 .. n : f[i] = f[i - 1] \o << Space >> \o w[i + 1]
    <2>1. ASSUME NEW i \in 1 .. n PROVE f[i] = f[i - 1] \o << Space >> \o w[i + 1]
      <3>1. f[i - 1] \in D
        BY <1>9
      <3>2. f[i] = step[<< i, f[i - 1] >>]
        BY <1>9 DEF Steps
      <3>3. QED
        BY <1>7, <3>1, <3>2
    <2>2. QED
      BY <1>4, <1>9, <2>1 DEF Steps
  <1>11. PICK j : j = [i \in 1 .. n + 1 |-> f[i - 1]]
    OBVIOUS
  <1>12. j \in [1 .. n + 1 -> Strings] /\ \A i \in 1 .. n + 1 : j[i] = f[i - 1]
    BY <1>3, <1>9, <1>11
  <1>13. j[1] = w[1] /\ \A i \in 2 .. n + 1 : j[i] = j[i - 1] \o << Space >> \o w[i]
    <2>1. ASSUME NEW i \in 2 .. n + 1 PROVE j[i] = j[i - 1] \o << Space >> \o w[i]
      <3>1. /\ i - 1 \in 1 .. n /\ i - 1 \in 1 .. n + 1 /\ i \in 1 .. n + 1
            /\ (i - 1) + 1 = i
        OBVIOUS
      <3>2. f[i - 1] = f[(i - 1) - 1] \o << Space >> \o w[(i - 1) + 1]
        BY <1>10, <3>1
      <3>3. QED
        BY <1>12, <3>1, <3>2
    <2>2. 1 \in 1 .. n + 1 /\ 1 - 1 = 0
      OBVIOUS
    <2>3. QED
      BY <1>10, <1>12, <2>1, <2>2
  <1>14. j = [i \in 1 .. Len(w) |->
                IF i = 1 THEN w[1] ELSE j[i - 1] \o << Space >> \o w[i]]
    <2>1. j = [i \in 1 .. n + 1 |-> j[i]]
      BY <1>12
    <2>2. \A i \in 1 .. n + 1 :
            j[i] = IF i = 1 THEN w[1] ELSE j[i - 1] \o << Space >> \o w[i]
      <3>1. ASSUME NEW i \in 1 .. n + 1, i # 1
            PROVE  j[i] = j[i - 1] \o << Space >> \o w[i]
        <4>1. i \in 2 .. n + 1
          BY <3>1
        <4>2. QED
          BY <1>13, <4>1
      <3>2. QED
        BY <1>13, <3>1
    <2>3. j = [i \in 1 .. n + 1 |->
                 IF i = 1 THEN w[1] ELSE j[i - 1] \o << Space >> \o w[i]]
      BY <2>1, <2>2
    <2>4. QED
      BY <1>2, <2>3
  <1>15. PICK k : /\ k = [i \in 1 .. Len(w) |->
                            IF i = 1 THEN w[1] ELSE k[i - 1] \o << Space >> \o w[i]]
                  /\ Joined(w) = k[Len(w)]
    BY <1>14 DEF Joined
  <1>16. /\ k[1] = w[1]
         /\ \A i \in 2 .. n + 1 : k[i] = k[i - 1] \o << Space >> \o w[i]
    <2>1. \A i \in 1 .. n + 1 :
            k[i] = IF i = 1 THEN w[1] ELSE k[i - 1] \o << Space >> \o w[i]
      BY <1>2, <1>15
    <2>2. ASSUME NEW i \in 2 .. n + 1 PROVE k[i] = k[i - 1] \o << Space >> \o w[i]
      <3>1. i \in 1 .. n + 1 /\ i # 1
        OBVIOUS
      <3>2. QED
        BY <2>1, <3>1
    <2>3. k[1] = w[1]
      <3>1. 1 \in 1 .. n + 1
        OBVIOUS
      <3>2. QED
        BY <2>1, <3>1
    <2>4. QED
      BY <2>2, <2>3
  <1>17. PICK S : S = {i \in 0 .. n : k[i + 1] = j[i + 1]}
    OBVIOUS
  <1>18. 0 \in S
    BY <1>13, <1>16, <1>17
  <1>19. ASSUME NEW i \in 0 .. n - 1, i \in S PROVE i + 1 \in S
    <2>1. (i + 1) + 1 \in 2 .. n + 1 /\ ((i + 1) + 1) - 1 = i + 1 /\ i + 1 \in 0 .. n
      OBVIOUS
    <2>2. k[i + 1] = j[i + 1]
      BY <1>17, <1>19
    <2>3. k[(i + 1) + 1] = k[i + 1] \o << Space >> \o w[(i + 1) + 1]
      BY <1>16, <2>1
    <2>4. j[(i + 1) + 1] = j[i + 1] \o << Space >> \o w[(i + 1) + 1]
      BY <1>13, <2>1
    <2>5. QED
      BY <1>17, <2>1, <2>2, <2>3, <2>4
  <1>20. n \in S
    <2>1. \A i \in 0 .. n : i \in S
      BY <1>18, <1>19, UpTo
    <2>2. QED
      BY <2>1
  <1>21. Joined(w) = j[Len(w)]
    BY <1>2, <1>15, <1>17, <1>20
  <1>22. IsJoined(j, w)
    BY <1>2, <1>12, <1>13 DEF IsJoined
  <1>23. QED
    BY <1>21, <1>22

LEMMA JoinedOne ==
    ASSUME NEW x \in Strings
    PROVE  << x >> \in WordSeqs /\ Joined(<< x >>) = x
  <1>1. PICK w \in WordSeqs : w = << x >>
    <2>1. << x >> \in Seq(Strings) /\ << x >> # << >>
      OBVIOUS
    <2>2. QED
      BY <2>1 DEF WordSeqs
  <1>2. Len(w) = 1 /\ w[1] = x
    BY <1>1
  <1>3. PICK j : IsJoined(j, w) /\ Joined(w) = j[Len(w)]
    BY JoinedIs
  <1>4. QED
    BY <1>1, <1>2, <1>3 DEF IsJoined

LEMMA JoinedStep ==
    ASSUME NEW w \in WordSeqs, NEW x \in Strings
    PROVE  /\ Append(w, x) \in WordSeqs /\ Joined(w) \in Strings
           /\ Joined(Append(w, x)) = Joined(w) \o << Space >> \o x
  <1>1. PICK u : u = Append(w, x)
    OBVIOUS
  <1>2. PICK n \in Nat : Len(w) = n + 1
    BY DEF WordSeqs
  <1>3. /\ u \in WordSeqs /\ Len(u) = n + 2 /\ u[n + 2] = x
        /\ \A i \in 1 .. n + 1 : u[i] = w[i]
    BY <1>1, <1>2 DEF WordSeqs
  <1>4. PICK j : IsJoined(j, w) /\ Joined(w) = j[n + 1]
    BY <1>2, JoinedIs
  <1>5. PICK k : IsJoined(k, u) /\ Joined(u) = k[n + 2]
    BY <1>3, JoinedIs
  <1>6. PICK S : S = {i \in 0 .. n : k[i + 1] = j[i + 1]}
    OBVIOUS
  <1>7. 0 \in S
    <2>1. 1 \in 1 .. n + 1
      OBVIOUS
    <2>2. k[1] = j[1]
      BY <1>3, <1>4, <1>5, <2>1 DEF IsJoined
    <2>3. QED
      BY <1>6, <2>2
  <1>8. ASSUME NEW i \in 0 .. n - 1, i \in S PROVE i + 1 \in S
    <2>1. /\ (i + 1) + 1 \in 2 .. n + 1 /\ (i + 1) + 1 \in 2 .. n + 2
          /\ (i + 1) + 1 \in 1 .. n + 1
          /\ ((i + 1) + 1) - 1 = i + 1 /\ i + 1 \in 0 .. n
      OBVIOUS
    <2>2. k[i + 1] = j[i + 1]
      BY <1>6, <1>8
    <2>3. k[(i + 1) + 1] = k[i + 1] \o << Space >> \o u[(i + 1) + 1]
      BY <1>3, <1>5, <2>1 DEF IsJoined
    <2>4. j[(i + 1) + 1] = j[i + 1] \o << Space >> \o w[(i + 1) + 1]
      BY <1>2, <1>4, <2>1 DEF IsJoined
    <2>5. QED
      BY <1>3, <1>6, <2>1, <2>2, <2>3, <2>4
  <1>9. k[n + 1] = j[n + 1]
    <2>1. \A i \in 0 .. n : i \in S
      BY <1>7, <1>8, UpTo
    <2>2. n \in S
      BY <2>1
    <2>3. QED
      BY <1>6, <2>2
  <1>10. k[n + 2] = k[n + 1] \o << Space >> \o u[n + 2]
    <2>1. n + 2 \in 2 .. Len(u) /\ (n + 2) - 1 = n + 1
      BY <1>3
    <2>2. QED
      BY <1>5, <2>1 DEF IsJoined
  <1>11. j[n + 1] \in Strings
    <2>1. n + 1 \in 1 .. Len(w)
      BY <1>2
    <2>2. QED
      BY <1>4, <2>1 DEF IsJoined
  <1>12. QED
    BY <1>1, <1>3, <1>4, <1>5, <1>9, <1>10, <1>11

-----------------------------------------------------------------------------
(* Cutting and joining undo each other.                                    *)

LEMMA LastWord ==
    ASSUME NEW v \in WordSeqs, Len(v) # 1
    PROVE  \E u \in WordSeqs : /\ Len(v) = Len(u) + 1
                               /\ v = Append(u, v[Len(v)])
                               /\ \A i \in 1 .. Len(u) : u[i] = v[i]
  <1>1. PICK n \in Nat \ {0} : Len(v) = n + 1
    <2>1. Len(v) \in Nat \ {0}
      BY DEF WordSeqs
    <2>2. PICK n \in Nat \ {0} : n = Len(v) - 1
      <3>1. Len(v) - 1 \in Nat \ {0}
        BY <2>1
      <3>2. QED
        BY <3>1
    <2>3. Len(v) = n + 1
      BY <2>1, <2>2
    <2>4. QED
      BY <2>3
  <1>2. PICK u : u = SubSeq(v, 1, n)
    OBVIOUS
  <1>3. u \in Seq(Strings) /\ Len(u) = n /\ \A i \in 1 .. n : u[i] = v[i]
    BY <1>1, <1>2 DEF WordSeqs
  <1>4. u \in WordSeqs
    BY <1>1, <1>3 DEF WordSeqs
  <1>5. v[n + 1] \in Strings /\ v \in Seq(Strings)
    BY <1>1 DEF WordSeqs
  <1>6. v = Append(u, v[n + 1])
    BY <1>1, <1>3, <1>5
  <1>7. QED
    BY <1>1, <1>3, <1>4, <1>6

LEMMA CutJoins ==
    ASSUME NEW v \in WordSeqs, NEW c \in Char
    PROVE  Joined(Cut(v, c)) = Append(Joined(v), c)
  <1>1. Joined(v) \in Strings /\ << >> \in Strings /\ Len(v) \in Nat \ {0}
    <2>1. << >> \in Strings
      BY DEF Strings
    <2>2. QED
      BY <2>1, JoinedStep DEF WordSeqs
  <1>2. CASE c = Space
    <2>1. Joined(Append(v, << >>)) = Joined(v) \o << Space >> \o << >>
      BY <1>1, JoinedStep
    <2>2. Joined(v) \o << Space >> \o << >> = Append(Joined(v), Space)
      BY <1>1, MessageAssumption DEF Strings
    <2>3. QED
      BY <1>2, <2>1, <2>2 DEF Cut
  <1>3. CASE c # Space
    <2>1. PICK n \in Nat \ {0}, x \in Strings : n = Len(v) /\ x = v[n]
      <3>1. v[Len(v)] \in Strings
        BY <1>1 DEF WordSeqs
      <3>2. QED
        BY <1>1, <3>1
    <2>2. PICK y \in Strings : y = Append(x, c)
      <3>1. Append(x, c) \in Strings
        BY DEF Strings
      <3>2. QED
        BY <3>1
    <2>3. /\ Cut(v, c) \in WordSeqs /\ Len(Cut(v, c)) = n /\ Cut(v, c)[n] = y
          /\ \A i \in 1 .. n - 1 : Cut(v, c)[i] = v[i]
      BY <1>3, <2>1, <2>2, CutType
    <2>4. CASE n = 1
      <3>1. v = << x >>
        <4>1. v \in Seq(Strings) /\ Len(v) = 1 /\ v[1] = x
          BY <2>1, <2>4 DEF WordSeqs
        <4>2. QED
          BY <4>1
      <3>2. Cut(v, c) = << y >>
        <4>1. Cut(v, c) \in Seq(Strings) /\ Len(Cut(v, c)) = 1 /\ Cut(v, c)[1] = y
          BY <2>3, <2>4 DEF WordSeqs
        <4>2. QED
          BY <4>1
      <3>3. QED
        BY <2>2, <3>1, <3>2, JoinedOne
    <2>5. CASE n # 1
      <3>1. PICK u \in WordSeqs : /\ n = Len(u) + 1
                                  /\ v = Append(u, x)
                                  /\ \A i \in 1 .. Len(u) : u[i] = v[i]
        BY <2>1, <2>5, LastWord
      <3>2. Cut(v, c) = Append(u, y)
        <4>1. Len(u) = n - 1 /\ Len(u) \in Nat /\ u \in Seq(Strings)
          BY <3>1 DEF WordSeqs
        <4>2. Append(u, y) \in Seq(Strings) /\ Len(Append(u, y)) = n
          BY <3>1, <4>1
        <4>3. \A i \in 1 .. n : Cut(v, c)[i] = Append(u, y)[i]
          BY <2>3, <3>1, <4>1
        <4>4. Cut(v, c) \in Seq(Strings)
          BY <2>3 DEF WordSeqs
        <4>5. QED
          BY <2>3, <4>2, <4>3, <4>4
      <3>3. Joined(Cut(v, c)) = Joined(u) \o << Space >> \o y
        BY <3>2, JoinedStep
      <3>4. Joined(v) = Joined(u) \o << Space >> \o x /\ Joined(u) \in Strings
        BY <3>1, JoinedStep
      <3>5. Joined(u) \o << Space >> \o Append(x, c)
              = Append(Joined(u) \o << Space >> \o x, c)
        BY <3>4, MessageAssumption DEF Strings
      <3>6. QED
        BY <2>2, <3>3, <3>4, <3>5
    <2>6. QED
      BY <2>4, <2>5
  <1>4. QED
    BY <1>2, <1>3

LEMMA NextPrefix ==
    ASSUME NEW p \in Strings, NEW k \in 0 .. Len(p) - 1
    PROVE  /\ SubSeq(p, 1, k) \in Strings /\ Len(SubSeq(p, 1, k)) = k
           /\ \A i \in 1 .. k : SubSeq(p, 1, k)[i] = p[i]
           /\ k + 1 \in 1 .. Len(p) /\ p[k + 1] \in Char
           /\ SubSeq(p, 1, k + 1) = Append(SubSeq(p, 1, k), p[k + 1])
  <1>1. PICK n \in Nat : n = Len(p)
    BY DEF Strings
  <1>2. k + 1 \in 1 .. n /\ k \in Nat /\ \A i \in 1 .. n : p[i] \in Char
    BY <1>1 DEF Strings
  <1>3. PICK x : x = SubSeq(p, 1, k)
    OBVIOUS
  <1>4. PICK y : y = SubSeq(p, 1, k + 1)
    OBVIOUS
  <1>5. x \in Strings /\ Len(x) = k /\ \A i \in 1 .. k : x[i] = p[i]
    BY <1>1, <1>2, <1>3 DEF Strings
  <1>6. y \in Strings /\ Len(y) = k + 1 /\ \A i \in 1 .. k + 1 : y[i] = p[i]
    BY <1>1, <1>2, <1>4 DEF Strings
  <1>7. y = Append(x, p[k + 1])
    BY <1>2, <1>5, <1>6 DEF Strings
  <1>8. QED
    BY <1>1, <1>2, <1>3, <1>4, <1>5, <1>7

LEMMA WholePrefix ==
    ASSUME NEW p \in Strings
    PROVE  SubSeq(p, 1, Len(p)) = p /\ SubSeq(p, 1, 0) = << >> /\ Len(p) \in Nat
  BY DEF Strings

LEMMA WordsJoin ==
    ASSUME NEW p \in Strings
    PROVE  Joined(Words(p)) = p
  <1>1. PICK n \in Nat : n = Len(p)
    BY DEF Strings
  <1>2. PICK S : S = {k \in 0 .. n : Joined(Words(SubSeq(p, 1, k))) = SubSeq(p, 1, k)}
    OBVIOUS
  <1>3. 0 \in S
    <2>1. << >> \in Strings
      BY DEF Strings
    <2>2. Joined(Words(<< >>)) = << >>
      BY <2>1, WordsType, JoinedOne
    <2>3. SubSeq(p, 1, 0) = << >>
      BY WholePrefix
    <2>4. Joined(Words(SubSeq(p, 1, 0))) = SubSeq(p, 1, 0)
      BY <2>2, <2>3
    <2>5. QED
      BY <1>2, <2>4
  <1>4. ASSUME NEW k \in 0 .. n - 1, k \in S PROVE k + 1 \in S
    <2>1. PICK x \in Strings : x = SubSeq(p, 1, k)
      BY <1>1, NextPrefix
    <2>2. PICK c \in Char : c = p[k + 1]
      BY <1>1, NextPrefix
    <2>3. SubSeq(p, 1, k + 1) = Append(x, c) /\ k + 1 \in 0 .. n
      BY <1>1, <2>1, <2>2, NextPrefix
    <2>4. Joined(Words(x)) = x
      BY <1>2, <1>4, <2>1
    <2>5. Words(x) \in WordSeqs
      BY WordsType
    <2>6. Joined(Words(Append(x, c))) = Append(x, c)
      BY <2>4, <2>5, WordsStep, CutJoins
    <2>7. QED
      BY <1>2, <2>3, <2>6
  <1>5. n \in S
    <2>1. \A k \in 0 .. n : k \in S
      BY <1>3, <1>4, UpTo
    <2>2. QED
      BY <2>1
  <1>6. QED
    BY <1>1, <1>2, <1>5, WholePrefix

-----------------------------------------------------------------------------
(* The words of a proper text.                                             *)

\* Single spaces inside, and no Nul.
Plain(p) ==
    /\ p # << >> /\ p[1] # Space /\ p[Len(p)] # Space
    /\ \A i \in 2 .. Len(p) : p[i - 1] # Space \/ p[i] # Space
    /\ \A i \in 1 .. Len(p) : p[i] # Nul

FullWords(v) == \A i \in 1 .. Len(v) - 1 : v[i] # << >>
PlainWord(x) == \A j \in 1 .. Len(x) : x[j] # Space /\ x[j] # Nul
PlainWords(v) == \A i \in 1 .. Len(v) : PlainWord(v[i])

LEMMA CutPlain ==
    ASSUME NEW v \in WordSeqs, NEW c \in Char, c # Nul, FullWords(v), PlainWords(v),
           c = Space => v[Len(v)] # << >>
    PROVE  /\ FullWords(Cut(v, c)) /\ PlainWords(Cut(v, c))
           /\ Cut(v, c)[Len(Cut(v, c))] = << >> <=> c = Space
  <1>1. PICK n \in Nat \ {0}, x \in Strings : n = Len(v) /\ x = v[n]
    <2>1. Len(v) \in Nat \ {0} /\ v[Len(v)] \in Strings
      BY DEF WordSeqs
    <2>2. QED
      BY <2>1
  <1>2. v \in Seq(Strings)
    BY DEF WordSeqs
  <1>3. CASE c = Space
    <2>1. PICK u : u = Append(v, << >>)
      OBVIOUS
    <2>2. Len(u) = n + 1 /\ u[n + 1] = << >> /\ \A i \in 1 .. n : u[i] = v[i]
      BY <1>1, <1>2, <2>1
    <2>3. FullWords(u)
      BY <1>1, <1>3, <2>2 DEF FullWords
    <2>4. PlainWords(u)
      <3>1. PlainWord(u[n + 1])
        BY <2>2 DEF PlainWord
      <3>2. \A i \in 1 .. n : PlainWord(u[i])
        BY <1>1, <2>2 DEF PlainWords
      <3>3. QED
        BY <2>2, <3>1, <3>2 DEF PlainWords
    <2>5. QED
      BY <1>3, <2>1, <2>2, <2>3, <2>4 DEF Cut
  <1>4. CASE c # Space
    <2>1. PICK u : u = Cut(v, c)
      OBVIOUS
    <2>2. PICK y : y = Append(x, c)
      OBVIOUS
    <2>3. Len(u) = n /\ u[n] = y /\ \A i \in 1 .. n - 1 : u[i] = v[i]
      BY <1>1, <1>4, <2>1, <2>2, CutType
    <2>4. PlainWord(x)
      BY <1>1 DEF PlainWords
    <2>5. PlainWord(y) /\ y # << >>
      <3>1. /\ Len(x) \in Nat /\ Len(y) = Len(x) + 1 /\ y[Len(x) + 1] = c
            /\ \A j \in 1 .. Len(x) : y[j] = x[j]
        BY <1>1, <2>2 DEF Strings
      <3>2. QED
        BY <1>4, <2>4, <3>1 DEF PlainWord
    <2>6. FullWords(u)
      BY <1>1, <2>3 DEF FullWords
    <2>7. PlainWords(u)
      <3>1. \A i \in 1 .. n - 1 : PlainWord(u[i])
        BY <1>1, <2>3 DEF PlainWords
      <3>2. QED
        BY <2>3, <2>5, <3>1 DEF PlainWords
    <2>8. QED
      BY <1>4, <2>1, <2>3, <2>5, <2>6, <2>7
  <1>5. QED
    BY <1>3, <1>4

LEMMA WordsPlain ==
    ASSUME NEW p \in Strings, Plain(p)
    PROVE  PlainWords(Words(p)) /\ \A i \in 1 .. Len(Words(p)) : Words(p)[i] # << >>
  <1>1. PICK n \in Nat \ {0} : n = Len(p)
    <2>1. Len(p) \in Nat \ {0}
      BY DEF Strings, Plain
    <2>2. QED
      BY <2>1
  <1>2. PICK W : W = [k \in 0 .. n |-> Words(SubSeq(p, 1, k))]
    OBVIOUS
  <1>3. \A k \in 0 .. n : W[k] = Words(SubSeq(p, 1, k))
    BY <1>2
  <1>4. PICK S : S = {k \in 0 .. n : /\ FullWords(W[k]) /\ PlainWords(W[k])
                                     /\ k > 0 => (W[k][Len(W[k])] = << >> <=> p[k] = Space)}
    OBVIOUS
  <1>5. 0 \in S
    <2>1. W[0] = << << >> >>
      <3>1. << >> \in Strings
        BY DEF Strings
      <3>2. SubSeq(p, 1, 0) = << >>
        BY WholePrefix
      <3>3. Words(<< >>) = << << >> >>
        BY <3>1, WordsType
      <3>4. W[0] = Words(SubSeq(p, 1, 0))
        BY <1>3
      <3>5. QED
        BY <3>2, <3>3, <3>4
    <2>2. FullWords(W[0]) /\ PlainWords(W[0])
      BY <2>1 DEF FullWords, PlainWords, PlainWord
    <2>3. QED
      BY <1>4, <2>2
  <1>6. ASSUME NEW k \in 0 .. n - 1, k \in S PROVE k + 1 \in S
    <2>1. PICK x \in Strings : x = SubSeq(p, 1, k)
      BY <1>1, NextPrefix
    <2>2. PICK c \in Char : c = p[k + 1]
      BY <1>1, NextPrefix
    <2>3. SubSeq(p, 1, k + 1) = Append(x, c) /\ k + 1 \in 1 .. n /\ k + 1 \in 0 .. n
      BY <1>1, <2>1, <2>2, NextPrefix
    <2>4. PICK v \in WordSeqs : v = W[k] /\ v = Words(x)
      <3>1. Words(x) \in WordSeqs
        BY WordsType
      <3>2. QED
        BY <1>3, <2>1, <3>1
    <2>5. W[k + 1] = Cut(v, c)
      BY <1>3, <2>3, <2>4, WordsStep
    <2>6. c # Nul
      BY <1>1, <2>2, <2>3 DEF Plain
    <2>7. c = Space => v[Len(v)] # << >>
      <3>1. SUFFICES ASSUME c = Space PROVE v[Len(v)] # << >>
        OBVIOUS
      <3>2. k # 0
        <4>1. SUFFICES ASSUME k = 0 PROVE FALSE
          OBVIOUS
        <4>2. k + 1 = 1
          BY <4>1
        <4>3. p[1] = Space
          BY <2>2, <3>1, <4>2
        <4>4. QED
          BY <4>3 DEF Plain
      <3>3. k + 1 \in 2 .. n /\ (k + 1) - 1 = k /\ k > 0
        BY <2>3, <3>2
      <3>4. p[k] # Space
        BY <1>1, <2>2, <3>1, <3>3 DEF Plain
      <3>5. QED
        BY <1>4, <1>6, <2>4, <3>3, <3>4
    <2>8. FullWords(v) /\ PlainWords(v)
      BY <1>4, <1>6, <2>4
    <2>9. /\ FullWords(W[k + 1]) /\ PlainWords(W[k + 1])
          /\ W[k + 1][Len(W[k + 1])] = << >> <=> c = Space
      BY <2>5, <2>6, <2>7, <2>8, CutPlain
    <2>10. QED
      BY <1>4, <2>2, <2>3, <2>9
  <1>7. n \in S
    <2>1. \A k \in 0 .. n : k \in S
      BY <1>5, <1>6, UpTo
    <2>2. QED
      BY <2>1
  <1>8. W[n] = Words(p) /\ Words(p) \in WordSeqs
    <2>1. SubSeq(p, 1, n) = p
      BY <1>1, WholePrefix
    <2>2. W[n] = Words(SubSeq(p, 1, n))
      BY <1>3
    <2>3. Words(p) \in WordSeqs
      BY WordsType
    <2>4. QED
      BY <2>1, <2>2, <2>3
  <1>9. /\ FullWords(Words(p)) /\ PlainWords(Words(p))
        /\ Words(p)[Len(Words(p))] # << >>
    BY <1>1, <1>4, <1>7, <1>8 DEF Plain
  <1>10. Len(Words(p)) \in Nat
    BY <1>8 DEF WordSeqs
  <1>11. QED
    BY <1>9, <1>10 DEF FullWords

\* The converse: words that were joined are found again.
LEMMA CutLast ==
    ASSUME NEW u \in Seq(Strings), NEW x \in Strings, NEW c \in Char, c # Space
    PROVE  Cut(Append(u, x), c) = Append(u, Append(x, c))
  <1>1. PICK n \in Nat : n = Len(u)
    OBVIOUS
  <1>2. PICK v : v = Append(u, x)
    OBVIOUS
  <1>3. /\ v \in WordSeqs /\ Len(v) = n + 1 /\ v[n + 1] = x
        /\ \A i \in 1 .. n : v[i] = u[i]
    <2>1. v \in Seq(Strings) /\ Len(v) = n + 1
      BY <1>1, <1>2
    <2>2. v[n + 1] = x /\ \A i \in 1 .. n : v[i] = u[i]
      BY <1>1, <1>2
    <2>3. v \in WordSeqs
      BY <2>1 DEF WordSeqs
    <2>4. QED
      BY <2>1, <2>2, <2>3
  <1>4. PICK y \in Strings : y = Append(x, c)
    <2>1. Append(x, c) \in Strings
      BY DEF Strings
    <2>2. QED
      BY <2>1
  <1>5. PICK w \in Seq(Strings) : w = Cut(v, c)
    <2>1. Cut(v, c) \in Seq(Strings)
      BY <1>3, CutType DEF WordSeqs
    <2>2. QED
      BY <2>1
  <1>6. /\ Len(w) = n + 1 /\ w[n + 1] = y
        /\ \A i \in 1 .. n : w[i] = u[i]
    <2>1. /\ Len(w) = Len(v) /\ w[Len(v)] = Append(v[Len(v)], c)
          /\ \A i \in 1 .. Len(v) - 1 : w[i] = v[i]
      BY <1>3, <1>5, CutType
    <2>2. Len(w) = n + 1 /\ w[n + 1] = Append(x, c)
      BY <1>3, <2>1
    <2>3. ASSUME NEW i \in 1 .. n PROVE w[i] = u[i]
      <3>1. i \in 1 .. Len(v) - 1
        BY <1>3
      <3>2. w[i] = v[i]
        BY <2>1, <3>1
      <3>3. v[i] = u[i]
        BY <1>3
      <3>4. QED
        BY <3>2, <3>3
    <2>4. QED
      BY <1>4, <2>2, <2>3
  <1>7. PICK z \in Seq(Strings) : z = Append(u, y)
    <2>1. Append(u, y) \in Seq(Strings)
      BY <1>4
    <2>2. QED
      BY <2>1
  <1>8. Len(z) = n + 1 /\ z[n + 1] = y /\ \A i \in 1 .. n : z[i] = u[i]
    BY <1>1, <1>7
  <1>9. w = z
    BY <1>6, <1>8
  <1>10. QED
    BY <1>2, <1>4, <1>5, <1>7, <1>9

LEMMA WordsAdd ==
    ASSUME NEW u \in Seq(Strings), NEW q \in Strings, Words(q) = Append(u, << >>),
           NEW x \in Strings, PlainWord(x)
    PROVE  Words(q \o x) = Append(u, x)
  <1>1. PICK n \in Nat : n = Len(x)
    BY DEF Strings
  <1>2. PICK S : S = {k \in 0 .. n :
                        Words(q \o SubSeq(x, 1, k)) = Append(u, SubSeq(x, 1, k))}
    OBVIOUS
  <1>3. 0 \in S
    <2>1. SubSeq(x, 1, 0) = << >>
      BY WholePrefix
    <2>2. q \o << >> = q
      BY DEF Strings
    <2>3. Words(q \o SubSeq(x, 1, 0)) = Append(u, SubSeq(x, 1, 0))
      BY <2>1, <2>2
    <2>4. QED
      BY <1>2, <2>3
  <1>4. ASSUME NEW k \in 0 .. n - 1, k \in S PROVE k + 1 \in S
    <2>1. PICK y \in Strings : y = SubSeq(x, 1, k)
      BY <1>1, NextPrefix
    <2>2. PICK c \in Char : c = x[k + 1]
      BY <1>1, NextPrefix
    <2>3. SubSeq(x, 1, k + 1) = Append(y, c) /\ k + 1 \in 1 .. n /\ k + 1 \in 0 .. n
      BY <1>1, <2>1, <2>2, NextPrefix
    <2>4. c # Space
      BY <1>1, <2>2, <2>3 DEF PlainWord
    <2>5. Words(q \o y) = Append(u, y)
      BY <1>2, <1>4, <2>1
    <2>6. q \o y \in Strings /\ q \o Append(y, c) = Append(q \o y, c)
      BY DEF Strings
    <2>7. Words(q \o Append(y, c)) = Cut(Words(q \o y), c)
      BY <2>6, WordsStep
    <2>8. Words(q \o Append(y, c)) = Append(u, Append(y, c))
      BY <2>4, <2>5, <2>7, CutLast
    <2>9. QED
      BY <1>2, <2>3, <2>8
  <1>5. n \in S
    <2>1. \A k \in 0 .. n : k \in S
      BY <1>3, <1>4, UpTo
    <2>2. QED
      BY <2>1
  <1>6. SubSeq(x, 1, n) = x
    BY <1>1, WholePrefix
  <1>7. QED
    BY <1>2, <1>5, <1>6

LEMMA Concat ==
    ASSUME NEW a \in Strings, NEW b \in Strings
    PROVE  /\ a \o b \in Strings /\ Len(a) \in Nat /\ Len(b) \in Nat
           /\ Len(a \o b) = Len(a) + Len(b)
           /\ \A i \in 1 .. Len(a) : (a \o b)[i] = a[i]
           /\ \A i \in Len(a) + 1 .. Len(a) + Len(b) : (a \o b)[i] = b[i - Len(a)]
  <1>1. a \in Seq(Char) /\ b \in Seq(Char)
    BY DEF Strings
  <1>2. Len(a) \in Nat /\ Len(b) \in Nat
    BY <1>1
  <1>3. a \o b \in Strings
    BY <1>1 DEF Strings
  <1>4. Len(a \o b) = Len(a) + Len(b)
    BY <1>1
  <1>5. \A i \in 1 .. Len(a) : (a \o b)[i] = a[i]
    BY <1>1, <1>2
  <1>6. \A i \in Len(a) + 1 .. Len(a) + Len(b) : (a \o b)[i] = b[i - Len(a)]
    BY <1>1, <1>2
  <1>7. QED
    BY <1>2, <1>3, <1>4, <1>5, <1>6

LEMMA PlainJoin ==
    ASSUME NEW t \in Strings, Plain(t), NEW x \in Strings, x # << >>, PlainWord(x)
    PROVE  Plain(t \o << Space >> \o x)
  <1>1. PICK m \in Nat \ {0}, n \in Nat \ {0} : m = Len(t) /\ n = Len(x)
    <2>1. Len(t) \in Nat \ {0} /\ Len(x) \in Nat \ {0}
      BY DEF Strings, Plain
    <2>2. QED
      BY <2>1
  <1>2. PICK y : y = t \o << Space >> \o x
    OBVIOUS
  <1>3. /\ y \in Strings /\ Len(y) = m + 1 + n /\ y[m + 1] = Space
        /\ \A i \in 1 .. m : y[i] = t[i]
        /\ \A i \in m + 2 .. m + 1 + n : y[i] = x[i - (m + 1)]
    <2>1. y \in Strings
      BY <1>2, JoinType
    <2>2. PICK z : z = t \o << Space >>
      OBVIOUS
    <2>3. z \in Strings /\ Len(z) = m + 1
      BY <1>1, <2>2, MessageAssumption DEF Strings
    <2>4. z[m + 1] = Space /\ \A i \in 1 .. m : z[i] = t[i]
      BY <1>1, <2>2 DEF Strings
    <2>5. y = z \o x
      BY <1>2, <2>2
    <2>6. PICK k \in Nat : k = m + 1
      OBVIOUS
    <2>7. z \in Seq(Char) /\ x \in Seq(Char) /\ Len(z) = k /\ Len(x) = n
      BY <1>1, <2>3, <2>6 DEF Strings
    <2>8. /\ Len(y) = k + n
          /\ \A i \in 1 .. k : y[i] = z[i]
          /\ \A i \in k + 1 .. k + n : y[i] = x[i - k]
      <3>1. x \in Strings /\ z \in Strings
        BY <2>3
      <3>2. QED
        BY <2>5, <2>7, <3>1, Concat
    <2>9. Len(y) = m + 1 + n /\ \A i \in 1 .. m + 1 : y[i] = z[i]
      BY <2>6, <2>8
    <2>10. y[m + 1] = Space /\ \A i \in 1 .. m : y[i] = t[i]
      BY <2>4, <2>9
    <2>11. ASSUME NEW i \in m + 2 .. m + 1 + n PROVE y[i] = x[i - (m + 1)]
      <3>1. i \in k + 1 .. k + n /\ i - k = i - (m + 1)
        BY <2>6
      <3>2. QED
        BY <2>8, <3>1
    <2>12. QED
      BY <2>1, <2>9, <2>10, <2>11
  <1>4. y # << >> /\ y[1] # Space /\ y[Len(y)] # Space
    <2>1. y[1] = t[1]
      BY <1>1, <1>3
    <2>2. y[m + 1 + n] = x[n]
      BY <1>1, <1>3
    <2>3. x[n] # Space
      BY <1>1 DEF PlainWord
    <2>4. QED
      BY <1>1, <1>3, <2>1, <2>2, <2>3 DEF Plain
  <1>5. \A i \in 1 .. Len(y) : y[i] # Nul
    <2>1. ASSUME NEW i \in 1 .. m + 1 + n PROVE y[i] # Nul
      <3>1. CASE i \in 1 .. m
        BY <1>1, <1>3, <3>1 DEF Plain
      <3>2. CASE i = m + 1
        BY <1>3, <3>2, MessageAssumption
      <3>3. CASE i \in m + 2 .. m + 1 + n
        <4>1. i - (m + 1) \in 1 .. n
          BY <3>3
        <4>2. QED
          BY <1>1, <1>3, <3>3, <4>1 DEF PlainWord
      <3>4. QED
        BY <3>1, <3>2, <3>3
    <2>2. QED
      BY <1>3, <2>1
  <1>6. \A i \in 2 .. Len(y) : y[i - 1] # Space \/ y[i] # Space
    <2>1. ASSUME NEW i \in 2 .. m + 1 + n PROVE y[i - 1] # Space \/ y[i] # Space
      <3>1. CASE i \in 2 .. m
        <4>1. i - 1 \in 1 .. m /\ i \in 1 .. m
          BY <3>1
        <4>2. QED
          BY <1>1, <1>3, <3>1, <4>1 DEF Plain
      <3>2. CASE i = m + 1
        <4>1. i - 1 = m /\ m \in 1 .. m
          BY <3>2
        <4>2. QED
          BY <1>1, <1>3, <4>1 DEF Plain
      <3>3. CASE i \in m + 2 .. m + 1 + n
        <4>1. i - (m + 1) \in 1 .. n
          BY <3>3
        <4>2. QED
          BY <1>1, <1>3, <3>3, <4>1 DEF PlainWord
      <3>4. QED
        BY <3>1, <3>2, <3>3
    <2>2. QED
      BY <1>3, <2>1
  <1>7. QED
    BY <1>2, <1>4, <1>5, <1>6 DEF Plain

LEMMA NextWords ==
    ASSUME NEW w \in WordSeqs, NEW k \in 1 .. Len(w) - 1
    PROVE  /\ SubSeq(w, 1, k) \in WordSeqs /\ k + 1 \in 1 .. Len(w) /\ w[k + 1] \in Strings
           /\ SubSeq(w, 1, k + 1) = Append(SubSeq(w, 1, k), w[k + 1])
  <1>1. PICK n \in Nat : n = Len(w)
    BY DEF WordSeqs
  <1>2. w \in Seq(Strings) /\ k + 1 \in 1 .. n /\ k \in Nat \ {0} /\ \A i \in 1 .. n : w[i] \in Strings
    BY <1>1 DEF WordSeqs
  <1>3. PICK x : x = SubSeq(w, 1, k)
    OBVIOUS
  <1>4. PICK y : y = SubSeq(w, 1, k + 1)
    OBVIOUS
  <1>5. x \in Seq(Strings) /\ Len(x) = k /\ \A i \in 1 .. k : x[i] = w[i]
    BY <1>1, <1>2, <1>3
  <1>6. y \in Seq(Strings) /\ Len(y) = k + 1 /\ \A i \in 1 .. k + 1 : y[i] = w[i]
    BY <1>1, <1>2, <1>4
  <1>7. y = Append(x, w[k + 1])
    BY <1>2, <1>5, <1>6
  <1>8. x \in WordSeqs
    BY <1>2, <1>5 DEF WordSeqs
  <1>9. QED
    BY <1>1, <1>2, <1>3, <1>4, <1>7, <1>8

LEMMA PlainOne ==
    ASSUME NEW x \in Strings, x # << >>, PlainWord(x)
    PROVE  Plain(x) /\ Words(x) = << x >>
  <1>1. PICK n \in Nat \ {0} : n = Len(x)
    <2>1. Len(x) \in Nat \ {0}
      BY DEF Strings
    <2>2. QED
      BY <2>1
  <1>2. \A j \in 1 .. n : x[j] # Space /\ x[j] # Nul
    BY <1>1 DEF PlainWord
  <1>3. Plain(x)
    <2>1. x[1] # Space /\ x[n] # Space
      BY <1>2
    <2>2. \A i \in 2 .. n : x[i - 1] # Space \/ x[i] # Space
      BY <1>2
    <2>3. QED
      BY <1>1, <1>2, <2>1, <2>2 DEF Plain
  <1>4. PICK e \in Strings : e = << >>
    <2>1. << >> \in Strings
      BY DEF Strings
    <2>2. QED
      BY <2>1
  <1>5. PICK u \in Seq(Strings) : u = << >>
    <2>1. << >> \in Seq(Strings)
      OBVIOUS
    <2>2. QED
      BY <2>1
  <1>6. Words(e) = Append(u, << >>)
    <2>1. Append(u, << >>) = << << >> >>
      BY <1>5
    <2>2. QED
      BY <1>4, <2>1, WordsType
  <1>7. Words(e \o x) = Append(u, x)
    BY <1>6, WordsAdd
  <1>8. e \o x = x /\ Append(u, x) = << x >>
    BY <1>4, <1>5 DEF Strings
  <1>9. Words(x) = << x >>
    BY <1>7, <1>8
  <1>10. QED
    BY <1>3, <1>9

LEMMA WordsBack ==
    ASSUME NEW w \in WordSeqs, PlainWords(w), \A i \in 1 .. Len(w) : w[i] # << >>
    PROVE  Words(Joined(w)) = w /\ Plain(Joined(w)) /\ Joined(w) \in Strings
  <1>1. PICK n \in Nat : n = Len(w) - 1
    <2>1. Len(w) - 1 \in Nat
      BY DEF WordSeqs
    <2>2. QED
      BY <2>1
  <1>2. /\ Len(w) = n + 1
        /\ \A i \in 1 .. n + 1 : w[i] \in Strings /\ w[i] # << >> /\ PlainWord(w[i])
    BY <1>1 DEF WordSeqs, PlainWords
  <1>3. PICK W : W = [k \in 0 .. n |-> SubSeq(w, 1, k + 1)]
    OBVIOUS
  <1>4. \A k \in 0 .. n : W[k] = SubSeq(w, 1, k + 1)
    BY <1>3
  <1>5. PICK S : S = {k \in 0 .. n : /\ W[k] \in WordSeqs
                                     /\ Words(Joined(W[k])) = W[k]
                                     /\ Plain(Joined(W[k]))}
    OBVIOUS
  <1>6. 0 \in S
    <2>1. PICK x \in Strings : x = w[1] /\ x # << >> /\ PlainWord(x)
      <3>1. 1 \in 1 .. n + 1
        OBVIOUS
      <3>2. QED
        BY <1>2, <3>1
    <2>2. W[0] = << x >>
      <3>1. SubSeq(w, 1, 1) = << x >>
        <4>1. PICK y : y = SubSeq(w, 1, 1)
          OBVIOUS
        <4>2. w \in Seq(Strings) /\ 1 <= Len(w) /\ Len(w) \in Nat
          BY <1>2 DEF WordSeqs
        <4>3. y \in Seq(Strings) /\ Len(y) = 1 /\ y[1] = w[1]
          BY <4>1, <4>2
        <4>4. y = << x >>
          BY <2>1, <4>3
        <4>5. QED
          BY <4>1, <4>4
      <3>2. 0 + 1 = 1 /\ 0 \in 0 .. n
        OBVIOUS
      <3>3. W[0] = SubSeq(w, 1, 0 + 1)
        BY <1>4, <3>2
      <3>4. QED
        BY <3>1, <3>2, <3>3
    <2>3. Joined(<< x >>) = x /\ << x >> \in WordSeqs
      BY JoinedOne
    <2>4. Plain(x) /\ Words(x) = << x >>
      BY <2>1, PlainOne
    <2>5. Words(Joined(<< x >>)) = << x >> /\ Plain(Joined(<< x >>))
      BY <2>3, <2>4
    <2>6. QED
      BY <1>5, <2>2, <2>3, <2>5
  <1>7. ASSUME NEW k \in 0 .. n - 1, k \in S PROVE k + 1 \in S
    <2>1. k + 1 \in 1 .. Len(w) - 1 /\ k + 1 \in 0 .. n /\ k \in 0 .. n
      BY <1>2
    <2>2. PICK v \in WordSeqs : v = W[k]
      BY <1>5, <1>7
    <2>3. PICK x \in Strings : x = w[(k + 1) + 1] /\ x # << >> /\ PlainWord(x)
      <3>1. (k + 1) + 1 \in 1 .. n + 1
        OBVIOUS
      <3>2. QED
        BY <1>2, <3>1
    <2>4. W[k + 1] = Append(v, x)
      BY <1>4, <2>1, <2>2, <2>3, NextWords
    <2>5. Words(Joined(v)) = v /\ Plain(Joined(v))
      BY <1>5, <1>7, <2>2
    <2>6. PICK t \in Strings : t = Joined(v)
      BY JoinedStep
    <2>7. Append(v, x) \in WordSeqs /\ Joined(Append(v, x)) = t \o << Space >> \o x
      BY <2>6, JoinedStep
    <2>8. Plain(t \o << Space >> \o x)
      BY <2>3, <2>5, <2>6, PlainJoin
    <2>9. PICK q \in Strings : q = Append(t, Space)
      <3>1. Append(t, Space) \in Strings
        BY MessageAssumption DEF Strings
      <3>2. QED
        BY <3>1
    <2>10. Words(q) = Append(v, << >>)
      <3>1. Words(q) = Cut(v, Space)
        BY <2>5, <2>6, <2>9, WordsStep, MessageAssumption
      <3>2. QED
        BY <3>1 DEF Cut
    <2>11. Words(q \o x) = Append(v, x)
      BY <2>3, <2>10, WordsAdd DEF WordSeqs
    <2>12. q \o x = t \o << Space >> \o x
      <3>1. q = t \o << Space >>
        BY <2>9, MessageAssumption DEF Strings
      <3>2. QED
        BY <3>1
    <2>13. Words(Joined(Append(v, x))) = Append(v, x) /\ Plain(Joined(Append(v, x)))
      BY <2>7, <2>8, <2>11, <2>12
    <2>14. QED
      BY <1>5, <2>1, <2>4, <2>7, <2>13
  <1>8. n \in S
    <2>1. \A k \in 0 .. n : k \in S
      BY <1>6, <1>7, UpTo
    <2>2. QED
      BY <2>1
  <1>9. W[n] = w
    <2>1. SubSeq(w, 1, n + 1) = w
      BY <1>2 DEF WordSeqs
    <2>2. QED
      BY <1>4, <2>1
  <1>10. Joined(w) \in Strings
    <2>1. << >> \in Strings
      BY DEF Strings
    <2>2. QED
      BY <2>1, JoinedStep
  <1>11. QED
    BY <1>5, <1>8, <1>9, <1>10

-----------------------------------------------------------------------------
(* The text and the data of a message.                                     *)

NoNul(p) == \A i \in 1 .. Len(p) : p[i] # Nul

LEMMA Wrap ==
    /\ Word \in Nat
    /\ \A i \in Nat : i < Word => Unsigned(i) = i
    /\ Word > 0 => Unsigned(Word) = 0
  <1>1. Word \in Nat
    BY MessageAssumption
  <1>2. \A i \in Nat : i < Word => i % Word = i
    BY <1>1
  <1>3. Word > 0 => Word % Word = 0
    BY <1>1
  <1>4. QED
    BY <1>1, <1>2, <1>3 DEF Unsigned

LEMMA SameString ==
    ASSUME NEW a \in Strings, NEW b \in Strings, NEW n \in Nat,
           Len(a) = n, Len(b) = n, \A i \in 1 .. n : a[i] = b[i]
    PROVE  a = b
  BY DEF Strings

LEMMA SplitsPlain ==
    ASSUME NEW p \in Strings, NoNul(p)
    PROVE  Splits(Append(p, Nul)) <=> Plain(p)
  <1>1. PICK n \in Nat : n = Len(p)
    BY DEF Strings
  <1>2. PICK s : s = Append(p, Nul)
    OBVIOUS
  <1>3. Len(s) = n + 1 /\ s[n + 1] = Nul /\ \A i \in 1 .. n : s[i] = p[i]
    BY <1>1, <1>2 DEF Strings
  <1>4. ASSUME Splits(s) PROVE Plain(p)
    <2>1. n \in Nat \ {0} /\ n >= 1
      BY <1>3, <1>4 DEF Splits
    <2>2. p[1] # Space /\ p[n] # Space
      <3>1. s[1] = p[1] /\ s[n] = p[n] /\ (n + 1) - 1 = n
        BY <1>3, <2>1
      <3>2. s[1] # Space /\ s[Len(s) - 1] # Space
        BY <1>4 DEF Splits
      <3>3. QED
        BY <1>3, <3>1, <3>2
    <2>3. ASSUME NEW i \in 2 .. n PROVE p[i - 1] # Space \/ p[i] # Space
      <3>1. i \in 2 .. n + 1 /\ i \in 1 .. n /\ i - 1 \in 1 .. n
        OBVIOUS
      <3>2. s[i - 1] # Space \/ s[i] # Space
        BY <1>3, <1>4, <3>1 DEF Splits
      <3>3. QED
        BY <1>3, <3>1, <3>2
    <2>4. p # << >>
      BY <1>1, <2>1
    <2>5. QED
      BY <1>1, <2>2, <2>3, <2>4 DEF Plain, NoNul
  <1>5. ASSUME Plain(p) PROVE Splits(s)
    <2>1. n \in Nat \ {0} /\ n >= 1
      BY <1>1, <1>5 DEF Plain, Strings
    <2>2. s[1] # Space /\ s[Len(s) - 1] # Space
      <3>1. s[1] = p[1] /\ s[n] = p[n] /\ (n + 1) - 1 = n
        BY <1>3, <2>1
      <3>2. p[1] # Space /\ p[n] # Space
        BY <1>1, <1>5 DEF Plain
      <3>3. QED
        BY <1>3, <3>1, <3>2
    <2>3. ASSUME NEW i \in 2 .. n + 1 PROVE s[i - 1] # Space \/ s[i] # Space
      <3>1. CASE i = n + 1
        BY <1>3, <3>1, MessageAssumption
      <3>2. CASE i # n + 1
        <4>1. i \in 2 .. n /\ i \in 1 .. n /\ i - 1 \in 1 .. n
          BY <3>2
        <4>2. p[i - 1] # Space \/ p[i] # Space
          BY <1>1, <1>5, <4>1 DEF Plain
        <4>3. QED
          BY <1>3, <4>1, <4>2
      <3>3. QED
        BY <3>1, <3>2
    <2>4. QED
      BY <1>3, <2>1, <2>2, <2>3 DEF Splits
  <1>6. QED
    BY <1>2, <1>4, <1>5

\* The message m is the text p without a Nul, a Nul, and d.
HasParts(m, p, d) == NoNul(p) /\ m = p \o << Nul >> \o d

LEMMA PartsAre ==
    ASSUME NEW p \in Strings, NEW d \in Strings, NEW msg, HasParts(msg, p, d),
           Len(msg) < Word - 1
    PROVE  /\ Pos(msg) = Len(p) /\ Pos(msg) # Len(msg)
           /\ TextOf(msg) = Append(p, Nul) /\ DataOf(msg) = d
           /\ Unsigned(Len(msg) - Pos(msg) - 1) = Len(d)
  <1>0. NoNul(p) /\ msg = p \o << Nul >> \o d
    BY DEF HasParts
  <1>1. PICK n \in Nat, k \in Nat : n = Len(p) /\ k = Len(d)
    BY DEF Strings
  <1>2. PICK q \in Strings : q = Append(p, Nul)
    <2>1. Append(p, Nul) \in Strings
      BY MessageAssumption DEF Strings
    <2>2. QED
      BY <2>1
  <1>3. Len(q) = n + 1 /\ q[n + 1] = Nul /\ \A i \in 1 .. n : q[i] = p[i]
    BY <1>1, <1>2 DEF Strings
  <1>4. PICK m \in Strings : m = q \o d /\ m = msg
    <2>1. q = p \o << Nul >>
      BY <1>2, MessageAssumption DEF Strings
    <2>2. q \o d = msg /\ q \o d \in Strings
      BY <1>0, <2>1, Concat
    <2>3. QED
      BY <2>2
  <1>5. m \in Strings /\ Len(m) = n + 1 + k /\ \A i \in 1 .. n + 1 : m[i] = q[i]
    <2>1. Len(q \o d) = Len(q) + Len(d) /\ \A i \in 1 .. Len(q) : (q \o d)[i] = q[i]
      BY Concat
    <2>2. QED
      BY <1>1, <1>3, <1>4, <2>1
  <1>6. \A i \in 1 .. k : m[i + (n + 1)] = d[i]
    <2>1. ASSUME NEW i \in 1 .. k PROVE m[i + (n + 1)] = d[i]
      <3>1. i + (n + 1) \in Len(q) + 1 .. Len(q) + Len(d) /\ (i + (n + 1)) - Len(q) = i
        BY <1>1, <1>3
      <3>2. (q \o d)[i + (n + 1)] = d[(i + (n + 1)) - Len(q)]
        BY <3>1, Concat
      <3>3. QED
        BY <1>4, <3>1, <3>2
    <2>2. QED
      BY <2>1
  <1>7. PICK at : at = {i \in DOMAIN m : m[i] = Nul}
    OBVIOUS
  <1>8. n + 1 \in at /\ \A i \in at : i \in Nat /\ n + 1 <= i
    <2>1. DOMAIN m = 1 .. n + 1 + k
      BY <1>5 DEF Strings
    <2>2. n + 1 \in at
      BY <1>3, <1>5, <1>7, <2>1
    <2>3. ASSUME NEW i \in at PROVE i \in Nat /\ n + 1 <= i
      <3>1. i \in 1 .. n + 1 + k /\ m[i] = Nul
        BY <1>7, <2>1
      <3>2. i \notin 1 .. n
        BY <1>0, <1>1, <1>3, <1>5, <3>1 DEF NoNul
      <3>3. QED
        BY <3>1, <3>2
    <2>4. QED
      BY <2>2, <2>3
  <1>9. (CHOOSE i \in at : \A j \in at : i <= j) = n + 1
    <2>1. PICK c : c = CHOOSE i \in at : \A j \in at : i <= j
      OBVIOUS
    <2>2. c \in at /\ \A j \in at : c <= j
      BY <1>8, <2>1
    <2>3. c <= n + 1 /\ n + 1 <= c /\ c \in Nat
      BY <1>8, <2>2
    <2>4. QED
      BY <2>1, <2>3
  <1>10. Pos(m) = n
    <2>1. Pos(m) = (n + 1) - 1
      BY <1>7, <1>8, <1>9 DEF Pos
    <2>2. QED
      BY <2>1
  <1>11. Unsigned(Pos(m) + 1) = n + 1
    <2>1. n + 1 \in Nat /\ n + 1 < Word
      BY <1>4, <1>5, Wrap
    <2>2. QED
      BY <1>10, <2>1, Wrap
  <1>12. TextOf(m) = q
    <2>1. PICK t : t = SubSeq(m, 1, n + 1)
      OBVIOUS
    <2>2. t \in Seq(Char) /\ Len(t) = n + 1 /\ \A i \in 1 .. n + 1 : t[i] = m[i]
      BY <1>5, <2>1 DEF Strings
    <2>3. t \in Strings /\ n + 1 \in Nat /\ \A i \in 1 .. n + 1 : t[i] = q[i]
      BY <1>5, <2>2 DEF Strings
    <2>4. t = q
      BY <1>3, <2>2, <2>3, SameString
    <2>5. QED
      BY <1>11, <2>1, <2>4 DEF TextOf
  <1>13. DataOf(m) = d
    <2>1. PICK t : t = SubSeq(m, (n + 1) + 1, n + 1 + k)
      OBVIOUS
    <2>2. t \in Seq(Char) /\ Len(t) = k /\ \A i \in 1 .. k : t[i] = m[i + (n + 1)]
      BY <1>5, <2>1 DEF Strings
    <2>3. t \in Strings /\ \A i \in 1 .. k : t[i] = d[i]
      BY <1>6, <2>2 DEF Strings
    <2>4. t = d
      BY <1>1, <2>2, <2>3, SameString
    <2>5. QED
      BY <1>5, <1>11, <2>1, <2>4 DEF DataOf
  <1>14. Unsigned(Len(m) - Pos(m) - 1) = k
    <2>1. Len(m) - Pos(m) - 1 = k /\ k < Word
      BY <1>4, <1>5, <1>10, Wrap
    <2>2. QED
      BY <2>1, Wrap
  <1>15. Pos(m) # Len(m)
    BY <1>5, <1>10
  <1>16. QED
    BY <1>1, <1>2, <1>4, <1>10, <1>12, <1>13, <1>14, <1>15

\* A message without a Nul is found to have no text.
LEMMA PartsExist ==
    ASSUME NEW m \in Strings, Len(m) < Word - 1
    PROVE  \/ TextOf(m) = << >>
           \/ \E p \in Strings, d \in Strings : HasParts(m, p, d)
  <1>1. PICK n \in Nat : n = Len(m)
    BY DEF Strings
  <1>2. PICK at : at = {i \in DOMAIN m : m[i] = Nul}
    OBVIOUS
  <1>3. CASE at = {}
    <2>1. Pos(m) = Word - 1
      BY <1>2, <1>3 DEF Pos
    <2>2. Pos(m) + 1 = Word /\ Word > 0
      BY <1>1, <2>1, Wrap
    <2>3. Unsigned(Pos(m) + 1) = 0
      BY <2>2, Wrap
    <2>4. TextOf(m) = SubSeq(m, 1, 0)
      BY <2>3 DEF TextOf
    <2>5. QED
      BY <2>4, WholePrefix
  <1>4. CASE at # {}
    <2>1. at \subseteq 1 .. n
      BY <1>1, <1>2 DEF Strings
    <2>2. PICK l \in at : \A j \in at : l <= j
      <3>1. at \subseteq Nat
        BY <2>1
      <3>2. QED
        BY <1>4, <3>1, LeastNat
    <2>3. l \in 1 .. n /\ m[l] = Nul
      BY <1>2, <2>1
    <2>4. PICK i \in Nat : i = l - 1
      BY <2>3
    <2>5. PICK p : p = SubSeq(m, 1, i)
      OBVIOUS
    <2>6. p \in Strings /\ Len(p) = i /\ \A j \in 1 .. i : p[j] = m[j]
      BY <1>1, <2>3, <2>4, <2>5 DEF Strings
    <2>7. NoNul(p)
      <3>1. ASSUME NEW j \in 1 .. i PROVE p[j] # Nul
        <4>1. j \in 1 .. n /\ ~(l <= j)
          BY <2>3, <2>4
        <4>2. j \notin at
          BY <2>2, <4>1
        <4>3. m[j] # Nul
          BY <1>1, <1>2, <4>1, <4>2 DEF Strings
        <4>4. QED
          BY <2>6, <4>3
      <3>2. QED
        BY <2>6, <3>1 DEF NoNul
    <2>8. PICK k \in Nat : k = n - l
      BY <2>3
    <2>9. PICK d : d = SubSeq(m, l + 1, n)
      OBVIOUS
    <2>10. d \in Strings /\ Len(d) = k /\ \A j \in 1 .. k : d[j] = m[j + l]
      BY <1>1, <2>3, <2>8, <2>9 DEF Strings
    <2>11. PICK q \in Strings : q = p \o << Nul >> /\ q = Append(p, Nul)
      <3>1. Append(p, Nul) \in Strings
        BY <2>6, MessageAssumption DEF Strings
      <3>2. Append(p, Nul) = p \o << Nul >>
        BY <2>6, MessageAssumption DEF Strings
      <3>3. QED
        BY <3>1, <3>2
    <2>12. Len(q) = l /\ q[l] = Nul /\ \A j \in 1 .. i : q[j] = p[j]
      BY <2>3, <2>4, <2>6, <2>11 DEF Strings
    <2>13. PICK t \in Strings : t = q \o d
      BY <2>10, Concat
    <2>14. /\ Len(t) = n
           /\ \A j \in 1 .. l : t[j] = q[j]
           /\ \A j \in l + 1 .. n : t[j] = d[j - l]
      <3>1. /\ Len(t) = Len(q) + Len(d)
            /\ \A j \in 1 .. Len(q) : t[j] = q[j]
            /\ \A j \in Len(q) + 1 .. Len(q) + Len(d) : t[j] = d[j - Len(q)]
        BY <2>10, <2>13, Concat
      <3>2. Len(q) = l /\ Len(d) = k /\ l + k = n
        BY <2>3, <2>8, <2>10, <2>12
      <3>3. QED
        BY <3>1, <3>2
    <2>15. ASSUME NEW j \in 1 .. n PROVE t[j] = m[j]
      <3>1. CASE j \in 1 .. i
        BY <2>3, <2>4, <2>6, <2>12, <2>14, <3>1
      <3>2. CASE j = l
        BY <2>3, <2>12, <2>14, <3>2
      <3>3. CASE j \in l + 1 .. n
        <4>1. j - l \in 1 .. k /\ (j - l) + l = j
          BY <2>3, <2>8, <3>3
        <4>2. d[j - l] = m[(j - l) + l]
          BY <2>10, <4>1
        <4>3. QED
          BY <2>14, <3>3, <4>1, <4>2
      <3>4. QED
        BY <2>3, <2>4, <3>1, <3>2, <3>3
    <2>16. t = m
      BY <1>1, <2>14, <2>15 DEF Strings
    <2>17. m = p \o << Nul >> \o d
      BY <2>11, <2>13, <2>16
    <2>18. QED
      BY <2>6, <2>7, <2>10, <2>17 DEF HasParts
  <1>5. QED
    BY <1>3, <1>4

-----------------------------------------------------------------------------
(* The inductive invariant.                                                *)

Parsed == {"dispatch", "check", "session", "handler"}

HeaderString == Seq(HeaderChar \cup {Nul})

\* The header: bytes that were received, and Nul is read again only instead
\* of the first byte.
HeaderInv ==
    /\ pc \in {"header", "parse"} => header \in HeaderString
    /\ pc = "header" => /\ header = received /\ Len(header) <= HeaderMax
                        /\ buf_header = Nul => header = << >>
    /\ pc = "parse" => \/ Len(header) = 1
                       \/ header = received /\ Len(header) <= HeaderMax + 1

\* The message: something a client encrypted.
SentInv == pc \in Parsed \cup {"message"} => decrypted_msg \in Cleartext

\* Its words, as they were cut, and its data, whose length the positions in
\* it give.
ParsedInv ==
    pc \in Parsed =>
        /\ msg_vector \in WordSeqs /\ data \in Strings
        /\ msg_vector = WordsOf(TextOf(decrypted_msg))
        /\ Unsigned(Len(decrypted_msg) - Pos(decrypted_msg) - 1) = Len(data)

ArityInv == pc \in {"check", "handler"} => << Op, Len(msg_vector) >> \in Arity

MsgInv == HeaderInv /\ SentInv /\ ParsedInv /\ ArityInv /\ DispatchedAsSent /\ ArgumentsFit

LEMMA ComposedType ==
    ASSUME NEW r \in Composed
    PROVE  /\ r.words \in WordSeqs /\ PlainWords(r.words) /\ r.data \in Strings
           /\ Joined(r.words) \in Strings
           /\ Compose(r.words, r.data) \in Cleartext
           /\ Compose(r.words, r.data) \in Strings
  <1>1. PICK w : w = r.words
    OBVIOUS
  <1>2. w \in Seq(Seq(Char \ {Space, Nul})) /\ w # << >> /\ r.data \in Strings
    BY <1>1, MessageAssumption DEF Strings
  <1>3. \A i \in 1 .. Len(w) : w[i] \in Seq(Char \ {Space, Nul})
    BY <1>2
  <1>4. ASSUME NEW i \in 1 .. Len(w) PROVE w[i] \in Strings /\ PlainWord(w[i])
    <2>1. PICK x \in Seq(Char \ {Space, Nul}) : x = w[i]
      BY <1>3
    <2>2. \A j \in 1 .. Len(x) : x[j] \in Char \ {Space, Nul}
      BY <2>1
    <2>3. x \in Seq(Char)
      BY <2>1
    <2>4. QED
      BY <2>1, <2>2, <2>3 DEF Strings, PlainWord
  <1>5. w \in Seq(Strings)
    BY <1>2, <1>4
  <1>6. w \in WordSeqs /\ PlainWords(w)
    BY <1>2, <1>4, <1>5 DEF WordSeqs, PlainWords
  <1>7. Joined(w) \in Strings
    <2>1. << >> \in Strings
      BY DEF Strings
    <2>2. QED
      BY <1>6, <2>1, JoinedStep
  <1>8. Compose(w, r.data) \in Strings
    <2>1. << Nul >> \in Strings
      BY MessageAssumption DEF Strings
    <2>2. Joined(w) \o << Nul >> \in Strings
      BY <1>7, <2>1, Concat
    <2>3. Joined(w) \o << Nul >> \o r.data \in Strings
      BY <1>2, <2>2, Concat
    <2>4. QED
      BY <2>3 DEF Compose
  <1>9. Compose(w, r.data) \in Cleartext
    BY <1>1 DEF Cleartext
  <1>10. QED
    BY <1>1, <1>2, <1>6, <1>7, <1>8, <1>9

LEMMA CleartextType ==
    ASSUME NEW m \in Cleartext
    PROVE  m \in Strings /\ Len(m) < Word - 1
  <1>1. m \in Strings
    <2>1. CASE m \in Noise
      BY <2>1, MessageAssumption DEF Strings
    <2>2. CASE \E r \in Composed : m = Compose(r.words, r.data)
      BY <2>2, ComposedType
    <2>3. QED
      BY <2>1, <2>2 DEF Cleartext
  <1>2. QED
    BY <1>1, CleartextAssumption

\* The words and the data found in a message that is accepted.
LEMMA FoundInMessage ==
    ASSUME NEW m \in Strings, Len(m) < Word - 1, Splits(TextOf(m))
    PROVE  /\ WordsOf(TextOf(m)) \in WordSeqs /\ DataOf(m) \in Strings
           /\ m = Compose(WordsOf(TextOf(m)), DataOf(m))
           /\ PlainWords(WordsOf(TextOf(m)))
           /\ \A i \in 1 .. Len(WordsOf(TextOf(m))) : WordsOf(TextOf(m))[i] # << >>
           /\ Unsigned(Len(m) - Pos(m) - 1) = Len(DataOf(m))
  <1>1. TextOf(m) # << >>
    BY DEF Splits
  <1>2. PICK p \in Strings, d \in Strings : HasParts(m, p, d)
    BY <1>1, PartsExist
  <1>3. /\ TextOf(m) = Append(p, Nul) /\ DataOf(m) = d
        /\ Unsigned(Len(m) - Pos(m) - 1) = Len(d)
    BY <1>2, PartsAre
  <1>4. Plain(p)
    BY <1>2, <1>3, SplitsPlain DEF HasParts
  <1>5. WordsOf(TextOf(m)) = Words(p)
    BY <1>3 DEF Words
  <1>6. Words(p) \in WordSeqs
    BY WordsType
  <1>7. PlainWords(Words(p)) /\ \A i \in 1 .. Len(Words(p)) : Words(p)[i] # << >>
    BY <1>4, WordsPlain
  <1>8. m = Compose(Words(p), d)
    BY <1>2, WordsJoin DEF Compose, HasParts
  <1>9. QED
    BY <1>3, <1>5, <1>6, <1>7, <1>8

\* The words and the data of a client's message are found.
LEMMA FoundAgain ==
    ASSUME NEW r \in Composed, \A i \in DOMAIN r.words : r.words[i] # << >>,
           NEW m, m = Compose(r.words, r.data)
    PROVE  /\ Splits(TextOf(m)) /\ Pos(m) # Len(m)
           /\ WordsOf(TextOf(m)) = r.words
  <1>1. PICK w \in WordSeqs, d \in Strings : w = r.words /\ d = r.data
    BY ComposedType
  <1>2. PlainWords(w)
    BY <1>1, ComposedType
  <1>3. \A i \in 1 .. Len(w) : w[i] # << >>
    BY <1>1 DEF WordSeqs
  <1>4. PICK p \in Strings : p = Joined(w) /\ Words(p) = w /\ Plain(p)
    BY <1>2, <1>3, WordsBack
  <1>5. NoNul(p)
    BY <1>4 DEF Plain, NoNul
  <1>6. HasParts(m, p, d)
    BY <1>1, <1>4, <1>5 DEF Compose, HasParts
  <1>7. Len(m) < Word - 1
    BY ComposedType, CleartextType
  <1>8. Pos(m) # Len(m) /\ TextOf(m) = Append(p, Nul)
    BY <1>6, <1>7, PartsAre
  <1>9. Splits(TextOf(m))
    BY <1>4, <1>5, <1>8, SplitsPlain
  <1>10. WordsOf(TextOf(m)) = w
    BY <1>4, <1>8 DEF Words
  <1>11. QED
    BY <1>1, <1>8, <1>9, <1>10

LEMMA NumberFits ==
    ASSUME NEW s \in Seq(Char), IfUnsigned(s)
    PROVE  /\ Writes(s, StringToUnsigned(s))
           /\ StringToUnsigned(s) \in Nat /\ StringToUnsigned(s) < Word
  <1>1. Writes(s, StringToUnsigned(s))
    BY IfUnsignedExact
  <1>2. Digits(s) /\ StringToUnsigned(s) = Meaning(s) /\ StringToUnsigned(s) < Word
    BY <1>1 DEF Writes, Digits
  <1>3. StringToUnsigned(s) \in Nat
    BY <1>2, NoWrap
  <1>4. QED
    BY <1>1, <1>2, <1>3

-----------------------------------------------------------------------------
(* The steps.                                                              *)

LEMMA MsgInit == Init => MsgInv
  <1>1. SUFFICES ASSUME Init PROVE MsgInv
    OBVIOUS
  <1>2. pc = "header" /\ header = << >> /\ received = << >>
    BY <1>1 DEF Init
  <1>3. HeaderInv
    BY <1>2, MessageAssumption DEF HeaderInv, HeaderString
  <1>4. SentInv /\ ParsedInv /\ ArityInv /\ DispatchedAsSent /\ ArgumentsFit
    BY <1>2 DEF SentInv, ParsedInv, ArityInv, DispatchedAsSent, ArgumentsFit, Parsed
  <1>5. QED
    BY <1>3, <1>4 DEF MsgInv

\* A thread that is at none of these places has nothing to keep.
LEMMA Elsewhere ==
    ASSUME pc' \notin Parsed \cup {"message"}
    PROVE  SentInv' /\ ParsedInv' /\ ArityInv' /\ DispatchedAsSent' /\ ArgumentsFit'
  BY DEF SentInv, ParsedInv, ArityInv, DispatchedAsSent, ArgumentsFit, Parsed

LEMMA PastHeader ==
    ASSUME pc' \notin {"header", "parse"}
    PROVE  HeaderInv'
  BY DEF HeaderInv

LEMMA CloseKeeps ==
    ASSUME Close
    PROVE  MsgInv'
  <1>1. pc' = "closed"
    BY DEF Close
  <1>2. HeaderInv'
    BY <1>1, PastHeader
  <1>3. pc' \notin Parsed \cup {"message"}
    BY <1>1 DEF Parsed
  <1>4. QED
    BY <1>2, <1>3, Elsewhere DEF MsgInv

LEMMA RecvHeaderKeeps ==
    ASSUME HeaderInv, RecvHeader
    PROVE  MsgInv'
  <1>1. pc = "header" /\ header \in HeaderString /\ header = received
        /\ Len(header) <= HeaderMax /\ (buf_header = Nul => header = << >>)
    BY DEF RecvHeader, HeaderInv
  <1>2. PICK n \in Nat : n = Len(header) /\ n <= HeaderMax
    BY <1>1 DEF HeaderString
  <1>3. HeaderMax \in Nat
    BY MessageAssumption
  <1>4. ASSUME NEW b \in HeaderChar, Byte(b), ~Close PROVE HeaderInv' /\ pc' \in {"header", "parse"}
    <2>1. /\ b = Nul \/ n < HeaderMax
          /\ buf_header' = b /\ header' = Append(header, b) /\ received' = Append(received, b)
          /\ pc' = IF b = Nul THEN "parse" ELSE "header"
      BY <1>2, <1>4 DEF Byte
    <2>2. header' \in HeaderString /\ Len(header') = n + 1
      BY <1>1, <1>2, <2>1 DEF HeaderString
    <2>3. header' = received'
      BY <1>1, <2>1
    <2>4. CASE b = Nul
      <3>1. pc' = "parse" /\ n + 1 <= HeaderMax + 1
        BY <1>2, <1>3, <2>1, <2>4
      <3>2. QED
        BY <2>2, <2>3, <3>1 DEF HeaderInv
    <2>5. CASE b # Nul
      <3>1. pc' = "header" /\ n + 1 <= HeaderMax /\ buf_header' # Nul
        BY <1>2, <1>3, <2>1, <2>5
      <3>2. QED
        BY <2>2, <2>3, <3>1 DEF HeaderInv
    <2>6. QED
      BY <2>4, <2>5
  <1>5. ASSUME NoByte, ~Close PROVE HeaderInv' /\ pc' = "parse"
    <2>1. buf_header = Nul /\ header' = Append(header, Nul) /\ pc' = "parse"
      BY <1>5 DEF NoByte, Stale
    <2>2. header' = << Nul >>
      BY <1>1, <2>1
    <2>3. header' \in HeaderString /\ Len(header') = 1
      BY <2>2 DEF HeaderString
    <2>4. QED
      BY <2>1, <2>3 DEF HeaderInv
  <1>6. CASE Close
    BY <1>6, CloseKeeps
  <1>7. CASE ~Close
    <2>1. HeaderInv' /\ pc' \in {"header", "parse"}
      BY <1>4, <1>5, <1>7 DEF RecvHeader
    <2>2. pc' \notin Parsed \cup {"message"}
      BY <2>1 DEF Parsed
    <2>3. QED
      BY <2>1, <2>2, Elsewhere DEF MsgInv
  <1>8. QED
    BY <1>6, <1>7

LEMMA ReceivingKeeps ==
    ASSUME ParseHeader \/ RecvBody
    PROVE  MsgInv'
  <1>1. CASE Close
    BY <1>1, CloseKeeps
  <1>2. CASE ~Close
    <2>1. pc' = "body"
      BY <1>2 DEF ParseHeader, RecvBody
    <2>2. pc' \notin Parsed \cup {"message"} /\ pc' \notin {"header", "parse"}
      BY <2>1 DEF Parsed
    <2>3. QED
      BY <2>2, Elsewhere, PastHeader DEF MsgInv
  <1>3. QED
    BY <1>1, <1>2

LEMMA DecryptKeeps ==
    ASSUME Decrypt
    PROVE  MsgInv'
  <1>1. CASE Close
    BY <1>1, CloseKeeps
  <1>2. CASE ~Close
    <2>1. pc' = "message" /\ decrypted_msg' \in Cleartext
      BY <1>2 DEF Decrypt
    <2>2. SentInv' /\ ParsedInv' /\ ArityInv' /\ DispatchedAsSent' /\ ArgumentsFit'
      BY <2>1 DEF SentInv, ParsedInv, ArityInv, DispatchedAsSent, ArgumentsFit, Parsed
    <2>3. HeaderInv'
      BY <2>1, PastHeader
    <2>4. QED
      BY <2>2, <2>3 DEF MsgInv
  <1>3. QED
    BY <1>1, <1>2

\* What DispatchedAsSent says of a message, its words and its data.
IsSent(m, w, d) ==
    /\ m = Compose(w, d)
    /\ Len(w) >= 3
    /\ \A i \in DOMAIN w :
         /\ w[i] # << >>
         /\ \A j \in DOMAIN w[i] : w[i][j] \notin {Space, Nul}
    /\ \A i \in {2, 3} : Writes(w[i], StringToUnsigned(w[i]))

LEMMA SentParts ==
    /\ DispatchedAsSent <=> (pc \in Parsed => IsSent(decrypted_msg, msg_vector, data))
    /\ DispatchedAsSent' <=> (pc' \in Parsed => IsSent(decrypted_msg', msg_vector', data'))
  <1>1. DispatchedAsSent <=> (pc \in Parsed => IsSent(decrypted_msg, msg_vector, data))
    BY DEF DispatchedAsSent, IsSent, Parsed, Number
  <1>2. DispatchedAsSent' <=> (pc' \in Parsed => IsSent(decrypted_msg', msg_vector', data'))
    BY DEF DispatchedAsSent, IsSent, Parsed, Number
  <1>3. QED
    BY <1>1, <1>2

LEMMA ParsedIsSent ==
    ASSUME NEW m \in Cleartext, Splits(TextOf(m)), Len(WordsOf(TextOf(m))) >= 3,
           IfUnsigned(WordsOf(TextOf(m))[2]), IfUnsigned(WordsOf(TextOf(m))[3])
    PROVE  /\ IsSent(m, WordsOf(TextOf(m)), DataOf(m))
           /\ WordsOf(TextOf(m)) \in WordSeqs /\ DataOf(m) \in Strings
           /\ Unsigned(Len(m) - Pos(m) - 1) = Len(DataOf(m))
  <1>1. m \in Strings /\ Len(m) < Word - 1
    BY CleartextType
  <1>2. PICK w : w = WordsOf(TextOf(m))
    OBVIOUS
  <1>3. PICK d : d = DataOf(m)
    OBVIOUS
  <1>4. /\ w \in WordSeqs /\ d \in Strings /\ m = Compose(w, d)
        /\ PlainWords(w) /\ \A i \in 1 .. Len(w) : w[i] # << >>
        /\ Unsigned(Len(m) - Pos(m) - 1) = Len(d)
    BY <1>1, <1>2, <1>3, FoundInMessage
  <1>5. DOMAIN w = 1 .. Len(w) /\ Len(w) \in Nat /\ Len(w) >= 3
        /\ \A i \in 1 .. Len(w) : w[i] \in Strings
    BY <1>2, <1>4 DEF WordSeqs
  <1>6. ASSUME NEW i \in DOMAIN w
        PROVE  w[i] # << >> /\ \A j \in DOMAIN w[i] : w[i][j] \notin {Space, Nul}
    <2>1. PICK x \in Strings : x = w[i] /\ x # << >> /\ PlainWord(x)
      BY <1>4, <1>5, <1>6 DEF PlainWords
    <2>2. DOMAIN x = 1 .. Len(x)
      BY DEF Strings
    <2>3. QED
      BY <2>1, <2>2 DEF PlainWord
  <1>7. ASSUME NEW i \in {2, 3} PROVE Writes(w[i], StringToUnsigned(w[i]))
    <2>1. w[i] \in Seq(Char)
      BY <1>5 DEF Strings
    <2>2. IfUnsigned(w[i])
      BY <1>2
    <2>3. QED
      BY <2>1, <2>2, NumberFits
  <1>8. IsSent(m, w, d)
    BY <1>4, <1>5, <1>6, <1>7 DEF IsSent
  <1>9. QED
    BY <1>2, <1>3, <1>4, <1>8

LEMMA ParseMessageKeeps ==
    ASSUME SentInv, ParseMessage
    PROVE  MsgInv'
  <1>1. PICK m \in Cleartext : m = decrypted_msg /\ pc = "message"
    BY DEF SentInv, ParseMessage
  <1>2. PICK w : w = WordsOf(TextOf(m))
    OBVIOUS
  <1>3. CASE Close
    BY <1>3, CloseKeeps
  <1>4. CASE ~Close
    <2>1. /\ Splits(TextOf(m)) /\ Len(w) >= 3 /\ IfUnsigned(w[2]) /\ IfUnsigned(w[3])
          /\ msg_vector' = w /\ data' = DataOf(m) /\ decrypted_msg' = m
          /\ pc' = "dispatch"
      BY <1>1, <1>2, <1>4 DEF ParseMessage
    <2>2. /\ IsSent(m, w, DataOf(m)) /\ w \in WordSeqs /\ DataOf(m) \in Strings
          /\ Unsigned(Len(m) - Pos(m) - 1) = Len(DataOf(m))
      BY <1>2, <2>1, ParsedIsSent
    <2>3. SentInv' /\ DispatchedAsSent'
      BY <2>1, <2>2, SentParts DEF SentInv
    <2>4. ParsedInv'
      BY <1>2, <2>1, <2>2 DEF ParsedInv
    <2>5. ArityInv' /\ ArgumentsFit'
      BY <2>1 DEF ArityInv, ArgumentsFit
    <2>6. HeaderInv'
      BY <2>1, PastHeader
    <2>7. QED
      BY <2>3, <2>4, <2>5, <2>6 DEF MsgInv
  <1>5. QED
    BY <1>3, <1>4

\* A step that changes neither the message nor the rest but pc.
LEMMA ParsedKeeps ==
    ASSUME SentInv, ParsedInv, DispatchedAsSent, pc \in Parsed, UNCHANGED message
    PROVE  SentInv' /\ ParsedInv' /\ DispatchedAsSent'
  <1>1. decrypted_msg' = decrypted_msg /\ msg_vector' = msg_vector /\ data' = data
    BY DEF message
  <1>2. SentInv'
    BY <1>1 DEF SentInv
  <1>3. ParsedInv'
    BY <1>1 DEF ParsedInv
  <1>4. DispatchedAsSent'
    BY <1>1, SentParts
  <1>5. QED
    BY <1>2, <1>3, <1>4

LEMMA DispatchKeeps ==
    ASSUME MsgInv, Dispatch
    PROVE  MsgInv'
  <1>1. CASE Close
    BY <1>1, CloseKeeps
  <1>2. CASE ~Close
    <2>1. /\ pc = "dispatch" /\ << Op, Len(msg_vector) >> \in Arity
          /\ pc' \in {"session", "check"} /\ UNCHANGED message
      BY <1>2 DEF Dispatch
    <2>2. SentInv' /\ ParsedInv' /\ DispatchedAsSent'
      BY <2>1, ParsedKeeps DEF MsgInv, Parsed
    <2>3. ArityInv'
      <3>1. msg_vector' = msg_vector
        BY <2>1 DEF message
      <3>2. QED
        BY <2>1, <3>1 DEF ArityInv, Op, Arity
    <2>4. HeaderInv' /\ ArgumentsFit'
      BY <2>1, PastHeader DEF ArgumentsFit
    <2>5. QED
      BY <2>2, <2>3, <2>4 DEF MsgInv
  <1>3. QED
    BY <1>1, <1>2

LEMMA ArgumentsSuit ==
    ASSUME SentInv, ParsedInv, ArityInv, CheckArguments, ~Close
    PROVE  ArgumentsFit'
  <1>1. /\ pc = "check" /\ UNCHANGED message
        /\ Op = << "FS_APPEND" >> => SizeMatches
        /\ Op = << "FS_READ" >> => RangeFits
    BY DEF CheckArguments
  <1>2. /\ msg_vector' = msg_vector /\ data' = data
        /\ msg_vector \in WordSeqs /\ data \in Strings
        /\ Unsigned(Len(decrypted_msg) - Pos(decrypted_msg) - 1) = Len(data)
        /\ << Op, Len(msg_vector) >> \in Arity
    BY <1>1 DEF message, ParsedInv, ArityInv, Parsed
  <1>3. \A i \in 1 .. Len(msg_vector) : msg_vector[i] \in Seq(Char)
    BY <1>2 DEF WordSeqs, Strings
  <1>4. ASSUME Op = << "FS_APPEND" >>
        PROVE  data # << >> /\ Writes(msg_vector[5], Len(data))
    <2>1. Len(msg_vector) = 5
      BY <1>2, <1>4 DEF Arity
    <2>2. msg_vector[5] \in Seq(Char)
      BY <1>3, <2>1
    <2>3. IfUnsigned(msg_vector[5]) /\ Len(data) = Number(5) /\ Number(5) # 0
      BY <1>1, <1>2, <1>4 DEF SizeMatches
    <2>4. Writes(msg_vector[5], Len(data))
      BY <2>2, <2>3, NumberFits DEF Number
    <2>5. data # << >>
      BY <2>3
    <2>6. QED
      BY <2>4, <2>5
  <1>5. ASSUME Op = << "FS_READ" >>
        PROVE  /\ Writes(msg_vector[5], Number(5)) /\ Writes(msg_vector[6], Number(6))
               /\ Number(6) > 0 /\ Number(5) + Number(6) <= MaxFileSize
    <2>1. Len(msg_vector) = 6
      BY <1>2, <1>5 DEF Arity
    <2>2. msg_vector[5] \in Seq(Char) /\ msg_vector[6] \in Seq(Char)
      BY <1>3, <2>1
    <2>3. /\ IfUnsigned(msg_vector[5]) /\ Number(5) < MaxFileSize
          /\ IfUnsigned(msg_vector[6]) /\ Number(6) # 0 /\ Number(6) <= MaxFileSize
          /\ Unsigned(Number(5) + Number(6)) <= MaxFileSize
      BY <1>1, <1>5 DEF RangeFits
    <2>4. /\ Writes(msg_vector[5], Number(5)) /\ Writes(msg_vector[6], Number(6))
          /\ Number(5) \in Nat /\ Number(6) \in Nat
      BY <2>2, <2>3, NumberFits DEF Number
    <2>5. PICK k \in Nat : k = Number(5) + Number(6) /\ k < Word
      <3>1. Number(5) + Number(6) \in Nat /\ Number(5) + Number(6) < 2 * MaxFileSize
        BY <2>3, <2>4, MessageAssumption
      <3>2. 2 * MaxFileSize < Word /\ MaxFileSize \in Nat /\ Word \in Nat
        BY MessageAssumption
      <3>3. QED
        BY <3>1, <3>2
    <2>6. Number(5) + Number(6) <= MaxFileSize
      BY <2>3, <2>5, Wrap
    <2>7. Number(6) > 0
      BY <2>3, <2>4
    <2>8. QED
      BY <2>4, <2>6, <2>7
  <1>6. QED
    BY <1>2, <1>4, <1>5 DEF ArgumentsFit, Op, Number

LEMMA CheckArgumentsKeeps ==
    ASSUME MsgInv, CheckArguments
    PROVE  MsgInv'
  <1>1. CASE Close
    BY <1>1, CloseKeeps
  <1>2. CASE ~Close
    <2>1. pc = "check" /\ pc' = "handler" /\ UNCHANGED message
      BY <1>2 DEF CheckArguments
    <2>2. SentInv' /\ ParsedInv' /\ DispatchedAsSent'
      BY <2>1, ParsedKeeps DEF MsgInv, Parsed
    <2>3. ArityInv'
      <3>1. msg_vector' = msg_vector
        BY <2>1 DEF message
      <3>2. QED
        BY <2>1, <3>1 DEF MsgInv, ArityInv, Op, Arity
    <2>4. ArgumentsFit'
      BY <1>2, ArgumentsSuit DEF MsgInv
    <2>5. HeaderInv'
      BY <2>1, PastHeader
    <2>6. QED
      BY <2>2, <2>3, <2>4, <2>5 DEF MsgInv
  <1>3. QED
    BY <1>1, <1>2

LEMMA UnchangedKeeps ==
    ASSUME MsgInv, UNCHANGED vars
    PROVE  MsgInv'
  <1>1. /\ buf_header' = buf_header /\ header' = header /\ received' = received
        /\ decrypted_msg' = decrypted_msg /\ msg_vector' = msg_vector /\ data' = data
        /\ pc' = pc
    BY DEF vars, stream, message
  <1>2. HeaderInv'
    BY <1>1 DEF MsgInv, HeaderInv
  <1>3. SentInv'
    BY <1>1 DEF MsgInv, SentInv
  <1>4. ParsedInv'
    BY <1>1 DEF MsgInv, ParsedInv
  <1>5. ArityInv'
    BY <1>1 DEF MsgInv, ArityInv, Op
  <1>6. DispatchedAsSent'
    BY <1>1, SentParts DEF MsgInv
  <1>7. ArgumentsFit'
    BY <1>1 DEF MsgInv, ArgumentsFit, Op, Number
  <1>8. QED
    BY <1>2, <1>3, <1>4, <1>5, <1>6, <1>7 DEF MsgInv

\* The invariant of a connection.
THEOREM MsgInvAlways == Spec => []MsgInv
  <1>1. MsgInv /\ [Next]_vars => MsgInv'
    <2>1. SUFFICES ASSUME MsgInv, [Next]_vars PROVE MsgInv'
      OBVIOUS
    <2>2. HeaderInv /\ SentInv
      BY <2>1 DEF MsgInv
    <2>3. CASE RecvHeader
      BY <2>2, <2>3, RecvHeaderKeeps
    <2>4. CASE ParseHeader
      BY <2>4, ReceivingKeeps
    <2>5. CASE RecvBody
      BY <2>5, ReceivingKeeps
    <2>6. CASE Decrypt
      BY <2>6, DecryptKeeps
    <2>7. CASE ParseMessage
      BY <2>2, <2>7, ParseMessageKeeps
    <2>8. CASE Dispatch
      BY <2>1, <2>8, DispatchKeeps
    <2>9. CASE CheckArguments
      BY <2>1, <2>9, CheckArgumentsKeeps
    <2>10. CASE Ended
      BY <2>1, <2>10, UnchangedKeeps DEF Ended
    <2>11. CASE UNCHANGED vars
      BY <2>1, <2>11, UnchangedKeeps
    <2>12. QED
      BY <2>1, <2>3, <2>4, <2>5, <2>6, <2>7, <2>8, <2>9, <2>10, <2>11 DEF Next
  <1>2. QED
    BY <1>1, MsgInit, PTL DEF Spec

-----------------------------------------------------------------------------
(* The theorems.                                                           *)

\* A request goes to its handler only as the client wrote it: its words and
\* data are those encrypted, its session and sequence numbers those written
\* (run_request, fs.cc:240-330).
THEOREM DispatchedAsSentAlways == Spec => []DispatchedAsSent
  <1>1. MsgInv => DispatchedAsSent
    BY DEF MsgInv
  <1>2. QED
    BY <1>1, MsgInvAlways, PTL

\* The handlers of FS_APPEND and FS_READ get sizes and offsets that fit
\* (fs.cc:404-420, 556).
THEOREM ArgumentsFitAlways == Spec => []ArgumentsFit
  <1>1. MsgInv => ArgumentsFit
    BY DEF MsgInv
  <1>2. QED
    BY <1>1, MsgInvAlways, PTL

\* The header that is parsed was received, although the loop reads the byte
\* before the result of recv (fs.cc:217-228).
THEOREM HeaderWasReceivedAlways == Spec => HeaderWasReceived
  <1>1. ASSUME HeaderInv, [Next]_vars, pc = "parse", pc' = "body"
        PROVE  header = received /\ Len(header) <= HeaderMax + 1
    <2>1. ParseHeader
      <3>1. ~UNCHANGED vars
        BY <1>1 DEF vars
      <3>2. ~Ended
        BY <1>1 DEF Ended
      <3>3. QED
        BY <1>1, <3>1, <3>2 DEF Next, RecvHeader, RecvBody, Decrypt, ParseMessage, Dispatch,
                                CheckArguments
    <2>2. ~Close
      BY <1>1 DEF Close
    <2>3. Splits(header)
      BY <2>1, <2>2 DEF ParseHeader
    <2>4. header \in HeaderString /\ Len(header) >= 2
      BY <1>1, <2>3 DEF Splits, HeaderInv
    <2>5. Len(header) # 1
      <3>1. PICK n : n = Len(header)
        OBVIOUS
      <3>2. n \in Nat /\ n >= 2
        BY <2>4, <3>1 DEF HeaderString
      <3>3. n # 1
        BY <3>2
      <3>4. QED
        BY <3>1, <3>3
    <2>6. QED
      BY <1>1, <2>5 DEF HeaderInv
  <1>2. MsgInv /\ [Next]_vars
          => [pc = "parse" /\ pc' = "body" =>
                header = received /\ Len(header) <= HeaderMax + 1]_vars
    BY <1>1 DEF MsgInv
  <1>3. QED
    BY <1>2, MsgInvAlways, PTL DEF Spec, HeaderWasReceived

\* Which step closes a connection whose message was decrypted.
LEMMA ClosingStep ==
    ASSUME [Next]_vars, pc' = "closed"
    PROVE  /\ pc = "message" => ParseMessage
           /\ pc = "dispatch" => Dispatch
  <1>1. ASSUME pc \in {"message", "dispatch"} PROVE Next /\ ~Ended
    BY <1>1 DEF vars, Ended
  <1>2. QED
    BY <1>1 DEF Next, RecvHeader, ParseHeader, RecvBody, Decrypt, ParseMessage, Dispatch,
                CheckArguments

\* A request has the number of words that its operation needs.
LEMMA RequestArity ==
    ASSUME NEW w \in WordSeqs, IsRequest(w)
    PROVE  /\ Len(w) >= 3 /\ << w[1], Len(w) >> \in Arity
           /\ w[1] = << "FS_SESSION" >> => w[2] = << "0" >>
  <1>1. PICK n \in Nat : n = Len(w)
    BY DEF WordSeqs
  <1>2. PICK op : op = w[1]
    OBVIOUS
  <1>3. \/ n = 3 /\ op = << "FS_SESSION" >> /\ w[2] = << "0" >>
        \/ n = 4 /\ op \in {<< "FS_CREATE" >>, << "FS_DELETE" >>}
        \/ n = 5 /\ op = << "FS_APPEND" >>
        \/ n = 6 /\ op = << "FS_READ" >>
    BY <1>1, <1>2 DEF IsRequest
  <1>4. n >= 3 /\ << op, n >> \in Arity
    BY <1>3 DEF Arity
  <1>5. op = << "FS_SESSION" >> => w[2] = << "0" >>
    BY <1>3
  <1>6. QED
    BY <1>1, <1>2, <1>4, <1>5

\* A request that a client composed of proper words and numbers gets past
\* get_message_vector and if_unsigned (fs.cc:93-139, 288-320), and past the
\* checks on the number of its words and the session of FS_SESSION
\* (fs.cc:325-333, 367, 521, 718, 869): the session check sees it.
THEOREM ProperIsDispatchedAlways == Spec => ProperIsDispatched
  <1>1. ASSUME MsgInv, [Next]_vars, pc' = "closed", pc \in {"message", "dispatch"},
               decrypted_msg \in ProperMessages
        PROVE  FALSE
    <2>1. PICK m : m = decrypted_msg
      OBVIOUS
    <2>2. PICK r \in Composed : m = Compose(r.words, r.data) /\ Proper(r)
      BY <1>1, <2>1 DEF ProperMessages
    <2>3. PICK w \in WordSeqs : w = r.words
      BY ComposedType
    <2>4. /\ IsRequest(w) /\ \A i \in DOMAIN w : w[i] # << >>
          /\ \A i \in {2, 3} : Writes(w[i], Meaning(w[i]))
      BY <2>2, <2>3 DEF Proper
    <2>5. Len(w) >= 3 /\ << w[1], Len(w) >> \in Arity
          /\ (w[1] = << "FS_SESSION" >> => w[2] = << "0" >>)
      BY <2>4, RequestArity
    <2>6. Splits(TextOf(m)) /\ Pos(m) # Len(m) /\ WordsOf(TextOf(m)) = w
      BY <2>2, <2>3, <2>4, FoundAgain
    <2>7. IfUnsigned(w[2]) /\ IfUnsigned(w[3])
      <3>1. w[2] \in Seq(Char) /\ w[3] \in Seq(Char)
        BY <2>5 DEF WordSeqs, Strings
      <3>2. Writes(w[2], Meaning(w[2])) /\ Writes(w[3], Meaning(w[3]))
        BY <2>4
      <3>3. QED
        BY <3>1, <3>2, IfUnsignedExact
    <2>8. CASE pc = "message"
      <3>1. ParseMessage
        BY <1>1, <2>8, ClosingStep
      <3>2. pc' = "dispatch"
        BY <2>1, <2>5, <2>6, <2>7, <3>1 DEF ParseMessage
      <3>3. QED
        BY <1>1, <3>2
    <2>9. CASE pc = "dispatch"
      <3>1. Dispatch
        BY <1>1, <2>9, ClosingStep
      <3>2. msg_vector = w
        BY <1>1, <2>1, <2>6, <2>9 DEF MsgInv, ParsedInv, Parsed
      <3>3. pc' \in {"session", "check"}
        BY <2>5, <3>1, <3>2 DEF Dispatch, Op
      <3>4. QED
        BY <1>1, <3>3
    <2>10. QED
      BY <1>1, <2>8, <2>9
  <1>2. MsgInv /\ [Next]_vars
          => [pc' = "closed" /\ pc \in {"message", "dispatch"}
                => decrypted_msg \notin ProperMessages]_vars
    BY <1>1
  <1>3. QED
    BY <1>2, MsgInvAlways, PTL DEF Spec, ProperIsDispatched

=============================================================================
