----------------------------- MODULE Texts_proofs -----------------------------
(***************************************************************************)
(* Proofs about the texts that Logger is handed: how a number is spelled,  *)
(* how characters are encoded, and what a stream makes of the pieces; for  *)
(* every width of number, every string, every size, text and room.         *)
(***************************************************************************)
EXTENDS LogStream, NumberFormat, Utf, SequenceTheorems, WellFoundedInduction, TLAPS

\* Products of numbers are numbers.
LEMMA ProductIsNat == ASSUME NEW a \in Nat, NEW b \in Nat PROVE a*b \in Nat
  OBVIOUS

\* A larger factor makes a product larger by the other factor at least.
LEMMA Bigger == ASSUME NEW d \in Nat, NEW a \in Int, NEW b \in Int, a < b PROVE d*a + d <= d*b
<1>1. b - a - 1 \in Nat
  BY SMT
<1>2. d * (b - a - 1) \in Nat
  BY <1>1, ProductIsNat
<1>3. d * (b - a - 1) = d*b - d*a - d
  BY SMT
<1> QED BY <1>2, <1>3, SMT

\* Division with remainder.
LEMMA DivMod ==
  ASSUME NEW n \in Nat, NEW d \in Nat, d > 0
  PROVE  /\ n \div d \in Nat /\ n % d \in 0..(d-1) /\ n = d * (n \div d) + (n % d)
<1>1. n \div d \in Int
  BY SMT
<1>2. n % d \in 0..(d-1)
  BY SMT
<1>3. n = d * (n \div d) + (n % d)
  BY SMT
<1>4. n \div d >= 0
  <2>1. SUFFICES ASSUME n \div d < 0 PROVE FALSE
    BY <1>1, SMT
  <2>2. d * (n \div d) + d <= d * 0
    BY <1>1, <2>1, Bigger
  <2> QED BY <2>2, <1>1, <1>2, <1>3, SMT
<1> QED BY <1>1, <1>2, <1>3, <1>4, SMT

\* There is one quotient and one remainder.
LEMMA DivUnique ==
  ASSUME NEW n \in Nat, NEW d \in Nat, d > 0, NEW t \in Nat, NEW v \in 0..(d-1), n = d*t + v
  PROVE  n \div d = t /\ n % d = v
<1> DEFINE s == n \div d
           u == n % d
<1>1. s \in Nat /\ u \in 0..(d-1) /\ n = d * s + u
  BY DivMod
<1> HIDE DEF s, u
<1>2. ~(s < t)
  <2>1. SUFFICES ASSUME s < t PROVE FALSE
    OBVIOUS
  <2>2. d * s + d <= d * t
    BY <1>1, <2>1, Bigger
  <2> QED BY <2>2, <1>1, SMT
<1>3. ~(t < s)
  <2>1. SUFFICES ASSUME t < s PROVE FALSE
    OBVIOUS
  <2>2. d * t + d <= d * s
    BY <1>1, <2>1, Bigger
  <2> QED BY <2>2, <1>1, SMT
<1>4. s = t
  BY <1>1, <1>2, <1>3
<1>5. u = v
  BY <1>1, <1>4, SMT
<1> QED BY <1>4, <1>5 DEF s, u

\* A set of numbers that is not empty has a least one.
LEMMA LeastNumber == ASSUME NEW T, T \subseteq Nat, T # {} PROVE \E x \in T : \A y \in T : x <= y
<1> DEFINE R == OpToRel(<, Nat)
<1>1. IsWellFoundedOn(R, Nat)
  BY NatLessThanWellFounded
<1>2. PICK x \in T : \A y \in T : ~ (<<y, x>> \in R)
  <2> HIDE DEF R
  <2> QED
    BY <1>1, WFMin
<1>3. \A y \in T : ~ (y < x)
  BY <1>2 DEF OpToRel
<1> HIDE DEF R
<1>4. \A y \in T : x <= y
  BY <1>3
<1> QED
  BY <1>4

\* Induction: a set with 0 in it, and with every number the next one, has them all.
LEMMA Counting == ASSUME NEW G, 0 \in G, \A n \in Nat : n \in G => n+1 \in G PROVE Nat \subseteq G
<1> DEFINE T == Nat \ G
<1>1. SUFFICES ASSUME T # {} PROVE FALSE
  OBVIOUS
<1>2. PICK x \in T : \A y \in T : x <= y
  BY <1>1, LeastNumber
<1>3. x # 0 /\ x \in Nat
  BY <1>2
<1>4. x - 1 \in Nat /\ (x-1) + 1 = x /\ x - 1 \notin T
  BY <1>3, <1>2
<1> QED
  BY <1>4, <1>2

\* f is what a first value and a step from each value to the next define.
Recurs(f, S, a, step) ==
  f \in [Nat -> S] /\ f[0] = a /\ \A n \in Nat : f[n + 1] = step[<<n, f[n]>>]

\* It exists.
LEMMA Recursion ==
  ASSUME NEW S, NEW a \in S, NEW step \in [Nat \X S -> S]
  PROVE  \E f : Recurs(f, S, a, step)
<1> DEFINE Run(n, g) == /\ g \in [0..n -> S] /\ g[0] = a
                        /\ \A k \in 0..(n - 1) : g[k + 1] = step[<<k, g[k]>>]
           G == {n \in Nat : \E g : Run(n, g)}
<1>1. \A k \in Nat, x \in S : step[<<k, x>>] \in S
  OBVIOUS
<1>2. 0 \in G
  <2>1. Run(0, [k \in 0..0 |-> a])
    OBVIOUS
  <2> QED BY <2>1
<1>3. ASSUME NEW n \in Nat, n \in G PROVE n + 1 \in G
  <2>1. PICK g : Run(n, g)
    BY <1>3
  <2> DEFINE h == [k \in 0..(n + 1) |-> IF k = n + 1 THEN step[<<n, g[n]>>] ELSE g[k]]
  <2>2. \A k \in 0..n : g[k] \in S
    BY <2>1
  <2>3. step[<<n, g[n]>>] \in S
    BY <1>1, <2>2
  <2>4. h \in [0..(n + 1) -> S]
    BY <2>2, <2>3
  <2>5. h[0] = a
    BY <2>1
  <2>6. ASSUME NEW k \in 0..n PROVE h[k + 1] = step[<<k, h[k]>>]
    <3>1. h[k] = g[k]
      OBVIOUS
    <3>2. CASE k = n
      <4>1. h[k + 1] = step[<<n, g[n]>>]
        BY <3>2
      <4> HIDE DEF h
      <4> QED BY <4>1, <3>1, <3>2
    <3>3. CASE k # n
      <4>1. k \in 0..(n - 1) /\ k + 1 \in 0..(n + 1) /\ k + 1 # n + 1
        BY <3>3
      <4>2. h[k + 1] = g[k + 1] /\ g[k + 1] = step[<<k, g[k]>>]
        BY <4>1, <2>1
      <4> HIDE DEF h
      <4> QED BY <4>2, <3>1
    <3> QED BY <3>2, <3>3
  <2>7. (n + 1) - 1 = n
    OBVIOUS
  <2> HIDE DEF h
  <2>8. Run(n + 1, h)
    BY <2>4, <2>5, <2>6, <2>7
  <2> QED BY <2>8
<1> HIDE DEF G
<1>4. \A n \in Nat : \E g : Run(n, g)
  <2>1. Nat \subseteq G
    BY <1>2, <1>3, Counting
  <2> QED BY <2>1 DEF G
<1> DEFINE p == [n \in Nat |-> CHOOSE g : Run(n, g)]
           f == [n \in Nat |-> p[n][n]]
<1> HIDE DEF Run
<1>5. \A n \in Nat : Run(n, p[n])
  <2>1. \A n \in Nat : Run(n, CHOOSE g : Run(n, g))
    BY <1>4
  <2> QED BY <2>1
<1> HIDE DEF p
<1>6. \A n \in Nat : \A k \in 0..n : p[n][k] = p[n + 1][k]
  <2>1. TAKE n \in Nat
  <2> DEFINE H == {k \in Nat : k <= n => p[n][k] = p[n + 1][k]}
  <2>2. Run(n, p[n]) /\ Run(n + 1, p[n + 1]) /\ (n + 1) - 1 = n
    BY <1>5
  <2>3. 0 \in H
    BY <2>2 DEF Run
  <2>4. ASSUME NEW k \in Nat, k \in H PROVE k + 1 \in H
    <3>1. SUFFICES ASSUME k + 1 <= n PROVE p[n][k + 1] = p[n + 1][k + 1]
      OBVIOUS
    <3>2. k \in 0..(n - 1) /\ k \in 0..n
      BY <3>1
    <3>3. p[n][k + 1] = step[<<k, p[n][k]>>]
      BY <2>2, <3>2 DEF Run
    <3>4. p[n + 1][k + 1] = step[<<k, p[n + 1][k]>>]
      BY <2>2, <3>2 DEF Run
    <3> QED BY <3>1, <3>3, <3>4, <2>4
  <2> HIDE DEF H
  <2>5. Nat \subseteq H
    BY <2>3, <2>4, Counting
  <2> QED BY <2>5 DEF H
<1>7. f \in [Nat -> S]
  <2>1. \A n \in Nat : p[n][n] \in S
    BY <1>5 DEF Run
  <2> QED BY <2>1
<1>8. f[0] = a
  BY <1>5 DEF Run
<1>9. ASSUME NEW n \in Nat PROVE f[n + 1] = step[<<n, f[n]>>]
  <2>1. Run(n + 1, p[n + 1]) /\ n \in 0..((n + 1) - 1) /\ n \in 0..n
    BY <1>5
  <2>2. p[n + 1][n + 1] = step[<<n, p[n + 1][n]>>]
    BY <2>1 DEF Run
  <2>3. p[n][n] = p[n + 1][n]
    BY <2>1, <1>6
  <2>4. f[n + 1] = p[n + 1][n + 1] /\ f[n] = p[n][n]
    OBVIOUS
  <2> HIDE DEF f
  <2> QED BY <2>2, <2>3, <2>4
<1> HIDE DEF f
<1>10. Recurs(f, S, a, step)
  BY <1>7, <1>8, <1>9 DEF Recurs
<1> QED BY <1>10

-----------------------------------------------------------------------------
(* What digits spell *)

\* Positional() reads a text from the front.
LEMMA PositionalIs ==
  ASSUME NEW base \in Nat, NEW text \in Seq(Nat)
  PROVE  \E g \in [0..Len(text) -> Nat] :
           /\ g[0] = 0 /\ \A i \in 1..Len(text) : g[i] = base * g[i - 1] + text[i]
           /\ Positional(text, base) = g[Len(text)]
<1> DEFINE n == Len(text)
           Is(g) == g = [i \in 0..n |-> IF i = 0 THEN 0 ELSE base * g[i - 1] + text[i]]
           digit == [k \in Nat |-> IF k < n THEN text[k + 1] ELSE 0]
           step == [x \in Nat \X Nat |-> base * x[2] + digit[x[1]]]
<1>1. n \in Nat /\ \A i \in 1..n : text[i] \in Nat
  OBVIOUS
<1> HIDE DEF n
<1>2. \A k \in Nat : digit[k] \in Nat
  BY <1>1
<1> HIDE DEF digit
<1>3. step \in [Nat \X Nat -> Nat]
  <2>1. ASSUME NEW k \in Nat, NEW x \in Nat PROVE base * x + digit[k] \in Nat
    <3>1. base * x \in Nat
      BY ProductIsNat
    <3> QED BY <1>2, <3>1
  <2> QED BY <2>1
<1>4. \A k, x \in Nat : step[<<k, x>>] = base * x + digit[k]
  OBVIOUS
<1> HIDE DEF step
<1>5. PICK f \in [Nat -> Nat] : f[0] = 0 /\ \A k \in Nat : f[k + 1] = step[<<k, f[k]>>]
  <2>1. 0 \in Nat
    OBVIOUS
  <2>2. PICK f : Recurs(f, Nat, 0, step)
    BY <1>3, <2>1, Recursion
  <2> QED BY <2>2 DEF Recurs
<1>6. \A k \in Nat : f[k + 1] = base * f[k] + digit[k]
  BY <1>4, <1>5
<1> DEFINE g == [i \in 0..n |-> f[i]]
<1>7. g \in [0..n -> Nat] /\ \A i \in 0..n : g[i] = f[i]
  BY <1>1
<1>8. ASSUME NEW i \in 1..n PROVE g[i] = base * g[i - 1] + text[i]
  <2>1. i - 1 \in Nat /\ (i - 1) + 1 = i /\ i - 1 < n /\ i \in 0..n /\ i - 1 \in 0..n
    BY <1>1
  <2>2. f[i] = base * f[i - 1] + digit[i - 1]
    BY <1>6, <2>1
  <2>3. digit[i - 1] = text[i]
    BY <2>1 DEF digit
  <2> HIDE DEF g
  <2> QED BY <1>7, <2>1, <2>2, <2>3
<1>9. g[0] = 0
  BY <1>1, <1>5
<1> HIDE DEF g
<1>10. Is(g)
  <2>1. \A i \in 0..n : g[i] = IF i = 0 THEN 0 ELSE base * g[i - 1] + text[i]
    BY <1>8, <1>9, <1>1
  <2> QED BY <1>7, <2>1
<1> DEFINE c == CHOOSE h : Is(h)
<1>11. Positional(text, base) = c[n]
  BY DEF Positional, n
<1> HIDE DEF Is
<1>12. Is(c)
  BY <1>10
<1> HIDE DEF c
<1>13. /\ DOMAIN c = 0..n
       /\ \A i \in 0..n : c[i] = IF i = 0 THEN 0 ELSE base * c[i - 1] + text[i]
  <2>1. c = [i \in 0..n |-> IF i = 0 THEN 0 ELSE base * c[i - 1] + text[i]]
    BY <1>12 DEF Is
  <2> QED BY <2>1
<1>14. \A i \in 0..n : c[i] = g[i]
  <2> DEFINE H == {i \in Nat : i <= n => c[i] = g[i]}
  <2>1. 0 \in H
    BY <1>9, <1>13, <1>1
  <2>2. ASSUME NEW i \in Nat, i \in H PROVE i + 1 \in H
    <3>0. i + 1 \in Nat
      OBVIOUS
    <3>1. SUFFICES ASSUME i + 1 <= n PROVE c[i + 1] = g[i + 1]
      BY <3>0
    <3>2. i + 1 \in 1..n /\ i + 1 \in 0..n /\ (i + 1) - 1 = i /\ i + 1 # 0
      BY <1>1, <3>1
    <3>3. c[i + 1] = base * c[i] + text[i + 1]
      BY <1>13, <3>2
    <3>4. g[i + 1] = base * g[i] + text[i + 1]
      BY <1>8, <3>2
    <3>5. c[i] = g[i]
      BY <2>2, <3>1, <1>1
    <3> QED BY <3>3, <3>4, <3>5
  <2> HIDE DEF H
  <2>3. Nat \subseteq H
    BY <2>1, <2>2, Counting
  <2> QED BY <2>3, <1>1 DEF H
<1>15. Positional(text, base) = g[n]
  BY <1>1, <1>11, <1>14
<1> QED BY <1>7, <1>8, <1>9, <1>15 DEF n

\* A digit more: base times as much, and the digit.
LEMMA PositionalMore ==
  ASSUME NEW base \in Nat, NEW text \in Seq(Nat), NEW d \in Nat
  PROVE  /\ Positional(text, base) \in Nat
         /\ Positional(text \o <<d>>, base) = base * Positional(text, base) + d
<1> DEFINE n == Len(text)
           t == text \o <<d>>
<1>1. /\ n \in Nat /\ t \in Seq(Nat) /\ Len(t) = n + 1 /\ t[n + 1] = d
      /\ \A i \in 1..n : t[i] = text[i]
  OBVIOUS
<1>2. PICK g \in [0..n -> Nat] :
        /\ g[0] = 0 /\ \A i \in 1..n : g[i] = base * g[i - 1] + text[i]
        /\ Positional(text, base) = g[n]
  BY PositionalIs
<1> HIDE DEF t
<1>3. PICK h \in [0..(n + 1) -> Nat] :
        /\ h[0] = 0 /\ \A i \in 1..(n + 1) : h[i] = base * h[i - 1] + t[i]
        /\ Positional(t, base) = h[n + 1]
  BY <1>1, PositionalIs
<1> HIDE DEF n
<1> DEFINE H == {i \in Nat : i <= n => g[i] = h[i]}
<1>4. 0 \in H
  BY <1>2, <1>3
<1>5. ASSUME NEW i \in Nat, i \in H PROVE i + 1 \in H
  <2>1. SUFFICES ASSUME i + 1 <= n PROVE g[i + 1] = h[i + 1]
    OBVIOUS
  <2>2. i + 1 \in 1..n /\ i + 1 \in 1..(n + 1) /\ (i + 1) - 1 = i
    BY <1>1, <2>1
  <2>3. g[i + 1] = base * g[i] + text[i + 1] /\ h[i + 1] = base * h[i] + t[i + 1]
    BY <1>2, <1>3, <2>2
  <2>4. g[i] = h[i]
    BY <1>1, <1>5, <2>1
  <2> QED BY <1>1, <2>2, <2>3, <2>4
<1> HIDE DEF H
<1>6. Nat \subseteq H
  BY <1>4, <1>5, Counting
<1>7. g[n] = h[n] /\ g[n] \in Nat
  BY <1>1, <1>2, <1>6 DEF H
<1>8. h[n + 1] = base * h[n] + d
  <2>1. n + 1 \in 1..(n + 1) /\ (n + 1) - 1 = n
    BY <1>1
  <2> QED BY <1>1, <1>3, <2>1
<1> QED BY <1>2, <1>3, <1>7, <1>8 DEF t

\* No digits spell 0.
LEMMA PositionalEmpty == ASSUME NEW base \in Nat PROVE Positional(<<>>, base) = 0
<1>1. <<>> \in Seq(Nat) /\ Len(<<>>) = 0
  OBVIOUS
<1> QED BY <1>1, PositionalIs

\* The powers.
LEMMA PowerIs ==
  ASSUME NEW base \in Nat
  PROVE  /\ Power(base, 0) = 1
         /\ \A k \in Nat : Power(base, k) \in Nat /\ Power(base, k + 1) = base * Power(base, k)
<1> DEFINE t == [k \in Nat |-> [i \in 1..(k + 1) |-> IF i = 1 THEN 1 ELSE 0]]
<1>1. \A k \in Nat : t[k] \in Seq(Nat)
  OBVIOUS
<1>2. ASSUME NEW k \in Nat PROVE t[k + 1] = t[k] \o <<0>>
  OBVIOUS
<1>3. t[0] = <<>> \o <<1>>
  OBVIOUS
<1>4. \A k \in Nat : Power(base, k) = Positional(t[k], base)
  BY DEF Power
<1> HIDE DEF t
<1>5. Power(base, 0) = 1
  <2>1. Positional(<<>> \o <<1>>, base) = base * Positional(<<>>, base) + 1
    <3>1. <<>> \in Seq(Nat) /\ 1 \in Nat
      OBVIOUS
    <3> QED BY <3>1, PositionalMore
  <2> QED BY <1>3, <1>4, <2>1, PositionalEmpty
<1>6. ASSUME NEW k \in Nat PROVE Power(base, k) \in Nat /\ Power(base, k + 1) = base * Power(base, k)
  <2>1. /\ Positional(t[k], base) \in Nat
        /\ Positional(t[k] \o <<0>>, base) = base * Positional(t[k], base) + 0
    BY <1>1, PositionalMore
  <2>2. base * Positional(t[k], base) \in Nat
    BY <2>1, ProductIsNat
  <2>3. Power(base, k) = Positional(t[k], base)
    BY <1>4
  <2>4. Power(base, k + 1) = Positional(t[k] \o <<0>>, base)
    <3>1. k + 1 \in Nat
      OBVIOUS
    <3> QED BY <3>1, <1>2, <1>4
  <2>5. base * Positional(t[k], base) + 0 = base * Positional(t[k], base)
    BY <2>2
  <2> QED BY <2>1, <2>3, <2>4, <2>5
<1> QED BY <1>5, <1>6

-----------------------------------------------------------------------------
(* The digits of a number *)

\* A quotient is smaller.
LEMMA Smaller ==
  ASSUME NEW n \in Nat, NEW base \in Nat, base > 1
  PROVE  /\ n \div base \in Nat /\ n % base \in 0..(base - 1)
         /\ n = base * (n \div base) + (n % base)
         /\ n \div base # 0 => n \div base < n
<1> DEFINE q == n \div base
           r == n % base
<1>1. q \in Nat /\ r \in 0..(base - 1) /\ n = base * q + r
  BY DivMod
<1> HIDE DEF q, r
<1>2. q # 0 => q < n
  <2>1. SUFFICES ASSUME q # 0 PROVE q < n
    OBVIOUS
  <2>2. q * 1 + q <= q * base
    BY <1>1, Bigger
  <2>3. q * base = base * q
    BY <1>1
  <2> QED BY <1>1, <2>1, <2>2, <2>3
<1> QED BY <1>1, <1>2 DEF q, r

\* h gives the digits of every number, the low one first.
Spells(h, base) ==
  /\ DOMAIN h = Nat
  /\ \A n \in Nat : h[n] = <<n % base>> \o (IF n \div base = 0 THEN <<>> ELSE h[n \div base])

\* There is such an h.
LEMMA SpellingExists ==
  ASSUME NEW base \in Nat, base > 1
  PROVE  \E h : Spells(h, base)
<1> DEFINE S == [Nat -> Seq(Nat)]
           more(g) == [n \in Nat |-> <<n % base>> \o (IF n \div base = 0 THEN <<>> ELSE g[n \div base])]
           none == [n \in Nat |-> <<>>]
           step == [x \in Nat \X S |-> more(x[2])]
<1>1. ASSUME NEW g \in S PROVE more(g) \in S
  <2>1. ASSUME NEW n \in Nat
        PROVE  <<n % base>> \o (IF n \div base = 0 THEN <<>> ELSE g[n \div base]) \in Seq(Nat)
    <3>1. n \div base \in Nat /\ n % base \in Nat
      BY Smaller
    <3>2. (IF n \div base = 0 THEN <<>> ELSE g[n \div base]) \in Seq(Nat)
      BY <3>1
    <3> QED BY <3>1, <3>2
  <2> QED BY <2>1
<1>2. none \in S
  OBVIOUS
<1>3. ASSUME NEW k \in Nat, NEW g \in S PROVE step[<<k, g>>] = more(g)
  OBVIOUS
<1>4. step \in [Nat \X S -> S]
  <2> HIDE DEF S, more
  <2> QED BY <1>1
<1>5. ASSUME NEW g, NEW n \in Nat
      PROVE  more(g)[n] = <<n % base>> \o (IF n \div base = 0 THEN <<>> ELSE g[n \div base])
  OBVIOUS
<1> HIDE DEF S, more, none, step
<1>6. PICK F : Recurs(F, S, none, step)
  BY <1>2, <1>4, Recursion
<1>7. ASSUME NEW k \in Nat, NEW n \in Nat
      PROVE  F[k + 1][n] = <<n % base>> \o (IF n \div base = 0 THEN <<>> ELSE F[k][n \div base])
  <2>1. F[k] \in S /\ F[k + 1] = step[<<k, F[k]>>]
    BY <1>6 DEF Recurs
  <2>2. F[k + 1] = more(F[k])
    BY <2>1, <1>3
  <2> QED BY <2>2, <1>5
<1> DEFINE G == {k \in Nat : \A n \in 0..(k - 1) : F[k + 1][n] = F[k][n]}
<1>8. 0 \in G
  OBVIOUS
<1>9. ASSUME NEW k \in Nat, k \in G PROVE k + 1 \in G
  <2>1. SUFFICES ASSUME NEW n \in 0..k PROVE F[(k + 1) + 1][n] = F[k + 1][n]
    OBVIOUS
  <2>2. n \in Nat /\ k + 1 \in Nat
    OBVIOUS
  <2>3. /\ F[(k + 1) + 1][n]
             = <<n % base>> \o (IF n \div base = 0 THEN <<>> ELSE F[k + 1][n \div base])
        /\ F[k + 1][n] = <<n % base>> \o (IF n \div base = 0 THEN <<>> ELSE F[k][n \div base])
    BY <1>7, <2>2
  <2>4. n \div base # 0 => F[k + 1][n \div base] = F[k][n \div base]
    <3>1. SUFFICES ASSUME n \div base # 0 PROVE F[k + 1][n \div base] = F[k][n \div base]
      OBVIOUS
    <3>2. n \div base \in Nat /\ n \div base < n
      BY <2>2, <3>1, Smaller
    <3>3. n \div base \in 0..(k - 1)
      BY <3>2
    <3> QED BY <3>3, <1>9
  <2> QED BY <2>3, <2>4
<1> HIDE DEF G
<1>10. \A k \in Nat : \A n \in 0..(k - 1) : F[k + 1][n] = F[k][n]
  BY <1>8, <1>9, Counting DEF G
<1>11. ASSUME NEW m \in Nat PROVE \A j \in Nat : F[(m + 1) + j][m] = F[m + 1][m]
  <2> DEFINE H == {j \in Nat : F[(m + 1) + j][m] = F[m + 1][m]}
  <2>1. 0 \in H
    OBVIOUS
  <2>2. ASSUME NEW j \in Nat, j \in H PROVE j + 1 \in H
    <3>1. (m + 1) + j \in Nat /\ m \in 0..(((m + 1) + j) - 1) /\ (m + 1) + (j + 1) = ((m + 1) + j) + 1
      OBVIOUS
    <3>2. F[((m + 1) + j) + 1][m] = F[(m + 1) + j][m]
      BY <1>10, <3>1
    <3> QED BY <2>2, <3>1, <3>2
  <2> HIDE DEF H
  <2> QED BY <2>1, <2>2, Counting DEF H
<1> DEFINE h == [n \in Nat |-> F[n + 1][n]]
<1>12. ASSUME NEW n \in Nat
       PROVE  h[n] = <<n % base>> \o (IF n \div base = 0 THEN <<>> ELSE h[n \div base])
  <2> DEFINE q == n \div base
  <2>1. q \in Nat /\ (q # 0 => q < n)
    BY Smaller
  <2>2. h[n] = <<n % base>> \o (IF q = 0 THEN <<>> ELSE F[n][q])
    BY <1>7
  <2>3. h[q] = F[q + 1][q]
    BY <2>1
  <2> HIDE DEF q, h
  <2>4. q # 0 => F[n][q] = h[q]
    <3>1. SUFFICES ASSUME q # 0 PROVE F[n][q] = h[q]
      OBVIOUS
    <3>2. n - (q + 1) \in Nat /\ (q + 1) + (n - (q + 1)) = n
      BY <2>1, <3>1
    <3>3. F[(q + 1) + (n - (q + 1))][q] = F[q + 1][q]
      BY <1>11, <2>1, <3>2
    <3> QED BY <2>3, <3>2, <3>3
  <2> QED BY <2>2, <2>4 DEF q
<1>13. DOMAIN h = Nat
  OBVIOUS
<1> HIDE DEF h
<1>14. Spells(h, base)
  BY <1>12, <1>13 DEF Spells
<1> QED BY <1>14

\* What was first is last when it is reversed.
LEMMA ReverseOfMore ==
  ASSUME NEW d \in Nat, NEW t \in Seq(Nat)
  PROVE  /\ Reverse(t) \in Seq(Nat) /\ Len(Reverse(t)) = Len(t)
         /\ Reverse(<<d>> \o t) = Reverse(t) \o <<d>>
<1> DEFINE n == Len(t)
           s == <<d>> \o t
<1>1. n \in Nat /\ \A i \in 1..n : t[i] \in Nat /\ (n - i) + 1 \in 1..n
  OBVIOUS
<1>2. Reverse(t) = [i \in 1..n |-> t[(n - i) + 1]]
  BY DEF Reverse
<1>3. Len(s) = n + 1 /\ s[1] = d /\ \A i \in 1..n : s[i + 1] = t[i]
  OBVIOUS
<1>4. Reverse(s) = [i \in 1..(n + 1) |-> s[((n + 1) - i) + 1]]
  BY <1>3 DEF Reverse
<1> HIDE DEF n, s
<1> DEFINE r == Reverse(t)
<1>5. r \in Seq(Nat) /\ Len(r) = n
  BY <1>1, <1>2
<1>6. \A i \in 1..n : r[i] = t[(n - i) + 1]
  BY <1>2
<1> HIDE DEF r
<1> DEFINE c == r \o <<d>>
<1>7. c = [i \in 1..(n + 1) |-> IF i <= n THEN r[i] ELSE d]
  <2>1. Len(c) = n + 1 /\ \A i \in 1..(n + 1) : c[i] = IF i <= n THEN r[i] ELSE d
    BY <1>1, <1>5
  <2>2. c \in Seq(Nat)
    BY <1>5
  <2>3. c = [i \in 1..Len(c) |-> c[i]]
    BY <2>2
  <2> HIDE DEF c
  <2> QED BY <2>1, <2>3
<1> HIDE DEF c
<1>8. ASSUME NEW i \in 1..(n + 1) PROVE s[((n + 1) - i) + 1] = IF i <= n THEN r[i] ELSE d
  <2>1. CASE i <= n
    <3>1. i \in 1..n /\ ((n + 1) - i) + 1 = ((n - i) + 1) + 1
      BY <1>1, <2>1
    <3>2. (n - i) + 1 \in 1..n
      BY <1>1, <3>1
    <3>3. s[((n - i) + 1) + 1] = t[(n - i) + 1]
      BY <1>3, <3>2
    <3> QED BY <1>6, <2>1, <3>1, <3>3
  <2>2. CASE ~(i <= n)
    <3>1. i = n + 1 /\ ((n + 1) - i) + 1 = 1
      BY <1>1, <2>2
    <3> QED BY <1>3, <2>2, <3>1
  <2> QED BY <2>1, <2>2
<1>9. Reverse(s) = c
  BY <1>4, <1>7, <1>8
<1> QED BY <1>5, <1>9 DEF c, r, s, n

\* s is the text of n, its low digit first: it spells n, without zeros in front,
\* and is no longer than numbers up to n are.
Told(s, n, base) ==
  /\ s \in Seq(Nat) /\ Len(s) >= 1
  /\ Positional(Reverse(s), base) = n
  /\ n = 0 => Len(s) = 1
  /\ n # 0 => s[Len(s)] # 0
  /\ \A k \in Nat : n < Power(base, k + 1) => Len(s) <= k + 1

\* A digit in front of the text of the quotient makes the text of the number.
LEMMA DigitTold ==
  ASSUME NEW base \in Nat, base > 1, NEW n \in Nat, NEW t,
         n \div base # 0 => Told(t, n \div base, base)
  PROVE  Told(<<n % base>> \o (IF n \div base = 0 THEN <<>> ELSE t), n, base)
<1> DEFINE q == n \div base
           d == n % base
<1>1. q \in Nat /\ d \in 0..(base - 1) /\ n = base * q + d
  BY Smaller
<1> HIDE DEF q, d
<1>2. CASE q = 0
  <2> DEFINE s == <<d>> \o <<>>
  <2>1. s = <<d>> /\ s \in Seq(Nat) /\ Len(s) = 1 /\ s[1] = d
    BY <1>1
  <2>2. Reverse(<<>>) = <<>>
    BY DEF Reverse
  <2>3. Reverse(s) = <<>> \o <<d>>
    <3>1. <<>> \in Seq(Nat) /\ d \in Nat
      BY <1>1
    <3> QED BY <3>1, <2>2, ReverseOfMore
  <2>4. Positional(Reverse(s), base) = n
    <3>1. Positional(<<>> \o <<d>>, base) = base * Positional(<<>>, base) + d
      <4>1. <<>> \in Seq(Nat) /\ d \in Nat
        BY <1>1
      <4> QED BY <4>1, PositionalMore
    <3> QED BY <1>1, <1>2, <2>3, <3>1, PositionalEmpty
  <2>5. n = d
    BY <1>1, <1>2
  <2> HIDE DEF s
  <2>6. Told(s, n, base)
    BY <2>1, <2>4, <2>5 DEF Told
  <2> QED BY <1>2, <2>6 DEF s, q, d
<1>3. CASE q # 0
  <2> DEFINE s == <<d>> \o t
  <2>1. /\ t \in Seq(Nat) /\ Len(t) >= 1 /\ Len(t) \in Nat
        /\ Positional(Reverse(t), base) = q /\ t[Len(t)] # 0
        /\ \A k \in Nat : q < Power(base, k + 1) => Len(t) <= k + 1
    BY <1>3 DEF Told, q
  <2>2. s \in Seq(Nat) /\ Len(s) = Len(t) + 1 /\ s[Len(s)] = t[Len(t)]
    BY <1>1, <2>1
  <2>3. Positional(Reverse(s), base) = base * q + d
    <3>1. d \in Nat
      BY <1>1
    <3>2. Reverse(t) \in Seq(Nat) /\ Reverse(s) = Reverse(t) \o <<d>>
      BY <2>1, <3>1, ReverseOfMore
    <3> HIDE DEF s
    <3> QED BY <2>1, <3>1, <3>2, PositionalMore
  <2>4. n # 0
    <3>1. base * 0 + base <= base * q
      BY <1>1, <1>3, Bigger
    <3>2. base * q \in Nat
      BY <1>1, ProductIsNat
    <3> QED BY <1>1, <3>1, <3>2
  <2>5. ASSUME NEW k \in Nat, n < Power(base, k + 1) PROVE Len(s) <= k + 1
    <3>1. k # 0
      <4>1. SUFFICES ASSUME k = 0 PROVE FALSE
        OBVIOUS
      <4>2. Power(base, 0 + 1) = base * Power(base, 0) /\ Power(base, 0) = 1
        BY PowerIs
      <4>3. n < base
        BY <2>5, <4>1, <4>2
      <4>4. base * 0 + base <= base * q
        BY <1>1, <1>3, Bigger
      <4>5. base * q \in Nat
        BY <1>1, ProductIsNat
      <4> QED BY <1>1, <4>3, <4>4, <4>5
    <3> DEFINE p == Power(base, k)
    <3>2. p \in Nat /\ Power(base, k + 1) = base * p
      BY PowerIs
    <3>3. n < base * p
      BY <2>5, <3>2
    <3> HIDE DEF p
    <3>4. q < p
      <4>1. SUFFICES ASSUME p < q + 1 PROVE FALSE
        BY <1>1, <3>2
      <4>2. base * p + base <= base * (q + 1)
        BY <1>1, <3>2, <4>1, Bigger
      <4>3. base * (q + 1) = base * q + base
        BY <1>1
      <4>4. base * q \in Nat /\ base * p \in Nat
        BY <1>1, <3>2, ProductIsNat
      <4> QED BY <1>1, <3>3, <4>2, <4>3, <4>4
    <3>5. k - 1 \in Nat /\ (k - 1) + 1 = k
      BY <3>1
    <3>6. Len(t) <= k
      BY <2>1, <3>4, <3>5 DEF p
    <3> QED BY <2>1, <2>2, <3>6
  <2> HIDE DEF s
  <2>6. Told(s, n, base)
    BY <1>1, <2>1, <2>2, <2>3, <2>4, <2>5 DEF Told
  <2> QED BY <1>3, <2>6 DEF s, q, d
<1> QED BY <1>2, <1>3

\* What gives the digits of every number gives their texts.
LEMMA SpellingTells ==
  ASSUME NEW base \in Nat, base > 1, NEW h, Spells(h, base)
  PROVE  \A n \in Nat : Told(h[n], n, base)
<1> DEFINE G == {n \in Nat : \A m \in 0..n : Told(h[m], m, base)}
<1>1. ASSUME NEW n \in Nat, \A m \in 0..(n - 1) : Told(h[m], m, base)
      PROVE  Told(h[n], n, base)
  <2>1. n \div base # 0 => Told(h[n \div base], n \div base, base)
    <3>1. SUFFICES ASSUME n \div base # 0 PROVE Told(h[n \div base], n \div base, base)
      OBVIOUS
    <3>2. n \div base \in Nat /\ n \div base < n
      BY <3>1, Smaller
    <3>3. n \div base \in 0..(n - 1)
      BY <3>2
    <3> QED BY <1>1, <3>3
  <2>2. Told(<<n % base>> \o (IF n \div base = 0 THEN <<>> ELSE h[n \div base]), n, base)
    BY <2>1, DigitTold
  <2>3. h[n] = <<n % base>> \o (IF n \div base = 0 THEN <<>> ELSE h[n \div base])
    BY DEF Spells
  <2> QED BY <2>2, <2>3
<1>2. 0 \in G
  <2>1. Told(h[0], 0, base)
    BY <1>1
  <2> QED BY <2>1
<1>3. ASSUME NEW n \in Nat, n \in G PROVE n + 1 \in G
  <2>1. \A m \in 0..n : Told(h[m], m, base)
    BY <1>3
  <2>2. n + 1 \in Nat /\ (n + 1) - 1 = n
    OBVIOUS
  <2>3. Told(h[n + 1], n + 1, base)
    BY <1>1, <2>1, <2>2
  <2>4. \A m \in 0..(n + 1) : m \in 0..n \/ m = n + 1
    OBVIOUS
  <2> QED BY <2>1, <2>2, <2>3, <2>4
<1> HIDE DEF G
<1>4. Nat \subseteq G
  BY <1>2, <1>3, Counting
<1>5. \A n \in Nat : n \in 0..n
  OBVIOUS
<1> QED BY <1>4, <1>5 DEF G

\* What was last is first when it is reversed.
LEMMA ReverseOfLast ==
  ASSUME NEW d \in Nat, NEW t \in Seq(Nat)
  PROVE  Reverse(t \o <<d>>) = <<d>> \o Reverse(t)
<1> DEFINE n == Len(t)
           s == t \o <<d>>
<1>1. n \in Nat /\ \A i \in 1..n : t[i] \in Nat /\ (n - i) + 1 \in 1..n
  OBVIOUS
<1>2. Reverse(t) = [i \in 1..n |-> t[(n - i) + 1]]
  BY DEF Reverse
<1>3. Len(s) = n + 1 /\ s[n + 1] = d /\ \A i \in 1..n : s[i] = t[i]
  OBVIOUS
<1>4. Reverse(s) = [i \in 1..(n + 1) |-> s[((n + 1) - i) + 1]]
  BY <1>3 DEF Reverse
<1> HIDE DEF n, s
<1> DEFINE r == Reverse(t)
<1>5. r \in Seq(Nat) /\ Len(r) = n /\ \A i \in 1..n : r[i] = t[(n - i) + 1]
  BY <1>1, <1>2
<1> HIDE DEF r
<1> DEFINE c == <<d>> \o r
<1>6. c = [i \in 1..(n + 1) |-> IF i = 1 THEN d ELSE r[i - 1]]
  <2>1. /\ c \in Seq(Nat) /\ Len(c) = n + 1
        /\ \A i \in 1..(n + 1) : c[i] = IF i = 1 THEN d ELSE r[i - 1]
    BY <1>1, <1>5
  <2>2. c = [i \in 1..Len(c) |-> c[i]]
    BY <2>1
  <2> HIDE DEF c
  <2> QED BY <2>1, <2>2
<1> HIDE DEF c
<1>7. ASSUME NEW i \in 1..(n + 1) PROVE s[((n + 1) - i) + 1] = IF i = 1 THEN d ELSE r[i - 1]
  <2>1. CASE i = 1
    BY <1>1, <1>3, <2>1
  <2>2. CASE i # 1
    <3>1. i - 1 \in 1..n /\ ((n + 1) - i) + 1 = (n - (i - 1)) + 1
      BY <1>1, <2>2
    <3>2. (n - (i - 1)) + 1 \in 1..n
      BY <1>1, <3>1
    <3> QED BY <1>3, <1>5, <2>2, <3>1, <3>2
  <2> QED BY <2>1, <2>2
<1> QED BY <1>4, <1>6, <1>7 DEF c, s, r

-----------------------------------------------------------------------------
(* convert() and convertHex() *)

Abs(i) == IF i < 0 THEN -i ELSE i

\* C++ divides the absolute value, and the table gives the absolute value of the
\* remainder.
LEMMA Truncated ==
  ASSUME NEW i \in Int
  PROVE  /\ Abs(i) \in Nat /\ Quotient(i, 10) \in Int
         /\ Abs(Quotient(i, 10)) = Abs(i) \div 10
         /\ zero(Remainder(i, 10)) = Abs(i) % 10
<1> DEFINE a == Abs(i)
           q == a \div 10
           r == a % 10
<1>1. a \in Nat
  BY DEF Abs
<1>2. q \in Nat /\ r \in 0..9 /\ a = 10 * q + r
  BY <1>1, DivMod
<1>3. \A l \in -9..9 : zero(l) = Abs(l)
  BY DEF zero, digits, Abs
<1>4. CASE i >= 0
  <2>1. a = i /\ Quotient(i, 10) = q
    BY <1>4 DEF Abs, Quotient
  <2> HIDE DEF q, r, a
  <2>2. Remainder(i, 10) = r
    BY <1>2, <2>1 DEF Remainder
  <2>3. r \in -9..9 /\ Abs(r) = r /\ Abs(q) = q
    BY <1>2 DEF Abs
  <2> QED BY <1>1, <1>2, <1>3, <2>1, <2>2, <2>3 DEF q, r, a
<1>5. CASE i < 0
  <2>1. a = -i /\ Quotient(i, 10) = -q
    BY <1>5 DEF Abs, Quotient
  <2> HIDE DEF q, r, a
  <2>2. Remainder(i, 10) = -r
    BY <1>2, <2>1 DEF Remainder
  <2>3. -r \in -9..9 /\ Abs(-r) = r /\ Abs(-q) = q /\ -q \in Int
    BY <1>2 DEF Abs
  <2> QED BY <1>1, <1>2, <1>3, <2>1, <2>2, <2>3 DEF q, r, a
<1> QED BY <1>4, <1>5

\* The digits of a signed number are those of its absolute value.
LEMMA LsdsIs ==
  \A i \in Int : Lsds[i] = <<Abs(i) % 10>>
                             \o (IF Abs(i) \div 10 = 0 THEN <<>> ELSE Lsds[Quotient(i, 10)])
<1> DEFINE Is(g) == g = [i \in Int |-> <<zero(Remainder(i, 10))>>
                           \o (IF Quotient(i, 10) = 0 THEN <<>> ELSE g[Quotient(i, 10)])]
<1>1. PICK h : Spells(h, 10)
  BY SpellingExists
<1> DEFINE f == [i \in Int |-> h[Abs(i)]]
<1>2. \A i \in Int : Quotient(i, 10) = 0 <=> Abs(i) \div 10 = 0
  BY Truncated DEF Abs
<1>3. ASSUME NEW i \in Int
      PROVE  f[i] = <<zero(Remainder(i, 10))>>
                      \o (IF Quotient(i, 10) = 0 THEN <<>> ELSE f[Quotient(i, 10)])
  <2>1. h[Abs(i)] = <<Abs(i) % 10>>
                      \o (IF Abs(i) \div 10 = 0 THEN <<>> ELSE h[Abs(i) \div 10])
    BY <1>1, Truncated DEF Spells
  <2>2. f[i] = h[Abs(i)] /\ f[Quotient(i, 10)] = h[Abs(i) \div 10]
    BY Truncated
  <2> HIDE DEF f
  <2> QED BY <2>1, <2>2, <1>2, Truncated
<1>4. f = [i \in Int |-> f[i]]
  OBVIOUS
<1> HIDE DEF f
<1>5. Is(f)
  BY <1>3, <1>4
<1>6. Lsds = CHOOSE g : Is(g)
  BY DEF Lsds
<1> HIDE DEF Is
<1>7. Is(Lsds)
  BY <1>5, <1>6
<1>8. \A i \in Int : Lsds[i] = <<zero(Remainder(i, 10))>>
                       \o (IF Quotient(i, 10) = 0 THEN <<>> ELSE Lsds[Quotient(i, 10)])
  <2>1. Lsds = [i \in Int |-> <<zero(Remainder(i, 10))>>
                  \o (IF Quotient(i, 10) = 0 THEN <<>> ELSE Lsds[Quotient(i, 10)])]
    BY <1>7 DEF Is
  <2> QED BY <2>1
<1> QED BY <1>2, <1>8, Truncated

\* They are its text.
LEMMA LsdsTold == \A i \in Int : Told(Lsds[i], Abs(i), 10)
<1> DEFINE G == {n \in Nat : \A i \in Int : Abs(i) <= n => Told(Lsds[i], Abs(i), 10)}
<1>1. ASSUME NEW i \in Int, \A j \in Int : Abs(j) < Abs(i) => Told(Lsds[j], Abs(j), 10)
      PROVE  Told(Lsds[i], Abs(i), 10)
  <2> DEFINE n == Abs(i)
             j == Quotient(i, 10)
  <2>1. n \in Nat /\ j \in Int /\ Abs(j) = n \div 10
    BY Truncated
  <2>2. Lsds[i] = <<n % 10>> \o (IF n \div 10 = 0 THEN <<>> ELSE Lsds[j])
    BY LsdsIs
  <2> HIDE DEF n, j
  <2>3. n \div 10 # 0 => Told(Lsds[j], n \div 10, 10)
    <3>1. SUFFICES ASSUME n \div 10 # 0 PROVE Told(Lsds[j], n \div 10, 10)
      OBVIOUS
    <3>2. n \div 10 < n
      BY <2>1, <3>1, Smaller
    <3>3. Abs(j) < n
      BY <2>1, <3>2
    <3>4. Told(Lsds[j], Abs(j), 10)
      BY <1>1, <2>1, <3>3 DEF n
    <3> QED BY <2>1, <3>4
  <2>4. 10 \in Nat /\ 10 > 1
    OBVIOUS
  <2> HIDE DEF G
  <2>5. Told(<<n % 10>> \o (IF n \div 10 = 0 THEN <<>> ELSE Lsds[j]), n, 10)
    BY <2>1, <2>3, <2>4, DigitTold
  <2> QED BY <2>2, <2>5 DEF n
<1>2. 0 \in G
  <2>1. SUFFICES ASSUME NEW i \in Int, Abs(i) <= 0 PROVE Told(Lsds[i], Abs(i), 10)
    OBVIOUS
  <2>2. \A j \in Int : ~(Abs(j) < Abs(i))
    BY <2>1, Truncated
  <2> QED BY <1>1, <2>2
<1>3. ASSUME NEW n \in Nat, n \in G PROVE n + 1 \in G
  <2>1. SUFFICES ASSUME NEW i \in Int, Abs(i) <= n + 1 PROVE Told(Lsds[i], Abs(i), 10)
    OBVIOUS
  <2>2. ASSUME NEW j \in Int, Abs(j) < Abs(i) PROVE Told(Lsds[j], Abs(j), 10)
    <3>1. Abs(j) <= n
      BY <2>1, <2>2, Truncated
    <3> QED BY <3>1, <1>3
  <2> QED BY <1>1, <2>2
<1> HIDE DEF G
<1>4. Nat \subseteq G
  BY <1>2, <1>3, Counting
<1>5. \A i \in Int : Abs(i) \in G
  BY <1>4, Truncated
<1> QED BY <1>5, Truncated DEF G

\* The hexadecimal digits of an address are its text.
LEMMA HexLsdsTold == \A i \in Nat : Told(HexLsds[i], i, 16)
<1> DEFINE Is(g) == g = [i \in Nat |-> <<i % 16>> \o (IF i \div 16 = 0 THEN <<>> ELSE g[i \div 16])]
<1>1. PICK h : Spells(h, 16)
  BY SpellingExists
<1> DEFINE f == [i \in Nat |-> h[i]]
<1>2. \A i \in Nat : f[i] = <<i % 16>> \o (IF i \div 16 = 0 THEN <<>> ELSE f[i \div 16])
  <2>1. \A i \in Nat : i \div 16 \in Nat
    BY DivMod
  <2>2. \A i \in Nat : f[i] = h[i]
    OBVIOUS
  <2> HIDE DEF f
  <2> QED BY <1>1, <2>1, <2>2 DEF Spells
<1>3. f = [i \in Nat |-> f[i]]
  OBVIOUS
<1> HIDE DEF f
<1>4. Is(f)
  BY <1>2, <1>3
<1>5. HexLsds = CHOOSE g : Is(g)
  BY DEF HexLsds
<1> HIDE DEF Is
<1>6. Is(HexLsds)
  BY <1>4, <1>5
<1>7. Spells(HexLsds, 16)
  <2>1. HexLsds = [i \in Nat |-> <<i % 16>> \o (IF i \div 16 = 0 THEN <<>> ELSE HexLsds[i \div 16])]
    BY <1>6 DEF Is
  <2>2. DOMAIN HexLsds = Nat
    BY <2>1
  <2>3. \A i \in Nat : HexLsds[i] = <<i % 16>> \o (IF i \div 16 = 0 THEN <<>> ELSE HexLsds[i \div 16])
    BY <2>1
  <2> QED BY <2>2, <2>3 DEF Spells
<1> QED BY <1>7, SpellingTells

\* A text reversed reads back, without zeros in front, and fits.
LEMMA TextReads ==
  ASSUME NEW base \in Nat, NEW n \in Nat, NEW s, Told(s, n, base)
  PROVE  /\ Reverse(s) \in Seq(Nat) /\ Len(Reverse(s)) = Len(s) /\ Len(s) \in Nat
         /\ Canonical(Reverse(s)) /\ Positional(Reverse(s), base) = n
<1>1. s \in Seq(Nat) /\ Len(s) >= 1 /\ Len(s) \in Nat /\ Positional(Reverse(s), base) = n
  BY DEF Told
<1>2. Len(s) = 1 \/ s[Len(s)] # 0
  BY DEF Told
<1>3. Reverse(s) = [i \in 1..Len(s) |-> s[(Len(s) - i) + 1]]
  BY DEF Reverse
<1>4. \A i \in 1..Len(s) : s[(Len(s) - i) + 1] \in Nat
  BY <1>1
<1> DEFINE r == Reverse(s)
<1>5. r \in Seq(Nat) /\ Len(r) = Len(s)
  BY <1>1, <1>3, <1>4
<1>6. r[1] = s[Len(s)]
  BY <1>1, <1>3
<1> HIDE DEF r
<1>7. Head(r) = r[1]
  BY <1>1, <1>5
<1>8. Canonical(r)
  BY <1>2, <1>5, <1>6, <1>7 DEF Canonical
<1> QED BY <1>1, <1>5, <1>8 DEF r

\* Whatever is converted, its text reads back as it and fits the room.
THEOREM NumbersAreSpelled == [](value \in Least..Greatest) => []NumbersReadBack
<1>1. value \in Least..Greatest => NumbersReadBack
  <2>1. SUFFICES ASSUME value \in Least..Greatest PROVE NumbersReadBack
    OBVIOUS
  <2> DEFINE s == Lsds[value]
             x == HexLsds[value]
             text == convert(value)
  <2>2. /\ value \in Int /\ Greatest \in Nat /\ Least \in Int
        /\ Digits10 \in Nat /\ HexDigits \in Nat \ {0}
    BY <2>1, RangeAssumption DEF RangeAssumption
  <2>3. Told(s, Abs(value), 10) /\ Abs(value) \in Nat
    BY <2>2, LsdsTold, Truncated
  <2>4. /\ Reverse(s) \in Seq(Nat) /\ Len(Reverse(s)) = Len(s) /\ Len(s) \in Nat
        /\ Canonical(Reverse(s)) /\ Positional(Reverse(s), 10) = Abs(value)
    BY <2>3, TextReads
  <2>5. Len(s) <= Digits10 + 1
    <3>1. Power(10, Digits10 + 1) \in Nat
      BY <2>2, PowerIs
    <3>2. Abs(value) < Power(10, Digits10 + 1)
      BY <2>1, <2>2, <3>1, DigitsAssumption DEF DigitsAssumption, Abs
    <3> QED BY <2>2, <2>3, <3>2 DEF Told
  <2>6. CASE value >= 0
    <3>1. text = Reverse(s)
      <4>1. s \o <<>> = s
        BY <2>3 DEF Told
      <4>2. ~(value < 0)
        BY <2>2, <2>6
      <4>3. text = Reverse(s \o <<>>)
        BY <4>2 DEF convert
      <4> QED BY <4>1, <4>3
    <3>2. Told(x, value, 16) /\ value \in Nat
      BY <2>2, <2>6, HexLsdsTold
    <3>3. /\ Len(Reverse(x)) = Len(x) /\ Len(x) \in Nat
          /\ Canonical(Reverse(x)) /\ Positional(Reverse(x), 16) = value
      BY <3>2, TextReads
    <3>4. Len(x) <= HexDigits
      <4>1. HexDigits - 1 \in Nat /\ (HexDigits - 1) + 1 = HexDigits
        BY <2>2
      <4>2. Power(16, HexDigits) \in Nat
        BY <2>2, PowerIs
      <4>3. value < Power(16, HexDigits)
        BY <2>1, <2>2, <4>2, DigitsAssumption DEF DigitsAssumption
      <4> QED BY <3>2, <4>1, <4>3 DEF Told
    <3>5. Abs(value) = value
      BY <2>2, <2>6 DEF Abs
    <3>6. convertHex(value) = Reverse(x)
      BY DEF convertHex
    <3> HIDE DEF s, x, text
    <3>7. Len(text) < IntegerRoom /\ Len(Reverse(x)) + 2 < PointerRoom
      BY <2>2, <2>4, <2>5, <3>1, <3>3, <3>4 DEF IntegerRoom, PointerRoom
    <3>8. Canonical(text) /\ Positional(text, 10) = value
      BY <2>4, <3>1, <3>5
    <3>9. ~(value < 0)
      BY <2>2, <2>6
    <3> QED BY <3>3, <3>6, <3>7, <3>8, <3>9 DEF NumbersReadBack, text
  <2>7. CASE value < 0
    <3>1. text = Reverse(s \o <<minus>>)
      BY <2>7 DEF convert
    <3>2. Reverse(s \o <<minus>>) = <<minus>> \o Reverse(s)
      <4>1. s \in Seq(Nat) /\ minus \in Nat
        BY <2>3 DEF Told, minus
      <4> QED BY <4>1, ReverseOfLast
    <3> DEFINE r == Reverse(s)
    <3>3. r \in Seq(Nat) /\ minus \in Nat
      BY <2>4 DEF minus
    <3> HIDE DEF r
    <3>4. Head(<<minus>> \o r) = minus /\ Tail(<<minus>> \o r) = r /\ Len(<<minus>> \o r) = Len(r) + 1
      <4> DEFINE m == minus
      <4>1. m \in Nat
        BY <3>3
      <4> HIDE DEF m
      <4>2. Head(<<m>> \o r) = m /\ Tail(<<m>> \o r) = r /\ Len(<<m>> \o r) = Len(r) + 1
        BY <3>3, <4>1
      <4> QED BY <4>2 DEF m
    <3>5. Abs(value) = -value /\ ~(value >= 0)
      BY <2>2, <2>7 DEF Abs
    <3>6. text = <<minus>> \o r
      BY <3>1, <3>2 DEF r
    <3> HIDE DEF s, text
    <3>7. Len(text) < IntegerRoom
      BY <2>2, <2>4, <2>5, <3>4, <3>6 DEF IntegerRoom, r
    <3>8. Head(text) = minus /\ Canonical(Tail(text)) /\ Positional(Tail(text), 10) = -value
      BY <2>4, <3>4, <3>5, <3>6 DEF r
    <3> QED BY <3>5, <3>7, <3>8 DEF NumbersReadBack, text
  <2> QED BY <2>2, <2>6, <2>7
<1> QED BY <1>1, PTL

-----------------------------------------------------------------------------
(* UTF-8 and UTF-16 *)

Utf16 == 0..65535

\* A character is encoded by as many bytes as its first one tells, and decoded
\* from them.
LEMMA EncodedDecodes ==
  ASSUME NEW c \in Utf16
  PROVE  /\ Encoded(c) \in Seq(Nat) /\ Len(Encoded(c)) \in 1..3
         /\ Width(Encoded(c)[1]) = Len(Encoded(c))
         /\ Decoded(Encoded(c)) = c
<1>1. c \in Nat /\ c <= 65535
  BY DEF Utf16
<1>2. CASE c <= 127
  <2>1. Encoded(c) = <<c>>
    BY <1>1, <1>2 DEF Encoded
  <2>2. Width(c) = 1
    BY <1>1, <1>2 DEF Width
  <2> QED BY <1>1, <2>1, <2>2 DEF Decoded
<1>3. CASE 127 < c /\ c <= 2047
  <2> DEFINE a == 192 + ((c \div 64) % 32)
             b == Trail(c)
  <2>1. Encoded(c) = <<a, b>>
    BY <1>1, <1>3 DEF Encoded
  <2>2. a \in 192..223 /\ b \in Nat
    BY <1>1 DEF Trail
  <2>3. Width(a) = 2
    <3> HIDE DEF a
    <3> QED BY <2>2 DEF Width
  <2>4. (a % 32) * 64 + (b % 64) = c
    <3>1. a % 32 = c \div 64
      BY <1>1, <1>3
    <3>2. b % 64 = c % 64
      BY <1>1 DEF Trail
    <3> HIDE DEF a, b
    <3> QED BY <1>1, <3>1, <3>2
  <2> HIDE DEF a, b
  <2> QED BY <2>1, <2>2, <2>3, <2>4 DEF Decoded
<1>4. CASE c > 2047
  <2> DEFINE a == 224 + ((c \div 4096) % 16)
             b == Trail(c \div 64)
             d == Trail(c)
  <2>1. Encoded(c) = <<a, b, d>>
    BY <1>1, <1>4 DEF Encoded
  <2>2. a \in 224..239 /\ b \in Nat /\ d \in Nat
    BY <1>1 DEF Trail
  <2>3. Width(a) = 3
    <3> HIDE DEF a
    <3> QED BY <2>2 DEF Width
  <2>4. (a % 16) * 4096 + (b % 64) * 64 + (d % 64) = c
    <3>1. a % 16 = c \div 4096
      BY <1>1, <1>4
    <3>2. b % 64 = (c \div 64) % 64 /\ d % 64 = c % 64
      BY <1>1 DEF Trail
    <3> DEFINE q == c \div 64
               r == c % 64
    <3>3. q \in Nat /\ r \in Nat /\ c = 64 * q + r
      BY <1>1
    <3>4. c \div 4096 = q \div 64
      BY <1>1
    <3>5. a % 16 = q \div 64 /\ b % 64 = q % 64 /\ d % 64 = r
      BY <3>1, <3>2, <3>4
    <3> HIDE DEF a, b, d, q, r
    <3>6. q = 64 * (q \div 64) + (q % 64)
      BY <3>3
    <3> QED BY <3>3, <3>5, <3>6
  <2> HIDE DEF a, b, d
  <2> QED BY <2>1, <2>2, <2>3, <2>4 DEF Decoded
<1> QED BY <1>1, <1>2, <1>3, <1>4

\* The bytes of the first characters of w, for each number of them.
Encodings(g, w) ==
  /\ g \in [0..Len(w) -> Seq(Nat)] /\ g[0] = <<>>
  /\ \A i \in 1..Len(w) : g[i] = g[i - 1] \o Encoded(w[i])

\* utf16Toutf8() encodes one character after the other.
LEMMA EncodedInTurn ==
  ASSUME NEW w \in Seq(Utf16)
  PROVE  \E g : Encodings(g, w) /\ utf16Toutf8(w) = g[Len(w)]
<1> DEFINE n == Len(w)
           Is(g) == g = [i \in 0..n |-> IF i = 0 THEN <<>> ELSE g[i - 1] \o Encoded(w[i])]
           piece == [k \in Nat |-> IF k < n THEN Encoded(w[k + 1]) ELSE <<>>]
           step == [x \in Nat \X Seq(Nat) |-> x[2] \o piece[x[1]]]
<1>1. n \in Nat /\ \A i \in 1..n : w[i] \in Utf16
  OBVIOUS
<1> HIDE DEF n
<1>2. \A k \in Nat : piece[k] \in Seq(Nat)
  <2>1. TAKE k \in Nat
  <2>2. CASE k < n
    <3>1. w[k + 1] \in Utf16
      BY <1>1, <2>2
    <3> QED BY <2>2, <3>1, EncodedDecodes
  <2>3. CASE ~(k < n)
    BY <2>3
  <2> QED BY <2>2, <2>3
<1>3. \A i \in 1..n : piece[i - 1] = Encoded(w[i])
  BY <1>1
<1> HIDE DEF piece
<1>4. step \in [Nat \X Seq(Nat) -> Seq(Nat)]
  <2>1. ASSUME NEW k \in Nat, NEW s \in Seq(Nat) PROVE s \o piece[k] \in Seq(Nat)
    BY <1>2
  <2> QED BY <2>1
<1>5. \A k \in Nat, s \in Seq(Nat) : step[<<k, s>>] = s \o piece[k]
  OBVIOUS
<1> HIDE DEF step
<1>6. PICK f : Recurs(f, Seq(Nat), <<>>, step)
  <2>1. <<>> \in Seq(Nat)
    OBVIOUS
  <2> QED BY <1>4, <2>1, Recursion
<1>7. f \in [Nat -> Seq(Nat)] /\ f[0] = <<>> /\ \A k \in Nat : f[k + 1] = f[k] \o piece[k]
  BY <1>5, <1>6 DEF Recurs
<1> DEFINE g == [i \in 0..n |-> f[i]]
<1>8. g \in [0..n -> Seq(Nat)] /\ \A i \in 0..n : g[i] = f[i]
  BY <1>1, <1>7
<1> HIDE DEF g
<1>9. ASSUME NEW i \in 1..n PROVE g[i] = g[i - 1] \o Encoded(w[i])
  <2>1. i - 1 \in Nat /\ (i - 1) + 1 = i /\ i \in 0..n /\ i - 1 \in 0..n
    BY <1>1
  <2>2. f[i] = f[i - 1] \o piece[i - 1]
    BY <1>7, <2>1
  <2> QED BY <1>3, <1>8, <2>1, <2>2
<1>10. g[0] = <<>>
  BY <1>1, <1>7, <1>8
<1>11. Is(g)
  <2>1. ASSUME NEW i \in 0..n PROVE g[i] = IF i = 0 THEN <<>> ELSE g[i - 1] \o Encoded(w[i])
    <3>1. CASE i = 0
      BY <1>10, <3>1
    <3>2. CASE i # 0
      <4>1. i \in 1..n
        BY <1>1, <3>2
      <4> QED BY <1>9, <3>2, <4>1
    <3> QED BY <3>1, <3>2
  <2> QED BY <1>8, <2>1
<1> DEFINE c == CHOOSE h : Is(h)
<1>12. utf16Toutf8(w) = c[n]
  BY DEF utf16Toutf8, n
<1> HIDE DEF Is
<1>13. Is(c)
  BY <1>11
<1> HIDE DEF c
<1>14. \A i \in 0..n : c[i] = IF i = 0 THEN <<>> ELSE c[i - 1] \o Encoded(w[i])
  <2>1. c = [i \in 0..n |-> IF i = 0 THEN <<>> ELSE c[i - 1] \o Encoded(w[i])]
    BY <1>13 DEF Is
  <2> QED BY <2>1
<1> DEFINE H == {i \in Nat : i <= n => c[i] = g[i]}
<1>15. 0 \in H
  BY <1>10, <1>14, <1>1
<1>16. ASSUME NEW i \in Nat, i \in H PROVE i + 1 \in H
  <2>1. i + 1 \in Nat
    OBVIOUS
  <2>2. SUFFICES ASSUME i + 1 <= n PROVE c[i + 1] = g[i + 1]
    BY <2>1
  <2>3. i + 1 \in 1..n /\ i + 1 \in 0..n /\ (i + 1) - 1 = i /\ i + 1 # 0
    BY <1>1, <2>2
  <2>4. c[i + 1] = c[i] \o Encoded(w[i + 1])
    BY <1>14, <2>3
  <2>5. g[i + 1] = g[i] \o Encoded(w[i + 1])
    BY <1>9, <2>3
  <2>6. c[i] = g[i]
    BY <1>16, <2>2, <1>1
  <2> QED BY <2>4, <2>5, <2>6
<1> HIDE DEF H
<1>17. Nat \subseteq H
  BY <1>15, <1>16, Counting
<1>18. utf16Toutf8(w) = g[n]
  BY <1>1, <1>12, <1>17 DEF H
<1>19. Encodings(g, w)
  BY <1>8, <1>9, <1>10 DEF Encodings, n
<1> QED BY <1>18, <1>19 DEF n

\* What utf8Toutf16() makes of s from byte i on, with F from later bytes on.
Decoding(s, F, i) ==
  IF i > Len(s) THEN <<>>
  ELSE LET width == Width(s[i]) IN
       IF width = 0 \/ i + width > Len(s) + 1 THEN Failed
       ELSE IF F[i + width] = Failed THEN Failed
       ELSE <<Decoded(SubSeq(s, i, i + width - 1))>> \o F[i + width]

\* It is a sequence of numbers.
LEMMA DecodingTyped ==
  ASSUME NEW s \in Seq(Nat), NEW F \in [1..(Len(s) + 1) -> Seq(Int)], NEW i \in 1..(Len(s) + 1)
  PROVE  Decoding(s, F, i) \in Seq(Int)
<1>1. CASE i > Len(s)
  BY <1>1 DEF Decoding
<1>2. CASE ~(i > Len(s))
  <2> DEFINE width == Width(s[i])
             b == SubSeq(s, i, i + width - 1)
  <2>1. width \in {0, 1, 2, 3}
    BY DEF Width
  <2> HIDE DEF width
  <2>2. CASE width = 0 \/ i + width > Len(s) + 1
    <3>1. Decoding(s, F, i) = Failed
      BY <1>2, <2>2 DEF Decoding, width
    <3> QED BY <3>1 DEF Failed
  <2>3. CASE ~(width = 0 \/ i + width > Len(s) + 1)
    <3>1. i + width \in 1..(Len(s) + 1) /\ width \in 1..3 /\ i + width - 1 \in Int
      BY <2>1, <2>3
    <3>2. \A j \in i..(i + width - 1) : s[j] \in Nat
      BY <3>1
    <3>3. /\ b \in Seq(Nat) /\ Len(b) = (IF i <= i + width - 1 THEN i + width - 1 - i + 1 ELSE 0)
      BY <3>1, <3>2, SubSeqProperties
    <3>4. Len(b) = width
      BY <3>1, <3>3
    <3> HIDE DEF b
    <3>5. Decoded(b) \in Int
      <4>1. \A j \in 1..width : b[j] \in Nat
        BY <3>3, <3>4
      <4>2. CASE width = 1
        BY <3>4, <4>1, <4>2 DEF Decoded
      <4>3. CASE width = 2
        <5>1. b[1] \in Nat /\ b[2] \in Nat
          BY <4>1, <4>3
        <5> QED BY <3>4, <4>3, <5>1 DEF Decoded
      <4>4. CASE width = 3
        <5>1. b[1] \in Nat /\ b[2] \in Nat /\ b[3] \in Nat
          BY <4>1, <4>4
        <5> QED BY <3>4, <4>4, <5>1 DEF Decoded
      <4> QED BY <3>1, <4>2, <4>3, <4>4
    <3>6. F[i + width] \in Seq(Int)
      BY <3>1
    <3>7. Decoding(s, F, i) =
            IF F[i + width] = Failed THEN Failed ELSE <<Decoded(b)>> \o F[i + width]
      BY <1>2, <2>3 DEF Decoding, width, b
    <3> QED BY <3>5, <3>6, <3>7 DEF Failed
  <2> QED BY <2>2, <2>3
<1> QED BY <1>1, <1>2

\* There is such an F.
LEMMA DecodingExists ==
  ASSUME NEW s \in Seq(Nat)
  PROVE  \E F : F = [i \in 1..(Len(s) + 1) |-> Decoding(s, F, i)]
<1> DEFINE m == Len(s) + 1
           S == [1..m -> Seq(Int)]
           more(f) == [i \in 1..m |-> Decoding(s, f, i)]
           none == [i \in 1..m |-> <<>>]
           step == [x \in Nat \X S |-> more(x[2])]
<1>1. ASSUME NEW f \in S PROVE more(f) \in S
  BY DecodingTyped
<1>2. none \in S
  OBVIOUS
<1>3. m \in Nat /\ m >= 1 /\ Len(s) = m - 1
  OBVIOUS
<1>4. ASSUME NEW k \in Nat, NEW f \in S PROVE step[<<k, f>>] = more(f)
  OBVIOUS
<1>5. step \in [Nat \X S -> S]
  <2> HIDE DEF S, more
  <2> QED BY <1>1
<1>6. \A f : \A i \in 1..m : more(f)[i] = Decoding(s, f, i)
  OBVIOUS
<1> HIDE DEF m, S, more, none, step
<1>7. PICK F : Recurs(F, S, none, step)
  BY <1>2, <1>5, Recursion
<1>8. ASSUME NEW k \in Nat PROVE F[k] \in S /\ F[k + 1] = more(F[k])
  BY <1>4, <1>7 DEF Recurs
<1> DEFINE G == {k \in Nat : \A i \in 1..m : m - i < k => F[k + 1][i] = F[k][i]}
<1>9. 0 \in G
  BY <1>3
<1>10. ASSUME NEW k \in Nat, k \in G PROVE k + 1 \in G
  <2>1. k + 1 \in Nat
    OBVIOUS
  <2>2. SUFFICES ASSUME NEW i \in 1..m, m - i < k + 1 PROVE F[(k + 1) + 1][i] = F[k + 1][i]
    BY <2>1
  <2>3. F[(k + 1) + 1][i] = Decoding(s, F[k + 1], i) /\ F[k + 1][i] = Decoding(s, F[k], i)
    BY <1>6, <1>8, <2>1
  <2>4. ASSUME NEW width \in 1..3, i + width <= m PROVE F[k + 1][i + width] = F[k][i + width]
    <3>1. i + width \in 1..m /\ m - (i + width) < k
      BY <1>3, <2>2, <2>4
    <3> QED BY <1>10, <3>1
  <2>5. Width(s[i]) \in {0, 1, 2, 3}
    BY DEF Width
  <2>6. \/ Width(s[i]) = 0 \/ i + Width(s[i]) > Len(s) + 1
        \/ F[k + 1][i + Width(s[i])] = F[k][i + Width(s[i])]
    <3> DEFINE width == Width(s[i])
    <3>1. width = 0 \/ width \in 1..3
      BY <2>5
    <3> HIDE DEF width
    <3>2. width \in 1..3 /\ ~(i + width > Len(s) + 1) => F[k + 1][i + width] = F[k][i + width]
      <4>1. SUFFICES ASSUME width \in 1..3, ~(i + width > Len(s) + 1)
                     PROVE  F[k + 1][i + width] = F[k][i + width]
        OBVIOUS
      <4>2. i + width <= m
        BY <1>3, <4>1
      <4> QED BY <2>4, <4>1, <4>2
    <3> QED BY <3>1, <3>2 DEF width
  <2>7. Decoding(s, F[k + 1], i) = Decoding(s, F[k], i)
    BY <2>6 DEF Decoding
  <2> QED BY <2>3, <2>7
<1> HIDE DEF G
<1>11. Nat \subseteq G
  BY <1>9, <1>10, Counting
<1>12. \A i \in 1..m : F[m + 1][i] = F[m][i]
  <2>1. \A i \in 1..m : m - i < m
    BY <1>3
  <2> QED BY <1>3, <1>11, <2>1 DEF G
<1>13. F[m] \in S /\ F[m + 1] = more(F[m]) /\ F[m] = [i \in 1..m |-> F[m][i]]
  BY <1>3, <1>8 DEF S
<1>14. \A i \in 1..m : F[m][i] = Decoding(s, F[m], i)
  BY <1>6, <1>12, <1>13
<1>15. F[m] = [i \in 1..m |-> Decoding(s, F[m], i)]
  BY <1>13, <1>14
<1> QED BY <1>15 DEF m

\* utf8Toutf16() is made of what Decoding() says.
LEMMA DecodedInTurn ==
  ASSUME NEW s \in Seq(Nat)
  PROVE  \E F : /\ \A i \in 1..(Len(s) + 1) : F[i] = Decoding(s, F, i)
                /\ utf8Toutf16(s) = IF F[1] = Failed THEN <<>> ELSE F[1]
<1> DEFINE Is(F) == F = [i \in 1..(Len(s) + 1) |-> Decoding(s, F, i)]
           From == CHOOSE F : Is(F)
<1>1. utf8Toutf16(s) = IF From[1] = Failed THEN <<>> ELSE From[1]
  BY DEF utf8Toutf16, Decoding
<1>2. \E F : Is(F)
  BY DecodingExists
<1> HIDE DEF Is
<1>3. Is(From)
  BY <1>2
<1> HIDE DEF From
<1>4. \A i \in 1..(Len(s) + 1) : From[i] = Decoding(s, From, i)
  <2>1. From = [i \in 1..(Len(s) + 1) |-> Decoding(s, From, i)]
    BY <1>3 DEF Is
  <2> QED BY <2>1
<1> QED BY <1>1, <1>4

\* One character more is decoded in front of what the rest of the bytes make.
LEMMA OneMoreDecoded ==
  ASSUME NEW s \in Seq(Nat), NEW F, NEW h \in Nat, NEW e \in Seq(Nat),
         Len(e) \in 1..3, Width(e[1]) = Len(e), h + Len(e) <= Len(s),
         \A k \in 1..Len(e) : s[h + k] = e[k],
         F[h + Len(e) + 1] # Failed
  PROVE  Decoding(s, F, h + 1) = <<Decoded(e)>> \o F[h + Len(e) + 1]
<1> DEFINE l == Len(e)
           p == h + 1
           r == F[h + l + 1]
           c == Decoded(e)
           b == SubSeq(s, p, p + l - 1)
<1>0. /\ l \in 1..3 /\ Len(e) = l /\ Width(e[1]) = l /\ h + l <= Len(s)
      /\ \A k \in 1..l : s[h + k] = e[k]
      /\ F[h + l + 1] = r /\ r # Failed /\ Decoded(e) = c
  OBVIOUS
<1> HIDE DEF l, r, c
<1>1. /\ p \in Int /\ p + l - 1 \in Int /\ Len(s) \in Nat
      /\ \A j \in p..(p + l - 1) : s[j] \in Nat
  BY <1>0
<1>2. /\ p \in 1..Len(s) /\ ~(p > Len(s)) /\ p + l = h + l + 1 /\ ~(p + l > Len(s) + 1)
      /\ p + l - 1 - p + 1 = l /\ p <= p + l - 1 /\ 1 \in 1..l /\ l # 0
      /\ \A j \in 1..l : p + j - 1 = h + j
  BY <1>0
<1>3. s[p] = e[1]
  BY <1>0, <1>2
<1> HIDE DEF p
<1>4. /\ b \in Seq(Nat) /\ Len(b) = (IF p <= p + l - 1 THEN p + l - 1 - p + 1 ELSE 0)
      /\ \A j \in 1..(p + l - 1 - p + 1) : b[j] = s[p + j - 1]
  BY <1>0, <1>1, SubSeqProperties
<1>5. b \in Seq(Nat) /\ Len(b) = l /\ \A j \in 1..l : b[j] = s[h + j]
  BY <1>2, <1>4
<1> HIDE DEF b
<1>6. b = e
  <2>1. \A j \in 1..Len(b) : b[j] = e[j]
    BY <1>0, <1>5
  <2> QED BY <1>0, <1>5, <2>1, SeqEqual
<1>7. Decoded(SubSeq(s, p, p + l - 1)) = c
  BY <1>0, <1>6 DEF b
<1>8. Width(s[p]) = l
  BY <1>0, <1>3
<1>9. F[p + l] = r
  BY <1>0, <1>2
<1>10. Decoding(s, F, p) = <<c>> \o r
  BY <1>0, <1>2, <1>7, <1>8, <1>9 DEF Decoding
<1> QED BY <1>10 DEF p, l, r, c

\* The characters of w behind the first i.
Behind(w, i) == [k \in 1..(Len(w) - i) |-> w[i + k]]

\* They are a string too, not the one that stands for a failure.
LEMMA BehindIs ==
  ASSUME NEW w \in Seq(Utf16), NEW i \in 0..Len(w)
  PROVE  /\ Behind(w, i) \in Seq(Utf16) /\ Len(Behind(w, i)) = Len(w) - i
         /\ \A k \in 1..(Len(w) - i) : Behind(w, i)[k] = w[i + k]
         /\ Behind(w, i) # Failed
<1> DEFINE r == Behind(w, i)
           n == Len(w)
<1>1. n \in Nat /\ \A k \in 1..n : w[k] \in Utf16
  OBVIOUS
<1>2. r = [k \in 1..(n - i) |-> w[i + k]]
  BY DEF Behind
<1> HIDE DEF r, n
<1>3. n - i \in Nat /\ \A k \in 1..(n - i) : i + k \in 1..n
  BY <1>1 DEF n
<1>4. r \in Seq(Utf16) /\ Len(r) = n - i
  BY <1>1, <1>2, <1>3
<1>5. \A k \in 1..(n - i) : r[k] = w[i + k]
  BY <1>2
<1>6. r # Failed
  <2>1. SUFFICES ASSUME r = Failed PROVE FALSE
    OBVIOUS
  <2>2. Len(r) = 1 /\ r[1] = -1
    BY <2>1 DEF Failed
  <2>3. r[1] \in Utf16
    <3>1. 1 \in 1..Len(r)
      BY <2>2
    <3> QED BY <1>4, <3>1, ElementOfSeq
  <2> QED BY <2>2, <2>3 DEF Utf16
<1> QED BY <1>4, <1>5, <1>6 DEF r, n

\* One of them more.
LEMMA BehindMore ==
  ASSUME NEW w \in Seq(Utf16), NEW i \in 1..Len(w)
  PROVE  <<w[i]>> \o Behind(w, i) = Behind(w, i - 1)
<1> DEFINE n == Len(w)
           c == w[i]
           r == Behind(w, i)
           q == Behind(w, i - 1)
           d == <<c>> \o r
<1>1. n \in Nat /\ i - 1 \in 0..n /\ i \in 0..n /\ n - (i - 1) = (n - i) + 1 /\ c \in Utf16
      /\ n - i \in Nat
  OBVIOUS
<1>2. r \in Seq(Utf16) /\ Len(r) = n - i /\ \A k \in 1..(n - i) : r[k] = w[i + k]
  BY <1>1, BehindIs
<1>3. q \in Seq(Utf16) /\ Len(q) = (n - i) + 1 /\ \A k \in 1..((n - i) + 1) : q[k] = w[(i - 1) + k]
  BY <1>1, BehindIs
<1> HIDE DEF r, q
<1>4. /\ d \in Seq(Utf16) /\ Len(d) = (n - i) + 1
      /\ \A k \in 1..((n - i) + 1) : d[k] = IF k = 1 THEN c ELSE r[k - 1]
  <2> HIDE DEF n, c
  <2> QED BY <1>1, <1>2
<1> HIDE DEF d
<1>5. ASSUME NEW k \in 1..((n - i) + 1) PROVE d[k] = q[k]
  <2>1. CASE k = 1
    BY <1>1, <1>3, <1>4, <2>1
  <2>2. CASE k # 1
    <3>1. k - 1 \in 1..(n - i) /\ i + (k - 1) = (i - 1) + k
      BY <1>1, <2>2
    <3> QED BY <1>2, <1>3, <1>4, <2>2, <3>1
  <2> QED BY <2>1, <2>2
<1>6. d = q
  BY <1>3, <1>4, <1>5, SeqEqual
<1> QED BY <1>6 DEF d, r, q

\* From the byte behind those of the first i characters on, with g and F as
\* above, the bytes s of w are decoded to the other characters of w.
DecodedBehind(s, w, g, F, i) ==
  /\ Len(g[i]) <= Len(s)
  /\ \A k \in 1..Len(g[i]) : s[k] = g[i][k]
  /\ F[Len(g[i]) + 1] = Behind(w, i)

\* Every string of characters of 16 bits goes to UTF-8 and back.
THEOREM UtfRoundTrip == \A w \in Seq(Utf16) : utf8Toutf16(utf16Toutf8(w)) = w
<1> SUFFICES ASSUME NEW w \in Seq(Utf16) PROVE utf8Toutf16(utf16Toutf8(w)) = w
  OBVIOUS
<1> DEFINE n == Len(w)
<1>1. n \in Nat /\ \A i \in 1..n : w[i] \in Utf16
  OBVIOUS
<1>2. PICK g : Encodings(g, w) /\ utf16Toutf8(w) = g[n]
  BY EncodedInTurn
<1> DEFINE s == g[n]
<1>3. \A i \in 0..n : g[i] \in Seq(Nat)
  BY <1>2 DEF Encodings
<1>4. s \in Seq(Nat)
  BY <1>1, <1>3
<1>5. PICK F : /\ \A i \in 1..(Len(s) + 1) : F[i] = Decoding(s, F, i)
               /\ utf8Toutf16(s) = IF F[1] = Failed THEN <<>> ELSE F[1]
  BY <1>4, DecodedInTurn
<1> DEFINE Back(i) == DecodedBehind(s, w, g, F, i)
<1>6. Back(n)
  <2>1. s = g[n] /\ Len(s) \in Nat
    BY <1>4
  <2> HIDE DEF s
  <2>2. F[Len(s) + 1] = <<>>
    <3>1. Len(s) + 1 \in 1..(Len(s) + 1) /\ Len(s) + 1 > Len(s)
      BY <2>1
    <3> QED BY <1>5, <3>1 DEF Decoding
  <2>3. Behind(w, n) = <<>>
    <3>1. n \in 0..n /\ n - n = 0
      BY <1>1
    <3>2. Behind(w, n) \in Seq(Utf16) /\ Len(Behind(w, n)) = 0
      BY <3>1, BehindIs
    <3> QED BY <3>2
  <2> QED BY <2>1, <2>2, <2>3 DEF DecodedBehind
<1>7. ASSUME NEW i \in 1..n, Back(i) PROVE Back(i - 1)
  <2> DEFINE a == g[i - 1]
             b == g[i]
             c == w[i]
             e == Encoded(c)
             l == Len(e)
             h == Len(a)
             r == Behind(w, i)
  <2>1. i \in 0..n /\ i - 1 \in 0..n
    BY <1>1
  <2>2. c \in Utf16 /\ e \in Seq(Nat) /\ l \in 1..3 /\ Width(e[1]) = l /\ Decoded(e) = c
    BY <1>1, EncodedDecodes
  <2>3. b = a \o e
    BY <1>2 DEF Encodings
  <2>4. a \in Seq(Nat) /\ b \in Seq(Nat)
    BY <1>3, <2>1
  <2>5. r # Failed
    BY <2>1, BehindIs
  <2>6. <<c>> \o r = Behind(w, i - 1)
    BY BehindMore
  <2>7. Len(b) <= Len(s) /\ (\A k \in 1..Len(b) : s[k] = b[k]) /\ F[Len(b) + 1] = r
    BY <1>7 DEF DecodedBehind
  <2>8. Len(s) \in Nat
    BY <1>4
  <2>9. l = Len(e) /\ h = Len(a)
    OBVIOUS
  <2> HIDE DEF a, b, c, e, l, h, r, s
  <2>10. /\ h \in Nat /\ Len(b) = h + l
         /\ \A k \in 1..h : b[k] = a[k]
         /\ \A k \in 1..l : b[h + k] = e[k]
    BY <2>2, <2>3, <2>4, <2>9
  <2>11. /\ \A k \in 1..h : k \in 1..Len(b)
         /\ \A k \in 1..l : h + k \in 1..Len(b)
         /\ h <= Len(s) /\ h + l <= Len(s) /\ h + 1 \in 1..(Len(s) + 1)
    BY <2>2, <2>7, <2>8, <2>10
  <2>12. \A k \in 1..h : s[k] = a[k]
    BY <2>7, <2>10, <2>11
  <2>13. \A k \in 1..l : s[h + k] = e[k]
    BY <2>7, <2>10, <2>11
  <2>14. F[h + 1] = Decoding(s, F, h + 1)
    BY <1>5, <2>11
  <2>15. F[h + l + 1] = r
    BY <2>7, <2>10
  <2>16. F[h + 1] = <<c>> \o r
    <3>1. /\ Len(e) \in 1..3 /\ Width(e[1]) = Len(e) /\ h + Len(e) <= Len(s)
          /\ \A k \in 1..Len(e) : s[h + k] = e[k]
          /\ F[h + Len(e) + 1] = r
      BY <2>2, <2>9, <2>11, <2>13, <2>15
    <3>2. F[h + Len(e) + 1] # Failed
      BY <2>5, <3>1
    <3>3. Decoding(s, F, h + 1) = <<Decoded(e)>> \o F[h + Len(e) + 1]
      BY <1>4, <2>2, <2>10, <3>1, <3>2, OneMoreDecoded
    <3> QED BY <2>2, <2>14, <3>1, <3>3
  <2> QED BY <2>6, <2>9, <2>11, <2>12, <2>16 DEF DecodedBehind, a
<1> HIDE DEF Back
<1> DEFINE G == {j \in Nat : j <= n => Back(n - j)}
<1>8. 0 \in G
  <2>1. n - 0 = n
    BY <1>1
  <2> QED BY <1>6, <2>1
<1>9. ASSUME NEW j \in Nat, j \in G PROVE j + 1 \in G
  <2>1. j + 1 \in Nat
    OBVIOUS
  <2>2. SUFFICES ASSUME j + 1 <= n PROVE Back(n - (j + 1))
    BY <2>1
  <2>3. n - j \in 1..n /\ (n - j) - 1 = n - (j + 1)
    BY <1>1, <2>2
  <2>4. Back(n - j)
    BY <1>1, <1>9, <2>2
  <2> QED BY <1>7, <2>3, <2>4
<1> HIDE DEF G
<1>10. Back(0)
  <2>1. n \in G
    BY <1>1, <1>8, <1>9, Counting
  <2>2. n - n = 0 /\ n <= n
    BY <1>1
  <2> QED BY <2>1, <2>2 DEF G
<1>11. Len(g[0]) + 1 = 1
  BY <1>2 DEF Encodings
<1>12. Behind(w, 0) = w /\ Behind(w, 0) # Failed
  <2>1. 0 \in 0..n /\ n - 0 = n /\ \A k \in 1..n : 0 + k = k
    BY <1>1
  <2>2. /\ Behind(w, 0) \in Seq(Utf16) /\ Len(Behind(w, 0)) = n /\ Behind(w, 0) # Failed
        /\ \A k \in 1..n : Behind(w, 0)[k] = w[k]
    BY <2>1, BehindIs
  <2> QED BY <2>2, SeqEqual
<1>13. F[1] = w /\ w # Failed
  BY <1>10, <1>11, <1>12 DEF Back, DecodedBehind
<1> QED BY <1>2, <1>5, <1>13

\* A character of 16 bits does, alone, before another and behind another.
THEOREM CharactersComeBack == [](character \in Utf16) => []Utf16RoundTrip
<1>1. character \in Utf16 => Utf16RoundTrip
  <2> DEFINE a == character
             S == {<<a>>, <<a, 127>>, <<2048, a>>}
  <2>1. SUFFICES ASSUME a \in Utf16 PROVE Utf16RoundTrip
    OBVIOUS
  <2>2. 127 \in Utf16 /\ 2048 \in Utf16
    BY DEF Utf16
  <2> HIDE DEF a
  <2>3. <<a>> \in Seq(Utf16) /\ <<a, 127>> \in Seq(Utf16) /\ <<2048, a>> \in Seq(Utf16)
    BY <2>1, <2>2
  <2>4. S \subseteq Seq(Utf16)
    BY <2>3
  <2> HIDE DEF S
  <2>5. \A w \in S : utf8Toutf16(utf16Toutf8(w)) = w
    BY <2>4, UtfRoundTrip
  <2> QED BY <2>5 DEF Utf16RoundTrip, S, a
<1> QED BY <1>1, PTL

-----------------------------------------------------------------------------
(* The stream *)

USE SizeAssumption, TextsAssumption, NumbersAssumption

\* A piece goes to the buffer only where it leaves a character free, and what
\* goes to the string is text: one step keeps the type.
LEMMA StepKeepsType == TypeOK /\ [Next]_vars => TypeOK'
<1> SUFFICES ASSUME TypeOK, [Next]_vars PROVE TypeOK'
    OBVIOUS
<1>0. Contents \in Seq(Chars)
    BY DEF TypeOK, Contents
<1>1. ASSUME NEW s \in Texts, AppendText(s) PROVE TypeOK'
  <2>1. s \in Seq(Chars)
      OBVIOUS
  <2>2. CASE ToBuffer(s) /\ avail > Len(s)
      BY <2>1, <2>2 DEF TypeOK, ToBuffer, avail
  <2>3. CASE Overflow(s)
      BY <1>0, <2>1, <2>3 DEF TypeOK, Overflow
  <2> QED
      BY <1>1, <2>2, <2>3 DEF AppendText
<1>2. ASSUME NEW n \in Numbers, AppendNumber(n) PROVE TypeOK'
  <2>1. n.text \in Seq(Chars) /\ n.room \in Nat /\ Len(n.text) < n.room
      OBVIOUS
  <2>2. CASE ToBuffer(n.text) /\ avail >= n.room
      BY <2>1, <2>2 DEF TypeOK, ToBuffer, avail
  <2>3. CASE Overflow(n.text)
      BY <1>0, <2>1, <2>3 DEF TypeOK, Overflow
  <2> QED
      BY <1>2, <2>2, <2>3 DEF AppendNumber
<1>3. CASE ResetBuffer
    BY <1>3 DEF ResetBuffer, TypeOK
<1>4. CASE UNCHANGED vars
    BY <1>4 DEF vars, TypeOK
<1> QED
    BY <1>1, <1>2, <1>3, <1>4 DEF Next

\* buffer_ always keeps a character for the '\0', however text and numbers
\* of any room are mixed.
THEOREM TypeCorrect == Spec => []TypeOK
<1>1. Init => TypeOK
    BY DEF Init, TypeOK
<1> QED
    BY <1>1, StepKeepsType, PTL DEF Spec

\* Both ways of taking a piece put it behind what bufferData() showed: the
\* buffer while the string is empty, and the string, never empty again before
\* resetBuffer(), from the piece that did not fit.
LEMMA PieceGoesBehind ==
  ASSUME TypeOK, NEW s \in Seq(Chars),
         \/ exBuffer_ = <<>> /\ ToBuffer(s)
         \/ Overflow(s) /\ (s # <<>> \/ Contents # <<>>)
  PROVE  Contents' = Contents \o s
<1>0. Contents \in Seq(Chars) /\ buffer_ \in Seq(Chars)
    BY DEF TypeOK, Contents
<1>1. CASE exBuffer_ = <<>> /\ ToBuffer(s)
    BY <1>1 DEF Contents, ToBuffer
<1>2. CASE Overflow(s) /\ (s # <<>> \/ Contents # <<>>)
  <2>1. Len(Contents \o s) > 0
      BY <1>0, <1>2
  <2>2. exBuffer_' # <<>>
      BY <2>1, <1>2, <1>0 DEF Overflow
  <2> QED
      BY <2>2, <1>2 DEF Overflow, Contents
<1> QED
    BY <1>1, <1>2

\* A piece that overflows the buffer makes the string non-empty.
LEMMA OverflowIsSeen ==
  ASSUME TypeOK, NEW s \in Seq(Chars), exBuffer_ # <<>> \/ avail <= Len(s)
  PROVE  s # <<>> \/ Contents # <<>>
<1>1. CASE exBuffer_ # <<>>
    BY <1>1 DEF Contents
<1>2. CASE avail <= Len(s) /\ s = <<>>
    BY <1>2 DEF avail, TypeOK
<1> QED
    BY <1>1, <1>2

\* The stream implements the byte queue: bufferData() is what was streamed.
THEOREM ByteQueueImplemented == Spec => ImplementsByteQueue
<1> DEFINE Step ==
      /\ \A s \in Texts : AppendText(s) => Text!PutBack(s)
      /\ \A n \in Numbers : AppendNumber(n) => Text!PutBack(n.text)
      /\ ResetBuffer => Text!Consume(Len(Contents))
<1>1. TypeOK => Step
  <2> SUFFICES ASSUME TypeOK PROVE Step
      OBVIOUS
  <2>1. ASSUME NEW s \in Texts, AppendText(s) PROVE Text!PutBack(s)
    <3>1. s \in Seq(Chars)
        OBVIOUS
    <3>2. CASE exBuffer_ = <<>> /\ avail > Len(s) /\ ToBuffer(s)
        BY <3>1, <3>2, PieceGoesBehind DEF Text!PutBack
    <3>3. CASE Overflow(s) /\ (exBuffer_ # <<>> \/ avail <= Len(s))
      <4>1. s # <<>> \/ Contents # <<>>
          BY <3>1, <3>3, OverflowIsSeen
      <4> QED
          BY <3>1, <3>3, <4>1, PieceGoesBehind DEF Text!PutBack
    <3>4. avail \in Int /\ Len(s) \in Nat
        BY <3>1 DEF avail, TypeOK
    <3> QED
        BY <2>1, <3>2, <3>3, <3>4 DEF AppendText
  <2>2. ASSUME NEW n \in Numbers, AppendNumber(n) PROVE Text!PutBack(n.text)
    <3>1. n.text \in Seq(Chars) /\ n.text # <<>>
        OBVIOUS
    <3>2. (exBuffer_ = <<>> /\ ToBuffer(n.text)) \/ Overflow(n.text)
        BY <2>2 DEF AppendNumber
    <3> QED
        BY <3>1, <3>2, PieceGoesBehind DEF Text!PutBack
  <2>3. ASSUME ResetBuffer PROVE Text!Consume(Len(Contents))
    <3>1. Contents' = <<>>
        BY <2>3 DEF ResetBuffer, Contents
    <3>2. Contents \in Seq(Chars)
        BY DEF TypeOK, Contents
    <3>3. SubSeq(Contents, Len(Contents) + 1, Len(Contents)) = <<>>
        BY <3>2
    <3> QED
        BY <3>1, <3>3 DEF Text!Consume
  <2> QED
      BY <2>1, <2>2, <2>3
<1> QED
    BY <1>1, TypeCorrect, PTL DEF ImplementsByteQueue
=============================================================================
