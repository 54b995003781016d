-------------------------- MODULE ByteToolsProofs --------------------------
(* What the recursive definitions compute, for sequences of any length: the *)
(* induction they need is over a set of numbers that holds 0 and, with each *)
(* number, the next, so that no operator is a parameter.                    *)
EXTENDS ByteTools, SequenceTheorems, WellFoundedInduction, TLAPS

EqualOn(f, g, D) == \A x \in D : f[x] = g[x]

LEMMA SameFunction ==
  ASSUME NEW D, NEW R, NEW f \in [D -> R], NEW g \in [D -> R], EqualOn(f, g, D)
  PROVE  f = g
BY DEF EqualOn

----------------------------------------------------------------------------
(* Induction and recursion.                                                 *)

NatLess == {ss \in Nat \X Nat : ss[1] < ss[2]}

LEMMA Least ==
  ASSUME NEW T \in SUBSET Nat, T # {}
  PROVE  \E x \in T : \A y \in T : x <= y
<1>1. IsWellFoundedOn(NatLess, Nat)
  BY NatLessThanWellFounded, Zenon DEF OpToRel, NatLess
<1>2. PICK x \in T : \A y \in T : <<y, x>> \notin NatLess
  BY <1>1, WFMin
<1>3. \A y \in T : <<y, x>> \in NatLess <=> y < x
  BY DEF NatLess
<1>4. \A y \in T : y \in Nat
  OBVIOUS
<1>5. \A y \in T : ~(y < x)
  BY <1>2, <1>3, Zenon
<1> QED
  BY <1>4, <1>5

\* A set that holds 0 and the successor of each of its numbers holds them all.
LEMMA Induction ==
  ASSUME NEW T, 0 \in T, \A n \in Nat : n \in T => n + 1 \in T
  PROVE  \A n \in Nat : n \in T
<1> SUFFICES ASSUME Nat \ T # {} PROVE FALSE
  OBVIOUS
<1>1. PICK x \in Nat \ T : \A y \in Nat \ T : x <= y
  BY Least
<1>2. x # 0 /\ x - 1 \in Nat /\ x = (x - 1) + 1
  BY <1>1
<1>3. x - 1 \in T
  BY <1>1, <1>2
<1> QED
  BY <1>1, <1>2, <1>3

\* f starts at base and goes on by step.  (With a name of its own the formula
\* is matched as a whole where a lemma about it is cited.)
StepsFrom(f, S, base, k, step) ==
  /\ f \in [0 .. k -> S]
  /\ f[0] = base
  /\ \A i \in 1 .. k : f[i] = step[<<i, f[i - 1]>>]

\* There is a function with a given first value and a given step.
LEMMA Recursion ==
  ASSUME NEW S, NEW base \in S, NEW k \in Nat, NEW step \in [(1 .. k) \X S -> S]
  PROVE  \E f : StepsFrom(f, S, base, k, step)
<1> DEFINE Good(n, f) == f[0] = base /\ \A i \in 1 .. n : f[i] = step[<<i, f[i - 1]>>]
           T == {n \in Nat : n <= k => \E f \in [0 .. n -> S] : Good(n, f)}
<1>1. 0 \in T
  <2>1. [i \in 0 .. 0 |-> base] \in [0 .. 0 -> S] /\ Good(0, [i \in 0 .. 0 |-> base])
    OBVIOUS
  <2> QED
    BY <2>1
<1>2. \A n \in Nat : n \in T => n + 1 \in T
  <2> SUFFICES ASSUME NEW n \in Nat, n \in T PROVE n + 1 \in T
    OBVIOUS
  <2> SUFFICES ASSUME n + 1 <= k PROVE \E f \in [0 .. n + 1 -> S] : Good(n + 1, f)
    OBVIOUS
  <2>1. PICK f \in [0 .. n -> S] : Good(n, f)
    OBVIOUS
  <2> DEFINE g == [i \in 0 .. n + 1 |-> IF i = n + 1 THEN step[<<n + 1, f[n]>>] ELSE f[i]]
  <2>2. f[n] \in S /\ step[<<n + 1, f[n]>>] \in S
    OBVIOUS
  <2>3. g \in [0 .. n + 1 -> S]
    BY <2>2
  <2>4. g[0] = base /\ \A i \in 1 .. n : g[i] = step[<<i, g[i - 1]>>]
    <3>1. \A i \in 0 .. n : g[i] = f[i]
      OBVIOUS
    <3>2. \A i \in 1 .. n : i \in 0 .. n /\ i - 1 \in 0 .. n
      OBVIOUS
    <3> HIDE DEF g
    <3> QED
      BY <2>1, <3>1, <3>2
  <2>5. g[n + 1] = step[<<n + 1, g[n]>>]
    <3>1. g[n] = f[n] /\ g[n + 1] = step[<<n + 1, f[n]>>]
      OBVIOUS
    <3> HIDE DEF g
    <3> QED
      BY <3>1
  <2> HIDE DEF g
  <2>6. \A i \in 1 .. n + 1 : i = n + 1 \/ i \in 1 .. n
    OBVIOUS
  <2>7. (n + 1) - 1 = n
    OBVIOUS
  <2>8. Good(n + 1, g)
    BY <2>4, <2>5, <2>6, <2>7
  <2> QED
    BY <2>3, <2>8
<1> HIDE DEF T
<1>3. k \in T
  BY <1>1, <1>2, Induction
<1>4. \E f \in [0 .. k -> S] : Good(k, f)
  BY <1>3 DEF T
<1> QED
  BY <1>4 DEF StepsFrom

\* Functions that start alike and go on alike are alike.
GoAlike(f, g, k) == f[0] = g[0] /\ \A i \in 1 .. k : f[i - 1] = g[i - 1] => f[i] = g[i]
Alike(f, g, k)   == \A i \in 0 .. k : f[i] = g[i]

LEMMA Agree ==
  ASSUME NEW k \in Nat, NEW f, NEW g, GoAlike(f, g, k)
  PROVE  Alike(f, g, k)
<1> USE DEF GoAlike
<1> DEFINE T == {i \in Nat : i <= k => f[i] = g[i]}
<1>1. 0 \in T
  OBVIOUS
<1>2. \A n \in Nat : n \in T => n + 1 \in T
  <2> SUFFICES ASSUME NEW n \in Nat, n \in T, n + 1 <= k PROVE f[n + 1] = g[n + 1]
    OBVIOUS
  <2>1. n + 1 \in 1 .. k /\ (n + 1) - 1 = n /\ f[n] = g[n]
    OBVIOUS
  <2> QED
    BY <2>1
<1> HIDE DEF T
<1>3. \A n \in Nat : n \in T
  BY <1>1, <1>2, Induction
<1> QED
  BY <1>3 DEF T, Alike

----------------------------------------------------------------------------
(* What the recursive definitions of the model satisfy.                     *)

\* SumTo adds one element after the other.
LEMMA SumSteps ==
  ASSUME NEW s \in Seq(Nat)
  PROVE  /\ SumTo(s, 0) = 0
         /\ \A k \in 0 .. Len(s) : SumTo(s, k) \in Nat
         /\ \A k \in 1 .. Len(s) : SumTo(s, k) = SumTo(s, k - 1) + s[k]
<1> DEFINE n == Len(s)
           P(f) == f = [i \in 0 .. n |-> IF i = 0 THEN 0 ELSE f[i - 1] + s[i]]
           sum == CHOOSE f : P(f)
           step == [ix \in (1 .. n) \X Nat |-> ix[2] + s[ix[1]]]
<1>1. n \in Nat /\ \A i \in 1 .. n : s[i] \in Nat
  OBVIOUS
<1>2. step \in [(1 .. n) \X Nat -> Nat]
  BY <1>1
<1>3. PICK f \in [0 .. n -> Nat] : f[0] = 0 /\ \A i \in 1 .. n : f[i] = step[<<i, f[i - 1]>>]
  <2> HIDE DEF step, n
  <2>1. \E f : StepsFrom(f, Nat, 0, n, step)
    BY <1>1, <1>2, Recursion
  <2> QED
    BY <2>1 DEF StepsFrom
<1>4. \A i \in 1 .. n : f[i] = f[i - 1] + s[i]
  <2>1. \A i \in 1 .. n : \A x \in Nat : step[<<i, x>>] = x + s[i]
    OBVIOUS
  <2>2. \A i \in 1 .. n : f[i - 1] \in Nat
    BY <1>1
  <2> HIDE DEF step, n
  <2> QED
    BY <1>3, <2>1, <2>2
<1>5. P(f)
  BY <1>1, <1>3, <1>4
<1>6. P(sum)
  <2> HIDE DEF P
  <2> QED
    BY <1>5
<1>7. \A k : SumTo(s, k) = sum[k]
  BY DEF SumTo
<1> HIDE DEF sum
<1>8. sum[0] = 0 /\ \A k \in 1 .. n : sum[k] = sum[k - 1] + s[k]
  BY <1>1, <1>6
<1>9. \A i \in 0 .. n : f[i] = sum[i]
  <2> HIDE DEF n
  <2>1. GoAlike(f, sum, n)
    BY <1>3, <1>4, <1>8 DEF GoAlike
  <2> QED
    BY <1>1, <2>1, Agree DEF Alike
<1>10. \A i \in 0 .. n : sum[i] \in Nat
  BY <1>9
<1> QED
  BY <1>7, <1>8, <1>10

\* Value goes through the digits from the first to the last.
Multiplies(ret, base, digits) ==
  /\ ret \in [0 .. Len(digits) -> Nat]
  /\ ret[0] = 0
  /\ \A i \in 1 .. Len(digits) : ret[i] = ret[i - 1] * base + digits[i]
  /\ Value(base, digits) = ret[Len(digits)]

LEMMA ValueSteps ==
  ASSUME NEW base \in Nat, NEW digits \in Seq(Nat)
  PROVE  \E ret : Multiplies(ret, base, digits)
<1> USE DEF Multiplies
<1> DEFINE n == Len(digits)
           P(f) == f = [i \in 0 .. n |-> IF i = 0 THEN 0 ELSE f[i - 1] * base + digits[i]]
           ret == CHOOSE f : P(f)
           step == [ix \in (1 .. n) \X Nat |-> ix[2] * base + digits[ix[1]]]
<1>1. n \in Nat /\ \A i \in 1 .. n : digits[i] \in Nat
  OBVIOUS
<1>2. step \in [(1 .. n) \X Nat -> Nat]
  <2>1. \A x \in Nat : x * base \in Nat
    OBVIOUS
  <2> QED
    BY <1>1, <2>1
<1>3. PICK f \in [0 .. n -> Nat] : f[0] = 0 /\ \A i \in 1 .. n : f[i] = step[<<i, f[i - 1]>>]
  <2> HIDE DEF step, n
  <2>1. \E f : StepsFrom(f, Nat, 0, n, step)
    BY <1>1, <1>2, Recursion
  <2> QED
    BY <2>1 DEF StepsFrom
<1>4. \A i \in 1 .. n : f[i] = f[i - 1] * base + digits[i]
  <2>1. \A i \in 1 .. n : \A x \in Nat : step[<<i, x>>] = x * base + digits[i]
    OBVIOUS
  <2>2. \A i \in 1 .. n : f[i - 1] \in Nat
    BY <1>1
  <2> HIDE DEF step, n
  <2> QED
    BY <1>3, <2>1, <2>2
<1>5. P(f)
  BY <1>1, <1>3, <1>4
<1>6. P(ret)
  <2> HIDE DEF P
  <2> QED
    BY <1>5
<1>7. Value(base, digits) = ret[n]
  BY DEF Value
<1> HIDE DEF ret
<1>8. ret[0] = 0 /\ \A i \in 1 .. n : ret[i] = ret[i - 1] * base + digits[i]
  <2>1. 0 \in 0 .. n /\ \A i \in 1 .. n : i \in 0 .. n /\ i # 0
    BY <1>1
  <2> HIDE DEF n
  <2> QED
    BY <1>6, <2>1, Zenon
<1>9. \A i \in 0 .. n : f[i] = ret[i]
  <2> HIDE DEF n
  <2>1. GoAlike(f, ret, n)
    BY <1>3, <1>4, <1>8 DEF GoAlike
  <2> QED
    BY <1>1, <2>1, Agree DEF Alike
<1>10. ret[n] = f[n]
  BY <1>1, <1>9
<1> QED
  BY <1>3, <1>4, <1>7, <1>10

\* Digits divides again and again.
Divides(rest, base, n, size) ==
  /\ rest \in [0 .. size -> Nat]
  /\ rest[0] = n
  /\ \A i \in 1 .. size : rest[i] = rest[i - 1] \div base
  /\ Digits(base, n, size) = [i \in 1 .. size |-> rest[i - 1] % base]

LEMMA DigitsSteps ==
  ASSUME NEW base \in Nat \ {0}, NEW n \in Nat, NEW size \in Nat
  PROVE  \E rest : Divides(rest, base, n, size)
<1> USE DEF Divides
<1> DEFINE P(f) == f = [i \in 0 .. size |-> IF i = 0 THEN n ELSE f[i - 1] \div base]
           rest == CHOOSE f : P(f)
           step == [ix \in (1 .. size) \X Nat |-> ix[2] \div base]
<1>1. step \in [(1 .. size) \X Nat -> Nat]
  <2>1. \A x \in Nat : x \div base \in Nat
    OBVIOUS
  <2> QED
    BY <2>1
<1>2. PICK f \in [0 .. size -> Nat] : f[0] = n /\ \A i \in 1 .. size : f[i] = step[<<i, f[i - 1]>>]
  <2> HIDE DEF step
  <2>1. \E f : StepsFrom(f, Nat, n, size, step)
    BY <1>1, Recursion
  <2> QED
    BY <2>1 DEF StepsFrom
<1>3. \A i \in 1 .. size : f[i] = f[i - 1] \div base
  <2>1. \A i \in 1 .. size : \A x \in Nat : step[<<i, x>>] = x \div base
    OBVIOUS
  <2>2. \A i \in 1 .. size : f[i - 1] \in Nat
    OBVIOUS
  <2> HIDE DEF step
  <2> QED
    BY <1>2, <2>1, <2>2
<1>4. P(f)
  BY <1>2, <1>3
<1>5. P(rest)
  <2> HIDE DEF P
  <2> QED
    BY <1>4
<1>6. Digits(base, n, size) = [i \in 1 .. size |-> rest[i - 1] % base]
  BY DEF Digits
<1> HIDE DEF rest
<1>7. rest[0] = n /\ \A i \in 1 .. size : rest[i] = rest[i - 1] \div base
  BY <1>5
<1>8. \A i \in 0 .. size : f[i] = rest[i]
  <2>1. GoAlike(f, rest, size)
    BY <1>2, <1>3, <1>7 DEF GoAlike
  <2> QED
    BY <2>1, Agree DEF Alike
<1>9. Digits(base, n, size) = [i \in 1 .. size |-> f[i - 1] % base]
  BY <1>6, <1>8
<1> QED
  BY <1>2, <1>3, <1>9

\* FlattenSeq puts one sequence after the other.
Concatenates(flat, S, ss) ==
  /\ flat \in [0 .. Len(ss) -> Seq(S)]
  /\ flat[0] = <<>>
  /\ \A i \in 1 .. Len(ss) : flat[i] = flat[i - 1] \o ss[i]
  /\ FlattenSeq(ss) = flat[Len(ss)]

LEMMA FlattenSteps ==
  ASSUME NEW S, NEW ss \in Seq(Seq(S))
  PROVE  \E flat : Concatenates(flat, S, ss)
<1> USE DEF Concatenates
<1> DEFINE n == Len(ss)
           Q == Seq(S)
           P(f) == f = [i \in 1 .. n |-> IF i = 1 THEN ss[i] ELSE f[i - 1] \o ss[i]]
           flatten == CHOOSE f : P(f)
           step == [ix \in (1 .. n) \X Q |-> ix[2] \o ss[ix[1]]]
<1>1. n \in Nat /\ <<>> \in Q /\ (\A i \in 1 .. n : ss[i] \in Q) /\ \A x, y \in Q : x \o y \in Q
  OBVIOUS
<1>2. step \in [(1 .. n) \X Q -> Q]
  <2> HIDE DEF Q, n
  <2> QED
    BY <1>1
<1>3. PICK f \in [0 .. n -> Q] : f[0] = <<>> /\ \A i \in 1 .. n : f[i] = step[<<i, f[i - 1]>>]
  <2> HIDE DEF step, n, Q
  <2>1. \E f : StepsFrom(f, Q, <<>>, n, step)
    BY <1>1, <1>2, Recursion
  <2> QED
    BY <2>1 DEF StepsFrom
<1>4. \A i \in 1 .. n : f[i] = f[i - 1] \o ss[i]
  <2>1. \A i \in 1 .. n : \A x \in Q : step[<<i, x>>] = x \o ss[i]
    OBVIOUS
  <2> HIDE DEF step, n, Q
  <2>2. \A i \in 1 .. n : f[i - 1] \in Q
    BY <1>1
  <2> QED
    BY <1>3, <2>1, <2>2
<1>5. CASE n = 0
  <2>1. FlattenSeq(ss) = ss /\ ss = <<>>
    BY <1>5 DEF FlattenSeq
  <2> HIDE DEF Q
  <2> QED
    BY <1>3, <1>4, <1>5, <2>1 DEF Q
<1>6. CASE n # 0
  <2> DEFINE g == [i \in 1 .. n |-> f[i]]
  <2>1. f[1] = ss[1]
    <3>1. 1 \in 1 .. n /\ 1 - 1 = 0 /\ ss[1] \in Seq(S)
      BY <1>1, <1>6
    <3>2. f[1] = f[1 - 1] \o ss[1]
      BY <1>4, <3>1
    <3>3. f[1] = <<>> \o ss[1]
      BY <1>3, <3>1, <3>2
    <3> QED
      BY <3>1, <3>3
  <2>2. P(g)
    <3>1. \A i \in 1 .. n : i # 1 => i - 1 \in 1 .. n
      BY <1>1
    <3> HIDE DEF n
    <3>2. \A i \in 1 .. n : g[i] = IF i = 1 THEN ss[i] ELSE g[i - 1] \o ss[i]
      BY <1>4, <2>1, <3>1
    <3> QED
      BY <3>2
  <2>3. P(flatten)
    <3> HIDE DEF P, g
    <3> QED
      BY <2>2
  <2>4. FlattenSeq(ss) = flatten[n]
    BY <1>6 DEF FlattenSeq
  <2> HIDE DEF flatten
  <2>5. /\ flatten[1] = ss[1]
        /\ \A i \in 1 .. n : i # 1 => flatten[i] = flatten[i - 1] \o ss[i]
    <3>1. 1 \in 1 .. n
      BY <1>1, <1>6
    <3> HIDE DEF n
    <3> QED
      BY <2>3, <3>1, Zenon
  <2> DEFINE h == [i \in 0 .. n |-> IF i = 0 THEN <<>> ELSE flatten[i]]
  <2>6. \A i \in 1 .. n : h[i] = flatten[i] /\ (i # 1 => h[i - 1] = flatten[i - 1])
    BY <1>1
  <2>7. GoAlike(f, h, n)
    <3>1. f[0] = h[0]
      BY <1>1, <1>3
    <3>2. ASSUME NEW i \in 1 .. n, f[i - 1] = h[i - 1] PROVE f[i] = h[i]
      <4>1. CASE i = 1
        BY <2>1, <2>5, <2>6, <4>1
      <4>2. CASE i # 1
        <5>1. f[i] = f[i - 1] \o ss[i] /\ h[i] = flatten[i - 1] \o ss[i]
          BY <1>4, <2>5, <2>6, <4>2
        <5>2. flatten[i - 1] = f[i - 1]
          BY <2>6, <3>2, <4>2
        <5> QED
          BY <5>1, <5>2
      <4> QED
        BY <4>1, <4>2
    <3> HIDE DEF n, h
    <3> QED
      BY <3>1, <3>2 DEF GoAlike
  <2>8. h[n] = f[n]
    <3> HIDE DEF n, h
    <3>1. Alike(f, h, n)
      BY <1>1, <2>7, Agree
    <3> QED
      BY <1>1, <3>1 DEF Alike
  <2>9. n \in 1 .. n
    BY <1>1, <1>6
  <2> HIDE DEF h, n
  <2>10. FlattenSeq(ss) = f[n]
    BY <2>4, <2>6, <2>8, <2>9
  <2> QED
    BY <1>3, <1>4, <2>10 DEF n
<1> QED
  BY <1>5, <1>6

----------------------------------------------------------------------------
(* Sums.                                                                    *)

\* The sum of the first elements depends on these alone.
LEMMA SumOfSame ==
  ASSUME NEW s \in Seq(Nat), NEW t \in Seq(Nat), NEW k \in Nat,
         k <= Len(s), k <= Len(t), EqualOn(s, t, 1 .. k)
  PROVE  SumTo(s, k) = SumTo(t, k)
<1> DEFINE f == [i \in 0 .. k |-> SumTo(s, i)]
           g == [i \in 0 .. k |-> SumTo(t, i)]
<1>1. /\ SumTo(s, 0) = SumTo(t, 0)
      /\ \A i \in 1 .. k : SumTo(s, i - 1) = SumTo(t, i - 1) => SumTo(s, i) = SumTo(t, i)
  <2>1. \A i \in 1 .. k : i \in 1 .. Len(s) /\ i \in 1 .. Len(t) /\ s[i] = t[i]
    BY DEF EqualOn
  <2> QED
    BY <2>1, SumSteps
<1>2. GoAlike(f, g, k)
  BY <1>1 DEF GoAlike
<1>3. f[k] = SumTo(s, k) /\ g[k] = SumTo(t, k)
  OBVIOUS
<1> HIDE DEF f, g
<1>4. Alike(f, g, k)
  BY <1>2, Agree
<1> QED
  BY <1>3, <1>4 DEF Alike

\* Adding more does not make a sum smaller.
LEMMA SumGrows ==
  ASSUME NEW s \in Seq(Nat), NEW j \in 0 .. Len(s), NEW k \in j .. Len(s)
  PROVE  SumTo(s, j) <= SumTo(s, k)
<1> DEFINE T == {i \in Nat : j + i <= Len(s) => SumTo(s, j) <= SumTo(s, j + i)}
<1>1. 0 \in T
  <2>1. j + 0 = j /\ SumTo(s, j) \in Nat
    BY SumSteps
  <2> QED
    BY <2>1
<1>2. \A n \in Nat : n \in T => n + 1 \in T
  <2> SUFFICES ASSUME NEW n \in Nat, n \in T PROVE n + 1 \in T
    OBVIOUS
  <2> SUFFICES ASSUME j + (n + 1) <= Len(s) PROVE SumTo(s, j) <= SumTo(s, j + (n + 1))
    OBVIOUS
  <2>1. j + n <= Len(s) /\ SumTo(s, j) <= SumTo(s, j + n)
    OBVIOUS
  <2>2. /\ j + (n + 1) \in 1 .. Len(s) /\ (j + (n + 1)) - 1 = j + n
        /\ j + n \in 0 .. Len(s) /\ s[j + (n + 1)] \in Nat
    OBVIOUS
  <2>3. SumTo(s, j + (n + 1)) = SumTo(s, j + n) + s[j + (n + 1)]
    BY <2>2, SumSteps
  <2>4. SumTo(s, j) \in Nat /\ SumTo(s, j + n) \in Nat
    BY <2>2, SumSteps
  <2> QED
    BY <2>1, <2>2, <2>3, <2>4
<1> HIDE DEF T
<1>3. \A i \in Nat : i \in T
  BY <1>1, <1>2, Induction
<1>4. k - j \in T /\ j + (k - j) = k
  BY <1>3
<1> QED
  BY <1>4 DEF T

----------------------------------------------------------------------------
(* Digits.                                                                  *)

LEMMA DivMod ==
  \A b \in Nat \ {0} : \A q \in Nat : \A d \in 0 .. b - 1 :
    (q * b + d) \div b = q /\ (q * b + d) % b = d
OBVIOUS

\* The digits of the number that digits stand for are these digits.
LEMMA DigitsOfValue ==
  ASSUME NEW base \in Nat \ {0}, NEW s \in Seq(0 .. base - 1)
  PROVE  Digits(base, Value(base, s), Len(s)) = Reverse(s)
<1> DEFINE n == Len(s)
<1>1. n \in Nat /\ s \in Seq(Nat) /\ \A i \in 1 .. n : s[i] \in 0 .. base - 1
  OBVIOUS
<1>2. PICK ret \in [0 .. n -> Nat] :
        /\ ret[0] = 0
        /\ \A i \in 1 .. n : ret[i] = ret[i - 1] * base + s[i]
        /\ Value(base, s) = ret[n]
  <2>1. \E ret : Multiplies(ret, base, s)
    BY <1>1, ValueSteps
  <2> QED
    BY <2>1 DEF Multiplies
<1>3. PICK rest \in [0 .. n -> Nat] :
        /\ rest[0] = Value(base, s)
        /\ \A i \in 1 .. n : rest[i] = rest[i - 1] \div base
        /\ Digits(base, Value(base, s), n) = [i \in 1 .. n |-> rest[i - 1] % base]
  <2>1. Value(base, s) \in Nat
    BY <1>1, <1>2
  <2> HIDE DEF n
  <2>2. \E rest : Divides(rest, base, Value(base, s), n)
    BY <1>1, <2>1, DigitsSteps
  <2> QED
    BY <2>2 DEF Divides
<1>4. Reverse(s) = [i \in 1 .. n |-> s[(n - i) + 1]]
  BY DEF Reverse
<1> DEFINE g == [i \in 0 .. n |-> ret[n - i]]
<1> HIDE DEF n
<1>5. ASSUME NEW i \in 1 .. n
      PROVE  /\ ret[n - (i - 1)] \div base = ret[n - i]
             /\ ret[n - (i - 1)] % base = s[(n - i) + 1]
  <2>1. /\ n - (i - 1) \in 1 .. n /\ (n - (i - 1)) - 1 = n - i
        /\ n - (i - 1) = (n - i) + 1 /\ n - i \in 0 .. n
    BY <1>1
  <2>2. ret[n - (i - 1)] = ret[n - i] * base + s[(n - i) + 1]
    BY <1>2, <2>1
  <2>3. ret[n - i] \in Nat /\ s[(n - i) + 1] \in 0 .. base - 1
    BY <1>1, <2>1
  <2> QED
    BY <2>2, <2>3, DivMod
<1>6. GoAlike(rest, g, n)
  <2>1. rest[0] = g[0]
    BY <1>1, <1>2, <1>3
  <2>2. ASSUME NEW i \in 1 .. n, rest[i - 1] = g[i - 1] PROVE rest[i] = g[i]
    <3>1. i \in 0 .. n /\ i - 1 \in 0 .. n
      BY <1>1
    <3>2. g[i] = ret[n - i] /\ g[i - 1] = ret[n - (i - 1)]
      BY <3>1
    <3> QED
      BY <1>3, <1>5, <2>2, <3>2
  <2> HIDE DEF g
  <2> QED
    BY <2>1, <2>2 DEF GoAlike
<1>7. \A i \in 0 .. n : rest[i] = ret[n - i]
  <2>1. \A i \in 0 .. n : g[i] = ret[n - i]
    OBVIOUS
  <2> HIDE DEF g
  <2>2. Alike(rest, g, n)
    BY <1>1, <1>6, Agree
  <2> QED
    BY <2>1, <2>2 DEF Alike
<1>8. \A i \in 1 .. n : rest[i - 1] % base = s[(n - i) + 1]
  <2>1. \A i \in 1 .. n : i - 1 \in 0 .. n
    BY <1>1
  <2> QED
    BY <1>5, <1>7, <2>1
<1> QED
  BY <1>3, <1>4, <1>8 DEF n

\* There are as many digits as asked for, each below the base.
LEMMA DigitsType ==
  ASSUME NEW base \in Nat \ {0}, NEW n \in Nat, NEW size \in Nat
  PROVE  Digits(base, n, size) \in [1 .. size -> 0 .. base - 1]
<1>1. PICK rest \in [0 .. size -> Nat] :
        Digits(base, n, size) = [i \in 1 .. size |-> rest[i - 1] % base]
  <2>1. \E rest : Divides(rest, base, n, size)
    BY DigitsSteps
  <2> QED
    BY <2>1 DEF Divides
<1>2. \A x \in Nat : x % base \in 0 .. base - 1
  OBVIOUS
<1>3. \A i \in 1 .. size : rest[i - 1] \in Nat
  OBVIOUS
<1> QED
  BY <1>1, <1>2, <1>3

LEMMA ReverseTwice ==
  ASSUME NEW S, NEW s \in Seq(S)
  PROVE  /\ Reverse(s) \in Seq(S) /\ Len(Reverse(s)) = Len(s)
         /\ Reverse(Reverse(s)) = s
<1>1. Reverse(s) = [i \in 1 .. Len(s) |-> s[(Len(s) - i) + 1]]
  BY DEF Reverse
<1>2. Len(s) \in Nat /\ \A i \in 1 .. Len(s) : (Len(s) - i) + 1 \in 1 .. Len(s) /\ s[i] \in S
  OBVIOUS
<1>3. Reverse(s) \in [1 .. Len(s) -> S]
  BY <1>1, <1>2
<1>4. Reverse(s) \in Seq(S) /\ Len(Reverse(s)) = Len(s)
  BY <1>2, <1>3
<1>5. Reverse(Reverse(s)) = [i \in 1 .. Len(s) |-> Reverse(s)[(Len(s) - i) + 1]]
  BY <1>4 DEF Reverse
<1>6. \A i \in 1 .. Len(s) : Reverse(s)[(Len(s) - i) + 1] = s[i]
  <2> TAKE i \in 1 .. Len(s)
  <2>1. (Len(s) - ((Len(s) - i) + 1)) + 1 = i
    BY <1>2
  <2> QED
    BY <1>1, <1>2, <2>1
<1> QED
  BY <1>4, <1>5, <1>6

----------------------------------------------------------------------------
(* Bytes.                                                                   *)

LEMMA BaseType == Base \in Nat \ {0, 1}
<1> DEFINE one == <<1>> \o [i \in 1 .. BitsPerByte |-> 0]
           n == BitsPerByte + 1
<1>1. n \in Nat /\ n >= 2 /\ [i \in 1 .. BitsPerByte |-> 0] \in Seq(Nat)
  BY ByteAssumption
<1>2. Len([i \in 1 .. BitsPerByte |-> 0]) = BitsPerByte
  BY ByteAssumption
<1>3. /\ one \in Seq(Nat) /\ Len(one) = n /\ one[1] = 1
      /\ \A i \in 2 .. n : one[i] = 0
  BY <1>1, <1>2, ByteAssumption
<1> HIDE DEF one, n
<1>4. PICK ret \in [0 .. n -> Nat] :
        /\ ret[0] = 0
        /\ \A i \in 1 .. n : ret[i] = ret[i - 1] * 2 + one[i]
        /\ Value(2, one) = ret[n]
  <2>1. \E ret : Multiplies(ret, 2, one)
    BY <1>3, ValueSteps
  <2> QED
    BY <1>3, <2>1 DEF Multiplies
<1> DEFINE T == {i \in Nat : i + 1 <= n => ret[i + 1] > 0}
<1>5. 0 \in T
  <2>1. 1 \in 1 .. n /\ 1 - 1 = 0 /\ ret[1] = ret[1 - 1] * 2 + one[1]
    BY <1>1, <1>4
  <2> QED
    BY <1>1, <1>3, <1>4, <2>1
<1>6. \A i \in Nat : i \in T => i + 1 \in T
  <2> SUFFICES ASSUME NEW i \in Nat, i \in T PROVE i + 1 \in T
    OBVIOUS
  <2> SUFFICES ASSUME (i + 1) + 1 <= n PROVE ret[(i + 1) + 1] > 0
    OBVIOUS
  <2>1. /\ (i + 1) + 1 \in 1 .. n /\ ((i + 1) + 1) - 1 = i + 1 /\ (i + 1) + 1 \in 2 .. n
        /\ i + 1 \in 0 .. n /\ ret[i + 1] > 0
    BY <1>1
  <2>2. ret[(i + 1) + 1] = ret[i + 1] * 2 + 0
    BY <1>3, <1>4, <2>1
  <2>3. ret[i + 1] \in Nat
    BY <2>1
  <2> QED
    BY <2>1, <2>2, <2>3
<1>7. ret[n - 1] > 0 /\ ret[n - 1] \in Nat
  <2> HIDE DEF T
  <2>1. \A i \in Nat : i \in T
    BY <1>5, <1>6, Induction
  <2>2. n - 2 \in T /\ (n - 2) + 1 = n - 1 /\ n - 1 \in 0 .. n
    BY <1>1, <2>1
  <2> QED
    BY <1>1, <2>2 DEF T
<1>8. ret[n] = ret[n - 1] * 2 + 0
  BY <1>1, <1>3, <1>4
<1> QED
  BY <1>4, <1>7, <1>8 DEF Base, one

\* What IntToBytes writes BytesToInt reads, and the reverse.
LEMMA BytesReadBack ==
  ASSUME NEW bytes \in Seq(Byte)
  PROVE  InMemory(BytesToInt(bytes), Len(bytes)) = Reverse(bytes)
<1>1. Base \in Nat \ {0} /\ bytes \in Seq(0 .. Base - 1)
  BY BaseType DEF Byte
<1> HIDE DEF Base
<1> QED
  BY <1>1, DigitsOfValue DEF InMemory, BytesToInt

LEMMA InMemoryType ==
  ASSUME NEW n \in Nat, NEW size \in Nat
  PROVE  /\ InMemory(n, size) \in Seq(Byte)
         /\ Len(InMemory(n, size)) = size
<1>1. Base \in Nat \ {0}
  BY BaseType
<1>2. InMemory(n, size) \in [1 .. size -> Byte]
  BY <1>1, DigitsType DEF InMemory, Byte
<1> QED
  BY <1>2

LEMMA ValueType ==
  ASSUME NEW bytes \in Seq(Byte)
  PROVE  BytesToInt(bytes) \in Nat
<1>1. Base \in Nat /\ bytes \in Seq(Nat) /\ Len(bytes) \in Nat
  BY BaseType DEF Byte
<1>2. PICK ret : Multiplies(ret, Base, bytes)
  BY <1>1, ValueSteps
<1> QED
  BY <1>1, <1>2 DEF BytesToInt, Multiplies

\* htonl turns the bytes in memory around.
LEMMA HtonSwaps ==
  ASSUME NEW n \in Nat, NEW size \in Nat
  PROVE  InMemory(Hton(n, size), size) = Reverse(InMemory(n, size))
BY InMemoryType, BytesReadBack DEF Hton

----------------------------------------------------------------------------
(* Sequences put together.                                                  *)

\* c is a and then b.
Joined(c, a, b) ==
  /\ Len(c) = Len(a) + Len(b)
  /\ \A i \in 1 .. Len(a) : c[i] = a[i]
  /\ \A i \in 1 .. Len(b) : c[Len(a) + i] = b[i]

LEMMA Concat ==
  ASSUME NEW S, NEW a \in Seq(S), NEW b \in Seq(S)
  PROVE  a \o b \in Seq(S) /\ Len(a) \in Nat /\ Len(b) \in Nat /\ Joined(a \o b, a, b)
BY DEF Joined

LEMMA FlattenType ==
  ASSUME NEW S, NEW ss \in Seq(Seq(S))
  PROVE  FlattenSeq(ss) \in Seq(S) /\ FlattenSeq(<<>>) = <<>>
<1>1. PICK flat : Concatenates(flat, S, ss)
  BY FlattenSteps
<1>2. Len(ss) \in 0 .. Len(ss)
  OBVIOUS
<1>3. FlattenSeq(<<>>) = <<>>
  BY DEF FlattenSeq
<1> QED
  BY <1>1, <1>2, <1>3 DEF Concatenates

\* The first parts of a longer list put together, and what follows them.
LEMMA FlattenAppend ==
  ASSUME NEW S, NEW ss \in Seq(Seq(S)), NEW x \in Seq(S)
  PROVE  FlattenSeq(Append(ss, x)) = FlattenSeq(ss) \o x
<1> DEFINE n == Len(ss)
           longer == Append(ss, x)
<1>1. /\ n \in Nat /\ longer \in Seq(Seq(S)) /\ Len(longer) = n + 1
      /\ \A i \in 1 .. n : longer[i] = ss[i]
      /\ longer[n + 1] = x
  <2> DEFINE Q == Seq(S)
  <2>1. ss \in Seq(Q) /\ x \in Q
    OBVIOUS
  <2> HIDE DEF Q
  <2>2. Append(ss, x) \in Seq(Q) /\ Len(Append(ss, x)) = Len(ss) + 1
    BY <2>1
  <2>3. \A i \in 1 .. Len(ss) : Append(ss, x)[i] = ss[i]
    BY <2>1
  <2>4. Append(ss, x)[Len(ss) + 1] = x
    BY <2>1
  <2> QED
    BY <2>2, <2>3, <2>4 DEF Q
<1>2. PICK f : Concatenates(f, S, ss)
  BY FlattenSteps
<1>3. PICK g : Concatenates(g, S, longer)
  BY <1>1, FlattenSteps
<1> HIDE DEF longer
<1>4. GoAlike(f, g, n)
  <2>1. \A i \in 1 .. n : i \in 1 .. Len(longer)
    BY <1>1
  <2> QED
    BY <1>1, <1>2, <1>3, <2>1 DEF GoAlike, Concatenates
<1>5. f[n] = g[n]
  <2>1. Alike(f, g, n)
    BY <1>1, <1>4, Agree
  <2> QED
    BY <1>1, <2>1 DEF Alike
<1>6. g[n + 1] = g[n] \o x
  <2>1. n + 1 \in 1 .. Len(longer) /\ (n + 1) - 1 = n
    BY <1>1
  <2> QED
    BY <1>1, <1>3, <2>1 DEF Concatenates
<1> QED
  BY <1>1, <1>2, <1>3, <1>5, <1>6 DEF Concatenates, longer

LEMMA FlattenFirst ==
  ASSUME NEW S, NEW ss \in Seq(Seq(S)), NEW x \in Seq(S)
  PROVE  FlattenSeq(<<x>> \o ss) = x \o FlattenSeq(ss)
<1>0. \A v, w \in Seq(S) : (x \o v) \o w = x \o (v \o w)
  BY ConcatAssociative
<1> DEFINE n == Len(ss)
           Q == Seq(S)
           longer == <<x>> \o ss
<1>1. /\ n \in Nat /\ longer \in Seq(Q) /\ Len(longer) = n + 1 /\ longer[1] = x
      /\ \A i \in 1 .. n : longer[i + 1] = ss[i]
  <2>1. ss \in Seq(Q) /\ <<x>> \in Seq(Q)
    OBVIOUS
  <2> HIDE DEF Q
  <2>2. Joined(<<x>> \o ss, <<x>>, ss) /\ <<x>> \o ss \in Seq(Q)
    BY <2>1, Concat
  <2>3. Len(<<x>>) = 1 /\ <<x>>[1] = x
    OBVIOUS
  <2> HIDE DEF longer
  <2>4. Joined(longer, <<x>>, ss) /\ longer \in Seq(Q)
    BY <2>2 DEF longer
  <2>5. 1 \in 1 .. Len(<<x>>) /\ Len(ss) \in Nat
    BY <2>1, <2>3
  <2> QED
    BY <2>3, <2>4, <2>5 DEF Joined
<1>2. PICK f : Concatenates(f, S, ss)
  BY FlattenSteps
<1>3. PICK g : Concatenates(g, S, longer)
  BY <1>1, FlattenSteps
<1>4. /\ \A i \in 0 .. n : f[i] \in Q /\ g[i + 1] \in Q
      /\ f[0] = <<>> /\ g[0] = <<>> /\ g[1] = g[0] \o x
      /\ \A i \in 1 .. n : f[i] = f[i - 1] \o ss[i] /\ g[i + 1] = g[i] \o ss[i] /\ ss[i] \in Q
      /\ FlattenSeq(ss) = f[n] /\ FlattenSeq(longer) = g[n + 1]
  <2>1. /\ g \in [0 .. n + 1 -> Q] /\ g[0] = <<>> /\ FlattenSeq(longer) = g[n + 1]
        /\ \A i \in 1 .. n + 1 : g[i] = g[i - 1] \o longer[i]
    BY <1>1, <1>3, Zenon DEF Concatenates
  <2>2. /\ f \in [0 .. n -> Q] /\ f[0] = <<>> /\ FlattenSeq(ss) = f[n]
        /\ \A i \in 1 .. n : f[i] = f[i - 1] \o ss[i]
    BY <1>2, Zenon DEF Concatenates
  <2>3. \A i \in 1 .. n : ss[i] \in Q
    OBVIOUS
  <2> HIDE DEF longer, n, Q
  <2>4. \A i \in 0 .. n : f[i] \in Q /\ g[i + 1] \in Q
    BY <1>1, <2>1, <2>2
  <2>5. g[1] = g[0] \o x
    <3>1. 1 \in 1 .. n + 1 /\ 1 - 1 = 0
      BY <1>1
    <3> QED
      BY <1>1, <2>1, <3>1
  <2>6. \A i \in 1 .. n : g[i + 1] = g[i] \o ss[i]
    <3>1. n \in Nat
      BY <1>1
    <3>2. \A i \in 1 .. n : i + 1 \in 1 .. n + 1 /\ (i + 1) - 1 = i
      BY <3>1
    <3> QED
      BY <1>1, <2>1, <3>2
  <2> QED
    BY <2>1, <2>2, <2>3, <2>4, <2>5, <2>6
<1> DEFINE T == {i \in Nat : i <= n => g[i + 1] = x \o f[i]}
<1>5. 0 \in T
  <2>1. <<>> \o x = x /\ x \o <<>> = x
    BY ConcatEmptySeq
  <2>2. g[0 + 1] = x \o f[0]
    BY <1>4, <2>1
  <2> QED
    BY <2>2
<1>6. \A i \in Nat : i \in T => i + 1 \in T
  <2> SUFFICES ASSUME NEW i \in Nat, i \in T PROVE i + 1 \in T
    OBVIOUS
  <2> SUFFICES ASSUME i + 1 <= n PROVE g[(i + 1) + 1] = x \o f[i + 1]
    OBVIOUS
  <2>1. i + 1 \in 1 .. n /\ (i + 1) - 1 = i /\ i \in 0 .. n /\ g[i + 1] = x \o f[i]
    BY <1>1
  <2> DEFINE a == f[i]
             b == ss[i + 1]
  <2>2. x \in Seq(S) /\ a \in Seq(S) /\ b \in Seq(S)
    BY <1>4, <2>1
  <2>3. f[i + 1] = a \o b /\ g[(i + 1) + 1] = (x \o a) \o b
    <3>1. f[i + 1] = f[(i + 1) - 1] \o ss[i + 1] /\ g[(i + 1) + 1] = g[i + 1] \o ss[i + 1]
      BY <1>4, <2>1
    <3> QED
      BY <2>1, <3>1, Zenon
  <2> HIDE DEF a, b
  <2>4. (x \o a) \o b = x \o (a \o b)
    BY <1>0, <2>2, Zenon
  <2> QED
    BY <2>3, <2>4, Zenon
<1> HIDE DEF T
<1>7. \A i \in Nat : i \in T
  BY <1>5, <1>6, Induction
<1>8. g[n + 1] = x \o f[n]
  BY <1>1, <1>7 DEF T
<1> QED
  BY <1>4, <1>8, Zenon DEF longer

\* Where the parts have one length, the k-th begins after k - 1 of these.
Chunks(list, ss, size) ==
  /\ Len(list) = Len(ss) * size
  /\ \A k \in 1 .. Len(ss) : \A i \in 1 .. size : list[(k - 1) * size + i] = ss[k][i]

LEMMA FlattenEqual ==
  ASSUME NEW S, NEW size \in Nat, NEW ss \in Seq(Seq(S)), \A k \in 1 .. Len(ss) : Len(ss[k]) = size
  PROVE  Chunks(FlattenSeq(ss), ss, size)
<1>1. PICK flat : Concatenates(flat, S, ss)
  BY FlattenSteps
<1>2. /\ Len(ss) \in Nat /\ \A k \in 1 .. Len(ss) : ss[k] \in Seq(S)
      /\ \A k \in 0 .. Len(ss) : flat[k] \in Seq(S)
  BY <1>1 DEF Concatenates
<1> DEFINE M(k) == k * size
           Laid(n) == /\ Len(flat[n]) = M(n)
                      /\ \A k \in 1 .. n : \A i \in 1 .. size : flat[n][M(k - 1) + i] = ss[k][i]
           T == {n \in Nat : n <= Len(ss) => Laid(n)}
<1>3. /\ M(0) = 0
      /\ \A k \in Nat : M(k) \in Nat /\ M(k + 1) = M(k) + size
      /\ \A n \in Nat : \A k \in 1 .. n : M(k - 1) \in Nat /\ M(k - 1) + size <= M(n)
  <2>1. ASSUME NEW n \in Nat, NEW k \in 1 .. n PROVE M(k - 1) \in Nat /\ M(k - 1) + size <= M(n)
    <3> DEFINE q == k - 1
               r == n - k
    <3>1. q \in Nat /\ r \in Nat /\ n = (q + r) + 1
      OBVIOUS
    <3> HIDE DEF q, r
    <3>2. q * size \in Nat /\ r * size \in Nat /\ ((q + r) + 1) * size = q * size + r * size + size
      BY <3>1
    <3>3. q * size + size <= n * size
      BY <3>1, <3>2
    <3> QED
      BY <3>2, <3>3 DEF q
  <2> QED
    BY <2>1
<1> HIDE DEF M
<1>4. Laid(0)
  BY <1>1, <1>3 DEF Concatenates
<1>5. ASSUME NEW n \in Nat, n + 1 <= Len(ss), Laid(n) PROVE Laid(n + 1)
  <2> DEFINE a == flat[n]
             b == ss[n + 1]
             c == flat[n + 1]
  <2>1. n + 1 \in 1 .. Len(ss) /\ (n + 1) - 1 = n /\ n \in 0 .. Len(ss)
    BY <1>2, <1>5
  <2>2. a \in Seq(S) /\ b \in Seq(S) /\ Len(b) = size
    BY <1>2, <2>1
  <2>3. c = a \o b
    BY <1>1, <2>1 DEF Concatenates
  <2>4. /\ Len(a) = M(n)
        /\ \A k \in 1 .. n : \A i \in 1 .. size : a[M(k - 1) + i] = ss[k][i]
    BY <1>5
  <2>5. /\ M(n) \in Nat /\ M(n + 1) = M(n) + size
        /\ \A k \in 1 .. n : M(k - 1) \in Nat /\ M(k - 1) + size <= M(n)
    BY <1>3
  <2> HIDE DEF a, b, c
  <2>6. /\ Len(c) = M(n) + size
        /\ \A i \in 1 .. M(n) : c[i] = a[i]
        /\ \A i \in 1 .. size : c[M(n) + i] = b[i]
    <3>1. Joined(c, a, b)
      BY <2>2, <2>3, Concat
    <3> QED
      BY <2>2, <2>4, <3>1 DEF Joined
  <2>7. ASSUME NEW k \in 1 .. n + 1, NEW i \in 1 .. size PROVE c[M(k - 1) + i] = ss[k][i]
    <3>1. CASE k = n + 1
      BY <2>1, <2>6, <3>1 DEF b
    <3>2. CASE k \in 1 .. n
      <4>1. M(k - 1) + i \in 1 .. M(n)
        BY <2>5, <3>2
      <4> QED
        BY <2>4, <2>6, <3>2, <4>1
    <3> QED
      BY <3>1, <3>2
  <2> QED
    BY <2>5, <2>6, <2>7 DEF c
<1> HIDE DEF Laid
<1>6. 0 \in T /\ \A n \in Nat : n \in T => n + 1 \in T
  BY <1>2, <1>4, <1>5
<1> HIDE DEF T
<1>7. \A n \in Nat : n \in T
  BY <1>6, Induction
<1>8. Laid(Len(ss))
  BY <1>2, <1>7 DEF T
<1>9. FlattenSeq(ss) = flat[Len(ss)]
  BY <1>1 DEF Concatenates
<1> QED
  BY <1>8, <1>9 DEF Laid, M, Chunks

\* Two ways to put one sequence together.
LEMMA SplitEqual ==
  ASSUME NEW S, NEW a \in Seq(S), NEW b \in Seq(S), NEW c \in Seq(S), NEW d \in Seq(S),
         Len(a) = Len(c), a \o b = c \o d
  PROVE  a = c /\ b = d
<1> DEFINE ab == a \o b
           cd == c \o d
<1>1. /\ Joined(ab, a, b) /\ Joined(cd, c, d) /\ Len(a) \in Nat /\ Len(b) \in Nat /\ Len(d) \in Nat
      /\ ab = cd
  BY Concat
<1> HIDE DEF ab, cd
<1>2. a = c
  <2>1. a \in [1 .. Len(a) -> S] /\ c \in [1 .. Len(a) -> S]
    OBVIOUS
  <2>2. EqualOn(a, c, 1 .. Len(a))
    BY <1>1 DEF Joined, EqualOn
  <2> QED
    BY <2>1, <2>2, SameFunction
<1>3. b = d
  <2>1. Len(b) = Len(d)
    BY <1>1 DEF Joined
  <2>2. b \in [1 .. Len(b) -> S] /\ d \in [1 .. Len(b) -> S]
    BY <2>1
  <2>3. EqualOn(b, d, 1 .. Len(b))
    BY <1>1, <2>1 DEF Joined, EqualOn
  <2> QED
    BY <2>2, <2>3, SameFunction
<1> QED
  BY <1>2, <1>3

LEMMA MinOfTwo ==
  ASSUME NEW a \in Int, NEW b \in Int
  PROVE  Min({a, b}) = IF a <= b THEN a ELSE b
<1> DEFINE m == IF a <= b THEN a ELSE b
<1>1. m \in {a, b} /\ \A y \in {a, b} : m <= y
  OBVIOUS
<1>2. \A x \in {a, b} : (\A y \in {a, b} : x <= y) => x = m
  OBVIOUS
<1> QED
  BY <1>1, <1>2, Zenon DEF Min
=============================================================================
