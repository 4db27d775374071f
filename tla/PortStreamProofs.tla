-------------------------- MODULE PortStreamProofs --------------------------
(***************************************************************************)
(* Proofs about PortStream for any messages, watermarks and packet sizes:  *)
(* what is queued always has a writer, senders are suspended between the   *)
(* watermarks, a port that was closed has written everything, no byte is   *)
(* lost or out of place between the two ends, and what arrives are the     *)
(* messages sent, whole and in order.                                      *)
(***************************************************************************)
EXTENDS PortStream, FiniteSetTheorems, SequenceTheorems, TLAPS

-----------------------------------------------------------------------------
(* Induction, recursion and division.                                      *)

\* A set of natural numbers has a least one.  The theorems of the library
\* about induction take a predicate; one about sets is enough for it.
LEMMA LeastNat ==
  ASSUME NEW T \in SUBSET Nat, T # {}
  PROVE  \E x \in T : \A y \in T : x <= y
<1> DEFINE U == {0 .. k : k \in T}
           R == StrictSubsetOrdering(Nat)
           S == FiniteSubsetsOf(Nat)
<1>1. IsWellFoundedOn(R, S)
  BY FS_StrictSubsetOrderingWellFounded
<1>2. U \subseteq S
  <2> SUFFICES ASSUME NEW k \in T PROVE 0 .. k \in S
    OBVIOUS
  <2>1. IsFiniteSet(0 .. k)
    BY FS_Interval
  <2> QED BY <2>1 DEF FiniteSubsetsOf
<1>3. U # {}
  OBVIOUS
<1> HIDE DEF U, R, S
<1>4. PICK X \in U : \A Y \in U : ~ (<<Y, X>> \in R)
  BY <1>1, <1>2, <1>3, WFMin
<1>5. PICK x \in T : X = 0 .. x
  BY <1>4 DEF U
<1>6. ASSUME NEW y \in T, y < x PROVE FALSE
  <2>1. 0 .. y \in U
    BY DEF U
  <2>2. /\ 0 .. y \subseteq 0 .. x /\ 0 .. y # 0 .. x
        /\ 0 .. y \in SUBSET Nat /\ 0 .. x \in SUBSET Nat
    <3>1. x \in 0 .. x /\ x \notin 0 .. y /\ x \in Nat /\ y \in Nat
      BY <1>6
    <3> QED BY <1>6, <3>1
  <2>3. <<0 .. y, 0 .. x>> \in R
    BY <2>2 DEF R, StrictSubsetOrdering
  <2> QED BY <1>4, <1>5, <2>1, <2>3
<1>7. ASSUME NEW y \in T PROVE x <= y
  BY <1>6
<1> QED BY <1>5, <1>7

\* A set with 0 and with the successor of each of its numbers has them all.
LEMMA NatInduct ==
  ASSUME NEW P, P \subseteq Nat, 0 \in P, \A n \in P : n + 1 \in P
  PROVE  P = Nat
<1> DEFINE T == Nat \ P
<1>1. T = {}
  <2> SUFFICES ASSUME T # {} PROVE FALSE
    OBVIOUS
  <2>1. PICK x \in T : \A y \in T : x <= y
    BY LeastNat
  <2>2. x - 1 \in P
    BY <2>1
  <2> QED BY <2>2
<1> QED BY <1>1

\* Quotient and remainder.
LEMMA DivRange ==
  ASSUME NEW n \in Nat, NEW m \in Nat \ {0}
  PROVE  /\ n \div m \in Nat /\ n % m \in 0 .. m - 1
         /\ n = ((n \div m) * m) + (n % m)
  OBVIOUS

\* Multiplication keeps the order.
LEMMA Times ==
  ASSUME NEW a \in Int, NEW b \in Int, NEW m \in Nat, a <= b
  PROVE  a * m <= b * m
  OBVIOUS

\* There is one quotient and one remainder.
LEMMA DivUnique ==
  ASSUME NEW n \in Nat, NEW m \in Nat \ {0}, NEW u \in Int, NEW s \in 0 .. m - 1,
         n = u * m + s
  PROVE  n \div m = u /\ n % m = s
<1> DEFINE v == n \div m
           r == n % m
<1>1. v \in Nat /\ r \in 0 .. m - 1 /\ n = v * m + r
  BY DivRange
<1> HIDE DEF v, r
<1>2. CASE u < v
  <2>1. (u + 1) * m <= v * m
    BY <1>1, <1>2, Times
  <2>2. (u + 1) * m = u * m + m
    OBVIOUS
  <2>3. u * m \in Int /\ v * m \in Int
    BY <1>1
  <2> QED BY <1>1, <2>1, <2>2, <2>3
<1>3. CASE v < u
  <2>1. (v + 1) * m <= u * m
    BY <1>1, <1>3, Times
  <2>2. (v + 1) * m = v * m + m
    BY <1>1
  <2>3. u * m \in Int /\ v * m \in Int
    BY <1>1
  <2> QED BY <1>1, <2>1, <2>2, <2>3
<1>4. CASE u = v
  BY <1>1, <1>4 DEF v, r
<1> QED BY <1>1, <1>2, <1>3, <1>4

\* Dividing twice is dividing by the product.
LEMMA DivTwice ==
  ASSUME NEW n \in Nat, NEW m \in Nat \ {0}, NEW k \in Nat \ {0}
  PROVE  k * m \in Nat \ {0} /\ n \div (k * m) = (n \div m) \div k
<1>1. PICK x \in Nat, r \in 0 .. m - 1 : x = n \div m /\ n = x * m + r
  BY DivRange
<1>2. PICK u \in Nat, w \in 0 .. k - 1 : u = x \div k /\ x = u * k + w
  BY DivRange
<1>3. n = u * (k * m) + (w * m + r)
  <2>1. n = (u * k + w) * m + r
    BY <1>1, <1>2
  <2> QED BY <2>1
<1>4. w * m + r \in 0 .. k * m - 1
  <2>1. (w + 1) * m <= k * m
    BY Times
  <2>2. (w + 1) * m = w * m + m
    OBVIOUS
  <2>3. 0 <= w * m /\ w * m \in Int /\ k * m \in Int
    OBVIOUS
  <2> QED BY <2>1, <2>2, <2>3
<1>5. k * m \in Nat \ {0}
  <2>1. 1 * m <= k * m
    BY Times
  <2>2. k * m \in Int
    OBVIOUS
  <2> QED BY <2>1, <2>2
<1>6. n \div (k * m) = u
  BY <1>3, <1>4, <1>5, DivUnique
<1> QED BY <1>1, <1>2, <1>5, <1>6

\* g is what is computed from c in n steps, the i-th by F[i].
Steps(n, S) == [1 .. n -> [S -> S]]
Computes(g, S, c, n, F) ==
  g \in [0 .. n -> S] /\ g[0] = c /\ \A i \in 1 .. n : g[i] = F[i][g[i - 1]]

\* Functions defined by recursion on 0 .. n exist.
LEMMA RecursionExists ==
  ASSUME NEW S, NEW c \in S, NEW n \in Nat, NEW F \in Steps(n, S)
  PROVE  \E g : Computes(g, S, c, n, F)
<1> DEFINE P == {k \in Nat : k <= n => \E g : Computes(g, S, c, k, F)}
<1>1. 0 \in P
  <2>1. Computes([i \in 0 .. 0 |-> c], S, c, 0, F)
    BY DEF Computes
  <2> QED BY <2>1
<1>2. ASSUME NEW k \in P PROVE k + 1 \in P
  <2> SUFFICES ASSUME k + 1 <= n PROVE \E g : Computes(g, S, c, k + 1, F)
    OBVIOUS
  <2>1. PICK g : Computes(g, S, c, k, F)
    OBVIOUS
  <2> DEFINE h == [i \in 0 .. k + 1 |-> IF i = k + 1 THEN F[k + 1][g[k]] ELSE g[i]]
  <2>2. k + 1 \in 1 .. n /\ g \in [0 .. k -> S] /\ F[k + 1] \in [S -> S]
    BY <2>1 DEF Computes, Steps
  <2>3. h \in [0 .. k + 1 -> S]
    BY <2>2
  <2>4. \A i \in 0 .. k : h[i] = g[i]
    OBVIOUS
  <2>5. h[k + 1] = F[k + 1][h[k]]
    <3>1. h[k] = g[k] /\ h[k + 1] = F[k + 1][g[k]]
      BY <2>4
    <3> HIDE DEF h
    <3> QED BY <3>1
  <2> HIDE DEF h
  <2>6. ASSUME NEW i \in 1 .. k + 1 PROVE h[i] = F[i][h[i - 1]]
    <3>1. CASE i = k + 1
      BY <2>5, <3>1
    <3>2. CASE i \in 1 .. k
      BY <2>1, <2>4, <3>2 DEF Computes
    <3> QED BY <3>1, <3>2
  <2>7. h[0] = c
    BY <2>1, <2>4 DEF Computes
  <2> QED BY <2>3, <2>6, <2>7 DEF Computes
<1> HIDE DEF P
<1>3. P = Nat
  BY <1>1, <1>2, NatInduct DEF P
<1> QED BY <1>3 DEF P

Digit == 0 .. Base - 1

\* The powers of Base, by the equation Pow is defined with.
LEMMA PowFacts ==
  /\ Pow[0] = 1
  /\ \A k \in 1 .. PB : Pow[k] = Base * Pow[k - 1]
  /\ \A k \in 0 .. PB : Pow[k] \in Nat \ {0}
<1>1. PB \in Nat /\ Base \in Nat \ {0}
  BY PortStreamAssumption
<1> DEFINE Is(f) == f = [n \in 0 .. PB |-> IF n = 0 THEN 1 ELSE Base * f[n - 1]]
           F == [i \in 1 .. PB |-> [x \in Nat |-> Base * x]]
<1>2. F \in Steps(PB, Nat)
  BY <1>1 DEF Steps
<1> HIDE DEF F
<1>0. PICK g : Computes(g, Nat, 1, PB, F)
  BY <1>1, <1>2, RecursionExists
<1>3. g \in [0 .. PB -> Nat] /\ g[0] = 1 /\ \A i \in 1 .. PB : g[i] = F[i][g[i - 1]]
  BY <1>0 DEF Computes
<1>4. \A i \in 1 .. PB : g[i] = Base * g[i - 1]
  <2> SUFFICES ASSUME NEW i \in 1 .. PB PROVE g[i] = Base * g[i - 1]
    OBVIOUS
  <2>1. F[i] = [x \in Nat |-> Base * x]
    BY DEF F
  <2>2. g[i - 1] \in Nat
    BY <1>1, <1>3
  <2> QED BY <1>3, <2>1, <2>2
<1>5. Is(g)
  <2>1. \A i \in 0 .. PB : g[i] = IF i = 0 THEN 1 ELSE Base * g[i - 1]
    BY <1>1, <1>3, <1>4
  <2> QED BY <1>3, <2>1
<1>6. Pow = CHOOSE f : Is(f)
  BY DEF Pow
<1>7. Is(Pow)
  <2> HIDE DEF Is
  <2> QED BY <1>5, <1>6
<1>8. Pow[0] = 1 /\ \A k \in 1 .. PB : Pow[k] = Base * Pow[k - 1]
  BY <1>1, <1>7
<1> DEFINE P == {k \in Nat : k <= PB => Pow[k] \in Nat \ {0}}
<1>9. 0 \in P
  BY <1>8
<1>10. ASSUME NEW k \in P PROVE k + 1 \in P
  <2> SUFFICES ASSUME k + 1 <= PB PROVE Pow[k + 1] \in Nat \ {0}
    OBVIOUS
  <2>1. Pow[k + 1] = Base * Pow[k] /\ Pow[k] \in Nat \ {0}
    <3>1. k + 1 \in 1 .. PB /\ k + 1 - 1 = k
      BY <1>1
    <3>2. Pow[k] \in Nat \ {0}
      BY <1>1
    <3> QED BY <1>8, <3>1, <3>2
  <2> QED BY <1>1, <2>1, DivTwice
<1> HIDE DEF P
<1>11. P = Nat
  BY <1>9, <1>10, NatInduct DEF P
<1>12. ASSUME NEW k \in 0 .. PB PROVE Pow[k] \in Nat \ {0}
  BY <1>1, <1>11 DEF P
<1> QED BY <1>8, <1>12

\* The function Value is computed with.
LEMMA ValueSteps ==
  ASSUME NEW b \in Seq(Digit)
  PROVE  \E v \in [0 .. Len(b) -> Nat] :
           /\ v[0] = 0 /\ Value(b) = v[Len(b)]
           /\ \A i \in 1 .. Len(b) : v[i] = (v[i - 1] * Base) + b[i]
<1> DEFINE n == Len(b)
           Is(f) == f = [i \in 0 .. n |-> IF i = 0 THEN 0 ELSE f[i - 1] * Base + b[i]]
           F == [i \in 1 .. n |-> [x \in Nat |-> (x * Base) + b[i]]]
           v == CHOOSE f : Is(f)
<1>1. n \in Nat /\ Base \in Nat \ {0}
  BY PortStreamAssumption
<1>2. \A i \in 1 .. n : b[i] \in Nat
  BY <1>1 DEF Digit
<1>3. F \in Steps(n, Nat)
  <2>1. \A i \in 1 .. n, x \in Nat : (x * Base) + b[i] \in Nat
    BY <1>1, <1>2
  <2> QED BY <2>1 DEF Steps
<1>4. Value(b) = v[n]
  BY DEF Value
<1> HIDE DEF F, n
<1>5. PICK g : Computes(g, Nat, 0, n, F)
  BY <1>1, <1>3, RecursionExists
<1>6. g \in [0 .. n -> Nat] /\ g[0] = 0 /\ \A i \in 1 .. n : g[i] = F[i][g[i - 1]]
  BY <1>5 DEF Computes
<1>7. ASSUME NEW i \in 1 .. n PROVE g[i] = (g[i - 1] * Base) + b[i]
  <2>1. F[i] = [x \in Nat |-> (x * Base) + b[i]]
    BY DEF F
  <2>2. g[i - 1] \in Nat
    BY <1>1, <1>6
  <2> QED BY <1>6, <2>1, <2>2
<1>8. Is(g)
  <2>1. \A i \in 0 .. n : g[i] = IF i = 0 THEN 0 ELSE g[i - 1] * Base + b[i]
    BY <1>1, <1>6, <1>7
  <2> QED BY <1>6, <2>1
<1>9. Is(v)
  <2> HIDE DEF Is
  <2> QED BY <1>8
<1> HIDE DEF v
<1>10. v[0] = 0 /\ \A i \in 1 .. n : v[i] = (v[i - 1] * Base) + b[i]
  BY <1>1, <1>9
<1>11. \A i \in 0 .. n : v[i] = g[i]
  <2> DEFINE P == {k \in Nat : k <= n => v[k] = g[k]}
  <2>1. 0 \in P
    BY <1>6, <1>10
  <2>2. ASSUME NEW k \in P PROVE k + 1 \in P
    <3> SUFFICES ASSUME k + 1 <= n PROVE v[k + 1] = g[k + 1]
      OBVIOUS
    <3>1. k + 1 \in 1 .. n /\ (k + 1) - 1 = k /\ v[k] = g[k]
      BY <1>1
    <3> QED BY <1>7, <1>10, <3>1
  <2> HIDE DEF P
  <2>3. P = Nat
    BY <2>1, <2>2, NatInduct DEF P
  <2> QED BY <1>1, <2>3 DEF P
<1>12. v \in [0 .. n -> Nat]
  <2>1. v = [i \in 0 .. n |-> v[i]]
    BY <1>9
  <2> QED BY <1>6, <1>11, <2>1
<1> QED BY <1>4, <1>10, <1>12 DEF n

\* What a header says is a length its bytes can hold, and it is the only
\* header that says so.
LEMMA HeaderOfValue ==
  ASSUME NEW b \in Seq(Digit), Len(b) = PB
  PROVE  Value(b) \in Nat /\ Value(b) < Pow[PB] /\ Header(Value(b)) = b
<1>1. PB \in Nat \ {0} /\ Base \in Nat \ {0}
  BY PortStreamAssumption
<1>2. PICK v \in [0 .. PB -> Nat] :
        /\ v[0] = 0 /\ Value(b) = v[PB]
        /\ \A i \in 1 .. PB : v[i] = (v[i - 1] * Base) + b[i]
  BY ValueSteps
<1>3. \A i \in 1 .. PB : b[i] \in Digit
  OBVIOUS
<1> DEFINE x == v[PB]
           P == {k \in Nat : k <= PB => x \div Pow[k] = v[PB - k]}
           L == {k \in Nat : k <= PB => v[k] < Pow[k]}
<1>4. x \in Nat
  BY <1>1, <1>2
<1>5. ASSUME NEW i \in 1 .. PB PROVE v[i] \div Base = v[i - 1] /\ v[i] % Base = b[i]
  <2>1. v[i] \in Nat /\ v[i - 1] \in Nat /\ b[i] \in 0 .. Base - 1
    <3>1. i \in 0 .. PB /\ i - 1 \in 0 .. PB
      BY <1>1
    <3>2. v[i] \in Nat /\ v[i - 1] \in Nat
      BY <1>2, <3>1
    <3> QED BY <1>3, <3>2 DEF Digit
  <2>2. v[i] = (v[i - 1] * Base) + b[i]
    BY <1>2
  <2>3. v[i - 1] \in Int /\ Base \in Nat \ {0}
    BY <1>1, <2>1
  <2> QED BY <2>1, <2>2, <2>3, DivUnique, Zenon
<1>6. P = Nat
  <2>1. 0 \in P
    <3>1. x \div 1 = x
      BY <1>4
    <3> QED BY <1>1, <3>1, PowFacts
  <2>2. ASSUME NEW k \in P PROVE k + 1 \in P
    <3> SUFFICES ASSUME k + 1 <= PB PROVE x \div Pow[k + 1] = v[PB - (k + 1)]
      OBVIOUS
    <3>1. k + 1 \in 1 .. PB /\ (k + 1) - 1 = k /\ k \in 0 .. PB /\ PB - k \in 1 .. PB
      BY <1>1
    <3>2. Pow[k + 1] = Base * Pow[k] /\ Pow[k] \in Nat \ {0}
      BY <3>1, PowFacts
    <3>3. x \div Pow[k + 1] = (x \div Pow[k]) \div Base
      <4> DEFINE w == Pow[k]
      <4>1. x \in Nat /\ Base \in Nat \ {0} /\ w \in Nat \ {0}
        BY <1>1, <1>4, <3>2
      <4> HIDE DEF w
      <4>2. x \div (Base * w) = (x \div w) \div Base
        BY <4>1, DivTwice
      <4> QED BY <3>2, <4>2, Zenon DEF w
    <3>4. x \div Pow[k] = v[PB - k]
      BY <1>1
    <3>5. v[PB - k] \div Base = v[(PB - k) - 1]
      BY <1>5, <3>1
    <3>6. (PB - k) - 1 = PB - (k + 1)
      BY <1>1
    <3> QED BY <3>3, <3>4, <3>5, <3>6
  <2> HIDE DEF P
  <2> QED BY <2>1, <2>2, NatInduct DEF P
<1>7. L = Nat
  <2>1. 0 \in L
    BY <1>2, PowFacts
  <2>2. ASSUME NEW k \in L PROVE k + 1 \in L
    <3> SUFFICES ASSUME k + 1 <= PB PROVE v[k + 1] < Pow[k + 1]
      OBVIOUS
    <3>1. k + 1 \in 1 .. PB /\ (k + 1) - 1 = k /\ k \in 0 .. PB
      BY <1>1
    <3>2. Pow[k + 1] = Base * Pow[k] /\ Pow[k] \in Nat \ {0}
      BY <3>1, PowFacts
    <3>3. v[k + 1] = (v[k] * Base) + b[k + 1] /\ b[k + 1] \in 0 .. Base - 1
      BY <1>2, <1>3, <3>1 DEF Digit
    <3>4. v[k] \in Nat /\ v[k] < Pow[k]
      BY <1>1, <1>2, <3>1
    <3>5. (v[k] + 1) * Base <= Pow[k] * Base
      <4>1. v[k] + 1 \in Int /\ Pow[k] \in Int /\ Base \in Nat /\ v[k] + 1 <= Pow[k]
        BY <1>1, <3>2, <3>4
      <4> QED BY <4>1, Times, Zenon
    <3>6. (v[k] + 1) * Base = (v[k] * Base) + Base /\ Pow[k] * Base = Base * Pow[k]
      BY <1>1, <3>2, <3>4
    <3>7. v[k] * Base \in Int /\ Base * Pow[k] \in Int
      BY <1>1, <3>2, <3>4
    <3> DEFINE vb == v[k] * Base
               pb == Base * Pow[k]
    <3>8. vb \in Int /\ pb \in Int /\ vb + Base <= pb
      BY <3>5, <3>6, <3>7
    <3>9. v[k + 1] = vb + b[k + 1] /\ Pow[k + 1] = pb
      BY <3>2, <3>3
    <3> HIDE DEF vb, pb
    <3> QED BY <1>1, <3>3, <3>8, <3>9
  <2> HIDE DEF L
  <2> QED BY <2>1, <2>2, NatInduct DEF L
<1>8. ASSUME NEW i \in 1 .. PB PROVE (x \div Pow[PB - i]) % Base = b[i]
  <2>1. PB - i \in Nat /\ PB - i <= PB /\ PB - (PB - i) = i
    BY <1>1
  <2>2. x \div Pow[PB - i] = v[i]
    BY <1>6, <2>1
  <2> QED BY <1>5, <2>2
<1>9. Header(x) = b
  <2>1. b = [i \in 1 .. PB |-> b[i]]
    OBVIOUS
  <2> QED BY <1>8, <2>1 DEF Header
<1>10. x < Pow[PB]
  BY <1>1, <1>7
<1> QED BY <1>2, <1>4, <1>9, <1>10

\* The header of a length that fits says this length.
LEMMA ValueOfHeader ==
  ASSUME NEW n \in Nat
  PROVE  /\ Header(n) \in Seq(Digit) /\ Len(Header(n)) = PB
         /\ n < Pow[PB] => Value(Header(n)) = n
<1>1. PB \in Nat \ {0} /\ Base \in Nat \ {0}
  BY PortStreamAssumption
<1>2. ASSUME NEW i \in 1 .. PB
      PROVE  /\ PB - i \in 0 .. PB - 1 /\ Pow[PB - i] \in Nat \ {0}
             /\ (n \div Pow[PB - i]) \in Nat /\ (n \div Pow[PB - i]) % Base \in Digit
  <2>1. PB - i \in 0 .. PB /\ PB - i \in 0 .. PB - 1
    BY <1>1
  <2>2. Pow[PB - i] \in Nat \ {0}
    BY <2>1, PowFacts
  <2>3. n \div Pow[PB - i] \in Nat
    BY <2>2, DivRange
  <2> QED BY <1>1, <2>1, <2>2, <2>3, DivRange DEF Digit
<1>3. Header(n) \in Seq(Digit) /\ Len(Header(n)) = PB
  BY <1>1, <1>2 DEF Header
<1>4. ASSUME n < Pow[PB] PROVE Value(Header(n)) = n
  <2> DEFINE b == Header(n)
  <2>1. PICK v \in [0 .. PB -> Nat] :
          /\ v[0] = 0 /\ Value(b) = v[PB]
          /\ \A i \in 1 .. PB : v[i] = (v[i - 1] * Base) + b[i]
    BY <1>3, ValueSteps
  <2> DEFINE P == {k \in Nat : k <= PB => v[k] = n \div Pow[PB - k]}
  <2>2. 0 \in P
    <3>1. Pow[PB] \in Nat \ {0}
      BY <1>1, PowFacts
    <3>2. n = (0 * Pow[PB]) + n /\ n \in 0 .. Pow[PB] - 1
      BY <1>4, <3>1
    <3>3. n \div Pow[PB] = 0
      BY <3>1, <3>2, DivUnique
    <3>4. PB - 0 = PB
      BY <1>1
    <3> QED BY <2>1, <3>3, <3>4
  <2>3. ASSUME NEW k \in P PROVE k + 1 \in P
    <3> SUFFICES ASSUME k + 1 <= PB PROVE v[k + 1] = n \div Pow[PB - (k + 1)]
      OBVIOUS
    <3> DEFINE y == n \div Pow[PB - (k + 1)]
    <3>1. k + 1 \in 1 .. PB /\ (k + 1) - 1 = k /\ PB - k \in 1 .. PB /\ (PB - k) - 1 = PB - (k + 1)
      BY <1>1
    <3>2. Pow[PB - k] = Base * Pow[PB - (k + 1)]
      BY <3>1, PowFacts
    <3>3. Pow[PB - (k + 1)] \in Nat \ {0} /\ y \in Nat
      BY <1>2, <3>1
    <3>4. n \div Pow[PB - k] = y \div Base
      <4>1. n \div (Base * Pow[PB - (k + 1)]) = y \div Base
        <5> DEFINE p == Pow[PB - (k + 1)]
        <5>1. p \in Nat \ {0} /\ Base \in Nat \ {0}
          BY <1>1, <3>3
        <5> HIDE DEF p
        <5>2. n \div (Base * p) = (n \div p) \div Base
          BY <5>1, DivTwice
        <5> QED BY <5>2 DEF p
      <4> QED BY <3>2, <4>1, Zenon
    <3>5. v[k] = n \div Pow[PB - k]
      BY <1>1
    <3>6. b[k + 1] = y % Base
      BY <3>1 DEF Header
    <3>7. v[k + 1] = (v[k] * Base) + b[k + 1]
      BY <2>1, <3>1
    <3> HIDE DEF y
    <3>8. y = ((y \div Base) * Base) + (y % Base)
      BY <1>1, <3>3, DivRange
    <3> QED BY <3>4, <3>5, <3>6, <3>7, <3>8 DEF y
  <2> HIDE DEF P, b
  <2>4. P = Nat
    BY <2>2, <2>3, NatInduct DEF P
  <2>5. v[PB] = n \div Pow[0]
    <3>1. PB - PB = 0 /\ PB \in Nat /\ PB <= PB
      BY <1>1
    <3>2. v[PB] = n \div Pow[PB - PB]
      BY <2>4, <3>1 DEF P
    <3> QED BY <3>1, <3>2
  <2>6. n \div 1 = n
    OBVIOUS
  <2> QED BY <2>1, <2>5, <2>6, PowFacts DEF b
<1> QED BY <1>3, <1>4

-----------------------------------------------------------------------------
(* Sequences of bytes and of messages.                                     *)

Data == Seq(Digit)

\* One thing behind another: \o by a name, that the provers do not look into
\* where they only have to regroup.
Cat(x, y) == x \o y

\* Sequences put together
LEMMA CatFacts ==
  \A x, y, z \in Data :
    /\ Cat(x, y) \in Data /\ Len(Cat(x, y)) = Len(x) + Len(y)
    /\ Cat(Cat(x, y), z) = Cat(x, Cat(y, z))
    /\ <<>> \in Data /\ Cat(<<>>, x) = x /\ Cat(x, <<>>) = x
<1> SUFFICES ASSUME NEW x \in Seq(Digit), NEW y \in Seq(Digit), NEW z \in Seq(Digit)
             PROVE  /\ x \o y \in Seq(Digit) /\ Len(x \o y) = Len(x) + Len(y)
                    /\ (x \o y) \o z = x \o (y \o z)
                    /\ <<>> \in Seq(Digit) /\ <<>> \o x = x /\ x \o <<>> = x
  BY Zenon DEF Cat, Data
<1>1. x \o y \in Seq(Digit) /\ Len(x \o y) = Len(x) + Len(y)
  BY ConcatProperties
<1>2. (x \o y) \o z = x \o (y \o z)
  BY ConcatAssociative
<1>3. <<>> \o x = x /\ x \o <<>> = x /\ <<>> \in Seq(Digit)
  BY ConcatEmptySeq
<1> QED BY <1>1, <1>2, <1>3

\* and taken apart.
LEMMA SplitAt ==
  ASSUME NEW S, NEW s \in Seq(S), NEW n \in 0 .. Len(s)
  PROVE  Take(s, n) \o Drop(s, n) = s
<1>1. 1 \in 1 .. Len(s) + 1 /\ n \in 1 - 1 .. Len(s) /\ Len(s) \in n .. Len(s)
  OBVIOUS
<1>2. SubSeq(s, 1, n) \o SubSeq(s, n + 1, Len(s)) = SubSeq(s, 1, Len(s))
  BY <1>1, ConcatAdjacentSubSeq
<1> QED BY <1>2, SubSeqFull DEF Take, Drop

\* Equal concatenations with equally long fronts.
LEMMA SameFront ==
  ASSUME NEW S, NEW s \in Seq(S), NEW t \in Seq(S), NEW u \in Seq(S), NEW v \in Seq(S),
         s \o t = u \o v, Len(s) = Len(u)
  PROVE  s = u /\ t = v
<1>1. \A i \in 1 .. Len(s) : (s \o t)[i] = s[i] /\ (u \o v)[i] = u[i]
  OBVIOUS
<1>2. \A i \in 1 .. Len(s) : s[i] = u[i]
  BY <1>1
<1>3. s = u
  BY <1>2, SeqEqual
<1> QED BY <1>3, ConcatSimplifications

\* The same bytes, cut at the same place, are the same parts.
LEMMA SameStart ==
  ASSUME NEW s \in Data, NEW t \in Data, NEW u \in Data, NEW v \in Data,
         Cat(s, t) = Cat(u, v), Len(s) = Len(u)
  PROVE  s = u /\ t = v
<1>1. s \in Seq(Digit) /\ t \in Seq(Digit) /\ u \in Seq(Digit) /\ v \in Seq(Digit) /\ s \o t = u \o v
  BY Zenon DEF Cat, Data
<1> QED BY <1>1, SameFront

\* A framed message is bytes, at least as many as its header.
LEMMA FrameType ==
  ASSUME NEW m \in Data
  PROVE  Frame(m) \in Data /\ Len(Frame(m)) = PB + Len(m) /\ Len(Frame(m)) > 0 /\ Frame(m) # <<>>
<1>1. PB \in Nat /\ PB > 0 /\ Len(m) \in Nat
  BY PortStreamAssumption DEF Data
<1>2. Header(Len(m)) \in Data /\ Len(Header(Len(m))) = PB
  BY <1>1, ValueOfHeader DEF Data
<1>3. Frame(m) \in Data /\ Len(Frame(m)) = PB + Len(m)
  BY <1>2 DEF Frame, Data
<1>4. Frame(m) # <<>>
  BY <1>1, <1>3
<1> QED BY <1>1, <1>3, <1>4

\* The function Bytes is computed with.
LEMMA BytesSteps ==
  ASSUME NEW msgs \in Seq(Data)
  PROVE  \E b \in [0 .. Len(msgs) -> Data] :
           /\ b[0] = <<>> /\ Bytes(msgs) = b[Len(msgs)]
           /\ \A i \in 1 .. Len(msgs) : b[i] = b[i - 1] \o Frame(msgs[i])
<1> DEFINE n == Len(msgs)
           Is(f) == f = [i \in 0 .. n |-> IF i = 0 THEN <<>> ELSE f[i - 1] \o Frame(msgs[i])]
           F == [i \in 1 .. n |-> [x \in Data |-> x \o Frame(msgs[i])]]
           b == CHOOSE f : Is(f)
<1>1. n \in Nat
  OBVIOUS
<1>2. \A i \in 1 .. n : Frame(msgs[i]) \in Data
  <2>1. \A i \in 1 .. n : msgs[i] \in Data
    OBVIOUS
  <2> QED BY <2>1, FrameType
<1>3. F \in Steps(n, Data)
  <2>1. \A i \in 1 .. n, x \in Data : x \o Frame(msgs[i]) \in Data
    BY <1>2 DEF Data
  <2> QED BY <2>1 DEF Steps
<1>4. Bytes(msgs) = b[n]
  BY DEF Bytes
<1> HIDE DEF F, n
<1>5. PICK g : Computes(g, Data, <<>>, n, F)
  <2>1. <<>> \in Data
    BY DEF Data
  <2> QED BY <1>1, <1>3, <2>1, RecursionExists
<1>6. g \in [0 .. n -> Data] /\ g[0] = <<>> /\ \A i \in 1 .. n : g[i] = F[i][g[i - 1]]
  BY <1>5 DEF Computes
<1>7. ASSUME NEW i \in 1 .. n PROVE g[i] = g[i - 1] \o Frame(msgs[i])
  <2>1. F[i] = [x \in Data |-> x \o Frame(msgs[i])]
    BY DEF F
  <2>2. g[i - 1] \in Data
    BY <1>1, <1>6
  <2> QED BY <1>6, <2>1, <2>2
<1>8. Is(g)
  <2>1. ASSUME NEW i \in 0 .. n PROVE g[i] = IF i = 0 THEN <<>> ELSE g[i - 1] \o Frame(msgs[i])
    <3>1. CASE i = 0
      BY <1>6, <3>1
    <3>2. CASE i \in 1 .. n
      <4>1. g[i] = g[i - 1] \o Frame(msgs[i])
        BY <1>7, <3>2, Zenon
      <4>2. i # 0
        BY <3>2
      <4> QED BY <4>1, <4>2, Zenon
    <3> QED BY <1>1, <3>1, <3>2
  <2> QED BY <1>6, <2>1
<1>9. Is(b)
  <2> HIDE DEF Is
  <2> QED BY <1>8
<1> HIDE DEF b
<1>10. b[0] = <<>> /\ \A i \in 1 .. n : b[i] = b[i - 1] \o Frame(msgs[i])
  BY <1>1, <1>9
<1>11. \A i \in 0 .. n : b[i] = g[i]
  <2> DEFINE P == {k \in Nat : k <= n => b[k] = g[k]}
  <2>1. 0 \in P
    BY <1>6, <1>10
  <2>2. ASSUME NEW k \in P PROVE k + 1 \in P
    <3> SUFFICES ASSUME k + 1 <= n PROVE b[k + 1] = g[k + 1]
      OBVIOUS
    <3>1. k + 1 \in 1 .. n /\ (k + 1) - 1 = k /\ b[k] = g[k]
      BY <1>1
    <3> QED BY <1>7, <1>10, <3>1
  <2> HIDE DEF P
  <2>3. P = Nat
    BY <2>1, <2>2, NatInduct DEF P
  <2> QED BY <1>1, <2>3 DEF P
<1>12. b \in [0 .. n -> Data]
  <2>1. b = [i \in 0 .. n |-> b[i]]
    BY <1>9
  <2> QED BY <1>6, <1>11, <2>1
<1> QED BY <1>4, <1>10, <1>12 DEF n

\* Bytes by its equations: of no message, of one more.
LEMMA BytesOfNone == Bytes(<<>>) = <<>>
<1>1. <<>> \in Seq(Data) /\ Len(<<>>) = 0
  OBVIOUS
<1>2. PICK b \in [0 .. Len(<<>>) -> Data] : b[0] = <<>> /\ Bytes(<<>>) = b[Len(<<>>)]
  BY <1>1, BytesSteps
<1> QED BY <1>1, <1>2

\* The bytes of messages are bytes.
LEMMA BytesType ==
  ASSUME NEW s \in Seq(Data)
  PROVE  Bytes(s) \in Data
<1>1. PICK b \in [0 .. Len(s) -> Data] : Bytes(s) = b[Len(s)]
  BY BytesSteps
<1>2. Len(s) \in 0 .. Len(s)
  OBVIOUS
<1> QED BY <1>1, <1>2

\* The bytes of one more message.
LEMMA BytesOfAppend ==
  ASSUME NEW s \in Seq(Data), NEW m \in Data
  PROVE  Bytes(Append(s, m)) = Bytes(s) \o Frame(m)
<1> DEFINE t == Append(s, m)
           n == Len(s)
<1>1. t \in Seq(Data) /\ Len(t) = n + 1 /\ n \in Nat /\ t[n + 1] = m /\ \A i \in 1 .. n : t[i] = s[i]
  OBVIOUS
<1> HIDE DEF t, n
<1>2. PICK b \in [0 .. n -> Data] :
        b[0] = <<>> /\ Bytes(s) = b[n] /\ \A i \in 1 .. n : b[i] = b[i - 1] \o Frame(s[i])
  BY BytesSteps DEF n
<1>3. PICK c \in [0 .. n + 1 -> Data] :
        c[0] = <<>> /\ Bytes(t) = c[n + 1] /\ \A i \in 1 .. n + 1 : c[i] = c[i - 1] \o Frame(t[i])
  <2>1. PICK c \in [0 .. Len(t) -> Data] :
        c[0] = <<>> /\ Bytes(t) = c[Len(t)] /\ \A i \in 1 .. Len(t) : c[i] = c[i - 1] \o Frame(t[i])
    BY <1>1, BytesSteps
  <2> QED BY <1>1, <2>1
<1> DEFINE P == {k \in Nat : k <= n => b[k] = c[k]}
<1>4. 0 \in P
  BY <1>2, <1>3
<1>5. ASSUME NEW k \in P PROVE k + 1 \in P
  <2> SUFFICES ASSUME k + 1 <= n PROVE b[k + 1] = c[k + 1]
    OBVIOUS
  <2>1. k + 1 \in 1 .. n /\ k + 1 \in 1 .. n + 1 /\ (k + 1) - 1 = k /\ b[k] = c[k]
    BY <1>1
  <2> QED BY <1>1, <1>2, <1>3, <2>1
<1> HIDE DEF P
<1>6. P = Nat
  BY <1>4, <1>5, NatInduct DEF P
<1>7. b[n] = c[n]
  BY <1>1, <1>6 DEF P
<1>8. n + 1 \in 1 .. n + 1 /\ (n + 1) - 1 = n
  BY <1>1
<1>9. c[n + 1] = c[n] \o Frame(m)
  BY <1>1, <1>3, <1>8
<1> QED BY <1>2, <1>3, <1>7, <1>9 DEF t

\* Bytes of messages behind others.
LEMMA BytesOfConcat ==
  ASSUME NEW s \in Seq(Data), NEW t \in Seq(Data)
  PROVE  Bytes(s \o t) = Bytes(s) \o Bytes(t)
<1> DEFINE P == {n \in Nat : \A u \in Seq(Data) : Len(u) = n => Bytes(s \o u) = Bytes(s) \o Bytes(u)}
<1>1. 0 \in P
  <2> SUFFICES ASSUME NEW u \in Seq(Data), Len(u) = 0 PROVE Bytes(s \o u) = Bytes(s) \o Bytes(u)
    OBVIOUS
  <2>1. u = <<>> /\ s \o u = s
    OBVIOUS
  <2>2. Bytes(s) \o <<>> = Bytes(s)
    BY BytesType DEF Data
  <2> QED BY <2>1, <2>2, BytesOfNone
<1>2. ASSUME NEW n \in P PROVE n + 1 \in P
  <2> SUFFICES ASSUME NEW u \in Seq(Data), Len(u) = n + 1 PROVE Bytes(s \o u) = Bytes(s) \o Bytes(u)
    OBVIOUS
  <2>1. PICK v \in Seq(Data), m \in Data : u = Append(v, m)
    <3>1. u # <<>>
      OBVIOUS
    <3> QED BY <3>1, SequenceEmptyOrAppend
  <2>2. Len(v) = n
    BY <2>1
  <2>3. Bytes(s \o v) = Bytes(s) \o Bytes(v)
    BY <2>2
  <2>4. s \o u = Append(s \o v, m) /\ s \o v \in Seq(Data)
    BY <2>1
  <2>5. Bytes(s \o u) = (Bytes(s) \o Bytes(v)) \o Frame(m)
    BY <2>3, <2>4, BytesOfAppend
  <2>6. Bytes(u) = Bytes(v) \o Frame(m)
    BY <2>1, BytesOfAppend
  <2>7. Bytes(s) \in Data /\ Bytes(v) \in Data /\ Frame(m) \in Data
    BY BytesType, FrameType
  <2>8. (Bytes(s) \o Bytes(v)) \o Frame(m) = Bytes(s) \o (Bytes(v) \o Frame(m))
    <3> DEFINE x == Bytes(s)
               y == Bytes(v)
               z == Frame(m)
    <3>1. x \in Data /\ y \in Data /\ z \in Data
      BY <2>7
    <3> HIDE DEF x, y, z, P
    <3>2. Cat(Cat(x, y), z) = Cat(x, Cat(y, z))
      BY <3>1, CatFacts
    <3> QED BY <3>2, Zenon DEF Cat, x, y, z
  <2> QED BY <2>5, <2>6, <2>8, Zenon
<1> HIDE DEF P
<1>3. P = Nat
  BY <1>1, <1>2, NatInduct DEF P
<1>4. Len(t) \in P
  BY <1>3
<1> QED BY <1>4 DEF P

\* The bytes of one message are its frame.
LEMMA BytesOfOne ==
  ASSUME NEW m \in Data
  PROVE  <<m>> \in Seq(Data) /\ Bytes(<<m>>) = Frame(m)
<1>1. <<>> \in Seq(Data) /\ Append(<<>>, m) = <<m>>
  OBVIOUS
<1>2. Bytes(<<m>>) = <<>> \o Frame(m)
  BY <1>1, BytesOfAppend, BytesOfNone
<1> QED BY <1>2, FrameType DEF Data

-----------------------------------------------------------------------------
(* Cutting what was read into messages.                                    *)

\* Messages whose length fits the header.
Short == {m \in Data : Len(m) < Pow[PB]}

\* What an input side may hold, and the bytes it stands for.
InputSide ==
  {d \in [pbuf : Data, buf : Data, remain : Nat] :
     /\ Len(d.pbuf) < PB
     /\ d.remain = 0 => d.buf = <<>>
     /\ d.remain > 0 => Len(d.buf) + d.remain < Pow[PB]}
Held(d) == IF d.remain = 0 THEN d.pbuf ELSE Header(Len(d.buf) + d.remain) \o d.buf

\* What Scan gives from position i on, if it is f further on.
ScanFrom(s, f, i) ==
  LET left == Len(s) + 1 - (i + PB)
      h == Value(SubSeq(s, i, i + PB - 1))
      rest == f[i + PB + h]
  IN IF left < 0 THEN [msgs |-> <<>>, ifd |-> [Clean EXCEPT !.pbuf = SubSeq(s, i, Len(s))]]
     ELSE IF h <= left
       THEN [rest EXCEPT !.msgs = <<SubSeq(s, i + PB, i + PB + h - 1)>> \o @]
       ELSE [msgs |-> <<>>,
             ifd |-> [pbuf |-> <<>>, buf |-> SubSeq(s, i + PB, Len(s)), remain |-> h - left]]

\* A header that is all there.
LEMMA HeaderAt ==
  ASSUME NEW s \in Data, NEW i \in 1 .. Len(s) + 1, Len(s) + 1 - (i + PB) >= 0
  PROVE  /\ SubSeq(s, i, i + PB - 1) \in Data /\ Len(SubSeq(s, i, i + PB - 1)) = PB
         /\ Value(SubSeq(s, i, i + PB - 1)) \in Nat
         /\ Value(SubSeq(s, i, i + PB - 1)) < Pow[PB]
         /\ Header(Value(SubSeq(s, i, i + PB - 1))) = SubSeq(s, i, i + PB - 1)
<1>1. PB \in Nat \ {0} /\ Len(s) \in Nat
  BY PortStreamAssumption DEF Data
<1> DEFINE b == SubSeq(s, i, i + PB - 1)
<1>2. b \in Seq(Digit) /\ Len(b) = PB
  <2>1. \A j \in i .. i + PB - 1 : s[j] \in Digit
    BY <1>1 DEF Data
  <2> QED BY <1>1, <2>1, SubSeqProperties
<1> HIDE DEF b
<1>3. Value(b) \in Nat /\ Value(b) < Pow[PB] /\ Header(Value(b)) = b
  BY <1>2, HeaderOfValue
<1> QED BY <1>2, <1>3 DEF b, Data

\* Scan by the equation it is defined with.
LEMMA ScanSteps ==
  ASSUME NEW s \in Data
  PROVE  \E f : /\ Scan(s) = f[1]
                /\ \A i \in 1 .. Len(s) + 1 : f[i] = ScanFrom(s, f, i)
<1> DEFINE n == Len(s) + 1
           Is(f, k) == f = [i \in n + 1 - k .. n |-> ScanFrom(s, f, i)]
           P == {k \in Nat : k <= n => \E f : Is(f, k)}
           from == CHOOSE f : f = [i \in 1 .. n |-> ScanFrom(s, f, i)]
<1>1. PB \in Nat \ {0} /\ n \in Nat /\ n > 0
  BY PortStreamAssumption DEF Data
<1>2. Scan(s) = from[1]
  BY DEF Scan, ScanFrom
<1>3. ASSUME NEW f, NEW g, NEW i \in 1 .. n, \A j \in i + 1 .. n : f[j] = g[j]
      PROVE  ScanFrom(s, f, i) = ScanFrom(s, g, i)
  <2> DEFINE left == Len(s) + 1 - (i + PB)
             h == Value(SubSeq(s, i, i + PB - 1))
             header == [msgs |-> <<>>, ifd |-> [Clean EXCEPT !.pbuf = SubSeq(s, i, Len(s))]]
             more(r) == [r EXCEPT !.msgs = <<SubSeq(s, i + PB, i + PB + h - 1)>> \o @]
             part == [msgs |-> <<>>,
                      ifd |-> [pbuf |-> <<>>, buf |-> SubSeq(s, i + PB, Len(s)), remain |-> h - left]]
             By(x) == IF left < 0 THEN header ELSE IF h <= left THEN more(x[i + PB + h]) ELSE part
  <2>0. \A x : ScanFrom(s, x, i) = By(x)
    BY Zenon DEF ScanFrom
  <2>4. CASE ~(left < 0) /\ h <= left
    <3>1. h \in Nat
      BY <1>1, <2>4, HeaderAt
    <3> HIDE DEF h
    <3>2. i + PB + h \in i + 1 .. n
      BY <1>1, <2>4, <3>1
    <3>3. f[i + PB + h] = g[i + PB + h]
      BY <1>3, <3>2, Zenon
    <3>4. By(f) = By(g)
      BY <3>3, Zenon
    <3> QED BY <2>0, <3>4, Zenon
  <2> HIDE DEF left, h, header, more, part
  <2>5. CASE left < 0
    <3>1. By(f) = By(g)
      BY <2>5
    <3> QED BY <2>0, <3>1, Zenon
  <2>6. CASE ~(left < 0) /\ ~(h <= left)
    <3>1. By(f) = By(g)
      BY <2>6
    <3> QED BY <2>0, <3>1, Zenon
  <2> QED BY <2>4, <2>5, <2>6
<1>4. 0 \in P
  <2>1. Is([i \in n + 1 - 0 .. n |-> 0], 0)
    BY <1>1
  <2> QED BY <2>1
<1>5. ASSUME NEW k \in P PROVE k + 1 \in P
  <2> SUFFICES ASSUME k + 1 <= n PROVE \E f : Is(f, k + 1)
    <3> HIDE DEF Is
    <3> QED OBVIOUS
  <2>1. PICK f : Is(f, k)
    <3> HIDE DEF Is
    <3> QED BY <1>1
  <2> DEFINE g == [i \in n + 1 - (k + 1) .. n |-> ScanFrom(s, f, i)]
  <2>2. \A j \in n + 1 - k .. n : f[j] = g[j]
    BY <1>1, <2>1
  <2>3. ASSUME NEW i \in n + 1 - (k + 1) .. n PROVE ScanFrom(s, f, i) = ScanFrom(s, g, i)
    <3>1. i \in 1 .. n /\ \A j \in i + 1 .. n : j \in n + 1 - k .. n
      BY <1>1
    <3> HIDE DEF g
    <3> QED BY <1>3, <2>2, <3>1, Zenon
  <2>4. Is(g, k + 1)
    <3> HIDE DEF ScanFrom
    <3> QED BY <2>3, Zenon
  <2> HIDE DEF Is
  <2> QED BY <2>4
<1> HIDE DEF P
<1>6. P = Nat
  BY <1>4, <1>5, NatInduct DEF P
<1>7. \E f : f = [i \in 1 .. n |-> ScanFrom(s, f, i)]
  <2>1. \E f : Is(f, n)
    <3> HIDE DEF Is
    <3> QED BY <1>1, <1>6 DEF P
  <2>2. n + 1 - n = 1
    BY <1>1
  <2> QED BY <2>1, <2>2
<1>8. from = [i \in 1 .. n |-> ScanFrom(s, from, i)]
  BY <1>7, Zenon
<1> HIDE DEF from
<1>9. \A i \in 1 .. n : from[i] = ScanFrom(s, from, i)
  BY <1>8, Zenon
<1> QED BY <1>2, <1>9

\* A part of what was read.
LEMMA PartType ==
  ASSUME NEW s \in Data, NEW i \in 1 .. Len(s) + 1, NEW j \in i - 1 .. Len(s)
  PROVE  SubSeq(s, i, j) \in Data /\ Len(SubSeq(s, i, j)) = j + 1 - i
<1>1. \A k \in i .. j : s[k] \in Digit
  BY DEF Data
<1>2. i \in Nat /\ j \in Int
  BY DEF Data
<1> QED BY <1>1, <1>2, SubSeqProperties DEF Data

\* What is held of a message is bytes.
LEMMA HeldType ==
  ASSUME NEW d \in InputSide
  PROVE  Held(d) \in Data
<1>1. d.pbuf \in Data /\ d.buf \in Data /\ d.remain \in Nat
  BY DEF InputSide
<1>2. CASE d.remain = 0
  BY <1>1, <1>2 DEF Held
<1>3. CASE d.remain # 0
  <2>1. Len(d.buf) + d.remain \in Nat
    BY <1>1 DEF Data
  <2>2. Header(Len(d.buf) + d.remain) \in Data
    BY <2>1, ValueOfHeader DEF Data
  <2> DEFINE h == Header(Len(d.buf) + d.remain)
  <2>3. Held(d) = Cat(h, d.buf)
    BY <1>3, Zenon DEF Held, Cat
  <2>4. h \in Data
    BY <2>2
  <2> HIDE DEF h
  <2> QED BY <1>1, <2>3, <2>4, CatFacts
<1> QED BY <1>2, <1>3

\* What Scan returned stands for exactly the bytes it was given.
Exact(s, r) ==
  /\ r \in [msgs : Seq(Short), ifd : InputSide]
  /\ Bytes(r.msgs) \o Held(r.ifd) = s

\* Scanning is exact at i if it is from every later position on.
LEMMA ScanOne ==
  ASSUME NEW s \in Data, NEW i \in 1 .. Len(s) + 1, NEW f,
         \A j \in i + 1 .. Len(s) + 1 : Exact(SubSeq(s, j, Len(s)), f[j])
  PROVE  Exact(SubSeq(s, i, Len(s)), ScanFrom(s, f, i))
<1> DEFINE left == Len(s) + 1 - (i + PB)
           b == SubSeq(s, i, i + PB - 1)
           h == Value(SubSeq(s, i, i + PB - 1))
           m == SubSeq(s, i + PB, i + PB + h - 1)
           rest == f[i + PB + h]
           tail == SubSeq(s, i, Len(s))
           new == ScanFrom(s, f, i)
<1>1. PB \in Nat \ {0} /\ Len(s) \in Nat
  BY PortStreamAssumption DEF Data
<1>2. tail \in Data /\ Len(tail) = Len(s) + 1 - i
  BY <1>1, PartType
<1>3. CASE left < 0
  <2>1. new = [msgs |-> <<>>, ifd |-> [pbuf |-> tail, buf |-> <<>>, remain |-> 0]]
    BY <1>3 DEF ScanFrom, Clean
  <2>2. new.msgs = <<>> /\ new.ifd = [pbuf |-> tail, buf |-> <<>>, remain |-> 0]
    BY <2>1
  <2> HIDE DEF new
  <2>3. Len(tail) < PB
    BY <1>1, <1>2, <1>3
  <2> HIDE DEF tail
  <2>4. new.ifd \in InputSide /\ Held(new.ifd) = tail
    BY <1>2, <2>2, <2>3 DEF InputSide, Held, Data
  <2>5. Bytes(new.msgs) \o Held(new.ifd) = tail
    BY <1>2, <2>2, <2>4, BytesOfNone DEF Data
  <2>6. new \in [msgs : Seq(Short), ifd : InputSide]
    BY <2>1, <2>2, <2>4
  <2> QED BY <2>5, <2>6 DEF Exact, tail, new
<1>4. CASE ~(left < 0)
  <2>1. b \in Data /\ Len(b) = PB /\ h \in Nat /\ h < Pow[PB] /\ Header(h) = b
    BY <1>1, <1>4, HeaderAt
  <2> HIDE DEF h
  <2>2. CASE ~(h <= left)
    <3> DEFINE buf == SubSeq(s, i + PB, Len(s))
    <3>1. new = [msgs |-> <<>>, ifd |-> [pbuf |-> <<>>, buf |-> buf, remain |-> h - left]]
      BY <1>4, <2>2 DEF ScanFrom, h
    <3>2. new.msgs = <<>> /\ new.ifd = [pbuf |-> <<>>, buf |-> buf, remain |-> h - left]
      BY <3>1
    <3> HIDE DEF new
    <3>3. buf \in Data /\ Len(buf) = left
      <4>1. i + PB \in 1 .. Len(s) + 1 /\ Len(s) \in i + PB - 1 .. Len(s)
        BY <1>1, <1>4
      <4> QED BY <4>1, PartType
    <3>4. b \o buf = tail
      <4>1. i \in 1 .. Len(s) + 1 /\ i + PB - 1 \in i - 1 .. Len(s) /\ Len(s) \in i + PB - 1 .. Len(s)
        BY <1>1, <1>4
      <4>2. (i + PB - 1) + 1 = i + PB
        BY <1>1
      <4> QED BY <4>1, <4>2, ConcatAdjacentSubSeq DEF Data
    <3> HIDE DEF buf, b, tail
    <3>5. left \in Nat /\ h - left \in Nat /\ h - left > 0 /\ Len(buf) + (h - left) = h
      BY <1>1, <1>4, <2>1, <2>2, <3>3
    <3> HIDE DEF left
    <3>6. new.ifd \in InputSide
      <4>1. <<>> \in Data /\ Len(<<>>) < PB
        BY <1>1 DEF Data
      <4>2. new.ifd \in [pbuf : Data, buf : Data, remain : Nat]
        BY <3>2, <3>3, <3>5, <4>1
      <4>3. new.ifd.pbuf = <<>> /\ new.ifd.buf = buf /\ new.ifd.remain = h - left
        BY <3>2
      <4>4. Len(new.ifd.buf) + new.ifd.remain < Pow[PB] /\ new.ifd.remain # 0 /\ Len(new.ifd.pbuf) < PB
        BY <2>1, <3>5, <4>1, <4>3
      <4> QED BY <4>2, <4>4 DEF InputSide
    <3>7. Held(new.ifd) = b \o buf
      <4>1. new.ifd.buf = buf /\ new.ifd.remain = h - left
        BY <3>2
      <4>2. new.ifd.remain # 0 /\ Len(new.ifd.buf) + new.ifd.remain = h
        BY <3>5, <4>1
      <4>3. Held(new.ifd) = Header(h) \o buf
        BY <4>1, <4>2, Zenon DEF Held
      <4> QED BY <2>1, <4>3, Zenon
    <3>8. Bytes(new.msgs) \o Held(new.ifd) = tail
      <4>1. Bytes(new.msgs) = <<>> /\ Held(new.ifd) = tail
        BY <3>2, <3>4, <3>7, BytesOfNone, Zenon
      <4> HIDE DEF tail
      <4>2. <<>> \o tail = tail
        BY <1>2 DEF Data
      <4> QED BY <4>1, <4>2, Zenon
    <3>9. new \in [msgs : Seq(Short), ifd : InputSide]
      BY <3>1, <3>2, <3>6
    <3> QED BY <3>8, <3>9 DEF Exact, tail, new
  <2>3. CASE h <= left
    <3>1. new = [rest EXCEPT !.msgs = <<m>> \o @]
      BY <1>4, <2>3 DEF ScanFrom, h
    <3> HIDE DEF new
    <3> DEFINE j == i + PB + h
               last == SubSeq(s, j, Len(s))
    <3>2. j \in i + 1 .. Len(s) + 1
      BY <1>1, <1>4, <2>1, <2>3
    <3>3. Exact(last, rest)
      BY <3>2, Zenon
    <3>4. rest \in [msgs : Seq(Short), ifd : InputSide] /\ Bytes(rest.msgs) \o Held(rest.ifd) = last
      BY <3>3 DEF Exact
    <3>5. m \in Data /\ Len(m) = h
      <4>1. i + PB \in 1 .. Len(s) + 1 /\ i + PB + h - 1 \in i + PB - 1 .. Len(s)
        BY <1>1, <1>4, <2>1, <2>3
      <4>2. (i + PB + h - 1) + 1 - (i + PB) = h
        BY <1>1, <2>1
      <4>3. m \in Data /\ Len(m) = (i + PB + h - 1) + 1 - (i + PB)
        <5> DEFINE x == i + PB
                   y == i + PB + h - 1
        <5>1. x \in 1 .. Len(s) + 1 /\ y \in x - 1 .. Len(s)
          BY <1>1, <2>1, <4>1
        <5> HIDE DEF x, y
        <5>2. SubSeq(s, x, y) \in Data /\ Len(SubSeq(s, x, y)) = y + 1 - x
          BY <5>1, PartType
        <5> QED BY <5>2 DEF x, y
      <4> QED BY <4>2, <4>3
    <3>6. (b \o m) \o last = tail
      <4>1. i \in 1 .. Len(s) + 1 /\ i + PB - 1 \in i - 1 .. Len(s) /\ i + PB + h - 1 \in i + PB - 1 .. Len(s)
        BY <1>1, <1>4, <2>1, <2>3
      <4>2. (i + PB - 1) + 1 = i + PB /\ (i + PB + h - 1) + 1 = j
        BY <1>1, <2>1
      <4>3. b \o m = SubSeq(s, i, i + PB + h - 1)
        BY <4>1, <4>2, ConcatAdjacentSubSeq DEF Data
      <4>4. i + PB + h - 1 \in i - 1 .. Len(s) /\ Len(s) \in i + PB + h - 1 .. Len(s)
        BY <1>1, <2>1, <4>1
      <4>5. SubSeq(s, i, i + PB + h - 1) \o last = tail
        BY <4>2, <4>4, ConcatAdjacentSubSeq DEF Data
      <4> QED BY <4>3, <4>5
    <3> HIDE DEF m, rest, last, b, tail
    <3>7. m \in Short
      BY <2>1, <3>5 DEF Short
    <3>8. new.msgs = <<m>> \o rest.msgs /\ new.ifd = rest.ifd
      BY <3>1, <3>4
    <3>9. new \in [msgs : Seq(Short), ifd : InputSide]
      <4>2. new = [msgs |-> <<m>> \o rest.msgs, ifd |-> rest.ifd]
        BY <3>1, <3>4
      <4>3. <<m>> \o rest.msgs \in Seq(Short) /\ rest.ifd \in InputSide
        BY <3>4, <3>7
      <4> QED BY <4>2, <4>3
    <3>10. Bytes(new.msgs) = Frame(m) \o Bytes(rest.msgs)
      <4>1. rest.msgs \in Seq(Data)
        BY <3>4 DEF Short
      <4>2. <<m>> \in Seq(Data) /\ Bytes(<<m>>) = Frame(m)
        BY <3>5, BytesOfOne
      <4> QED BY <3>8, <4>1, <4>2, BytesOfConcat
    <3>11. Frame(m) = b \o m
      BY <2>1, <3>5 DEF Frame
    <3>12. Bytes(rest.msgs) \in Data /\ Held(rest.ifd) \in Data
      <4>1. rest.msgs \in Seq(Data)
        BY <3>4 DEF Short
      <4>2. rest.ifd \in InputSide
        BY <3>4
      <4> QED BY <4>1, <4>2, BytesType, HeldType
    <3>13. Bytes(new.msgs) \o Held(new.ifd) = Frame(m) \o last
      <4> DEFINE x == Frame(m)
                 y == Bytes(rest.msgs)
                 z == Held(rest.ifd)
      <4>1. x \in Data /\ y \in Data /\ z \in Data
        BY <3>5, <3>12, FrameType
      <4>2. Bytes(new.msgs) = x \o y /\ Held(new.ifd) = z /\ y \o z = last
        BY <3>4, <3>8, <3>10
      <4> HIDE DEF x, y, z
      <4>3. (x \o y) \o z = x \o (y \o z)
        BY <4>1 DEF Data
      <4> QED BY <4>2, <4>3 DEF x
    <3> QED BY <3>6, <3>9, <3>11, <3>13 DEF Exact, tail, new
  <2> QED BY <2>2, <2>3
<1> QED BY <1>3, <1>4

\* So it is from the first position on.
LEMMA ScanExact ==
  ASSUME NEW s \in Data
  PROVE  Exact(s, Scan(s))
<1> DEFINE n == Len(s) + 1
<1>1. Len(s) \in Nat /\ n \in Nat
  BY DEF Data
<1>2. PICK f : Scan(s) = f[1] /\ \A i \in 1 .. n : f[i] = ScanFrom(s, f, i)
  BY ScanSteps
<1> DEFINE Q == {k \in Nat : \A i \in 1 .. n : n - i < k => Exact(SubSeq(s, i, Len(s)), f[i])}
<1>3. 0 \in Q
  BY <1>1
<1>4. ASSUME NEW k \in Q PROVE k + 1 \in Q
  <2> SUFFICES ASSUME NEW i \in 1 .. n, n - i < k + 1 PROVE Exact(SubSeq(s, i, Len(s)), f[i])
    OBVIOUS
  <2>1. \A j \in i + 1 .. n : j \in 1 .. n /\ n - j < k
    BY <1>1
  <2>2. \A j \in i + 1 .. n : Exact(SubSeq(s, j, Len(s)), f[j])
    BY <2>1
  <2>3. Exact(SubSeq(s, i, Len(s)), ScanFrom(s, f, i))
    BY <2>2, ScanOne
  <2> QED BY <1>2, <2>3, Zenon
<1> HIDE DEF Q
<1>5. Q = Nat
  BY <1>3, <1>4, NatInduct DEF Q
<1>6. Exact(SubSeq(s, 1, Len(s)), f[1])
  BY <1>1, <1>5 DEF Q
<1>7. SubSeq(s, 1, Len(s)) = s
  BY SubSeqFull DEF Data
<1> QED BY <1>2, <1>6, <1>7

\* Taking the first message off a sequence of messages.
LEMMA FirstMessage ==
  ASSUME NEW s \in Seq(Short), s # <<>>
  PROVE  \E m \in Short, t \in Seq(Short) :
           /\ s = <<m>> \o t /\ Len(s) = Len(t) + 1 /\ m = s[1]
           /\ Bytes(s) = Cat(Header(Len(m)), Cat(m, Bytes(t)))
<1> DEFINE m == Head(s)
           t == Tail(s)
<1>1. m \in Short /\ t \in Seq(Short) /\ Len(s) = Len(t) + 1 /\ m = s[1]
  OBVIOUS
<1>2. s = <<m>> \o t
  OBVIOUS
<1>3. m \in Data /\ t \in Seq(Data) /\ Len(m) \in Nat
  BY <1>1 DEF Short, Data
<1> HIDE DEF m, t
<1>4. <<m>> \in Seq(Data) /\ Bytes(<<m>>) = Frame(m)
  BY <1>3, BytesOfOne
<1>5. Bytes(s) = Frame(m) \o Bytes(t)
  BY <1>2, <1>3, <1>4, BytesOfConcat
<1>6. Bytes(s) = Cat(Header(Len(m)), Cat(m, Bytes(t)))
  <2> DEFINE x == Header(Len(m))
             z == Bytes(t)
  <2>1. x \in Data /\ z \in Data
    BY <1>3, ValueOfHeader, BytesType DEF Data
  <2>2. Frame(m) = x \o m
    BY DEF Frame
  <2> HIDE DEF x, z
  <2>3. Cat(Cat(x, m), z) = Cat(x, Cat(m, z))
    BY <1>3, <2>1, CatFacts
  <2>4. Bytes(s) = Cat(Cat(x, m), z)
    BY <1>5, <2>2, Zenon DEF Cat, z
  <2> QED BY <2>3, <2>4, Zenon DEF x, z
<1> QED BY <1>1, <1>2, <1>6

\* What comes behind a message is behind its header and its bytes.
LEMMA Behind ==
  ASSUME NEW b \in Short, NEW v \in Seq(Short), NEW z \in Data
  PROVE  /\ b \in Data /\ Len(b) \in Nat /\ Len(b) < Pow[PB] /\ Bytes(v) \in Data
         /\ Header(Len(b)) \in Data /\ Len(Header(Len(b))) = PB
         /\ Cat(Bytes(v), z) \in Data /\ Cat(b, Cat(Bytes(v), z)) \in Data
         /\ Cat(Cat(Header(Len(b)), Cat(b, Bytes(v))), z) = Cat(Header(Len(b)), Cat(b, Cat(Bytes(v), z)))
         /\ Cat(Header(Len(b)), Cat(b, Cat(Bytes(v), z))) # <<>>
<1> DEFINE p == Header(Len(b))
           o == Bytes(v)
<1>1. b \in Data /\ v \in Seq(Data) /\ Len(b) \in Nat /\ Len(b) < Pow[PB] /\ PB \in Nat \ {0}
  BY PortStreamAssumption DEF Short, Data
<1>2. p \in Data /\ Len(p) = PB /\ o \in Data
  BY <1>1, BytesType, ValueOfHeader DEF Data
<1> HIDE DEF p, o
<1>3. Cat(o, z) \in Data /\ Cat(b, Cat(o, z)) \in Data /\ Cat(Cat(p, Cat(b, o)), z) = Cat(p, Cat(b, Cat(o, z)))
  <2>1. Cat(b, o) \in Data /\ Cat(o, z) \in Data
    BY <1>1, <1>2, CatFacts
  <2>2. Cat(b, Cat(o, z)) \in Data /\ Cat(Cat(b, o), z) = Cat(b, Cat(o, z))
    BY <1>1, <1>2, <2>1, CatFacts
  <2>3. Cat(Cat(p, Cat(b, o)), z) = Cat(p, Cat(Cat(b, o), z))
    BY <1>2, <2>1, CatFacts
  <2> QED BY <2>1, <2>2, <2>3
<1>4. Cat(p, Cat(b, Cat(o, z))) # <<>>
  <2> DEFINE x == Cat(b, Cat(o, z))
  <2>1. x \in Data /\ Len(<<>>) = 0
    BY <1>3
  <2> HIDE DEF x
  <2>2. Len(Cat(p, x)) = PB + Len(x)
    BY <1>2, <2>1, CatFacts
  <2>3. Len(x) \in Nat
    BY <2>1 DEF Data
  <2> QED BY <1>1, <2>1, <2>2, <2>3 DEF x
<1> QED BY <1>1, <1>2, <1>3, <1>4 DEF p, o

\* The bytes of messages begin with the bytes of other messages only if the
\* messages begin with them: boundaries are not lost.
LEMMA BytesBegin ==
  ASSUME NEW s \in Seq(Short), NEW g \in Seq(Short), NEW r \in Data,
         Bytes(s) = Cat(Bytes(g), r)
  PROVE  Len(g) <= Len(s) /\ g = SubSeq(s, 1, Len(g))
<1> DEFINE Begin(x, y) == Len(y) <= Len(x) /\ \A i \in 1 .. Len(y) : y[i] = x[i]
           P == {n \in Nat : \A x, y \in Seq(Short), z \in Data :
                   Len(y) = n /\ Bytes(x) = Cat(Bytes(y), z) => Begin(x, y)}
<1>1. 0 \in P
  OBVIOUS
<1>2. ASSUME NEW n \in P PROVE n + 1 \in P
  <2> SUFFICES ASSUME NEW x \in Seq(Short), NEW y \in Seq(Short), NEW z \in Data,
                      Len(y) = n + 1, Bytes(x) = Cat(Bytes(y), z)
               PROVE  Begin(x, y)
    <3> HIDE DEF Begin
    <3>1. n + 1 \in Nat
      OBVIOUS
    <3> QED BY <3>1, Zenon
  <2>1. PICK b \in Short, v \in Seq(Short) :
          /\ y = <<b>> \o v /\ Len(y) = Len(v) + 1 /\ b = y[1]
          /\ Bytes(y) = Cat(Header(Len(b)), Cat(b, Bytes(v)))
    <3>1. y # <<>>
      OBVIOUS
    <3> QED BY <3>1, FirstMessage
  <2> DEFINE o == Cat(Bytes(v), z)
  <2>2. /\ b \in Data /\ Len(b) \in Nat /\ Len(b) < Pow[PB] /\ o \in Data /\ Cat(b, o) \in Data
        /\ Header(Len(b)) \in Data /\ Len(Header(Len(b))) = PB
        /\ Cat(Cat(Header(Len(b)), Cat(b, Bytes(v))), z) = Cat(Header(Len(b)), Cat(b, o))
        /\ Cat(Header(Len(b)), Cat(b, o)) # <<>>
    BY Behind
  <2>3. Bytes(x) = Cat(Header(Len(b)), Cat(b, o))
    BY <2>1, <2>2, Zenon
  <2>4. x # <<>>
    BY <2>2, <2>3, BytesOfNone, Zenon
  <2>5. PICK a \in Short, u \in Seq(Short) :
          /\ x = <<a>> \o u /\ Len(x) = Len(u) + 1 /\ a = x[1]
          /\ Bytes(x) = Cat(Header(Len(a)), Cat(a, Bytes(u)))
    BY <2>4, FirstMessage
  <2>6. /\ a \in Data /\ Len(a) \in Nat /\ Len(a) < Pow[PB] /\ Bytes(u) \in Data
        /\ Header(Len(a)) \in Data /\ Len(Header(Len(a))) = PB /\ Cat(a, Bytes(u)) \in Data
    <3>1. Bytes(u) \in Data
      <4>1. u \in Seq(Data)
        BY DEF Short
      <4> QED BY <4>1, BytesType
    <3>2. /\ a \in Data /\ Len(a) \in Nat /\ Len(a) < Pow[PB]
          /\ Header(Len(a)) \in Data /\ Len(Header(Len(a))) = PB
      BY Behind
    <3> QED BY <3>1, <3>2, CatFacts
  <2>7. Header(Len(a)) = Header(Len(b)) /\ Cat(a, Bytes(u)) = Cat(b, o)
    <3> HIDE DEF o
    <3>1. Cat(Header(Len(a)), Cat(a, Bytes(u))) = Cat(Header(Len(b)), Cat(b, o))
      BY <2>3, <2>5, Zenon
    <3> QED BY <2>2, <2>6, <3>1, SameStart
  <2>8. Len(a) = Len(b)
    BY <2>2, <2>6, <2>7, ValueOfHeader
  <2>9. a = b /\ Bytes(u) = o
    <3> HIDE DEF o
    <3> QED BY <2>2, <2>6, <2>7, <2>8, SameStart
  <2>10. Begin(u, v)
    <3>1. Len(v) = n
      BY <2>1
    <3> QED BY <2>9, <3>1
  <2>11. Len(y) <= Len(x)
    BY <2>1, <2>5, <2>10
  <2>12. ASSUME NEW i \in 1 .. Len(y) PROVE y[i] = x[i]
    <3>1. CASE i = 1
      BY <2>1, <2>5, <2>9, <3>1
    <3>2. CASE i # 1
      <4>1. i - 1 \in 1 .. Len(v) /\ i - 1 \in 1 .. Len(u)
        BY <2>1, <2>10, <3>2
      <4>2. y[i] = v[i - 1] /\ x[i] = u[i - 1]
        BY <2>1, <2>5, <3>2, <4>1
      <4> QED BY <2>10, <4>1, <4>2
    <3> QED BY <3>1, <3>2
  <2> QED BY <2>11, <2>12
<1> HIDE DEF P
<1>3. P = Nat
  BY <1>1, <1>2, NatInduct DEF P
<1>4. Begin(s, g)
  <2>1. Len(g) \in P
    BY <1>3
  <2> QED BY <2>1 DEF P
<1>5. Len(SubSeq(s, 1, Len(g))) = Len(g) /\ \A i \in 1 .. Len(g) : SubSeq(s, 1, Len(g))[i] = s[i]
  BY <1>4
<1>6. SubSeq(s, 1, Len(g)) \in Seq(Short)
  BY <1>4
<1>7. \A i \in 1 .. Len(g) : g[i] = SubSeq(s, 1, Len(g))[i]
  BY <1>4, <1>5
<1> QED BY <1>4, <1>5, <1>6, <1>7, SeqEqual

-----------------------------------------------------------------------------
(* The output side.                                                        *)

QueueType ==
  /\ q \in Seq(Digit) /\ pipe \in Seq(Digit)
  /\ busy \in BOOLEAN /\ writing \in BOOLEAN /\ blocking \in BOOLEAN
  /\ job \in [at : {"none", "queued", "done"}, n : Int]
  /\ job.n \in 0 .. Len(q) \/ job.n = Failed
  /\ job.at = "none" => job.n = 0

\* The poller writes for a port that does not block, the async thread for one
\* that does, and neither is idle while there is something to write.
OneWriter ==
  /\ q # <<>> => (IF blocking THEN job.at # "none" ELSE writing)
  /\ job.at # "none" => blocking /\ q # <<>>
  /\ writing => ~blocking

Watermarks ==
  /\ Len(q) >= High => busy
  /\ busy => Len(q) >= Low

IInv == QueueType /\ OneWriter /\ Watermarks /\ Flushed

-----------------------------------------------------------------------------
(* The operators the queue is built with.                                  *)

\* The rest of a sequence has the length that is left.
LEMMA DropType ==
  ASSUME NEW S, NEW s \in Seq(S), NEW n \in 0 .. Len(s)
  PROVE  Drop(s, n) \in Seq(S) /\ Len(Drop(s, n)) = Len(s) - n
BY DEF Drop

\* Messages are bytes.
LEMMA MessageType ==
  ASSUME NEW m \in Message
  PROVE  m \in Data /\ Frame(m) \in Seq(Digit) /\ Len(Frame(m)) > 0 /\ Len(Frame(m)) \in Nat /\ Frame(m) # <<>>
<1>1. m \in Data /\ PB \in Nat
  BY PortStreamAssumption DEF Data, Digit
<1> QED BY <1>1, FrameType DEF Data

\* Appending: senders are suspended from the high watermark on.
LEMMA Enqueued ==
  ASSUME NEW bytes \in Seq(Digit), bytes # <<>>, QueueType, Watermarks, Enqueue(bytes)
  PROVE  /\ q' \in Seq(Digit) /\ q' # <<>> /\ Len(q') >= Len(q) /\ busy' \in BOOLEAN
         /\ Watermarks'
<1>1. Low \in Nat /\ High \in Nat /\ Low <= High
  BY PortStreamAssumption
<1>2. q \in Seq(Digit) /\ q' = q \o bytes
  BY DEF Enqueue, QueueType
<1>4. Len(bytes) \in Nat /\ Len(bytes) > 0 /\ Len(q) \in Nat
  BY <1>2
<1>5. q' \in Seq(Digit) /\ Len(q') = Len(q) + Len(bytes)
  BY <1>2
<1>6. q' # <<>>
  BY <1>4, <1>5
<1>3. busy' = (busy \/ Len(q') >= High) /\ busy \in BOOLEAN
  BY DEF Enqueue, QueueType
<1>7. CASE Len(q') >= High
  <2>1. busy' = TRUE
    BY <1>3, <1>7
  <2>2. Len(q') >= Low
    BY <1>1, <1>5, <1>4, <1>7
  <2> QED BY <1>4, <1>5, <1>6, <2>1, <2>2 DEF Watermarks
<1>8. CASE ~(Len(q') >= High)
  <2>1. busy' = busy
    BY <1>3, <1>8
  <2>2. Len(q) >= Low => Len(q') >= Low
    BY <1>1, <1>4, <1>5
  <2>3. busy => Len(q) >= Low
    BY DEF Watermarks
  <2> QED BY <1>3, <1>4, <1>5, <1>6, <1>8, <2>1, <2>2, <2>3 DEF Watermarks
<1> QED BY <1>7, <1>8

\* Removing: they are let go below the low one.
LEMMA Dequeued ==
  ASSUME NEW n \in 0 .. Len(q), QueueType, Watermarks, Dequeue(n)
  PROVE  /\ q' \in Seq(Digit) /\ Len(q') = Len(q) - n /\ busy' \in BOOLEAN
         /\ Watermarks'
<1>1. Low \in Nat /\ High \in Nat /\ Low <= High
  BY PortStreamAssumption
<1>2. q \in Seq(Digit) /\ q' = Drop(q, n)
  BY DEF Dequeue, QueueType
<1>4. Len(q) \in Nat
  BY <1>2
<1>5. q' \in Seq(Digit) /\ Len(q') = Len(q) - n
  BY <1>2, DropType
<1>3. busy' = (busy /\ Len(q') >= Low) /\ busy \in BOOLEAN
  BY DEF Dequeue, QueueType
<1>6. Len(q') >= High => Len(q) >= High /\ Len(q') >= Low
  BY <1>1, <1>4, <1>5
<1>7. Len(q) >= High => busy
  BY DEF Watermarks
<1>8. (Len(q') >= High => busy') /\ (busy' => Len(q') >= Low) /\ busy' \in BOOLEAN
  BY <1>3, <1>6, <1>7, Zenon
<1> QED BY <1>5, <1>8, Zenon DEF Watermarks

\* writev takes no more than it is given.
LEMMA TakenWithin ==
  ASSUME QueueType, NEW len \in Nat, NEW n \in Taken(len)
  PROVE  n \in 0 .. len
<1>1. PipeSize - Len(pipe) \in Int
  BY PortStreamAssumption DEF QueueType
<1>2. CASE Returns
  BY <1>1, <1>2 DEF Taken, Least
<1>3. CASE ~Returns
  BY <1>3 DEF Taken
<1> QED BY <1>2, <1>3

\* The beginning of a sequence, and a sequence written to the pipe.
LEMMA WrittenType ==
  ASSUME QueueType, NEW s \in Seq(Digit), NEW n \in 0 .. Len(s), Written(Take(s, n))
  PROVE  pipe' \in Seq(Digit)
<1>1. Take(s, n) \in Seq(Digit)
  BY DEF Take
<1> QED BY <1>1 DEF Written, QueueType

-----------------------------------------------------------------------------
(* The steps.                                                              *)

\* Nothing is queued before the port is opened.
LEMMA InitIInv == Init => IInv
<1> SUFFICES ASSUME Init PROVE IInv
  OBVIOUS
<1>1. Low \in Nat /\ Low > 0 /\ High \in Nat /\ Low <= High
  BY PortStreamAssumption
<1>2. QueueType
  <2>1. blocking \in BOOLEAN
    <3>1. CASE drv = "spawn" \/ mode = "in"
      BY <3>1 DEF Init
    <3>2. CASE ~(drv = "spawn" \/ mode = "in")
      BY <3>2 DEF Init
    <3> QED BY <3>1, <3>2
  <2>2. q = <<>> /\ pipe = <<>> /\ job = [at |-> "none", n |-> 0] /\ busy = FALSE /\ writing = FALSE
    BY DEF Init
  <2>3. q \in Seq(Digit) /\ pipe \in Seq(Digit) /\ Len(q) = 0
    BY <2>2
  <2>4. job \in [at : {"none", "queued", "done"}, n : Int] /\ job.n = 0 /\ 0 \in 0 .. Len(q)
    BY <2>2, <2>3
  <2> QED BY <2>1, <2>2, <2>3, <2>4 DEF QueueType
<1>3. OneWriter
  BY DEF Init, OneWriter
<1>4. Watermarks
  BY <1>1 DEF Init, Watermarks
<1>5. Flushed
  BY DEF Init, Flushed
<1> QED BY <1>2, <1>3, <1>4, <1>5 DEF IInv

\* A step that leaves the output side alone: the port may end where the queue
\* is empty or what is in it is given up.
LEMMA QuietStep ==
  ASSUME IInv, UNCHANGED <<opts, out>>, pipe' \in Seq(Digit),
         port' = port \/ port' \in {"closing", "failed"} \/ q = <<>> \/ (port' = "eof" /\ ~blocking)
  PROVE  IInv'
<1> USE DEF opts, out
<1>1. QueueType'
  BY DEF IInv, QueueType
<1>2. OneWriter'
  BY DEF IInv, OneWriter
<1>3. Watermarks'
  BY DEF IInv, Watermarks
<1>4. Flushed'
  BY DEF IInv, Flushed
<1> QED BY <1>1, <1>2, <1>3, <1>4 DEF IInv

\* The port ends: what its end leaves unchanged.
LEMMA EndStep ==
  ASSUME IInv, NEW why \in {"normal", "eof", "failed"}, End(why),
         why = "failed" \/ q = <<>> \/ (why = "eof" /\ ~blocking)
  PROVE  IInv'
<1>1. UNCHANGED <<opts, out>> /\ pipe' = pipe /\ port' = why
  BY DEF End, Ends
<1>2. pipe' \in Seq(Digit)
  BY <1>1 DEF IInv, QueueType
<1> QED BY <1>1, <1>2, QuietStep

\* A message is written at once, given to the poller or the async thread, or
\* waits behind others.
LEMMA OutputStep ==
  ASSUME IInv, NEW m \in Message, Output(m)
  PROVE  IInv'
<1>1. Frame(m) \in Seq(Digit) /\ Len(Frame(m)) > 0 /\ Len(Frame(m)) \in Nat /\ Frame(m) # <<>>
  BY MessageType
<1>2. CASE OutputTooLong(m) \/ OutputFails
  BY <1>2, EndStep DEF OutputTooLong, OutputFails
<1>3. ASSUME OutputQueued(m) \/ OutputDirect(m) \/ OutputAsync(m),
             UNCHANGED <<opts, port, terminating, peer, ifd, got>>, port = "open"
      PROVE  IInv'
  <2>1. Flushed'
    BY <1>3 DEF Flushed, opts
  <2>2. blocking' = blocking /\ blocking \in BOOLEAN /\ QueueType /\ OneWriter /\ Watermarks
    BY <1>3 DEF IInv, QueueType, opts
  <2>3. CASE OutputQueued(m)
    <3>1. q # <<>> /\ Enqueue(Frame(m)) /\ UNCHANGED <<writing, job, pipe>>
      BY <2>3 DEF OutputQueued
    <3>2. /\ q' \in Seq(Digit) /\ q' # <<>> /\ Len(q') >= Len(q) /\ busy' \in BOOLEAN
          /\ Watermarks'
      BY <1>1, <2>2, <3>1, Enqueued
    <3>3. Len(q) \in Nat /\ Len(q') \in Nat
      BY <2>2, <3>2 DEF QueueType
    <3>4. job.n \in 0 .. Len(q') \/ job.n = Failed
      BY <2>2, <3>2, <3>3 DEF QueueType
    <3>5. QueueType'
      BY <2>2, <3>1, <3>2, <3>4 DEF QueueType
    <3>6. OneWriter'
      BY <2>2, <3>1, <3>2 DEF OneWriter
    <3> QED BY <2>1, <3>2, <3>5, <3>6 DEF IInv
  <2>4. CASE OutputDirect(m)
    <3>1. q = <<>> /\ ~blocking /\ UNCHANGED job
      BY <2>4 DEF OutputDirect
    <3>2. PICK n \in Taken(Len(Frame(m))) :
            /\ Written(Take(Frame(m), n))
            /\ IF n = Len(Frame(m)) THEN UNCHANGED <<q, busy, writing>>
               ELSE Enqueue(Drop(Frame(m), n)) /\ writing' = TRUE
      BY <2>4 DEF OutputDirect
    <3>3. n \in 0 .. Len(Frame(m))
      BY <1>1, <2>2, TakenWithin
    <3>4. pipe' \in Seq(Digit)
      BY <1>1, <2>2, <3>2, <3>3, WrittenType
    <3>5. CASE n = Len(Frame(m))
      BY <2>1, <2>2, <3>1, <3>2, <3>4, <3>5, QuietStep, <1>3 DEF out
    <3>6. CASE n # Len(Frame(m))
      <4>1. Drop(Frame(m), n) \in Seq(Digit) /\ Len(Drop(Frame(m), n)) = Len(Frame(m)) - n
        BY <1>1, <3>3, DropType
      <4>2. Drop(Frame(m), n) # <<>>
        BY <1>1, <3>3, <3>6, <4>1
      <4>3. Enqueue(Drop(Frame(m), n)) /\ writing' = TRUE
        BY <3>2, <3>6
      <4>4. /\ q' \in Seq(Digit) /\ q' # <<>> /\ Len(q') >= Len(q) /\ busy' \in BOOLEAN
            /\ Watermarks'
        BY <2>2, <4>1, <4>2, <4>3, Enqueued
      <4>5. Len(q) \in Nat /\ Len(q') \in Nat
        BY <2>2, <4>4 DEF QueueType
      <4>6. job.n \in 0 .. Len(q') \/ job.n = Failed
        BY <2>2, <4>4, <4>5 DEF QueueType
      <4>7. QueueType'
        BY <2>2, <3>1, <3>4, <4>3, <4>4, <4>6 DEF QueueType
      <4>8. OneWriter'
        BY <2>2, <3>1, <4>3, <4>4 DEF OneWriter
      <4> QED BY <2>1, <4>4, <4>7, <4>8 DEF IInv
    <3> QED BY <3>5, <3>6
  <2>5. CASE OutputAsync(m)
    <3>1. /\ q = <<>> /\ blocking /\ Enqueue(Frame(m)) /\ job' = [at |-> "queued", n |-> 0]
          /\ UNCHANGED <<writing, pipe>>
      BY <2>5 DEF OutputAsync
    <3>2. /\ q' \in Seq(Digit) /\ q' # <<>> /\ Len(q') >= Len(q) /\ busy' \in BOOLEAN
          /\ Watermarks'
      BY <1>1, <2>2, <3>1, Enqueued
    <3>3. Len(q') \in Nat
      BY <3>2
    <3>4. QueueType'
      BY <2>2, <3>1, <3>2, <3>3 DEF QueueType
    <3>5. OneWriter'
      BY <2>2, <3>1, <3>2 DEF OneWriter
    <3> QED BY <2>1, <3>2, <3>4, <3>5 DEF IInv
  <2> QED BY <1>3, <2>3, <2>4, <2>5
<1> QED BY <1>2, <1>3 DEF Output


\* The poller writes what is there, or finds there is nothing left.
LEMMA ReadyOutputStep ==
  ASSUME IInv, ReadyOutput
  PROVE  IInv'
<1>1. Up /\ writing /\ ~blocking /\ QueueType /\ OneWriter /\ Watermarks
  BY DEF ReadyOutput, IInv, OneWriter
<1>2. CASE q = <<>> /\ End("normal")
  BY <1>2, EndStep
<1>3. CASE End("failed")
  BY <1>3, EndStep
<1>4. CASE /\ q = <<>> /\ busy' = FALSE /\ writing' = FALSE
           /\ UNCHANGED <<opts, port, terminating, q, job, pipe, peer, ifd, sent, got>>
  <2>1. QueueType'
    BY <1>1, <1>4 DEF QueueType, opts
  <2>2. OneWriter'
    BY <1>1, <1>4 DEF OneWriter, opts
  <2>3. Low \in Nat /\ Low > 0 /\ High \in Nat /\ Low <= High /\ Len(q) = 0
    BY <1>4, PortStreamAssumption
  <2>4. Watermarks'
    BY <1>4, <2>3 DEF Watermarks
  <2>5. Flushed'
    BY <1>4 DEF Flushed
  <2> QED BY <2>1, <2>2, <2>4, <2>5 DEF IInv
<1>5. CASE /\ q # <<>> /\ peer # "gone"
           /\ \E n \in Taken(Len(q)) \ {0} : Written(Take(q, n)) /\ Dequeue(n)
           /\ UNCHANGED <<opts, port, terminating, writing, job, peer, ifd, sent, got>>
  <2>1. q \in Seq(Digit) /\ Len(q) \in Nat
    BY <1>1 DEF QueueType
  <2>2. PICK n \in Taken(Len(q)) \ {0} : Written(Take(q, n)) /\ Dequeue(n)
    BY <1>5
  <2>3. n \in 0 .. Len(q)
    BY <1>1, <2>1, TakenWithin
  <2>4. pipe' \in Seq(Digit)
    BY <1>1, <2>1, <2>2, <2>3, WrittenType
  <2>5. /\ q' \in Seq(Digit) /\ Len(q') = Len(q) - n /\ busy' \in BOOLEAN
        /\ Watermarks'
    BY <1>1, <2>2, <2>3, Dequeued
  <2>6. job.at = "none" /\ job' = job
    BY <1>1, <1>5 DEF OneWriter
  <2>7. job.n = 0 /\ 0 \in 0 .. Len(q')
    BY <1>1, <2>1, <2>3, <2>5, <2>6 DEF QueueType
  <2>8. QueueType'
    BY <1>1, <1>5, <2>4, <2>5, <2>6, <2>7 DEF QueueType, opts
  <2>9. OneWriter'
    BY <1>1, <1>5, <2>6 DEF OneWriter, opts
  <2>10. Flushed'
    BY <1>1, <1>5 DEF Flushed, Up, opts
  <2> QED BY <2>5, <2>8, <2>9, <2>10 DEF IInv
<1> QED BY <1>2, <1>3, <1>4, <1>5 DEF ReadyOutput


\* The async thread has written some of its snapshot; the queue still has it.
LEMMA FdAsyncStep ==
  ASSUME IInv, FdAsync
  PROVE  IInv'
<1>1. /\ QueueType /\ OneWriter /\ Watermarks /\ Flushed /\ job.at = "queued"
      /\ UNCHANGED <<opts, port, terminating, q, busy, writing, peer, ifd, sent, got>>
  BY DEF FdAsync, IInv
<1>2. blocking' = blocking
  BY <1>1 DEF opts
<1>3. Watermarks' /\ Flushed'
  BY <1>1, <1>2 DEF Watermarks, Flushed
<1>4. q \in Seq(Digit) /\ Len(q) \in Nat
  BY <1>1 DEF QueueType
<1>5. ASSUME NEW n \in 0 .. Len(q), job' = [at |-> "done", n |-> n], pipe' \in Seq(Digit)
      PROVE  IInv'
  <2>1. QueueType'
    BY <1>1, <1>2, <1>4, <1>5 DEF QueueType
  <2>2. OneWriter'
    BY <1>1, <1>2, <1>5 DEF OneWriter
  <2> QED BY <1>3, <2>1, <2>2 DEF IInv
<1>6. ASSUME job' = [at |-> "done", n |-> Failed], pipe' = pipe
      PROVE  IInv'
  <2>1. QueueType'
    BY <1>1, <1>2, <1>4, <1>6 DEF QueueType, Failed
  <2>2. OneWriter'
    BY <1>1, <1>2, <1>6 DEF OneWriter
  <2> QED BY <1>3, <2>1, <2>2 DEF IInv
<1>7. ASSUME NEW n \in Taken(Len(q)), Written(Take(q, n)), job' = [at |-> "done", n |-> n]
      PROVE  IInv'
  <2>1. n \in 0 .. Len(q)
    BY <1>1, <1>4, TakenWithin
  <2>2. pipe' \in Seq(Digit)
    BY <1>1, <1>4, <1>7, <2>1, WrittenType
  <2> QED BY <1>5, <1>7, <2>1, <2>2
<1> QED BY <1>6, <1>7 DEF FdAsync

\* The port takes what was written off the queue and gives the thread the
\* rest, or is done.
LEMMA FdReadyAsyncStep ==
  ASSUME IInv, FdReadyAsync
  PROVE  IInv'
<1>1. QueueType /\ OneWriter /\ Watermarks /\ Flushed /\ job.at = "done" /\ Up
  BY DEF FdReadyAsync, IInv
<1>2. CASE End("failed")
  BY <1>2, EndStep
<1>3. CASE /\ job.n # Failed /\ Dequeue(job.n) /\ UNCHANGED writing
           /\ job' = [at |-> IF q' = <<>> THEN "none" ELSE "queued", n |-> 0]
           /\ Ends(IF q' = <<>> /\ terminating # "no" THEN terminating ELSE port)
  <2>1. job.n \in 0 .. Len(q)
    BY <1>1, <1>3 DEF QueueType
  <2>2. /\ q' \in Seq(Digit) /\ Len(q') = Len(q) - job.n /\ busy' \in BOOLEAN
        /\ Watermarks'
    BY <1>1, <1>3, <2>1, Dequeued
  <2>3. blocking /\ writing = FALSE
    BY <1>1 DEF OneWriter, QueueType
  <2>4. /\ UNCHANGED <<opts, pipe>>
        /\ port' = IF q' = <<>> /\ terminating # "no" THEN terminating ELSE port
    BY <1>3 DEF Ends
  <2>5. QueueType'
    <3>1. Len(q') \in Nat
      BY <2>2
    <3>2. /\ job' \in [at : {"none", "queued", "done"}, n : Int]
          /\ job'.n \in 0 .. Len(q') /\ job'.n = 0
      BY <1>3, <3>1
    <3> QED BY <1>1, <1>3, <2>2, <2>4, <3>2 DEF QueueType, opts
  <2>6. OneWriter'
    BY <1>3, <2>3, <2>4 DEF OneWriter, opts
  <2>7. Flushed'
    BY <1>1, <2>4 DEF Flushed, Up, opts
  <2> QED BY <2>2, <2>5, <2>6, <2>7 DEF IInv
<1> QED BY <1>2, <1>3 DEF FdReadyAsync

\* The owner closes the port, or the emulator is through with a closed one.
LEMMA CloseStep ==
  ASSUME IInv, Close \/ Drained
  PROVE  IInv'
<1>1. CASE End("normal") /\ q = <<>>
  BY <1>1, EndStep
<1>2. CASE port' = "closing" /\ UNCHANGED <<opts, out, pipe, peer, ifd, sent, got>>
  <2>1. UNCHANGED <<opts, out>> /\ pipe' \in Seq(Digit)
    BY <1>2 DEF IInv, QueueType
  <2> QED BY <1>2, <2>1, QuietStep
<1> QED BY <1>1, <1>2 DEF Close, Drained

\* Input, its end, and the peer take only from the pipe.
LEMMA InputStep ==
  ASSUME IInv, ReadyInput \/ InputEnds \/ PeerEnds
  PROVE  IInv'
<1>1. pipe \in Seq(Digit) /\ Len(pipe) \in Nat
  BY DEF IInv, QueueType
<1>2. CASE ReadyInput
  <2>1. UNCHANGED <<opts, out>> /\ port' = port
    BY <1>2 DEF ReadyInput
  <2>2. PICK n \in 1 .. Len(pipe) : pipe' = Drop(pipe, n)
    BY <1>2 DEF ReadyInput
  <2>3. n \in 0 .. Len(pipe)
    BY <1>1
  <2>4. pipe' \in Seq(Digit)
    BY <1>1, <2>2, <2>3, DropType
  <2> QED BY <2>1, <2>4, QuietStep
<1>3. CASE InputEnds
  <2>1. CASE End("eof") /\ ~(blocking /\ q # <<>>)
    BY <2>1, EndStep
  <2>2. CASE UNCHANGED <<opts, port, out, pipe, peer, sent, got>>
    BY <1>1, <2>2, QuietStep
  <2> QED BY <1>3, <2>1, <2>2 DEF InputEnds
<1>4. CASE PeerEnds
  <2>1. UNCHANGED <<opts, out>> /\ port' = port
    BY <1>4 DEF PeerEnds
  <2>2. \E n \in 0 .. Len(pipe) : pipe' = Take(pipe, n) \/ pipe' = pipe
    BY <1>1, <1>4 DEF PeerEnds
  <2>3. pipe' \in Seq(Digit)
    BY <1>1, <2>2 DEF Take
  <2> QED BY <2>1, <2>3, QuietStep
<1> QED BY <1>2, <1>3, <1>4

\* The invariant of the output side, for all messages and options.
THEOREM StreamInvariant == Spec => []IInv
<1>1. IInv /\ [Next]_vars => IInv'
  <2> SUFFICES ASSUME IInv, [Next]_vars PROVE IInv'
    OBVIOUS
  <2>1. CASE UNCHANGED vars
    <3>1. UNCHANGED <<opts, out>> /\ pipe' \in Seq(Digit) /\ port' = port
      BY <2>1 DEF vars, IInv, QueueType
    <3> QED BY <3>1, QuietStep
  <2>2. CASE Next
    BY <2>2, OutputStep, ReadyOutputStep, FdAsyncStep, FdReadyAsyncStep, CloseStep, InputStep
       DEF Next, Poll
  <2> QED BY <2>1, <2>2
<1> QED BY <1>1, InitIInv, PTL DEF Spec

\* What is queued has a writer, one, and senders are suspended between the
\* watermarks only.
THEOREM AlwaysServed == Spec => []QueueServed
<1>1. IInv => QueueServed
  BY DEF IInv, OneWriter, Watermarks, QueueServed
<1> QED BY <1>1, StreamInvariant, PTL

\* A port that ended because it was closed, or whose async thread was behind
\* when the input ended, has nothing left to write.
THEOREM ClosedIsFlushed == Spec => []Flushed
<1>1. IInv => Flushed
  BY DEF IInv
<1> QED BY <1>1, StreamInvariant, PTL

-----------------------------------------------------------------------------
(* Both sides: no byte is lost between a message taken and one given.      *)

\* What the peer has yet to be sent: the queue, but for what the async thread
\* has written of it.
Unwritten == Drop(q, IF job.n = Failed THEN 0 ELSE job.n)

\* The bytes between the two ends: of messages given, held by the input side,
\* in the kernel, and the rest.
Stream(g, h, p, r) == Cat(g, Cat(h, Cat(p, r)))

\* While the port is open, the bytes of the messages taken are those of the
\* messages given, what the input side holds, what is in the kernel, and rest:
\* while the peer answers the rest is what is not written yet.
InFlight ==
  port = "open" =>
    \E rest \in Data :
      /\ Bytes(sent) = Stream(Bytes(got), Held(ifd), pipe, rest)
      /\ Returns => rest = Unwritten

\* The messages given are the first of those taken.
InOrder == Len(got) <= Len(sent) /\ got = SubSeq(sent, 1, Len(got))

Values ==
  /\ drv \in {"spawn", "fd"} /\ mode \in Modes
  /\ port \in {"open", "closing", "normal", "eof", "failed"}
  /\ terminating \in {"no", "normal", "eof"} /\ peer \in {"there", "silent", "gone"}
  /\ port = "open" => terminating # "normal"
  /\ Len(pipe) <= PipeSize
  /\ job.at # "done" => job.n = 0
  /\ ifd \in InputSide
  /\ sent \in Seq(Message) /\ sent \in Seq(Short) /\ got \in Seq(Short)

Delivery == Values /\ InFlight /\ InOrder

\* Concatenations regrouped: something is written behind all there is,
LEMMA BehindAll ==
  ASSUME NEW g \in Data, NEW h \in Data, NEW p \in Data, NEW r \in Data, NEW a \in Data
  PROVE  Cat(Stream(g, h, p, r), a) = Stream(g, h, p, Cat(r, a))
<1>1. Cat(p, r) \in Data /\ Cat(h, Cat(p, r)) \in Data
  BY CatFacts
<1>2. Cat(Cat(g, Cat(h, Cat(p, r))), a) = Cat(g, Cat(Cat(h, Cat(p, r)), a))
  BY <1>1, CatFacts
<1>3. Cat(Cat(h, Cat(p, r)), a) = Cat(h, Cat(Cat(p, r), a))
  BY <1>1, CatFacts
<1>4. Cat(Cat(p, r), a) = Cat(p, Cat(r, a))
  BY CatFacts
<1> QED BY <1>2, <1>3, <1>4, Zenon DEF Stream

\* the first of it goes from the rest to the pipe,
LEMMA IntoPipe ==
  ASSUME NEW g \in Data, NEW h \in Data, NEW p \in Data, NEW w \in Data, NEW u \in Data
  PROVE  Stream(g, h, p, Cat(w, u)) = Stream(g, h, Cat(p, w), u)
BY CatFacts DEF Stream

\* A part of what is in the kernel joins what is held,
LEMMA Regrouped ==
  ASSUME NEW g \in Data, NEW h \in Data, NEW t \in Data, NEW e \in Data
  PROVE  Stream(g, h, t, e) = Cat(g, Cat(Cat(h, t), e))
BY CatFacts DEF Stream

\* what is held completes messages,
LEMMA Completed ==
  ASSUME NEW g \in Data, NEW m \in Data, NEW i \in Data, NEW d \in Data, NEW r \in Data
  PROVE  Stream(g, m, i, Cat(d, r)) = Stream(Cat(g, m), i, d, r)
<1>1. Cat(d, r) \in Data /\ Cat(i, Cat(d, r)) \in Data
  BY CatFacts
<1>2. Cat(g, Cat(m, Cat(i, Cat(d, r)))) = Cat(Cat(g, m), Cat(i, Cat(d, r)))
  BY <1>1, CatFacts
<1> QED BY <1>2, Zenon DEF Stream

\* and from the pipe to the input side and the messages.
LEMMA OutOfPipe ==
  ASSUME NEW g \in Data, NEW h \in Data, NEW t \in Data, NEW d \in Data, NEW r \in Data,
         NEW m \in Data, NEW i \in Data, Cat(h, t) = Cat(m, i)
  PROVE  Stream(g, h, Cat(t, d), r) = Stream(Cat(g, m), i, d, r)
<1> DEFINE e == Cat(d, r)
<1>1. e \in Data
  BY CatFacts
<1>2. Stream(g, h, t, e) = Stream(g, h, Cat(t, d), r)
  BY IntoPipe
<1>3. Stream(g, m, i, e) = Stream(Cat(g, m), i, d, r)
  BY Completed
<1> HIDE DEF e
<1>4. Stream(g, h, t, e) = Cat(g, Cat(Cat(h, t), e))
  BY <1>1, Regrouped
<1>5. Stream(g, m, i, e) = Cat(g, Cat(Cat(m, i), e))
  BY <1>1, Regrouped
<1> QED BY <1>2, <1>3, <1>4, <1>5

-----------------------------------------------------------------------------
(* The steps.                                                              *)

\* Nothing was taken or given before the port is opened.
LEMMA InitDelivery == Init => Delivery
<1> SUFFICES ASSUME Init PROVE Delivery
  OBVIOUS
<1>1. /\ port = "open" /\ terminating = "no" /\ peer = "there" /\ q = <<>> /\ pipe = <<>>
      /\ ifd = [pbuf |-> <<>>, buf |-> <<>>, remain |-> 0] /\ sent = <<>> /\ got = <<>>
      /\ job = [at |-> "none", n |-> 0]
  BY DEF Init, Clean
<1>2. PB \in Nat \ {0} /\ PipeSize \in Nat
  BY PortStreamAssumption
<1>3. <<>> \in Data /\ Len(<<>>) = 0
  BY DEF Data
<1>4. ifd \in InputSide /\ Held(ifd) = <<>>
  <2>1. ifd.pbuf = <<>> /\ ifd.buf = <<>> /\ ifd.remain = 0
    BY <1>1
  <2> QED BY <1>1, <1>2, <1>3, <2>1 DEF InputSide, Held
<1>5. Values
  <2>1. drv \in {"spawn", "fd"} /\ mode \in Modes
    BY DEF Init
  <2> QED BY <1>1, <1>2, <1>4, <2>1 DEF Values
<1>6. Unwritten = <<>>
  <2>1. job.n = 0
    BY <1>1
  <2> QED BY <1>1, <2>1 DEF Unwritten, Drop, Failed
<1>7. Bytes(sent) = Stream(Bytes(got), Held(ifd), pipe, <<>>)
  <2>1. <<>> = <<>> \o (<<>> \o (<<>> \o <<>>))
    OBVIOUS
  <2> QED BY <1>1, <1>4, <2>1, BytesOfNone, Zenon DEF Stream, Cat
<1>8. InFlight
  BY <1>3, <1>6, <1>7 DEF InFlight
<1>9. InOrder
  BY <1>1 DEF InOrder
<1> QED BY <1>5, <1>8, <1>9 DEF Delivery

\* What is not written yet is bytes.
LEMMA UnwrittenType ==
  ASSUME QueueType
  PROVE  Unwritten \in Data
<1> DEFINE n == IF job.n = Failed THEN 0 ELSE job.n
<1>1. q \in Seq(Digit) /\ n \in 0 .. Len(q)
  BY DEF QueueType
<1>2. Drop(q, n) \in Seq(Digit)
  BY <1>1, DropType
<1> QED BY <1>2 DEF Unwritten, Data

\* A step that moves no byte: the port may end, and what the async thread
\* wrote is taken off the queue.
LEMMA StillStep ==
  ASSUME Delivery, UNCHANGED <<drv, mode, pipe, peer, ifd, sent, got>>,
         port' \in {"open", "closing", "normal", "eof", "failed"},
         terminating' \in {"no", "normal", "eof"},
         job'.at # "done" => job'.n = 0,
         port' = "open" => port = "open" /\ terminating' # "normal" /\ (Returns => Unwritten' = Unwritten)
  PROVE  Delivery'
<1>1. Values'
  BY DEF Delivery, Values
<1>2. InOrder'
  BY DEF Delivery, InOrder
<1>3. InFlight'
  <2> SUFFICES ASSUME port' = "open" PROVE InFlight'
    BY DEF InFlight
  <2>1. PICK rest \in Data : /\ Bytes(sent) = Stream(Bytes(got), Held(ifd), pipe, rest)
                             /\ Returns => rest = Unwritten
    BY DEF Delivery, InFlight
  <2>2. Bytes(sent)' = Bytes(sent) /\ Bytes(got)' = Bytes(got) /\ Held(ifd)' = Held(ifd) /\ pipe' = pipe
    BY DEF Bytes, Held
  <2>3. Returns' = Returns
    BY DEF Returns
  <2>4. Returns' => rest = Unwritten'
    BY <2>1, <2>3
  <2>5. Bytes(sent)' = Stream(Bytes(got)', Held(ifd)', pipe', rest)
    BY <2>1, <2>2, Zenon
  <2> QED BY <2>4, <2>5 DEF InFlight
<1> QED BY <1>1, <1>2, <1>3 DEF Delivery

\* A step that writes w of what is not written, to which the bytes a of a
\* message may just have come.
LEMMA FlowStep ==
  ASSUME QueueType, Delivery, port = "open", NEW w \in Data, NEW a \in Data,
         UNCHANGED <<drv, mode, port, peer, ifd, got>>,
         pipe' = IF Returns THEN Cat(pipe, w) ELSE pipe,
         Unwritten' \in Data, Returns => Cat(Unwritten, a) = Cat(w, Unwritten'),
         Bytes(sent)' = Cat(Bytes(sent), a)
  PROVE  InFlight'
<1>1. PICK rest \in Data : /\ Bytes(sent) = Stream(Bytes(got), Held(ifd), pipe, rest)
                           /\ Returns => rest = Unwritten
  BY DEF Delivery, InFlight
<1>2. Bytes(got)' = Bytes(got) /\ Held(ifd)' = Held(ifd) /\ Returns' = Returns
  BY DEF Bytes, Held, Returns
<1> DEFINE g == Bytes(got)
           h == Held(ifd)
           u == Unwritten'
           s2 == Bytes(sent)'
<1>3. g \in Data /\ h \in Data /\ pipe \in Data
  <2>1. got \in Seq(Data) /\ ifd \in InputSide
    BY DEF Delivery, Values, Short
  <2> QED BY <2>1, BytesType, HeldType DEF QueueType, Data
<1>4. s2 = Cat(Stream(g, h, pipe, rest), a)
  BY <1>1, Zenon
<1> HIDE DEF g, h, u, s2
<1>5. s2 = Stream(g, h, pipe, Cat(rest, a))
  BY <1>3, <1>4, BehindAll
<1>6. CASE Returns
  <2>1. Cat(rest, a) = Cat(w, u)
    BY <1>1, <1>6, Zenon DEF u
  <2>2. u \in Data
    BY DEF u
  <2>3. s2 = Stream(g, h, Cat(pipe, w), u)
    BY <1>3, <1>5, <2>1, <2>2, IntoPipe
  <2>4. pipe' = Cat(pipe, w)
    BY <1>6
  <2>5. s2 = Stream(g, h, pipe', u)
    BY <2>3, <2>4, Zenon
  <2>6. u \in Data /\ s2 = Stream(g, h, pipe', u)
    BY <2>5 DEF u
  <2> QED BY <1>2, <2>6, Zenon DEF InFlight, g, h, u, s2
<1>7. CASE ~Returns
  <2>1. Cat(rest, a) \in Data
    BY DEF Data, Cat
  <2>2. pipe' = pipe
    BY <1>7
  <2>3. Bytes(sent)' = Stream(Bytes(got)', Held(ifd)', pipe', Cat(rest, a))
    BY <1>2, <1>5, <2>2, Zenon DEF g, h, s2
  <2> QED BY <1>2, <1>7, <2>1, <2>3, Zenon DEF InFlight
<1> QED BY <1>6, <1>7

\* What writev takes fits the kernel.
LEMMA WrittenFits ==
  ASSUME QueueType, Values, NEW s \in Seq(Digit), NEW n \in Taken(Len(s)), Written(Take(s, n))
  PROVE  /\ n \in 0 .. Len(s) /\ Take(s, n) \in Data /\ Drop(s, n) \in Data
         /\ Take(s, n) \o Drop(s, n) = s
         /\ pipe' = IF Returns THEN pipe \o Take(s, n) ELSE pipe
         /\ Len(pipe') <= PipeSize
<1>1. n \in 0 .. Len(s)
  BY TakenWithin
<1>2. Take(s, n) \in Data /\ Len(Take(s, n)) = n /\ Drop(s, n) \in Data
  <2>1. Take(s, n) \in Seq(Digit) /\ Len(Take(s, n)) = n
    BY <1>1 DEF Take
  <2>2. Drop(s, n) \in Seq(Digit)
    BY <1>1, DropType
  <2> QED BY <2>1, <2>2 DEF Data
<1>3. Take(s, n) \o Drop(s, n) = s
  BY <1>1, SplitAt
<1>4. pipe' = IF Returns THEN pipe \o Take(s, n) ELSE pipe
  BY DEF Written
<1>5. Len(pipe') <= PipeSize
  <2>1. CASE Returns
    <3>1. n <= PipeSize - Len(pipe)
      BY <2>1, PortStreamAssumption DEF Taken, Least, QueueType
    <3>2. pipe' = pipe \o Take(s, n)
      BY <1>4, <2>1
    <3>3. Len(pipe') = Len(pipe) + n
      <4> DEFINE t == Take(s, n)
      <4>1. t \in Seq(Digit) /\ pipe \in Seq(Digit) /\ Len(t) = n /\ pipe' = pipe \o t
        BY <1>2, <3>2 DEF QueueType, Data
      <4> HIDE DEF t
      <4>2. Len(pipe \o t) = Len(pipe) + Len(t)
        BY <4>1, ConcatProperties
      <4> QED BY <4>1, <4>2, Zenon
    <3> QED BY <1>1, <3>1, <3>3, PortStreamAssumption DEF QueueType
  <2>2. CASE ~Returns
    BY <1>4, <2>2 DEF Values
  <2> QED BY <2>1, <2>2
<1> QED BY <1>1, <1>2, <1>3, <1>4, <1>5

\* The poller or the async thread writes the beginning of the queue.
LEMMA WriteStep ==
  ASSUME QueueType, Delivery, NEW n \in Taken(Len(q)), Written(Take(q, n)),
         UNCHANGED <<drv, mode, port, terminating, peer, ifd, sent, got>>,
         Unwritten = q, Unwritten' = Drop(q, n), job'.at # "done" => job'.n = 0
  PROVE  Delivery'
<1>1. q \in Seq(Digit) /\ Values
  BY DEF QueueType, Delivery
<1>2. /\ Take(q, n) \in Data /\ Drop(q, n) \in Data /\ Take(q, n) \o Drop(q, n) = q
      /\ pipe' = IF Returns THEN pipe \o Take(q, n) ELSE pipe
      /\ Len(pipe') <= PipeSize
  BY <1>1, WrittenFits
<1>3. Values'
  BY <1>1, <1>2 DEF Values
<1>4. InOrder'
  BY DEF Delivery, InOrder
<1>5. InFlight'
  <2>1. CASE port = "open"
    <3>1. <<>> \in Data /\ q \o <<>> = q
      BY <1>1 DEF Data
    <3>2. Cat(Unwritten, <<>>) = Cat(Take(q, n), Unwritten')
      BY <1>2, <3>1, Zenon DEF Cat
    <3>3. Bytes(sent)' = Cat(Bytes(sent), <<>>)
      <4> DEFINE x == Bytes(sent)
      <4>1. x \in Data
        BY <1>1, BytesType DEF Values, Short
      <4>2. Bytes(sent)' = x
        BY DEF Bytes
      <4> HIDE DEF x
      <4>3. x \o <<>> = x
        BY <4>1 DEF Data
      <4> QED BY <4>2, <4>3, Zenon DEF x, Cat
    <3>4. pipe' = IF Returns THEN Cat(pipe, Take(q, n)) ELSE pipe
      BY <1>2, Zenon DEF Cat
    <3> QED BY <1>2, <2>1, <3>1, <3>2, <3>3, <3>4, FlowStep
  <2>2. CASE port # "open"
    BY <2>2 DEF InFlight
  <2> QED BY <2>1, <2>2
<1> QED BY <1>3, <1>4, <1>5 DEF Delivery

\* The same of the state after a step.
LEMMA UnwrittenPrimed ==
  ASSUME QueueType'
  PROVE  Unwritten' \in Data
<1> DEFINE n == IF job'.n = Failed THEN 0 ELSE job'.n
<1>1. q' \in Seq(Digit) /\ n \in 0 .. Len(q')
  BY DEF QueueType
<1>2. Drop(q', n) \in Seq(Digit)
  BY <1>1, DropType
<1> QED BY <1>2 DEF Unwritten, Data

\* Dropping from what has got longer.
LEMMA DropBehind ==
  ASSUME NEW s \in Data, NEW f \in Data, NEW n \in 0 .. Len(s)
  PROVE  Drop(s, n) \o f = <<>> \o Drop(s \o f, n)
<1>1. s \in Seq(Digit) /\ f \in Seq(Digit) /\ Len(s) \in Nat /\ Len(f) \in Nat
  BY DEF Data
<1>2. Drop(s, n) \in Seq(Digit) /\ Len(Drop(s, n)) = Len(s) - n
  BY <1>1, DropType
<1> DEFINE c == s \o f
<1>3. c \in Seq(Digit) /\ Len(c) = Len(s) + Len(f)
  BY <1>1, ConcatProperties
<1> HIDE DEF c
<1>4. Drop(c, n) \in Seq(Digit) /\ Len(Drop(c, n)) = (Len(s) + Len(f)) - n
  <2>1. n \in 0 .. Len(c)
    BY <1>1, <1>3
  <2>2. Drop(c, n) \in Seq(Digit) /\ Len(Drop(c, n)) = Len(c) - n
    BY <1>3, <2>1, DropType
  <2> QED BY <1>3, <2>2
<1> DEFINE z == Drop(s, n)
           x == z \o f
           y == Drop(c, n)
<1>5. x \in Seq(Digit) /\ Len(x) = Len(y)
  <2>1. z \in Seq(Digit) /\ Len(z) = Len(s) - n
    BY <1>2
  <2>2. Len(y) = (Len(s) + Len(f)) - n
    BY <1>4
  <2> HIDE DEF z, y
  <2>3. x \in Seq(Digit) /\ Len(x) = Len(z) + Len(f)
    BY <1>1, <2>1, ConcatProperties
  <2> QED BY <1>1, <2>1, <2>2, <2>3
<1>6. ASSUME NEW k \in 1 .. Len(x) PROVE x[k] = y[k]
  <2>1. k \in Nat /\ k > 0 /\ k <= Len(s) + Len(f) - n
    BY <1>1, <1>4, <1>5
  <2>2. y[k] = c[k + n]
    BY <1>1, <1>3, <2>1 DEF Drop
  <2>3. CASE k <= Len(s) - n
    <3>1. x[k] = z[k]
      BY <1>1, <1>2, <2>1, <2>3
    <3>2. z[k] = s[k + n]
      BY <1>1, <2>1, <2>3 DEF Drop
    <3>3. c[k + n] = s[k + n]
      BY <1>1, <2>1, <2>3 DEF c
    <3> QED BY <2>2, <3>1, <3>2, <3>3
  <2>4. CASE ~(k <= Len(s) - n)
    <3>1. x[k] = f[k - (Len(s) - n)]
      BY <1>1, <1>2, <2>1, <2>4
    <3>2. c[k + n] = f[(k + n) - Len(s)]
      BY <1>1, <2>1, <2>4 DEF c
    <3>3. k - (Len(s) - n) = (k + n) - Len(s)
      BY <1>1, <2>1
    <3> QED BY <2>2, <3>1, <3>2, <3>3
  <2> QED BY <2>3, <2>4
<1> HIDE DEF x, y
<1>7. x = y /\ y \in Seq(Digit)
  <2>1. y \in Seq(Digit)
    BY <1>4 DEF y
  <2> QED BY <1>5, <1>6, <2>1, SeqEqual
<1>8. <<>> \o y = y
  BY <1>7
<1> QED BY <1>7, <1>8 DEF x, y, c

\* The end of the port.
LEMMA EndDelivery ==
  ASSUME Delivery, NEW why \in {"normal", "eof", "failed"}, End(why)
  PROVE  Delivery'
<1>1. /\ UNCHANGED <<drv, mode, pipe, peer, ifd, sent, got, job>> /\ terminating' = terminating
      /\ port' = why /\ Values
  BY DEF End, Ends, opts, out, Delivery
<1>2. job'.at # "done" => job'.n = 0
  BY <1>1 DEF Values
<1> QED BY <1>1, <1>2, StillStep DEF Values

\* A step that takes a message: w of what is not written is written at once.
LEMMA TakenStep ==
  ASSUME QueueType, Delivery, NEW m \in Message, Len(m) < Pow[PB], port = "open", NEW w \in Data,
         UNCHANGED <<drv, mode, port, terminating, peer, ifd, got>>, sent' = Append(sent, m),
         pipe' = IF Returns THEN Cat(pipe, w) ELSE pipe, Len(pipe') <= PipeSize,
         Unwritten' \in Data, Cat(Unwritten, Frame(m)) = Cat(w, Unwritten'),
         job'.at # "done" => job'.n = 0
  PROVE  Delivery'
<1>1. m \in Data /\ m \in Short /\ Frame(m) \in Data
  BY MessageType DEF Short, Data
<1>2. Values /\ InOrder /\ sent \in Seq(Data)
  BY DEF Delivery, Values, Short
<1>3. Bytes(sent)' = Cat(Bytes(sent), Frame(m))
  <2>1. Bytes(Append(sent, m)) = Bytes(sent) \o Frame(m)
    BY <1>1, <1>2, BytesOfAppend
  <2>2. Bytes(sent)' = Bytes(Append(sent, m))
    BY DEF Bytes
  <2> QED BY <2>1, <2>2, Zenon DEF Cat
<1>4. InFlight'
  BY <1>1, <1>3, FlowStep
<1>5. Values'
  BY <1>1, <1>2 DEF Values
<1>6. InOrder'
  BY <1>2 DEF InOrder, Values
<1> QED BY <1>4, <1>5, <1>6 DEF Delivery

\* Without a result the queue is what is not written.
LEMMA UnwrittenQueue ==
  ASSUME QueueType, job.n = 0
  PROVE  Unwritten = q
BY DEF QueueType, Unwritten, Drop, Failed

\* A message that passes the check has a length its header can say.
LEMMA FitsHeader ==
  ASSUME NEW m \in Message, ~TooLong(m)
  PROVE  Len(m) < Pow[PB]
<1>1. Len(m) \in Nat
  BY PortStreamAssumption
<1>2. CASE PB = 4
  BY <1>2, LengthAssumption
<1>3. CASE PB \in {1, 2}
  <2>1. Pow[PB] \in Nat
    BY <1>3, PowFacts
  <2> QED BY <1>1, <1>3, <2>1 DEF TooLong
<1> QED BY <1>2, <1>3, PortStreamAssumption

\* A message is written, queued or refused.
LEMMA OutputDelivery ==
  ASSUME IInv, IInv', Delivery, NEW m \in Message, Output(m)
  PROVE  Delivery'
<1>1. /\ QueueType /\ OneWriter /\ QueueType' /\ Unwritten \in Data /\ Unwritten' \in Data
      /\ port = "open" /\ Values
  BY UnwrittenType, UnwrittenPrimed DEF IInv, Output, Delivery
<1>2. CASE End("failed")
  BY <1>1, <1>2, EndDelivery
<1>3. ASSUME ~TooLong(m), OutputQueued(m) \/ OutputDirect(m) \/ OutputAsync(m),
             sent' = Append(sent, m), UNCHANGED <<opts, port, terminating, peer, ifd, got>>
      PROVE  Delivery'
  <2>1. UNCHANGED <<drv, mode, port, terminating, peer, ifd, got>> /\ Len(m) < Pow[PB]
    BY <1>3, FitsHeader DEF opts
  <2>2. Frame(m) \in Data /\ q \in Data /\ pipe \in Data /\ <<>> \in Data /\ Len(pipe) <= PipeSize
    BY <1>1, MessageType DEF QueueType, Values, Data
  <2>3. pipe = IF Returns THEN Cat(pipe, <<>>) ELSE pipe
    BY <2>2 DEF Cat, Data
  <2>4. CASE OutputQueued(m)
    <3>1. q' = q \o Frame(m) /\ job' = job /\ pipe' = pipe
      BY <2>4 DEF OutputQueued, Enqueue
    <3>2. Cat(Unwritten, Frame(m)) = Cat(<<>>, Unwritten')
      <4> DEFINE n == IF job.n = Failed THEN 0 ELSE job.n
                 f == Frame(m)
      <4>1. n \in 0 .. Len(q)
        BY <1>1 DEF QueueType
      <4>2. Unwritten = Drop(q, n) /\ Unwritten' = Drop(q \o f, n)
        BY <3>1 DEF Unwritten
      <4> HIDE DEF n, f
      <4>3. f \in Data
        BY <2>2 DEF f
      <4>4. Drop(q, n) \o f = <<>> \o Drop(q \o f, n)
        BY <2>2, <4>1, <4>3, DropBehind
      <4> QED BY <4>2, <4>4, Zenon DEF Cat, f
    <3>3. job'.at # "done" => job'.n = 0
      BY <1>1, <3>1 DEF Values
    <3> QED BY <1>1, <1>3, <2>1, <2>2, <2>3, <3>1, <3>2, <3>3, TakenStep
  <2>5. CASE OutputAsync(m)
    <3>1. q = <<>> /\ q' = q \o Frame(m) /\ job' = [at |-> "queued", n |-> 0] /\ pipe' = pipe /\ blocking
      BY <2>5 DEF OutputAsync, Enqueue
    <3>2. job.n = 0 /\ job'.n = 0
      <4>1. job.at = "none"
        BY <1>1, <3>1 DEF OneWriter, QueueType
      <4> QED BY <1>1, <3>1, <4>1 DEF QueueType
    <3>3. Unwritten = <<>> /\ Unwritten' = Frame(m)
      <4>1. Unwritten = q
        BY <1>1, <3>2, UnwrittenQueue
      <4>2. Unwritten' = q'
        BY <1>1, <3>2 DEF QueueType, Unwritten, Drop, Failed
      <4>3. <<>> \o Frame(m) = Frame(m)
        <5> DEFINE f == Frame(m)
        <5>1. f \in Data
          BY <2>2
        <5> HIDE DEF f
        <5>2. <<>> \o f = f
          BY <5>1 DEF Data
        <5> QED BY <5>2 DEF f
      <4> QED BY <3>1, <4>1, <4>2, <4>3, Zenon
    <3>4. Cat(Unwritten, Frame(m)) = Cat(<<>>, Unwritten')
      BY <3>3, Zenon
    <3> QED BY <1>1, <1>3, <2>1, <2>2, <2>3, <3>1, <3>2, <3>4, TakenStep
  <2>6. CASE OutputDirect(m)
    <3>1. q = <<>> /\ ~blocking /\ job' = job
      BY <2>6 DEF OutputDirect
    <3>2. PICK n \in Taken(Len(Frame(m))) :
            /\ Written(Take(Frame(m), n))
            /\ IF n = Len(Frame(m)) THEN UNCHANGED <<q, busy, writing>>
               ELSE Enqueue(Drop(Frame(m), n)) /\ writing' = TRUE
      BY <2>6 DEF OutputDirect
    <3> DEFINE f == Frame(m)
               w == Take(Frame(m), n)
               r == Drop(Frame(m), n)
    <3>3. /\ n \in 0 .. Len(f) /\ w \in Data /\ r \in Data /\ w \o r = f
          /\ pipe' = IF Returns THEN pipe \o w ELSE pipe
          /\ Len(pipe') <= PipeSize
      <4>1. Frame(m) \in Seq(Digit)
        BY <2>2 DEF Data
      <4> QED BY <1>1, <3>2, <4>1, WrittenFits
    <3>4. job.n = 0 /\ job'.n = 0
      <4>1. job.at = "none"
        BY <1>1, <3>1 DEF OneWriter, QueueType
      <4> QED BY <1>1, <3>1, <4>1 DEF QueueType
    <3>5. Unwritten = <<>> /\ Unwritten' = q'
      <4>1. Unwritten = q
        BY <1>1, <3>4, UnwrittenQueue
      <4>2. Unwritten' = q'
        BY <1>1, <3>4 DEF QueueType, Unwritten, Drop, Failed
      <4> QED BY <3>1, <4>1, <4>2
    <3>6. q' = r
      <4>1. CASE n = Len(f)
        <5>1. q' = <<>>
          BY <3>1, <3>2, <4>1
        <5>2. Len(r) = Len(f) - n
          BY <2>2, <3>3, DropType DEF Data
        <5>3. r = <<>>
          <6>1. Len(f) \in Nat
            BY <2>2 DEF Data
          <6>2. Len(r) = 0
            BY <4>1, <5>2, <6>1
          <6> HIDE DEF r
          <6> QED BY <3>3, <6>2 DEF Data
        <5> QED BY <5>1, <5>3
      <4>2. CASE n # Len(f)
        <5>1. q' = <<>> \o r
          BY <3>1, <3>2, <4>2 DEF Enqueue
        <5> HIDE DEF r
        <5>2. <<>> \o r = r
          BY <3>3 DEF Data
        <5> QED BY <5>1, <5>2
      <4> QED BY <4>1, <4>2
    <3>7. Cat(Unwritten, f) = Cat(w, Unwritten')
      <4> HIDE DEF f, w, r
      <4>1. f \in Data
        BY <2>2 DEF f
      <4>2. <<>> \o f = f
        BY <4>1 DEF Data
      <4> QED BY <3>3, <3>5, <3>6, <4>2, Zenon DEF Cat
    <3>8. pipe' = IF Returns THEN Cat(pipe, w) ELSE pipe
      BY <3>3, Zenon DEF Cat
    <3> HIDE DEF w, r
    <3> QED BY <1>1, <1>3, <2>1, <3>3, <3>4, <3>7, <3>8, TakenStep
  <2> QED BY <1>3, <2>4, <2>5, <2>6
<1>4. CASE OutputTooLong(m) \/ (~TooLong(m) /\ OutputFails)
  BY <1>2, <1>4 DEF OutputTooLong, OutputFails
<1> QED BY <1>3, <1>4 DEF Output

\* The poller writes the beginning of the queue, or the port ends.
LEMMA ReadyOutputDelivery ==
  ASSUME IInv, Delivery, ReadyOutput
  PROVE  Delivery'
<1>1. Up /\ QueueType /\ OneWriter /\ Values /\ writing /\ ~blocking
  BY DEF ReadyOutput, IInv, Delivery, OneWriter
<1>2. job.n = 0 /\ job.at = "none" /\ Unwritten = q
  BY <1>1, UnwrittenQueue DEF OneWriter, QueueType
<1>3. CASE End("normal") \/ End("failed")
  BY <1>3, EndDelivery
<1>4. CASE /\ q = <<>> /\ busy' = FALSE /\ writing' = FALSE
           /\ UNCHANGED <<opts, port, terminating, q, job, pipe, peer, ifd, sent, got>>
  <2>1. Unwritten' = Unwritten
    BY <1>4 DEF Unwritten
  <2> QED BY <1>1, <1>2, <1>4, <2>1, StillStep DEF Values, opts
<1>5. CASE /\ q # <<>> /\ peer # "gone"
           /\ \E n \in Taken(Len(q)) \ {0} : Written(Take(q, n)) /\ Dequeue(n)
           /\ UNCHANGED <<opts, port, terminating, writing, job, peer, ifd, sent, got>>
  <2>1. PICK n \in Taken(Len(q)) \ {0} : Written(Take(q, n)) /\ q' = Drop(q, n)
    BY <1>5 DEF Dequeue
  <2>2. n \in 0 .. Len(q) /\ q \in Seq(Digit)
    BY <1>1, TakenWithin DEF QueueType
  <2>3. Unwritten' = q'
    <3>1. q' \in Seq(Digit)
      BY <2>1, <2>2, DropType
    <3>2. job'.n = 0
      BY <1>2, <1>5
    <3> QED BY <3>1, <3>2 DEF Unwritten, Drop, Failed
  <2> QED BY <1>1, <1>2, <1>5, <2>1, <2>3, WriteStep DEF opts
<1> QED BY <1>3, <1>4, <1>5 DEF ReadyOutput

\* The async thread writes the beginning of the queue, which the port has yet
\* to take off.
LEMMA FdAsyncDelivery ==
  ASSUME IInv, Delivery, FdAsync
  PROVE  Delivery'
<1>1. QueueType /\ OneWriter /\ Values /\ job.at = "queued"
      /\ UNCHANGED <<opts, port, terminating, q, busy, writing, peer, ifd, sent, got>>
  BY DEF FdAsync, IInv, Delivery
<1>2. job.n = 0 /\ Unwritten = q
  BY <1>1, UnwrittenQueue DEF Values
<1>3. ASSUME NEW n \in Taken(Len(q)), Written(Take(q, n)), job' = [at |-> "done", n |-> n]
      PROVE  Delivery'
  <2>1. n \in 0 .. Len(q) /\ q \in Seq(Digit)
    BY <1>1, TakenWithin DEF QueueType
  <2>2. Unwritten' = Drop(q, n)
    <3>1. job'.n = n /\ n # Failed /\ q' = q
      BY <1>1, <1>3, <2>1 DEF Failed
    <3> QED BY <3>1 DEF Unwritten
  <2>3. job'.at = "done"
    BY <1>3
  <2> QED BY <1>1, <1>2, <1>3, <2>2, <2>3, WriteStep DEF opts
<1>4. CASE job' = [at |-> "done", n |-> Failed] /\ pipe' = pipe
  <2>1. Unwritten' = Unwritten
    BY <1>1, <1>2, <1>4 DEF Unwritten, QueueType, Drop, Failed
  <2>2. job'.at = "done"
    BY <1>4
  <2> QED BY <1>1, <1>4, <2>1, <2>2, StillStep DEF Values, opts
<1> QED BY <1>3, <1>4 DEF FdAsync

\* Dropping what the thread wrote leaves what it did not.
LEMMA FdReadyAsyncDelivery ==
  ASSUME IInv, Delivery, FdReadyAsync
  PROVE  Delivery'
<1>1. Up /\ QueueType /\ Values /\ job.at = "done"
  BY DEF FdReadyAsync, IInv, Delivery
<1>2. CASE End("failed")
  BY <1>2, EndDelivery
<1>3. CASE /\ job.n # Failed /\ Dequeue(job.n) /\ UNCHANGED writing
           /\ job' = [at |-> IF q' = <<>> THEN "none" ELSE "queued", n |-> 0]
           /\ Ends(IF q' = <<>> /\ terminating # "no" THEN terminating ELSE port)
  <2>1. /\ UNCHANGED <<drv, mode, terminating, pipe, peer, ifd, sent, got>>
        /\ port' = IF q' = <<>> /\ terminating # "no" THEN terminating ELSE port
    BY <1>3 DEF Ends, opts
  <2>2. job'.n = 0 /\ q' = Drop(q, job.n) /\ job.n \in 0 .. Len(q)
    BY <1>1, <1>3 DEF Dequeue, QueueType
  <2>3. Unwritten' = Unwritten
    <3>1. q' \in Seq(Digit)
      BY <1>1, <2>2, DropType DEF QueueType
    <3>2. Unwritten' = q'
      <4>1. job'.n = 0
        BY <2>2
      <4> QED BY <3>1, <4>1 DEF Unwritten, Drop, Failed
    <3>3. Unwritten = Drop(q, job.n)
      BY <1>3 DEF Unwritten
    <3> QED BY <2>2, <3>2, <3>3
  <2>4. port' \in {"open", "closing", "normal", "eof", "failed"} /\ (port' = "open" => port = "open")
    BY <1>1, <2>1 DEF Values
  <2> QED BY <1>1, <2>1, <2>2, <2>3, <2>4, StillStep DEF Values
<1> QED BY <1>2, <1>3 DEF FdReadyAsync

\* The owner closes the port.
LEMMA CloseDelivery ==
  ASSUME IInv, Delivery, Close \/ Drained
  PROVE  Delivery'
<1>1. CASE End("normal")
  BY <1>1, EndDelivery
<1>2. CASE /\ Close /\ port' = "closing"
           /\ terminating' = IF drv = "fd" /\ terminating = "no" THEN "normal" ELSE terminating
           /\ UNCHANGED <<opts, out, pipe, peer, ifd, sent, got>>
  <2>1. UNCHANGED <<drv, mode, pipe, peer, ifd, sent, got, job>> /\ Values
    BY <1>2 DEF opts, out, Delivery
  <2> QED BY <1>2, <2>1, StillStep DEF Values
<1> QED BY <1>1, <1>2 DEF Close, Drained

\* What a read gives: messages that fit the header, and bytes that are these
\* messages and what is held after it.
LEMMA ReadGives ==
  ASSUME QueueType, Values, ReadyInput
  PROVE  \E n \in 0 .. Len(pipe), msgs \in Seq(Short) :
           /\ pipe' = Drop(pipe, n) /\ ifd' \in InputSide
           /\ got' = IF port = "closing" THEN got ELSE got \o msgs
           /\ Cat(Held(ifd), Take(pipe, n)) = Cat(Bytes(msgs), Held(ifd)')
<1>1. PICK n \in 1 .. Len(pipe) :
        /\ ifd.remain > 0 => n <= ifd.remain
        /\ pipe' = Drop(pipe, n)
        /\ IF ifd.remain = 0
           THEN LET r == Scan(ifd.pbuf \o Take(pipe, n))
                IN Give(r.msgs) /\ ifd' = r.ifd
           ELSE IF n = ifd.remain
           THEN Give(<<ifd.buf \o Take(pipe, n)>>) /\ ifd' = Clean
           ELSE /\ ifd' = [ifd EXCEPT !.buf = @ \o Take(pipe, n), !.remain = @ - n]
                /\ UNCHANGED got
  BY DEF ReadyInput
<1> DEFINE t == Take(pipe, n)
<1>2. pipe \in Seq(Digit) /\ Len(pipe) \in Nat
  BY DEF QueueType
<1>3. t \in Data /\ Len(t) = n
  BY <1>2 DEF Take, Data
<1>4. /\ ifd \in InputSide /\ ifd.pbuf \in Data /\ ifd.buf \in Data /\ ifd.remain \in Nat
      /\ Len(ifd.pbuf) \in Nat /\ Len(ifd.buf) \in Nat
      /\ ifd.remain = 0 => ifd.buf = <<>>
      /\ ifd.remain > 0 => Len(ifd.buf) + ifd.remain < Pow[PB]
  BY DEF Values, InputSide, Data
<1>5. PB \in Nat \ {0} /\ <<>> \in Data /\ Len(<<>>) = 0
  BY PortStreamAssumption DEF Data
<1> SUFFICES \E msgs \in Seq(Short) :
           /\ ifd' \in InputSide
           /\ got' = IF port = "closing" THEN got ELSE got \o msgs
           /\ Cat(Held(ifd), t) = Cat(Bytes(msgs), Held(ifd)')
  <2>1. n \in 0 .. Len(pipe)
    BY <1>2
  <2> HIDE DEF t
  <2> QED BY <1>1, <2>1, Zenon DEF t
<1>6. CASE ifd.remain = 0
  <2> DEFINE s == ifd.pbuf \o t
             r == Scan(s)
  <2>1. s \in Data
    BY <1>3, <1>4 DEF Data
  <2>2. Give(r.msgs) /\ ifd' = r.ifd
    BY <1>1, <1>6
  <2> HIDE DEF t, s
  <2>3. Exact(s, r)
    BY <2>1, ScanExact
  <2> HIDE DEF r
  <2>4. r.msgs \in Seq(Short) /\ r.ifd \in InputSide /\ Bytes(r.msgs) \o Held(r.ifd) = s
    BY <2>3 DEF Exact
  <2>5. Held(ifd)' = Held(r.ifd)
    BY <2>2 DEF Held
  <2>6. Held(ifd) = ifd.pbuf
    BY <1>6 DEF Held
  <2>7. Cat(Held(ifd), t) = Cat(Bytes(r.msgs), Held(ifd)')
    BY <2>4, <2>5, <2>6, Zenon DEF Cat, s
  <2> QED BY <2>2, <2>4, <2>7, Zenon DEF Give
<1>7. CASE ifd.remain # 0
  <2> DEFINE b == ifd.buf
             h == Header(Len(b) + ifd.remain)
             m == b \o t
  <2>1. ifd.remain > 0 /\ n <= ifd.remain
    BY <1>1, <1>4, <1>7
  <2>2. b \in Data /\ h \in Data
    <3>1. Len(b) + ifd.remain \in Nat
      BY <1>4
    <3> QED BY <1>4, <3>1, ValueOfHeader DEF Data
  <2>3. Held(ifd) = h \o b
    BY <1>7 DEF Held
  <2> HIDE DEF t, b
  <2>4. m \in Data /\ Len(m) = Len(b) + n
    <3>1. b \in Seq(Digit) /\ t \in Seq(Digit)
      BY <1>3, <2>2 DEF Data
    <3>2. b \o t \in Seq(Digit) /\ Len(b \o t) = Len(b) + Len(t)
      BY <3>1, ConcatProperties
    <3> QED BY <1>3, <3>2 DEF Data
  <2>5. (h \o b) \o t = h \o m
    <3> HIDE DEF h
    <3> QED BY <1>3, <2>2 DEF Data
  <2>6. CASE n = ifd.remain
    <3>1. Give(<<m>>) /\ ifd' = Clean
      BY <1>1, <1>7, <2>6 DEF b, t
    <3>2. m \in Short /\ Frame(m) = h \o m
      <4>1. Len(m) = Len(b) + ifd.remain
        BY <2>4, <2>6
      <4>2. Len(m) < Pow[PB]
        BY <1>4, <2>1, <4>1 DEF b
      <4>3. h = Header(Len(m))
        BY <4>1
      <4> HIDE DEF m, h
      <4> QED BY <2>4, <4>2, <4>3, Zenon DEF Short, Frame
    <3>3. Bytes(<<m>>) = Frame(m) /\ <<m>> \in Seq(Short)
      <4> HIDE DEF m
      <4>1. Bytes(<<m>>) = Frame(m)
        BY <2>4, BytesOfOne, Zenon
      <4>2. m \in Short
        BY <3>2
      <4>3. <<m>> \in Seq(Short)
        BY <4>2
      <4> QED BY <4>1, <4>3
    <3>4. ifd' \in InputSide /\ Held(ifd)' = <<>>
      <4>1. ifd' = [pbuf |-> <<>>, buf |-> <<>>, remain |-> 0]
        BY <3>1 DEF Clean
      <4>2. ifd'.pbuf = <<>> /\ ifd'.buf = <<>> /\ ifd'.remain = 0
        BY <4>1
      <4> QED BY <1>5, <4>1, <4>2 DEF InputSide, Held
    <3>5. Cat(Held(ifd), t) = Cat(Bytes(<<m>>), Held(ifd)')
      <4> DEFINE x == h \o m
      <4>1. x \in Data
        <5> HIDE DEF h, m
        <5> QED BY <2>2, <2>4 DEF Data
      <4>2. Held(ifd) \o t = x
        BY <2>3, <2>5, Zenon
      <4>3. Bytes(<<m>>) = x
        BY <3>2, <3>3, Zenon
      <4> HIDE DEF x
      <4>4. x \o <<>> = x
        BY <4>1 DEF Data
      <4> QED BY <3>4, <4>2, <4>3, <4>4, Zenon DEF Cat
    <3> QED BY <3>1, <3>3, <3>4, <3>5, Zenon DEF Give
  <2>7. CASE n # ifd.remain
    <3>1. ifd' = [ifd EXCEPT !.buf = m, !.remain = ifd.remain - n] /\ got' = got
      BY <1>1, <1>7, <2>7 DEF b, t
    <3>2. ifd'.pbuf = ifd.pbuf /\ ifd'.buf = m /\ ifd'.remain = ifd.remain - n
      BY <1>4, <3>1 DEF InputSide
    <3>3. ifd.remain - n \in Nat /\ ifd.remain - n > 0 /\ Len(m) + (ifd.remain - n) = Len(b) + ifd.remain
      BY <1>4, <2>1, <2>4, <2>7 DEF b
    <3>4. ifd' \in InputSide
      <4>1. ifd' \in [pbuf : Data, buf : Data, remain : Nat]
        BY <1>4, <2>4, <3>1, <3>3 DEF InputSide
      <4>2. Len(ifd'.pbuf) < PB
        BY <1>4, <3>2 DEF InputSide
      <4>3. Len(ifd'.buf) + ifd'.remain < Pow[PB] /\ ifd'.remain # 0
        BY <1>4, <2>1, <3>2, <3>3 DEF b
      <4> QED BY <4>1, <4>2, <4>3 DEF InputSide
    <3>5. Held(ifd)' = h \o m
      <4>1. ifd'.remain # 0 /\ Len(ifd'.buf) + ifd'.remain = Len(b) + ifd.remain /\ ifd'.buf = m
        BY <3>2, <3>3
      <4>2. Held(ifd)' = Header(Len(ifd'.buf) + ifd'.remain) \o ifd'.buf
        BY <4>1 DEF Held
      <4> QED BY <4>1, <4>2, Zenon
    <3>6. <<>> \in Seq(Short) /\ Bytes(<<>>) = <<>>
      BY BytesOfNone
    <3>7. Cat(Held(ifd), t) = Cat(Bytes(<<>>), Held(ifd)')
      <4> DEFINE x == h \o m
      <4>1. x \in Data
        <5> HIDE DEF h, m
        <5> QED BY <2>2, <2>4 DEF Data
      <4>2. Held(ifd) \o t = x
        BY <2>3, <2>5, Zenon
      <4>3. Held(ifd)' = x
        BY <3>5
      <4> HIDE DEF x
      <4>4. <<>> \o x = x
        BY <4>1 DEF Data
      <4> QED BY <3>6, <4>2, <4>3, <4>4, Zenon DEF Cat
    <3>8. got' = IF port = "closing" THEN got ELSE got \o <<>>
      <4>1. got \o <<>> = got
        BY DEF Values
      <4> QED BY <3>1, <4>1
    <3> QED BY <3>4, <3>6, <3>7, <3>8, Zenon
  <2> QED BY <2>6, <2>7
<1> QED BY <1>6, <1>7

\* The messages given are in order as long as no byte is missing.
LEMMA InOrderOf ==
  ASSUME NEW s \in Seq(Short), NEW g \in Seq(Short), NEW h \in Data, NEW p \in Data, NEW r \in Data,
         Bytes(s) = Stream(Bytes(g), h, p, r)
  PROVE  Len(g) <= Len(s) /\ g = SubSeq(s, 1, Len(g))
<1> DEFINE x == Cat(h, Cat(p, r))
<1>1. x \in Data
  BY CatFacts
<1>2. Bytes(s) = Cat(Bytes(g), x)
  BY Zenon DEF Stream
<1> HIDE DEF x
<1> QED BY <1>1, <1>2, BytesBegin

\* A read gives the messages it completes.
LEMMA ReadyInputDelivery ==
  ASSUME IInv, Delivery, ReadyInput
  PROVE  Delivery'
<1>1. /\ QueueType /\ Values /\ InOrder /\ UNCHANGED <<opts, port, terminating, out, peer, sent>>
      /\ port \in {"open", "closing"}
  BY DEF IInv, Delivery, ReadyInput, Reading, Up
<1>2. PICK n \in 0 .. Len(pipe), msgs \in Seq(Short) :
        /\ pipe' = Drop(pipe, n) /\ ifd' \in InputSide
        /\ got' = IF port = "closing" THEN got ELSE got \o msgs
        /\ Cat(Held(ifd), Take(pipe, n)) = Cat(Bytes(msgs), Held(ifd)')
  BY <1>1, ReadGives
<1>3. pipe \in Seq(Digit) /\ got \in Seq(Short) /\ sent \in Seq(Short) /\ Len(pipe) \in Nat /\ Len(pipe) <= PipeSize
  BY <1>1 DEF QueueType, Values
<1>4. pipe' \in Data /\ Len(pipe') <= PipeSize
  <2>1. pipe' \in Seq(Digit) /\ Len(pipe') = Len(pipe) - n
    BY <1>2, <1>3, DropType
  <2> QED BY <1>3, <2>1, PortStreamAssumption DEF Data
<1>5. got' \in Seq(Short)
  <2>1. got \o msgs \in Seq(Short)
    BY <1>3, ConcatProperties
  <2> QED BY <1>2, <1>3, <2>1
<1>6. Values'
  BY <1>1, <1>2, <1>4, <1>5 DEF Values, opts, out
<1>7. CASE port = "closing"
  <2>1. InFlight'
    BY <1>1, <1>7 DEF InFlight
  <2>2. InOrder'
    BY <1>1, <1>2, <1>7 DEF InOrder
  <2> QED BY <1>6, <2>1, <2>2 DEF Delivery
<1>8. CASE port = "open"
  <2> DEFINE g == Bytes(got)
             h == Held(ifd)
             t == Take(pipe, n)
             d == Drop(pipe, n)
             m == Bytes(msgs)
             i == Held(ifd)'
  <2>1. PICK rest \in Data : /\ Bytes(sent) = Stream(g, h, pipe, rest)
                             /\ Returns => rest = Unwritten
    BY <1>8 DEF Delivery, InFlight
  <2>2. g \in Data /\ h \in Data /\ m \in Data /\ i \in Data
    <3>1. got \in Seq(Data) /\ msgs \in Seq(Data) /\ ifd \in InputSide
      BY <1>1, <1>3 DEF Short, Values
    <3>2. i \in Data
      <4>1. Held(ifd') = i
        BY DEF Held
      <4>2. Held(ifd') \in Data
        BY <1>2, HeldType
      <4> QED BY <4>1, <4>2
    <3> QED BY <3>1, <3>2, BytesType, HeldType
  <2>3. t \in Data /\ d \in Data /\ pipe = Cat(t, d)
    <3>1. t \in Seq(Digit)
      BY <1>3 DEF Take
    <3>2. d \in Seq(Digit)
      BY <1>3, DropType
    <3>3. t \o d = pipe
      BY <1>3, SplitAt
    <3> QED BY <3>1, <3>2, <3>3, Zenon DEF Cat, Data
  <2>4. Cat(h, t) = Cat(m, i)
    BY <1>2
  <2>5. Bytes(got)' = Cat(g, m)
    <3>1. got' = got \o msgs
      BY <1>2, <1>8
    <3>2. got \in Seq(Data) /\ msgs \in Seq(Data)
      BY <1>3 DEF Short
    <3>3. Bytes(got \o msgs) = Bytes(got) \o Bytes(msgs)
      BY <3>2, BytesOfConcat
    <3>4. Bytes(got)' = Bytes(got')
      BY DEF Bytes
    <3> QED BY <3>1, <3>3, <3>4, Zenon DEF Cat
  <2>6. Bytes(sent)' = Bytes(sent) /\ Returns' = Returns /\ Unwritten' = Unwritten
    BY <1>1 DEF Bytes, Returns, Unwritten, opts, out
  <2> HIDE DEF g, h, t, d, m, i
  <2>7. Stream(g, h, Cat(t, d), rest) = Stream(Cat(g, m), i, d, rest)
    BY <2>2, <2>3, <2>4, OutOfPipe, SMTT(90)
  <2>8. pipe' = d
    BY <1>2 DEF d
  <2>9. Bytes(sent)' = Stream(Bytes(got)', Held(ifd)', pipe', rest)
    BY <2>1, <2>3, <2>5, <2>6, <2>7, <2>8, Zenon DEF i
  <2>10. InFlight'
    BY <2>1, <2>6, <2>9, Zenon DEF InFlight
  <2>11. InOrder'
    <3>1. Bytes(sent') = Stream(Bytes(got'), i, pipe', rest) /\ sent' \in Seq(Short)
      <4>1. Bytes(sent)' = Bytes(sent') /\ Bytes(got)' = Bytes(got')
        BY DEF Bytes
      <4>2. sent' \in Seq(Short)
        BY <1>6 DEF Values
      <4> QED BY <2>9, <4>1, <4>2, Zenon DEF i
    <3> QED BY <1>4, <1>5, <2>2, <3>1, InOrderOf DEF InOrder
  <2> QED BY <1>6, <2>10, <2>11 DEF Delivery
<1> QED BY <1>1, <1>7, <1>8

\* The input side forgets what it held: it joins what will not arrive.
LEMMA InputEndsDelivery ==
  ASSUME IInv, Delivery, InputEnds
  PROVE  Delivery'
<1>1. QueueType /\ Values /\ InOrder /\ pipe = <<>> /\ peer # "there"
  BY DEF IInv, Delivery, InputEnds
<1>2. CASE End("eof")
  BY <1>2, EndDelivery
<1>3. CASE /\ terminating' = "eof" /\ ifd' = Clean
           /\ UNCHANGED <<opts, port, out, pipe, peer, sent, got>>
  <2>1. ifd' \in InputSide /\ Held(ifd)' = <<>>
    <3>1. ifd' = [pbuf |-> <<>>, buf |-> <<>>, remain |-> 0]
      BY <1>3 DEF Clean
    <3>2. ifd'.pbuf = <<>> /\ ifd'.buf = <<>> /\ ifd'.remain = 0
      BY <3>1
    <3>3. PB \in Nat \ {0} /\ <<>> \in Data /\ Len(<<>>) = 0
      BY PortStreamAssumption DEF Data
    <3> QED BY <3>1, <3>2, <3>3 DEF InputSide, Held
  <2>2. Values'
    BY <1>1, <1>3, <2>1 DEF Values, opts, out
  <2>3. InOrder'
    BY <1>1, <1>3 DEF InOrder
  <2>4. InFlight'
    <3> SUFFICES ASSUME port = "open" PROVE InFlight'
      BY <1>3 DEF InFlight
    <3>1. PICK rest \in Data : Bytes(sent) = Stream(Bytes(got), Held(ifd), pipe, rest)
      BY DEF Delivery, InFlight
    <3> DEFINE g == Bytes(got)
               h == Held(ifd)
               r == Cat(h, rest)
    <3>2. h \in Data
      BY <1>1, HeldType DEF Values
    <3> HIDE DEF h
    <3>3. r \in Data /\ Cat(<<>>, rest) = rest
      BY <3>2, CatFacts
    <3>4. Cat(<<>>, Cat(<<>>, r)) = r
      <4> HIDE DEF r
      <4> QED BY <3>3, CatFacts
    <3>5. Stream(g, h, <<>>, rest) = Cat(g, r)
      BY <3>3, Zenon DEF Stream
    <3>6. Stream(g, <<>>, <<>>, r) = Cat(g, r)
      <4> HIDE DEF r
      <4> QED BY <3>4, Zenon DEF Stream
    <3>7. Bytes(sent)' = Bytes(sent) /\ Bytes(got)' = g /\ pipe' = <<>>
      BY <1>1, <1>3 DEF Bytes
    <3>8. Bytes(sent)' = Stream(Bytes(got)', Held(ifd)', pipe', r)
      BY <1>1, <2>1, <3>1, <3>5, <3>6, <3>7, Zenon DEF h
    <3>9. ~Returns'
      BY <1>1, <1>3 DEF Returns
    <3> QED BY <3>3, <3>8, <3>9, Zenon DEF InFlight
  <2> QED BY <2>2, <2>3, <2>4 DEF Delivery
<1> QED BY <1>2, <1>3 DEF InputEnds

\* What the peer does not send joins what will not arrive.
LEMMA PeerEndsDelivery ==
  ASSUME IInv, Delivery, PeerEnds
  PROVE  Delivery'
<1>1. /\ QueueType /\ Values /\ InOrder /\ UNCHANGED <<opts, port, terminating, out, ifd, sent, got>>
      /\ peer' \in {"silent", "gone"}
  BY DEF IInv, Delivery, PeerEnds
<1>2. pipe \in Seq(Digit) /\ Len(pipe) \in Nat /\ Len(pipe) <= PipeSize /\ PipeSize \in Nat
  BY <1>1, PortStreamAssumption DEF QueueType, Values
<1>3. PICK n \in 0 .. Len(pipe) : pipe' = Take(pipe, n)
  <2>1. Take(pipe, Len(pipe)) = pipe
    BY <1>2, SubSeqFull DEF Take
  <2> QED BY <1>2, <2>1 DEF PeerEnds
<1>4. Take(pipe, n) \in Seq(Digit) /\ Len(Take(pipe, n)) = n
  BY <1>2 DEF Take
<1>5. Values'
  <2>1. Len(pipe') <= PipeSize
    BY <1>2, <1>3, <1>4
  <2> QED BY <1>1, <2>1 DEF Values, opts, out
<1>6. InOrder'
  BY <1>1 DEF InOrder
<1>7. InFlight'
  <2> SUFFICES ASSUME port = "open" PROVE InFlight'
    BY <1>1 DEF InFlight
  <2>1. PICK rest \in Data : Bytes(sent) = Stream(Bytes(got), Held(ifd), pipe, rest)
    BY DEF Delivery, InFlight
  <2> DEFINE g == Bytes(got)
             h == Held(ifd)
             t == Take(pipe, n)
             d == Drop(pipe, n)
  <2>2. g \in Data /\ h \in Data
    <3>1. got \in Seq(Data) /\ ifd \in InputSide
      BY <1>1 DEF Short, Values
    <3> QED BY <3>1, BytesType, HeldType
  <2>3. t \in Data /\ d \in Data /\ pipe = Cat(t, d)
    <3>1. d \in Seq(Digit) /\ t \o d = pipe
      BY <1>2, DropType, SplitAt
    <3> QED BY <1>4, <3>1, Zenon DEF Data, Cat
  <2>4. Bytes(sent)' = Bytes(sent) /\ Bytes(got)' = g /\ Held(ifd)' = h /\ pipe' = t /\ ~Returns'
    BY <1>1, <1>3 DEF Bytes, Held, Returns
  <2> HIDE DEF g, h, t, d
  <2>5. Cat(d, rest) \in Data
    BY <2>3, CatFacts
  <2>6. Stream(g, h, Cat(t, d), rest) = Stream(g, h, t, Cat(d, rest))
    BY <2>2, <2>3, IntoPipe
  <2>7. Bytes(sent)' = Stream(Bytes(got)', Held(ifd)', pipe', Cat(d, rest))
    BY <2>1, <2>3, <2>4, <2>6, Zenon DEF g, h
  <2> QED BY <2>4, <2>5, <2>7, Zenon DEF InFlight
<1> QED BY <1>5, <1>6, <1>7 DEF Delivery

\* The invariant of both sides, for all messages, packet and kernel sizes.
THEOREM DeliveryInvariant == Spec => [](IInv /\ Delivery)
<1>1. IInv /\ Delivery /\ IInv' /\ [Next]_vars => Delivery'
  <2> SUFFICES ASSUME IInv, IInv', Delivery, [Next]_vars PROVE Delivery'
    OBVIOUS
  <2>1. CASE UNCHANGED vars
    <3>1. /\ UNCHANGED <<drv, mode, pipe, peer, ifd, sent, got, job, port, terminating, q>> /\ Values
      BY <2>1 DEF vars, opts, out, Delivery
    <3>2. Unwritten' = Unwritten
      BY <3>1 DEF Unwritten
    <3> QED BY <3>1, <3>2, StillStep DEF Values
  <2>2. CASE \E m \in Message : Output(m)
    BY <2>2, OutputDelivery
  <2>3. CASE Poll
    BY <2>3, ReadyOutputDelivery, FdAsyncDelivery, FdReadyAsyncDelivery, ReadyInputDelivery,
       InputEndsDelivery, CloseDelivery DEF Poll
  <2>4. CASE Close \/ PeerEnds
    BY <2>4, CloseDelivery, PeerEndsDelivery
  <2> QED BY <2>1, <2>2, <2>3, <2>4 DEF Next
<1> QED BY <1>1, InitDelivery, StreamInvariant, PTL DEF Spec

\* The types of the variables: at most one write of the async thread, what has
\* come of a message is shorter than the message, and no more messages are
\* given than were taken.
THEOREM PortTypes == Spec => []TypeOK
<1>1. IInv /\ Delivery => TypeOK
  <2> SUFFICES ASSUME IInv, Delivery PROVE TypeOK
    OBVIOUS
  <2>1. QueueType /\ Values /\ InOrder
    BY DEF IInv, Delivery
  <2>2. q \in Seq(0 .. Base - 1)
    BY <2>1 DEF QueueType, Digit
  <2>3. job.at \in {"none", "queued", "done"} /\ job.n \in {Failed} \cup 0 .. Len(q)
    BY <2>1 DEF QueueType
  <2>4. Len(ifd.pbuf) < PB /\ ifd.remain \in Nat /\ (ifd.remain = 0 => ifd.buf = <<>>)
    BY <2>1 DEF Values, InputSide
  <2>5. Len(got) <= Len(sent)
    BY <2>1 DEF InOrder
  <2> QED BY <2>1, <2>2, <2>3, <2>4, <2>5 DEF TypeOK, QueueType, Values
<1> QED BY <1>1, DeliveryInvariant, PTL

\* While the port is open and the peer answers, the bytes of the messages taken
\* are those of the messages given, those of the one begun, those in the kernel
\* and those not written: whoever writes, and however writes and reads are cut.
THEOREM NoByteLost == Spec => []NothingLost
<1>1. IInv /\ Delivery => NothingLost
  <2> SUFFICES ASSUME IInv, Delivery, port = "open", Returns
               PROVE  Bytes(sent) = Bytes(got) \o Begun \o pipe \o Unwritten
    BY DEF NothingLost, Unwritten
  <2>1. Values /\ QueueType /\ Unwritten \in Data
    BY UnwrittenType DEF IInv, Delivery
  <2>2. Bytes(sent) = Stream(Bytes(got), Held(ifd), pipe, Unwritten)
    BY DEF Delivery, InFlight
  <2>3. Begun = Held(ifd)
    BY DEF Begun, Held
  <2> DEFINE g == Bytes(got)
             h == Held(ifd)
             u == Unwritten
  <2>4. g \in Data /\ h \in Data /\ pipe \in Data /\ u \in Data
    <3>1. got \in Seq(Data) /\ ifd \in InputSide
      BY <2>1 DEF Values, Short
    <3> QED BY <2>1, <3>1, BytesType, HeldType DEF QueueType, Data
  <2> HIDE DEF g, h, u
  <2>5. Stream(g, h, pipe, u) = Cat(Cat(Cat(g, h), pipe), u)
    <3>1. Cat(g, h) \in Data /\ Cat(pipe, u) \in Data
      BY <2>4, CatFacts
    <3>2. Cat(Cat(Cat(g, h), pipe), u) = Cat(Cat(g, h), Cat(pipe, u))
      BY <2>4, <3>1, CatFacts
    <3>3. Cat(Cat(g, h), Cat(pipe, u)) = Cat(g, Cat(h, Cat(pipe, u)))
      BY <2>4, <3>1, CatFacts
    <3> QED BY <3>2, <3>3, Zenon DEF Stream
  <2> QED BY <2>2, <2>3, <2>5, Zenon DEF Cat, g, h, u
<1> QED BY <1>1, DeliveryInvariant, PTL

-----------------------------------------------------------------------------
(* A queue of messages.                                                    *)

\* A step that takes and gives nothing, after which the port is down or as it
\* was, or its peer has ended.
LEMMA NoMessage ==
  ASSUME Values, UNCHANGED <<mode, sent, got>>,
         \/ port' # "open" /\ (port = "open" \/ port' \in {"normal", "eof", "failed", "closing"})
         \/ terminating' = "eof" /\ peer # "there" /\ port' = port
         \/ port' = port /\ terminating' = terminating /\ (peer' = peer \/ peer' # "there")
  PROVE  [Queue!Next]_(Queue!vars)
<1> DEFINE down(p, t) == p # "open" \/ t # "no"
<1>1. Line = IF down(port, terminating) THEN "down" ELSE IF Returns THEN "answers" ELSE "ending"
  BY DEF Line
<1>2. Line' = IF down(port', terminating') THEN "down" ELSE IF Returns' THEN "answers" ELSE "ending"
  BY DEF Line
<1>3. Returns' => mode = "in_out" /\ peer' = "there"
  BY DEF Returns
<1> SUFFICES \/ Line' = Line
             \/ Line = "answers" /\ Line' \in {"ending", "down"}
             \/ Line = "ending" /\ Line' = "down"
  BY DEF Queue!Next, Queue!End, Queue!vars
<1> QED BY <1>1, <1>2 DEF Returns, Values

\* The end of the port is End, or not seen.
LEMMA EndStutters ==
  ASSUME Values, NEW why \in {"normal", "eof", "failed"}, End(why)
  PROVE  [Queue!Next]_(Queue!vars)
<1>1. UNCHANGED <<mode, sent, got>> /\ port' = why
  BY DEF End, Ends, opts
<1>2. port' # "open" /\ port' \in {"normal", "eof", "failed", "closing"}
  BY <1>1
<1> QED BY <1>1, <1>2, NoMessage

\* Taking a message is Send, whatever becomes of it.
LEMMA OutputSends ==
  ASSUME Values, NEW m \in Message, Output(m)
  PROVE  [Queue!Next]_(Queue!vars)
<1>1. CASE End("failed")
  BY <1>1, EndStutters
<1>2. CASE sent' = Append(sent, m) /\ UNCHANGED <<opts, port, terminating, peer, ifd, got>>
  <2>1. Line' = Line
    BY <1>2 DEF Line, Returns, opts
  <2> QED BY <1>2, <2>1 DEF Queue!Next, Queue!Send
<1> QED BY <1>1, <1>2 DEF Output, OutputTooLong, OutputFails

\* A read that completes messages is Deliver, any other one is not seen.
LEMMA InputDelivers ==
  ASSUME IInv, Delivery, Delivery', ReadyInput
  PROVE  [Queue!Next]_(Queue!vars)
<1>1. /\ QueueType /\ Values /\ InOrder' /\ UNCHANGED <<opts, port, terminating, peer, sent>>
      /\ port \in {"open", "closing"} /\ terminating # "eof"
  BY DEF IInv, Delivery, ReadyInput, Reading, Up
<1>2. PICK msgs \in Seq(Short) : got' = IF port = "closing" THEN got ELSE got \o msgs
  BY <1>1, ReadGives
<1>3. Line' = Line
  BY <1>1 DEF Line, Returns, opts
<1>4. CASE got' = got
  BY <1>1, <1>3, <1>4 DEF Queue!vars
<1>5. CASE got' # got
  <2>1. port = "open" /\ got' = got \o msgs
    BY <1>1, <1>2, <1>5
  <2>2. Line # "down"
    BY <1>1, <2>1 DEF Line, Values
  <2>3. got \in Seq(Short) /\ sent \in Seq(Short)
    BY <1>1 DEF Values
  <2>4. Len(got') = Len(got) + Len(msgs) /\ Len(msgs) \in Nat /\ Len(got) \in Nat /\ Len(sent) \in Nat
    BY <2>1, <2>3, ConcatProperties
  <2>5. Len(msgs) # 0
    <3> SUFFICES ASSUME Len(msgs) = 0 PROVE FALSE
      OBVIOUS
    <3>1. msgs = <<>>
      OBVIOUS
    <3>2. got \o <<>> = got
      BY <2>3
    <3> QED BY <1>5, <2>1, <3>1, <3>2
  <2>6. Len(got') <= Len(sent) /\ got' = SubSeq(sent, 1, Len(got'))
    BY <1>1 DEF InOrder
  <2>7. Len(got') \in Len(got) + 1 .. Len(sent) /\ Len(got) < Len(sent)
    BY <2>4, <2>5, <2>6
  <2>8. Queue!Deliver
    BY <1>1, <1>3, <2>2, <2>6, <2>7, Zenon DEF Queue!Deliver
  <2> QED BY <2>8 DEF Queue!Next
<1> QED BY <1>4, <1>5

\* What the port does between is not seen, or is its end.
LEMMA OthersEnd ==
  ASSUME IInv, Delivery, ReadyOutput \/ FdAsync \/ FdReadyAsync \/ InputEnds \/ Drained \/ Close \/ PeerEnds
  PROVE  [Queue!Next]_(Queue!vars)
<1>1. Values
  BY DEF Delivery
<1>2. CASE \E why \in {"normal", "eof", "failed"} : End(why)
  BY <1>1, <1>2, EndStutters
<1>3. CASE UNCHANGED <<mode, port, terminating, peer, sent, got>>
  BY <1>1, <1>3, NoMessage
<1>4. CASE FdReadyAsync
  <2>1. CASE End("failed")
    BY <1>2, <2>1
  <2>2. CASE Ends(IF q' = <<>> /\ terminating # "no" THEN terminating ELSE port)
    <3>1. /\ UNCHANGED <<mode, terminating, peer, sent, got>>
          /\ port' = port \/ (terminating # "no" /\ port' = terminating)
      BY <2>2 DEF Ends, opts
    <3>2. port' = port \/ port' \in {"normal", "eof", "failed", "closing"}
      BY <1>1, <3>1 DEF Values
    <3>3. port' = port \/ (port' # "open" /\ port' \in {"normal", "eof", "failed", "closing"})
      BY <3>2
    <3> QED BY <1>1, <3>1, <3>3, NoMessage
  <2> QED BY <1>4, <2>1, <2>2 DEF FdReadyAsync
<1>5. CASE Close
  <2>1. CASE End("normal")
    BY <1>2, <2>1
  <2>2. CASE port' = "closing" /\ UNCHANGED <<opts, out, pipe, peer, ifd, sent, got>>
    BY <1>1, <2>2, NoMessage DEF opts
  <2> QED BY <1>5, <2>1, <2>2 DEF Close
<1>6. CASE InputEnds
  <2>1. CASE End("eof")
    BY <1>2, <2>1
  <2>2. CASE terminating' = "eof" /\ peer # "there" /\ UNCHANGED <<opts, port, out, pipe, peer, sent, got>>
    BY <1>1, <2>2, NoMessage DEF opts
  <2> QED BY <1>6, <2>1, <2>2 DEF InputEnds
<1>7. CASE PeerEnds
  BY <1>1, <1>7, NoMessage DEF PeerEnds, opts
<1>8. CASE ReadyOutput \/ FdAsync \/ Drained
  BY <1>2, <1>3, <1>8 DEF ReadyOutput, FdAsync, Drained, opts
<1> QED BY <1>4, <1>5, <1>6, <1>7, <1>8

\* The port implements a queue of messages: those taken are given whole, once
\* and in order, also when the peer ends in the middle of one.  (That they are
\* given at all is a matter of fairness: Implements.)
THEOREM PortIsQueue == Spec => Queue!Init /\ [][Queue!Next]_(Queue!vars)
<1>1. Init => Queue!Init
  <2> SUFFICES ASSUME Init PROVE Queue!Init
    OBVIOUS
  <2>1. sent = <<>> /\ got = <<>> /\ port = "open" /\ terminating = "no"
    BY DEF Init
  <2>2. Line \in {"answers", "ending"}
    BY <2>1 DEF Line
  <2> QED BY <2>1, <2>2 DEF Queue!Init
<1>2. IInv /\ Delivery /\ Delivery' /\ [Next]_vars => [Queue!Next]_(Queue!vars)
  <2> SUFFICES ASSUME IInv, Delivery, Delivery', [Next]_vars PROVE [Queue!Next]_(Queue!vars)
    OBVIOUS
  <2>1. Values
    BY DEF Delivery
  <2>2. CASE UNCHANGED vars
    BY <2>1, <2>2, NoMessage DEF vars, opts
  <2>3. CASE \E m \in Message : Output(m)
    BY <2>1, <2>3, OutputSends
  <2>4. CASE ReadyInput
    BY <2>4, InputDelivers
  <2>5. CASE ReadyOutput \/ FdAsync \/ FdReadyAsync \/ InputEnds \/ Drained \/ Close \/ PeerEnds
    BY <2>5, OthersEnd
  <2> QED BY <2>2, <2>3, <2>4, <2>5 DEF Next, Poll
<1> QED BY <1>1, <1>2, DeliveryInvariant, PTL DEF Spec
=============================================================================
