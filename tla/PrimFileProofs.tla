---------------------------- MODULE PrimFileProofs ----------------------------
(***************************************************************************)
(* Proofs about PrimFile for any executable, program, number of processes  *)
(* and size of the files.                                                  *)
(***************************************************************************)
EXTENDS PrimFile, FiniteSetTheorems, SequenceTheorems, TLAPS

-----------------------------------------------------------------------------
(* Induction and recursion.                                                *)

\* A set of natural numbers has a least one.  The theorems of the library
\* about induction take a predicate; one about sets is enough for it.
LEMMA LeastNat ==
  ASSUME NEW T \in SUBSET Nat, T # {}
  PROVE  \E x \in T : \A y \in T : x <= y
<1> DEFINE U == {0 .. k : k \in T}
           R == StrictSubsetOrdering(Nat)
           S == FiniteSubsetsOf(Nat)
<1>1. IsWellFoundedOn(R, S)
  BY FS_StrictSubsetOrderingWellFounded
<1>2. U \subseteq S
  <2> SUFFICES ASSUME NEW k \in T PROVE 0 .. k \in S
    OBVIOUS
  <2>1. IsFiniteSet(0 .. k)
    BY FS_Interval
  <2> QED BY <2>1 DEF FiniteSubsetsOf
<1>3. U # {}
  OBVIOUS
<1> HIDE DEF U, R, S
<1>4. PICK X \in U : \A Y \in U : ~ (<<Y, X>> \in R)
  BY <1>1, <1>2, <1>3, WFMin
<1>5. PICK x \in T : X = 0 .. x
  BY <1>4 DEF U
<1>6. ASSUME NEW y \in T, y < x PROVE FALSE
  <2>1. 0 .. y \in U
    BY DEF U
  <2>2. /\ 0 .. y \subseteq 0 .. x /\ 0 .. y # 0 .. x
        /\ 0 .. y \in SUBSET Nat /\ 0 .. x \in SUBSET Nat
    <3>1. x \in 0 .. x /\ x \notin 0 .. y /\ x \in Nat /\ y \in Nat
      BY <1>6
    <3> QED BY <1>6, <3>1
  <2>3. <<0 .. y, 0 .. x>> \in R
    BY <2>2 DEF R, StrictSubsetOrdering
  <2> QED BY <1>4, <1>5, <2>1, <2>3
<1>7. ASSUME NEW y \in T PROVE x <= y
  BY <1>6
<1> QED BY <1>5, <1>7

\* A set with 0 and with the successor of each of its numbers has them all.
LEMMA NatInduct ==
  ASSUME NEW P, P \subseteq Nat, 0 \in P, \A n \in P : n + 1 \in P
  PROVE  P = Nat
<1> DEFINE T == Nat \ P
<1>1. T = {}
  <2> SUFFICES ASSUME T # {} PROVE FALSE
    OBVIOUS
  <2>1. PICK x \in T : \A y \in T : x <= y
    BY LeastNat
  <2>2. x - 1 \in P
    BY <2>1
  <2> QED BY <2>2
<1> QED BY <1>1

\* g is what is computed from c in n steps, the i-th by F[i].
Steps(n, S) == [1 .. n -> [S -> S]]
Computes(g, S, c, n, F) ==
  g \in [0 .. n -> S] /\ g[0] = c /\ \A i \in 1 .. n : g[i] = F[i][g[i - 1]]

\* Functions defined by recursion on 0 .. n exist.
LEMMA RecursionExists ==
  ASSUME NEW S, NEW c \in S, NEW n \in Nat, NEW F \in Steps(n, S)
  PROVE  \E g : Computes(g, S, c, n, F)
<1> DEFINE P == {k \in Nat : k <= n => \E g : Computes(g, S, c, k, F)}
<1>1. 0 \in P
  <2>1. Computes([i \in 0 .. 0 |-> c], S, c, 0, F)
    BY DEF Computes
  <2> QED BY <2>1
<1>2. ASSUME NEW k \in P PROVE k + 1 \in P
  <2> SUFFICES ASSUME k + 1 <= n PROVE \E g : Computes(g, S, c, k + 1, F)
    OBVIOUS
  <2>1. PICK g : Computes(g, S, c, k, F)
    OBVIOUS
  <2> DEFINE h == [i \in 0 .. k + 1 |-> IF i = k + 1 THEN F[k + 1][g[k]] ELSE g[i]]
  <2>2. k + 1 \in 1 .. n /\ g \in [0 .. k -> S] /\ F[k + 1] \in [S -> S]
    BY <2>1 DEF Computes, Steps
  <2>3. h \in [0 .. k + 1 -> S]
    BY <2>2
  <2>4. \A i \in 0 .. k : h[i] = g[i]
    OBVIOUS
  <2>5. h[k + 1] = F[k + 1][h[k]]
    <3>1. h[k] = g[k] /\ h[k + 1] = F[k + 1][g[k]]
      BY <2>4
    <3> HIDE DEF h
    <3> QED BY <3>1
  <2> HIDE DEF h
  <2>6. ASSUME NEW i \in 1 .. k + 1 PROVE h[i] = F[i][h[i - 1]]
    <3>1. CASE i = k + 1
      BY <2>5, <3>1
    <3>2. CASE i \in 1 .. k
      BY <2>1, <2>4, <3>2 DEF Computes
    <3> QED BY <3>1, <3>2
  <2>7. h[0] = c
    BY <2>1, <2>4 DEF Computes
  <2> QED BY <2>3, <2>6, <2>7 DEF Computes
<1> HIDE DEF P
<1>3. P = Nat
  BY <1>1, <1>2, NatInduct DEF P
<1> QED BY <1>3 DEF P


-----------------------------------------------------------------------------
(* Numbers and lengths.                                                    *)

LEMMA LeastIs ==
  ASSUME NEW S \in SUBSET Nat, S # {}
  PROVE  Least(S) \in S /\ \A y \in S : Least(S) <= y
<1>1. \E x \in S : \A y \in S : x <= y
  BY LeastNat
<1> QED BY <1>1 DEF Least

LEMMA SmallerIs ==
  ASSUME NEW a \in Int, NEW b \in Int
  PROVE  /\ Smaller(a, b) \in {a, b} /\ Smaller(a, b) <= a /\ Smaller(a, b) <= b
         /\ a \in Nat /\ b \in Nat => Smaller(a, b) \in Nat
  BY DEF Smaller

\* The sums Upto computes.
LEMMA UptoSteps ==
  ASSUME NEW lens \in Seq(Nat)
  PROVE  /\ Upto(lens) \in [0 .. Len(lens) -> Nat]
         /\ Upto(lens)[0] = 0
         /\ \A i \in 1 .. Len(lens) : Upto(lens)[i] = Upto(lens)[i - 1] + lens[i]
<1> DEFINE n == Len(lens)
           Is(f) == f = [i \in 0 .. n |-> IF i = 0 THEN 0 ELSE f[i - 1] + lens[i]]
           F == [i \in 1 .. n |-> [x \in Nat |-> x + lens[i]]]
<1>1. n \in Nat /\ \A i \in 1 .. n : lens[i] \in Nat
  OBVIOUS
<1>2. F \in Steps(n, Nat)
  BY <1>1 DEF Steps
<1>3. Upto(lens) = CHOOSE f : Is(f)
  BY DEF Upto
<1> HIDE DEF F, n
<1>4. PICK g : Computes(g, Nat, 0, n, F)
  BY <1>1, <1>2, RecursionExists
<1>5. g \in [0 .. n -> Nat] /\ g[0] = 0 /\ \A i \in 1 .. n : g[i] = F[i][g[i - 1]]
  BY <1>4 DEF Computes
<1>6. ASSUME NEW i \in 1 .. n PROVE g[i] = g[i - 1] + lens[i]
  <2>1. F[i] = [x \in Nat |-> x + lens[i]]
    BY DEF F
  <2>2. g[i - 1] \in Nat
    BY <1>1, <1>5
  <2> QED BY <1>5, <2>1, <2>2
<1>7. Is(g)
  <2>1. \A i \in 0 .. n : g[i] = IF i = 0 THEN 0 ELSE g[i - 1] + lens[i]
    BY <1>1, <1>5, <1>6
  <2> QED BY <1>5, <2>1
<1>8. Is(Upto(lens))
  <2> HIDE DEF Is
  <2> QED BY <1>3, <1>7
<1> DEFINE u == Upto(lens)
<1> HIDE DEF u
<1>9. u = [i \in 0 .. n |-> IF i = 0 THEN 0 ELSE u[i - 1] + lens[i]]
  BY <1>8 DEF u
<1>10. u[0] = 0 /\ \A i \in 1 .. n : u[i] = u[i - 1] + lens[i]
  BY <1>1, <1>9
<1> DEFINE P == {k \in Nat : k <= n => u[k] \in Nat}
<1>11. 0 \in P
  BY <1>10
<1>12. ASSUME NEW k \in P PROVE k + 1 \in P
  <2> SUFFICES ASSUME k + 1 <= n PROVE u[k + 1] \in Nat
    OBVIOUS
  <2>1. k + 1 \in 1 .. n /\ (k + 1) - 1 = k /\ u[k] \in Nat
    BY <1>1
  <2>2. lens[k + 1] \in Nat
    BY <1>1, <2>1
  <2> QED BY <1>10, <2>1, <2>2
<1> HIDE DEF P
<1>13. P = Nat
  BY <1>11, <1>12, NatInduct DEF P
<1>14. \A i \in 0 .. n : u[i] \in Nat
  BY <1>1, <1>13 DEF P
<1>15. u \in [0 .. n -> Nat]
  BY <1>9, <1>14
<1> QED BY <1>10, <1>15 DEF u, n

\* They grow.
LEMMA UptoGrows ==
  ASSUME NEW lens \in Seq(Nat), NEW i \in 0 .. Len(lens), NEW j \in 0 .. Len(lens), i <= j
  PROVE  Upto(lens)[i] <= Upto(lens)[j]
<1> DEFINE u == Upto(lens)
           P == {k \in Nat : i + k <= Len(lens) => u[i] <= u[i + k]}
<1>0. u \in [0 .. Len(lens) -> Nat] /\ Len(lens) \in Nat
  BY UptoSteps
<1>1. \A k \in 1 .. Len(lens) : u[k] = u[k - 1] + lens[k] /\ lens[k] \in Nat
  BY UptoSteps
<1> HIDE DEF u
<1>2. 0 \in P
  <2>1. u[i] \in Nat /\ i \in Int
    <3> HIDE DEF P
    <3> QED BY <1>0
  <2> QED BY <2>1
<1>3. ASSUME NEW k \in P PROVE k + 1 \in P
  <2> SUFFICES ASSUME i + (k + 1) <= Len(lens) PROVE u[i] <= u[i + (k + 1)]
    OBVIOUS
  <2>1. i + k + 1 \in 1 .. Len(lens) /\ (i + k + 1) - 1 = i + k /\ i + k \in 0 .. Len(lens)
    BY <1>0
  <2>2. u[i + k + 1] = u[i + k] + lens[i + k + 1] /\ u[i] <= u[i + k]
    BY <1>0, <1>1, <2>1
  <2>3. u[i] \in Nat /\ u[i + k] \in Nat /\ lens[i + k + 1] \in Nat
    BY <1>0, <1>1, <2>1
  <2>4. i + k + 1 = i + (k + 1)
    OBVIOUS
  <2> HIDE DEF P
  <2> QED BY <2>2, <2>3, <2>4
<1> HIDE DEF P
<1>4. P = Nat
  BY <1>2, <1>3, NatInduct DEF P
<1>5. j - i \in P /\ i + (j - i) = j
  BY <1>4
<1> QED BY <1>5 DEF P, u

-----------------------------------------------------------------------------
(* Vectors of buffers.                                                     *)

Element == [base : Nat, len : Nat]

\* The vector points to the cells from n + 1 to want, one after the other.
Chain(iov, n, want) ==
  /\ iov \in Seq(Element) /\ n \in Nat /\ want \in Nat
  /\ iov = <<>> => n = want
  /\ iov # <<>> => /\ iov[1].base = n + 1
                   /\ iov[Len(iov)].base + iov[Len(iov)].len = want + 1
                   /\ \A i \in 1 .. Len(iov) - 1 : iov[i + 1].base = iov[i].base + iov[i].len

\* No system call is given empty buffers only, if one is not.
Dense(iov) ==
  \A i, j \in DOMAIN iov :
    i <= j /\ iov[j].len > 0 => \E k \in i .. j : k < i + IovMax /\ iov[k].len > 0

LEMMA ElementsAre ==
  ASSUME NEW iov \in Seq(Element), NEW i \in 1 .. Len(iov)
  PROVE  iov[i] \in Element /\ iov[i].base \in Nat /\ iov[i].len \in Nat
<1>1. iov[i] \in Element
  OBVIOUS
<1> QED BY <1>1 DEF Element

\* What stands before an element is what its base is away from the first.
LEMMA ChainUpto ==
  ASSUME NEW iov, NEW n, NEW want, Chain(iov, n, want)
  PROVE  /\ Lens(iov) \in Seq(Nat) /\ Len(Lens(iov)) = Len(iov)
         /\ \A i \in 1 .. Len(iov) : /\ iov[i].base = n + 1 + Upto(Lens(iov))[i - 1]
                                     /\ Upto(Lens(iov))[i] = Upto(Lens(iov))[i - 1] + iov[i].len
         /\ Upto(Lens(iov))[Len(iov)] = want - n
<1> DEFINE lens == Lens(iov)
           u == Upto(lens)
           N == Len(iov)
           P == {k \in Nat : k + 1 <= N => iov[k + 1].base = n + 1 + u[k]}
<1>1. iov \in Seq(Element) /\ n \in Nat /\ want \in Nat /\ N \in Nat
  BY DEF Chain
<1>2. \A i \in 1 .. N : iov[i] \in Element /\ iov[i].base \in Nat /\ iov[i].len \in Nat
  BY <1>1, ElementsAre
<1>3. lens \in Seq(Nat) /\ Len(lens) = N /\ \A i \in 1 .. N : lens[i] = iov[i].len
  BY <1>1, <1>2 DEF Lens
<1>4. u \in [0 .. N -> Nat] /\ u[0] = 0
  BY <1>3, UptoSteps
<1>5. \A i \in 1 .. N : u[i] = u[i - 1] + iov[i].len
  BY <1>3, UptoSteps
<1> HIDE DEF u, lens
<1>6. CASE iov = <<>>
  BY <1>1, <1>3, <1>4, <1>6 DEF Chain, u, lens
<1>7. CASE iov # <<>>
  <2>1. /\ iov[1].base = n + 1 /\ iov[N].base + iov[N].len = want + 1 /\ N >= 1
        /\ \A i \in 1 .. N - 1 : iov[i + 1].base = iov[i].base + iov[i].len
    BY <1>1, <1>7 DEF Chain
  <2> HIDE DEF N
  <2>2. 0 \in P
    BY <1>1, <1>4, <2>1
  <2>3. ASSUME NEW k \in P PROVE k + 1 \in P
    <3> SUFFICES ASSUME k + 1 + 1 <= N PROVE iov[k + 1 + 1].base = n + 1 + u[k + 1]
      OBVIOUS
    <3>1. k + 1 \in 1 .. N - 1 /\ k + 1 \in 1 .. N /\ (k + 1) - 1 = k /\ k \in 0 .. N
      BY <1>1
    <3>2. iov[k + 1].base = n + 1 + u[k]
      BY <1>1, <3>1
    <3>3. iov[k + 1 + 1].base = iov[k + 1].base + iov[k + 1].len
      BY <2>1, <3>1
    <3>4. u[k + 1] = u[k] + iov[k + 1].len
      BY <1>5, <3>1
    <3>5. u[k] \in Nat /\ iov[k + 1].len \in Nat
      BY <1>2, <1>4, <3>1
    <3> HIDE DEF P
    <3> QED BY <1>1, <3>2, <3>3, <3>4, <3>5
  <2> HIDE DEF P
  <2>4. P = Nat
    BY <2>2, <2>3, NatInduct DEF P
  <2>5. ASSUME NEW i \in 1 .. N PROVE iov[i].base = n + 1 + u[i - 1]
    <3>1. i - 1 \in P /\ (i - 1) + 1 = i
      BY <1>1, <2>4
    <3> QED BY <1>1, <3>1 DEF P
  <2>6. u[N] = want - n
    <3>1. N \in 1 .. N /\ N - 1 \in 0 .. N
      BY <1>1, <2>1
    <3>2. iov[N].base = n + 1 + u[N - 1] /\ u[N] = u[N - 1] + iov[N].len
      BY <1>5, <2>5, <3>1
    <3>3. u[N - 1] \in Nat /\ iov[N].len \in Nat /\ iov[N].base \in Nat
      BY <1>2, <1>4, <3>1
    <3>4. iov[N].base + iov[N].len = want + 1
      BY <2>1
    <3>5. u[N] \in Nat
      BY <1>4, <3>1
    <3> DEFINE a == iov[N].base
               b == iov[N].len
               x == u[N - 1]
               y == u[N]
    <3>6. a \in Nat /\ b \in Nat /\ x \in Nat /\ y \in Nat /\ a = n + 1 + x /\ y = x + b /\ a + b = want + 1
      BY <3>2, <3>3, <3>4, <3>5
    <3> HIDE DEF a, b, x, y
    <3>7. y = want - n
      BY <1>1, <3>6
    <3> QED BY <3>7 DEF y
  <2> QED BY <1>3, <1>5, <2>5, <2>6 DEF u, lens, N
<1> QED BY <1>6, <1>7

\* The cells of a chain, in their order.
LEMMA CellsOfChain ==
  ASSUME NEW iov, NEW n, NEW want, Chain(iov, n, want)
  PROVE  Cells(iov) = [j \in 1 .. want - n |-> n + j]
<1> DEFINE u == Upto(Lens(iov))
           N == Len(iov)
           element(j) == CHOOSE i \in DOMAIN iov : j \in u[i - 1] + 1 .. u[i]
<1>1. iov \in Seq(Element) /\ n \in Nat /\ want \in Nat /\ N \in Nat /\ DOMAIN iov = 1 .. N
  BY DEF Chain
<1>2. u \in [0 .. N -> Nat] /\ u[0] = 0
  BY ChainUpto, UptoSteps
<1>3. \A i \in 1 .. N : iov[i].base = n + 1 + u[i - 1]
  BY ChainUpto
<1>4. u[N] = want - n
  BY ChainUpto
<1> HIDE DEF u
<1>5. ASSUME NEW j \in 1 .. want - n
      PROVE  iov[element(j)].base + (j - 1 - u[element(j) - 1]) = n + j
  <2> DEFINE T == {i \in 0 .. N : j <= u[i]}
             e == Least(T)
  <2>1. T \in SUBSET Nat /\ N \in T
    BY <1>1, <1>4
  <2>2. e \in T /\ \A y \in T : e <= y
    <3> HIDE DEF T
    <3> QED BY <2>1, LeastIs
  <2>3. e \in 1 .. N /\ e - 1 \in 0 .. N
    BY <1>1, <1>2, <2>2
  <2>4. e - 1 \notin T
    BY <2>2, <2>3
  <2>5. u[e - 1] \in Nat /\ u[e] \in Nat
    BY <1>2, <2>3
  <2> HIDE DEF e
  <2>6. j \in u[e - 1] + 1 .. u[e]
    BY <2>2, <2>3, <2>4, <2>5
  <2>7. element(j) \in DOMAIN iov
    BY <1>1, <2>3, <2>6
  <2> DEFINE i == element(j)
  <2> HIDE DEF i
  <2>8. i \in 1 .. N
    BY <1>1, <2>7 DEF i
  <2>9. u[i - 1] \in Nat /\ iov[i].base = n + 1 + u[i - 1]
    BY <1>2, <1>3, <2>8, SMTT(30)
  <2>10. iov[i].base + (j - 1 - u[i - 1]) = n + j
    BY <1>1, <2>9
  <2> QED BY <2>10 DEF i
<1>6. Cells(iov) = [j \in 1 .. u[N] |-> iov[element(j)].base + (j - 1 - u[element(j) - 1])]
  BY DEF Cells, u
<1> HIDE DEF element
<1> QED BY <1>4, <1>5, <1>6

\* The first elements of a chain are one.
LEMMA ChainBegin ==
  ASSUME NEW iov, NEW n, NEW want, Chain(iov, n, want), NEW k \in 1 .. Len(iov)
  PROVE  /\ SubSeq(iov, 1, k) \in Seq(Element) /\ Len(SubSeq(iov, 1, k)) = k
         /\ Chain(SubSeq(iov, 1, k), n, iov[k].base + iov[k].len - 1)
         /\ iov[k].base + iov[k].len - 1 \in n .. want
<1> DEFINE s == SubSeq(iov, 1, k)
           u == Upto(Lens(iov))
           N == Len(iov)
<1>1. iov \in Seq(Element) /\ n \in Nat /\ want \in Nat /\ N \in Nat /\ k \in 1 .. N
  BY DEF Chain
<1>2. \A i \in 1 .. N : iov[i] \in Element /\ iov[i].base \in Nat /\ iov[i].len \in Nat
  BY <1>1, ElementsAre
<1>3. s \in Seq(Element) /\ Len(s) = k /\ \A i \in 1 .. k : s[i] = iov[i]
  BY <1>1
<1>4. u \in [0 .. N -> Nat] /\ u[k] <= u[N] /\ u[N] = want - n
  BY <1>1, ChainUpto, UptoSteps, UptoGrows
<1>5. iov[k].base = n + 1 + u[k - 1] /\ u[k] = u[k - 1] + iov[k].len
  BY <1>1, ChainUpto
<1> HIDE DEF u
<1>6. u[k - 1] \in Nat /\ u[k] \in Nat
  BY <1>1, <1>4
<1>7. iov[k].base + iov[k].len - 1 = n + u[k]
  <2>1. iov[k].base \in Nat /\ iov[k].len \in Nat /\ n \in Nat
    BY <1>1, <1>2
  <2> DEFINE a == iov[k].base
             b == iov[k].len
             x == u[k - 1]
             y == u[k]
  <2>2. a \in Nat /\ b \in Nat /\ x \in Nat /\ y \in Nat /\ a = n + 1 + x /\ y = x + b
    BY <1>5, <1>6, <2>1
  <2> HIDE DEF a, b, x, y
  <2>3. a + b - 1 = n + y
    BY <2>1, <2>2
  <2> QED BY <2>3 DEF a, b, y
<1>8. iov[k].base + iov[k].len - 1 \in n .. want
  BY <1>1, <1>4, <1>6, <1>7
<1>9. /\ iov[1].base = n + 1
      /\ \A i \in 1 .. N - 1 : iov[i + 1].base = iov[i].base + iov[i].len
  BY <1>1, SMTT(30) DEF Chain
<1> HIDE DEF s
<1>10. Chain(s, n, iov[k].base + iov[k].len - 1)
  <2>1. s[1].base = n + 1 /\ s # <<>>
    BY <1>1, <1>3, <1>9
  <2>2. ASSUME NEW i \in 1 .. k - 1 PROVE s[i + 1].base = s[i].base + s[i].len
    <3>1. i \in 1 .. N - 1 /\ i \in 1 .. k /\ i + 1 \in 1 .. k
      BY <1>1
    <3> QED BY <1>3, <1>9, <3>1
  <2>3. s[k].base + s[k].len = (iov[k].base + iov[k].len - 1) + 1
    <3> DEFINE x == iov[k].base
               y == iov[k].len
    <3>1. s[k] = iov[k] /\ x \in Nat /\ y \in Nat
      BY <1>2, <1>3, ElementsAre
    <3>2. s[k].base = x /\ s[k].len = y
      BY <3>1
    <3> HIDE DEF x, y
    <3>3. x + y = (x + y - 1) + 1
      BY <3>1
    <3> QED BY <3>2, <3>3 DEF x, y
  <2>4. iov[k].base + iov[k].len - 1 \in Nat
    BY <1>1, <1>8
  <2> HIDE DEF N
  <2> QED BY <1>1, <1>3, <2>1, <2>2, <2>3, <2>4 DEF Chain
<1> QED BY <1>3, <1>8, <1>10 DEF s

\* The elements a shift takes whole are those before its last cell.
LEMMA HeadIs ==
  ASSUME NEW iov, NEW n, NEW want, Chain(iov, n, want), NEW shift \in 1 .. want - n
  PROVE  LET h == HeadOf(iov, shift)
             u == Upto(Lens(iov))
         IN /\ h \in 0 .. Len(iov) /\ u[h] \in Nat /\ u[h] <= shift
            /\ u[h] = shift \/ (h < Len(iov) /\ u[h + 1] \in Nat /\ u[h + 1] > shift)
<1> DEFINE u == Upto(Lens(iov))
           N == Len(iov)
           T == {i \in 0 .. N : u[i] = shift \/ (i < N /\ u[i + 1] > shift)}
           h == Least(T)
           S == {i \in 0 .. N : shift <= u[i]}
           e == Least(S)
<1>1. n \in Nat /\ want \in Nat /\ N \in Nat /\ shift \in Nat /\ shift >= 1
  BY DEF Chain
<1>2. u \in [0 .. N -> Nat] /\ u[0] = 0 /\ u[N] = want - n
  BY ChainUpto, UptoSteps
<1>3. HeadOf(iov, shift) = h
  BY DEF HeadOf
<1> HIDE DEF u, N
<1>4. T # {}
  <2>1. S \in SUBSET Nat /\ N \in S
    BY <1>1, <1>2
  <2>2. e \in S /\ \A y \in S : e <= y
    <3> HIDE DEF S
    <3> QED BY <2>1, LeastIs
  <2> HIDE DEF e
  <2>3. e \in 1 .. N /\ e - 1 \in 0 .. N /\ shift <= u[e]
    BY <1>1, <1>2, <2>2
  <2>4. u[e] \in Nat
    BY <1>2, <2>3
  <2>5. CASE u[e] = shift
    BY <2>3, <2>5
  <2>6. CASE u[e] > shift
    <3>1. e - 1 < N /\ (e - 1) + 1 = e
      BY <1>1, <2>3
    <3> QED BY <2>3, <2>6, <3>1
  <2> QED BY <1>1, <2>3, <2>4, <2>5, <2>6
<1>5. h \in T /\ \A y \in T : h <= y
  <2>1. T \in SUBSET Nat
    BY <1>1
  <2> HIDE DEF T
  <2> QED BY <1>4, <2>1, LeastIs
<1> HIDE DEF h
<1>6. h \in 0 .. N /\ u[h] \in Nat
  BY <1>2, <1>5
<1>7. u[h] <= shift
  <2> SUFFICES ASSUME u[h] > shift PROVE FALSE
    BY <1>1, <1>6
  <2>1. h \in 1 .. N /\ h - 1 \in 0 .. N /\ h - 1 < N /\ (h - 1) + 1 = h
    BY <1>1, <1>2, <1>6
  <2>2. h - 1 \in T
    BY <2>1
  <2> HIDE DEF T
  <2> QED BY <1>5, <2>1, <2>2
<1>8. u[h] = shift \/ (h < N /\ u[h + 1] > shift)
  BY <1>5
<1>9. h < N => u[h + 1] \in Nat
  <2> SUFFICES ASSUME h < N PROVE u[h + 1] \in Nat
    OBVIOUS
  <2>1. h + 1 \in 0 .. N
    BY <1>1, <1>6
  <2> QED BY <1>2, <2>1
<1> QED BY <1>3, <1>6, <1>7, <1>8, <1>9 DEF u, N

\* What remains of a chain behind its first elements, of which the first may
\* have become shorter, is a chain, and as dense as it was.
LEMMA ChainEnd ==
  ASSUME NEW iov, NEW n, NEW want, Chain(iov, n, want), NEW h \in 0 .. Len(iov) - 1,
         NEW m \in Nat, m <= want,
         NEW r \in Seq(Element), Len(r) = Len(iov) - h,
         \A i \in 2 .. Len(r) : r[i] = iov[h + i],
         r[1].base = m + 1, r[1].base + r[1].len = iov[h + 1].base + iov[h + 1].len,
         r[1].len > 0 <=> iov[h + 1].len > 0
  PROVE  Chain(r, m, want) /\ (Dense(iov) => Dense(r))
<1> DEFINE N == Len(iov)
           k == Len(r)
<1>1. /\ iov \in Seq(Element) /\ want \in Nat /\ N \in Nat /\ N >= 1 /\ k \in Nat
      /\ iov # <<>> /\ r # <<>> /\ h \in Nat /\ N = h + k /\ k >= 1
  BY DEF Chain
<1>2. /\ iov[N].base + iov[N].len = want + 1
      /\ \A i \in 1 .. N - 1 : iov[i + 1].base = iov[i].base + iov[i].len
  BY <1>1 DEF Chain
<1> HIDE DEF N, k
<1>3. \A i \in 2 .. k : r[i] = iov[h + i]
  BY DEF k
<1>4. r[k].base + r[k].len = want + 1
  <2>1. CASE k = 1
    BY <1>1, <1>2, <2>1
  <2>2. CASE k > 1
    <3>1. k \in 2 .. k
      BY <1>1, <2>2
    <3>2. r[k] = iov[N]
      BY <1>1, <1>3, <3>1
    <3> QED BY <1>2, <3>2
  <2> QED BY <1>1, <2>1, <2>2
<1>5. ASSUME NEW i \in 1 .. k - 1 PROVE r[i + 1].base = r[i].base + r[i].len
  <2>1. i + 1 \in 2 .. k /\ h + i \in 1 .. N - 1 /\ h + (i + 1) = (h + i) + 1
    BY <1>1
  <2>2. r[i + 1] = iov[(h + i) + 1]
    BY <1>3, <2>1
  <2>3. r[i + 1].base = iov[h + i].base + iov[h + i].len
    BY <1>2, <2>1, <2>2
  <2>4. CASE i = 1
    BY <2>3, <2>4
  <2>5. CASE i > 1
    <3>1. i \in 2 .. k
      BY <1>1, <2>5
    <3> QED BY <1>3, <2>3, <3>1
  <2> QED BY <2>4, <2>5
<1>6. Chain(r, m, want)
  BY <1>1, <1>4, <1>5 DEF Chain, k
<1>7. \A i \in 1 .. k : r[i].len > 0 <=> iov[h + i].len > 0
  <2> SUFFICES ASSUME NEW i \in 1 .. k PROVE r[i].len > 0 <=> iov[h + i].len > 0
    OBVIOUS
  <2>1. CASE i = 1
    BY <2>1
  <2>2. CASE i > 1
    <3>1. i \in 2 .. k
      BY <1>1, <2>2
    <3> QED BY <1>3, <3>1
  <2> QED BY <2>1, <2>2
<1>8. ASSUME Dense(iov) PROVE Dense(r)
  <2> SUFFICES ASSUME NEW i \in 1 .. k, NEW j \in 1 .. k, i <= j, r[j].len > 0
               PROVE  \E x \in i .. j : x < i + IovMax /\ r[x].len > 0
    <3>1. DOMAIN r = 1 .. k
      BY DEF k
    <3> QED BY <3>1 DEF Dense
  <2>1. h + i \in 1 .. N /\ h + j \in 1 .. N /\ h + i <= h + j /\ iov[h + j].len > 0
    BY <1>1, <1>7
  <2>2. DOMAIN iov = 1 .. N
    BY <1>1 DEF N
  <2>3. PICK y \in h + i .. h + j : y < (h + i) + IovMax /\ iov[y].len > 0
    BY <1>8, <2>1, <2>2 DEF Dense
  <2> DEFINE x == y - h
  <2>4. IovMax \in Nat
    BY RuntimeAssumption
  <2>5. x \in i .. j /\ x \in 1 .. k /\ h + x = y /\ x < i + IovMax
    BY <1>1, <2>3, <2>4
  <2>6. r[x].len > 0
    BY <1>7, <2>3, <2>5
  <2> QED BY <2>5, <2>6
<1> QED BY <1>6, <1>8

\* shift_iov leaves the cells behind the shift.
LEMMA ShiftOfChain ==
  ASSUME NEW iov, NEW n, NEW want, Chain(iov, n, want), NEW shift \in 1 .. want - n
  PROVE  /\ Chain(ShiftIov(iov, shift), n + shift, want)
         /\ Dense(iov) => Dense(ShiftIov(iov, shift))
<1> DEFINE u == Upto(Lens(iov))
           N == Len(iov)
           h == HeadOf(iov, shift)
           cut == shift - u[h]
           r == ShiftIov(iov, shift)
           m == n + shift
<1>1. iov \in Seq(Element) /\ n \in Nat /\ want \in Nat /\ N \in Nat /\ shift \in Nat /\ shift >= 1
  BY DEF Chain
<1>2. /\ h \in 0 .. N /\ u[h] \in Nat /\ u[h] <= shift
      /\ u[h] = shift \/ (h < N /\ u[h + 1] \in Nat /\ u[h + 1] > shift)
  BY HeadIs
<1>3. \A i \in 1 .. N : iov[i].base = n + 1 + u[i - 1] /\ u[i] = u[i - 1] + iov[i].len
  BY ChainUpto
<1>4. u[N] = want - n
  BY ChainUpto
<1> DEFINE split == [base |-> iov[h + 1].base + cut, len |-> iov[h + 1].len - cut]
<1>5. r = IF cut = 0 THEN SubSeq(iov, h + 1, N) ELSE <<split>> \o SubSeq(iov, h + 2, N)
  BY DEF ShiftIov
<1> HIDE DEF u, h, r
<1>6. cut \in Nat /\ m \in Nat /\ m <= want
  BY <1>1, <1>2
<1>7. CASE h = N
  <2>1. cut = 0 /\ r = <<>>
    BY <1>1, <1>2, <1>5, <1>7
  <2>2. m = want
    BY <1>1, <1>2, <1>4, <1>7
  <2>3. r \in Seq(Element) /\ DOMAIN r = {}
    BY <2>1
  <2> QED BY <1>6, <2>1, <2>2, <2>3 DEF Chain, Dense, r
<1>8. CASE h < N
  <2> DEFINE b == iov[h + 1].base
             l == iov[h + 1].len
  <2>1. h + 1 \in 1 .. N /\ (h + 1) - 1 = h /\ h \in 0 .. N - 1
    BY <1>1, <1>2, <1>8
  <2>2. b = n + 1 + u[h] /\ u[h + 1] = u[h] + l
    BY <1>3, <2>1
  <2>3. b \in Nat /\ l \in Nat
    BY <1>1, <2>1, ElementsAre
  <2>4. cut > 0 => l - cut > 0
    <3> DEFINE x == u[h]
               y == u[h + 1]
    <3>1. cut = shift - x /\ y = x + l /\ x \in Nat /\ (x = shift \/ (y \in Nat /\ y > shift))
      BY <1>2, <2>2
    <3> HIDE DEF x, y, cut, l
    <3> QED BY <1>1, <1>6, <2>3, <3>1
  <2>5. b + cut = m + 1
    <3> DEFINE x == u[h]
    <3>1. b = n + 1 + x /\ x \in Nat /\ cut = shift - x
      BY <1>2, <2>2
    <3> HIDE DEF x, cut, b
    <3> QED BY <1>1, <3>1
  <2> DEFINE L == N - h
  <2>6. /\ r \in Seq(Element) /\ Len(r) = L /\ \A i \in 2 .. L : r[i] = iov[h + i]
        /\ r[1].base = b + cut /\ r[1].len = l - cut
    <3>1. CASE cut = 0
      <4>1. r = SubSeq(iov, h + 1, N)
        BY <1>5, <3>1
      <4>2. r \in Seq(Element) /\ Len(r) = L /\ \A i \in 1 .. L : r[i] = iov[h + i]
        <5> HIDE DEF cut
        <5> QED BY <1>1, <2>1, <4>1
      <4>3. r[1] = iov[h + 1]
        BY <1>1, <2>1, <4>2
      <4> HIDE DEF cut
      <4> QED BY <2>1, <2>3, <3>1, <4>2, <4>3, SMTT(30)
    <3>2. CASE cut # 0
      <4> DEFINE t == SubSeq(iov, h + 2, N)
      <4>1. r = <<split>> \o t
        BY <1>5, <3>2
      <4>2. t \in Seq(Element) /\ Len(t) = L - 1 /\ \A i \in 1 .. L - 1 : t[i] = iov[h + 1 + i]
        <5> HIDE DEF cut
        <5> QED BY <1>1, <2>1
      <4>3. split \in Element /\ split.base = b + cut /\ split.len = l - cut
        <5>1. b + cut \in Nat /\ l - cut \in Nat
          BY <1>6, <2>3, <2>4, <3>2
        <5> HIDE DEF cut, b, l
        <5> QED BY <5>1 DEF Element, b, l
      <4> HIDE DEF split, t
      <4>4. r \in Seq(Element) /\ Len(r) = 1 + Len(t) /\ r[1] = split
            /\ \A i \in 2 .. 1 + Len(t) : r[i] = t[i - 1]
        <5> HIDE DEF cut, r
        <5> QED BY <4>1, <4>2, <4>3
      <4>5. ASSUME NEW i \in 2 .. L PROVE r[i] = iov[h + i]
        <5>1. i - 1 \in 1 .. L - 1 /\ h + 1 + (i - 1) = h + i /\ i \in 2 .. 1 + Len(t)
          BY <1>1, <2>1, <4>2
        <5> QED BY <4>2, <4>4, <5>1
      <4>6. Len(r) = L
        BY <1>1, <2>1, <4>2, <4>4
      <4> QED BY <4>3, <4>4, <4>5, <4>6
    <3> QED BY <3>1, <3>2
  <2> HIDE DEF cut, b, l, m
  <2>7. r[1].base = m + 1 /\ r[1].base + r[1].len = b + l /\ (r[1].len > 0 <=> l > 0)
    BY <1>6, <2>3, <2>4, <2>5, <2>6
  <2>8. L = Len(iov) - h
    OBVIOUS
  <2> HIDE DEF L
  <2> QED BY <1>6, <2>1, <2>6, <2>7, <2>8, ChainEnd DEF b, l, m, r
<1> QED BY <1>1, <1>2, <1>7, <1>8

\* Empty buffers add nothing.
LEMMA UptoStays ==
  ASSUME NEW lens \in Seq(Nat), NEW i \in 0 .. Len(lens), NEW j \in 0 .. Len(lens), i <= j,
         \A k \in i + 1 .. j : lens[k] = 0
  PROVE  Upto(lens)[i] = Upto(lens)[j]
<1> DEFINE u == Upto(lens)
           P == {k \in Nat : i + k <= j => u[i] = u[i + k]}
<1>0. u \in [0 .. Len(lens) -> Nat] /\ Len(lens) \in Nat
  BY UptoSteps
<1>1. \A k \in 1 .. Len(lens) : u[k] = u[k - 1] + lens[k]
  BY UptoSteps
<1> HIDE DEF u
<1>2. 0 \in P
  <2>1. i + 0 = i
    BY <1>0
  <2> QED BY <2>1
<1>3. ASSUME NEW k \in P PROVE k + 1 \in P
  <2> SUFFICES ASSUME i + (k + 1) <= j PROVE u[i] = u[i + (k + 1)]
    OBVIOUS
  <2>1. /\ i + k + 1 \in 1 .. Len(lens) /\ (i + k + 1) - 1 = i + k /\ i + k \in 0 .. Len(lens)
        /\ i + k + 1 \in i + 1 .. j /\ i + k <= j
    BY <1>0
  <2>2. u[i + k + 1] = u[i + k] + lens[i + k + 1] /\ u[i] = u[i + k] /\ lens[i + k + 1] = 0
    BY <1>1, <2>1
  <2>3. u[i + k] \in Nat
    BY <1>0, <2>1
  <2>4. i + k + 1 = i + (k + 1)
    OBVIOUS
  <2> HIDE DEF P
  <2> QED BY <2>2, <2>3, <2>4
<1> HIDE DEF P
<1>4. P = Nat
  BY <1>2, <1>3, NatInduct DEF P
<1>5. j - i \in P /\ i + (j - i) = j /\ j <= j
  BY <1>4
<1> QED BY <1>5 DEF P, u

LEMMA TotalIs ==
  ASSUME NEW lens \in Seq(Nat)
  PROVE  Total(lens) \in Nat
<1>1. Len(lens) \in 0 .. Len(lens)
  OBVIOUS
<1> QED BY <1>1, UptoSteps DEF Total

\* The loop over the buffers copies what there is, or fills them all.
LEMMA CopiedIs ==
  ASSUME NEW lens \in ReadIovs, NEW avail \in Nat
  PROVE  lens \in Seq(Nat) /\ Copied(lens, avail) = Smaller(Total(lens), avail)
<1> DEFINE N == Len(lens)
           stops == {i \in 1 .. N : lens[i] = 0}
           k == Least(stops)
<1>1. lens \in Seq(Nat) /\ N \in Nat /\ DOMAIN lens = 1 .. N
  BY IovAssumption
<1>2. \A i \in 1 .. N : lens[i] > 0 => \A j \in 1 .. i : lens[j] > 0
  BY <1>1, IovAssumption
<1>3. \A i \in 1 .. N : lens[i] \in Nat
  BY <1>1
<1>4. Copied(lens, avail) =
        Smaller(avail, IF stops = {} THEN Total(lens) ELSE Upto(lens)[k - 1])
  BY DEF Copied
<1>5. (IF stops = {} THEN Total(lens) ELSE Upto(lens)[k - 1]) = Total(lens)
  <2>1. CASE stops = {}
    BY <2>1
  <2>2. CASE stops # {}
    <3>1. stops \in SUBSET Nat
      OBVIOUS
    <3>2. k \in stops
      <4> HIDE DEF stops
      <4> QED BY <2>2, <3>1, LeastIs
    <3> HIDE DEF k
    <3>3. k \in 1 .. N /\ lens[k] = 0
      BY <3>2
    <3>4. \A i \in (k - 1) + 1 .. N : lens[i] = 0
      <4> SUFFICES ASSUME NEW i \in k .. N, lens[i] # 0 PROVE FALSE
        BY <1>1, <3>3
      <4>1. i \in 1 .. N /\ k \in 1 .. i
        BY <1>1, <3>3
      <4>2. lens[i] > 0
        BY <1>3, <4>1
      <4>3. lens[k] > 0
        BY <1>2, <4>1, <4>2
      <4> QED BY <3>3, <4>3
    <3>5. k - 1 \in 0 .. N /\ k - 1 <= N /\ N \in 0 .. N
      BY <1>1, <3>3
    <3>6. Upto(lens)[k - 1] = Upto(lens)[N]
      BY <1>1, <3>4, <3>5, UptoStays
    <3> QED BY <2>2, <3>6 DEF Total
  <2> QED BY <2>1, <2>2
<1>6. Total(lens) \in Nat
  BY <1>1, TotalIs
<1> QED BY <1>1, <1>4, <1>5, <1>6 DEF Smaller

\* The buffers of a call are a chain.
LEMMA ChainOfLens ==
  ASSUME NEW lens \in ReadIovs \cup WriteIovs
  PROVE  /\ lens \in Seq(Nat) /\ Total(lens) \in Nat
         /\ Chain(Iov(lens), 0, Total(lens)) /\ Dense(Iov(lens))
<1> DEFINE N == Len(lens)
           u == Upto(lens)
           iov == Iov(lens)
<1>1. lens \in Seq(Nat) /\ N \in Nat /\ DOMAIN lens = 1 .. N /\ \A i \in 1 .. N : lens[i] \in Nat
  BY IovAssumption
<1>2. u \in [0 .. N -> Nat] /\ u[0] = 0
  BY <1>1, UptoSteps
<1>3. \A i \in 1 .. N : u[i] = u[i - 1] + lens[i]
  BY <1>1, UptoSteps
<1>4. Total(lens) = u[N] /\ u[N] \in Nat
  BY <1>1, <1>2 DEF Total
<1>5. iov = [i \in 1 .. N |-> [base |-> 1 + u[i - 1], len |-> lens[i]]]
  BY <1>1 DEF Iov
<1> HIDE DEF u, iov
<1>6. \A i \in 1 .. N : i - 1 \in 0 .. N /\ u[i - 1] \in Nat /\ 1 + u[i - 1] \in Nat
  BY <1>1, <1>2, SMTT(30)
<1>7. /\ iov \in Seq(Element) /\ Len(iov) = N
      /\ \A i \in 1 .. N : iov[i].base = 1 + u[i - 1] /\ iov[i].len = lens[i]
  <2>1. iov \in [1 .. N -> Element]
    BY <1>1, <1>5, <1>6 DEF Element
  <2>2. \A i \in 1 .. N : iov[i].base = 1 + u[i - 1] /\ iov[i].len = lens[i]
    BY <1>5
  <2> HIDE DEF N
  <2>3. iov \in Seq(Element)
    BY <1>1, <2>1, SeqDef
  <2>4. DOMAIN iov = 1 .. N
    BY <1>5
  <2>5. Len(iov) = N
    BY <1>1, <2>3, <2>4
  <2> QED BY <2>2, <2>3, <2>5
<1> HIDE DEF N
<1>8. Chain(iov, 0, u[N])
  <2>1. CASE N = 0
    <3>1. iov = <<>>
      BY <1>7, <2>1
    <3> QED BY <1>2, <1>7, <2>1, <3>1 DEF Chain
  <2>2. CASE N >= 1
    <3>1. iov # <<>> /\ iov[1].base = 0 + 1
      BY <1>1, <1>2, <1>7, <2>2
    <3>2. iov[N].base + iov[N].len = u[N] + 1
      <4>1. N \in 1 .. N
        BY <1>1, <2>2
      <4>2. iov[N].base = 1 + u[N - 1] /\ iov[N].len = lens[N] /\ u[N] = u[N - 1] + lens[N]
            /\ u[N - 1] \in Nat /\ lens[N] \in Nat
        BY <1>1, <1>3, <1>6, <1>7, <4>1
      <4> QED BY <4>2
    <3>3. ASSUME NEW i \in 1 .. N - 1 PROVE iov[i + 1].base = iov[i].base + iov[i].len
      <4>1. i \in 1 .. N /\ i + 1 \in 1 .. N /\ (i + 1) - 1 = i
        BY <1>1
      <4>2. iov[i + 1].base = 1 + u[i] /\ iov[i].base = 1 + u[i - 1] /\ iov[i].len = lens[i]
        BY <1>7, <4>1
      <4>3. u[i] = u[i - 1] + lens[i] /\ u[i - 1] \in Nat /\ lens[i] \in Nat
        BY <1>1, <1>3, <1>6, <4>1
      <4> QED BY <4>2, <4>3
    <3> QED BY <1>4, <1>7, <2>2, <3>1, <3>2, <3>3 DEF Chain
  <2> QED BY <1>1, <2>1, <2>2
<1>9. Dense(iov)
  <2> SUFFICES ASSUME NEW i \in 1 .. N, NEW j \in 1 .. N, i <= j, lens[j] > 0
               PROVE  \E x \in i .. j : x < i + IovMax /\ lens[x] > 0
    <3>1. DOMAIN iov = 1 .. N
      BY <1>7
    <3> SUFFICES ASSUME NEW i \in 1 .. N, NEW j \in 1 .. N, i <= j, iov[j].len > 0
                 PROVE  \E x \in i .. j : x < i + IovMax /\ iov[x].len > 0
      BY <3>1 DEF Dense
    <3>2. lens[j] > 0
      BY <1>7
    <3>3. PICK x \in i .. j : x < i + IovMax /\ lens[x] > 0
      BY <3>2
    <3>4. x \in 1 .. N
      BY <1>1
    <3> QED BY <1>7, <3>3, <3>4
  <2>1. CASE lens \in ReadIovs
    <3>1. i \in i .. j /\ i < i + IovMax /\ i \in 1 .. j
      BY RuntimeAssumption
    <3>2. lens[i] > 0
      BY <1>1, <2>1, <3>1, IovAssumption
    <3> QED BY <3>1, <3>2
  <2>2. CASE lens \in WriteIovs
    BY <1>1, <2>2, IovAssumption
  <2> QED BY <2>1, <2>2
<1> QED BY <1>1, <1>4, <1>8, <1>9 DEF iov

\* What one system call is given: the next cells, and some if any are left.
LEMMA GivenOfChain ==
  ASSUME NEW iov, NEW n, NEW want, Chain(iov, n, want), Dense(iov)
  PROVE  \E w \in n .. want :
           /\ Cells(SubSeq(iov, 1, Smaller(IovMax, Len(iov)))) = [j \in 1 .. w - n |-> n + j]
           /\ w = n => n = want
           /\ iov = <<>> => n = want
<1> DEFINE u == Upto(Lens(iov))
           N == Len(iov)
           k == Smaller(IovMax, N)
           s == SubSeq(iov, 1, k)
<1>1. iov \in Seq(Element) /\ n \in Nat /\ want \in Nat /\ N \in Nat
  BY DEF Chain
<1>2. IovMax \in Nat /\ IovMax >= 1
  BY RuntimeAssumption
<1>3. k \in 0 .. N /\ (k = N \/ k = IovMax) /\ (N >= 1 => k >= 1)
  BY <1>1, <1>2 DEF Smaller
<1>4. CASE N = 0
  <2>1. iov = <<>> /\ n = want
    BY <1>1, <1>4 DEF Chain
  <2>2. s = <<>>
    BY <1>3, <1>4, <2>1
  <2>3. Chain(s, n, want)
    BY <2>1, <2>2
  <2>4. Cells(s) = [j \in 1 .. want - n |-> n + j]
    BY <2>3, CellsOfChain
  <2>5. want \in n .. want
    BY <1>1, <2>1
  <2> QED BY <2>1, <2>4, <2>5
<1>5. CASE N >= 1
  <2>1. k \in 1 .. N
    BY <1>1, <1>3, <1>5
  <2> HIDE DEF k
  <2> DEFINE w == iov[k].base + iov[k].len - 1
  <2>2. Chain(s, n, w) /\ w \in n .. want
    BY <2>1, ChainBegin
  <2>3. Cells(s) = [j \in 1 .. w - n |-> n + j]
    BY <2>2, CellsOfChain
  <2>4. ASSUME w = n, n # want PROVE FALSE
    <3>1. /\ Lens(iov) \in Seq(Nat) /\ Len(Lens(iov)) = N /\ u[N] = want - n
          /\ iov[k].base = n + 1 + u[k - 1] /\ u[k] = u[k - 1] + iov[k].len
      BY <2>1, ChainUpto
    <3>2. u \in [0 .. N -> Nat] /\ u[0] = 0
      BY <3>1, UptoSteps
    <3>3. \A i \in 1 .. N : Lens(iov)[i] = iov[i].len /\ iov[i].len \in Nat
      BY <1>1, ElementsAre DEF Lens
    <3>4. u[k] = 0
      <4> DEFINE a == iov[k].base
                 b == iov[k].len
                 x == u[k - 1]
                 y == u[k]
      <4>1. a \in Nat /\ b \in Nat
        BY <1>1, <2>1, ElementsAre
      <4>2. x \in Nat /\ y \in Nat
        <5>1. k - 1 \in 0 .. N /\ k \in 0 .. N
          BY <1>1, <2>1
        <5> HIDE DEF u
        <5> QED BY <3>2, <5>1
      <4>3. a = n + 1 + x /\ y = x + b /\ a + b - 1 = n
        BY <2>4, <3>1
      <4> HIDE DEF a, b, x, y
      <4>4. y = 0
        BY <1>1, <4>1, <4>2, <4>3
      <4> QED BY <4>4 DEF y
    <3>5. PICK j \in 1 .. N : iov[j].len > 0
      <4> SUFFICES ASSUME \A j \in 1 .. N : ~ (iov[j].len > 0) PROVE FALSE
        OBVIOUS
      <4>1. \A j \in 0 + 1 .. N : Lens(iov)[j] = 0
        BY <3>3
      <4>2. u[0] = u[N]
        <5>1. 0 \in 0 .. N /\ N \in 0 .. N /\ 0 <= N
          BY <1>1
        <5> QED BY <3>1, <4>1, <5>1, UptoStays
      <4> HIDE DEF u
      <4> QED BY <1>1, <2>4, <3>1, <3>2, <4>2
    <3>6. PICK x \in 1 .. j : x < 1 + IovMax /\ iov[x].len > 0
      <4>1. DOMAIN iov = 1 .. N /\ 1 \in 1 .. N /\ 1 <= j
        BY <1>1, <1>5
      <4> QED BY <3>5, <4>1 DEF Dense
    <3>7. x \in 1 .. N /\ x <= k /\ x - 1 \in 0 .. N /\ x \in 0 .. N /\ k \in 0 .. N
      BY <1>1, <1>2, <1>3, <2>1, <3>6 DEF k
    <3>8. u[x] = u[x - 1] + iov[x].len /\ u[x] <= u[k]
      BY <3>1, <3>7, ChainUpto, UptoGrows
    <3> HIDE DEF u
    <3>9. u[x - 1] \in Nat /\ u[x] \in Nat /\ iov[x].len \in Nat
      BY <3>2, <3>3, <3>7
    <3> QED BY <3>4, <3>6, <3>8, <3>9
  <2>5. iov # <<>>
    BY <1>1, <1>5
  <2> HIDE DEF w
  <2> QED BY <2>2, <2>3, <2>4, <2>5 DEF k
<1>6. N = 0 \/ N >= 1
  BY <1>1
<1> QED BY <1>4, <1>5, <1>6

-----------------------------------------------------------------------------
(* Contents of files.                                                      *)

LEMMA SourceIs ==
  ASSUME NEW n \in Nat
  PROVE  /\ Source(n) \in Seq(Nat) /\ Len(Source(n)) = n
         /\ \A i \in 1 .. n : Source(n)[i] = 10 + i
<1>1. Source(n) = [i \in 1 .. n |-> 10 + i]
  BY DEF Source
<1>2. Source(n) \in [1 .. n -> Nat]
  BY <1>1
<1>3. Source(n) \in Seq(Nat)
  BY <1>2, SeqDef
<1>4. DOMAIN Source(n) = 1 .. n
  BY <1>1
<1> QED BY <1>1, <1>3, <1>4

\* How long a file is that was overwritten, and what it holds.
OverLen(data, at, cells) == IF Len(data) > at + Len(cells) THEN Len(data) ELSE at + Len(cells)
OverCell(data, at, cells, i) ==
  IF i \in at + 1 .. at + Len(cells) THEN cells[i - at] ELSE IF i <= Len(data) THEN data[i] ELSE 0

LEMMA OverwriteIs ==
  ASSUME NEW data \in Seq(Nat), NEW at \in Nat, NEW cells \in Seq(Nat)
  PROVE  /\ Overwrite(data, at, cells) \in Seq(Nat)
         /\ Len(Overwrite(data, at, cells)) = OverLen(data, at, cells)
         /\ \A i \in 1 .. OverLen(data, at, cells) :
              Overwrite(data, at, cells)[i] = OverCell(data, at, cells, i)
<1> DEFINE more == at + Len(cells)
           len == IF Len(data) > more THEN Len(data) ELSE more
           o == Overwrite(data, at, cells)
           x(i) == IF i \in at + 1 .. more THEN cells[i - at]
                   ELSE IF i <= Len(data) THEN data[i] ELSE 0
<1>1. o = [i \in 1 .. len |-> x(i)]
  BY DEF Overwrite
<1>2. len \in Nat
  OBVIOUS
<1>3. ASSUME NEW i \in 1 .. len PROVE x(i) \in Nat
  <2>1. CASE i \in at + 1 .. more
    <3>1. i - at \in 1 .. Len(cells)
      BY <2>1
    <3>2. cells[i - at] \in Nat
      BY <3>1
    <3> QED BY <2>1, <3>2
  <2>2. CASE i \notin at + 1 .. more
    BY <2>2
  <2> QED BY <2>1, <2>2
<1> HIDE DEF o, len, x
<1>4. o \in [1 .. len -> Nat]
  BY <1>1, <1>3
<1>5. o \in Seq(Nat)
  BY <1>2, <1>4, SeqDef
<1>6. Len(o) = len
  BY <1>1, <1>2, <1>5
<1>7. \A i \in 1 .. len : o[i] = x(i)
  BY <1>1
<1> QED BY <1>5, <1>6, <1>7 DEF o, len, x, OverLen, OverCell

\* The cells of the source from n + 1 on.
Behind(n, k) == [j \in 1 .. k |-> Source(n + k)[n + j]]

\* What is in the file after the first n cells.
Written(was, at, n) == IF n = 0 THEN was ELSE Overwrite(was, at, Source(n))

\* Writing more behind what was written is writing it all at once.
LEMMA OverwriteMore ==
  ASSUME NEW was \in Seq(Nat), NEW at \in Nat, NEW n \in Nat, NEW k \in Nat \ {0}
  PROVE  /\ Written(was, at, n) \in Seq(Nat)
         /\ Len(Written(was, at, n))
              = IF n = 0 THEN Len(was) ELSE IF Len(was) > at + n THEN Len(was) ELSE at + n
         /\ Overwrite(Written(was, at, n), at + n, Behind(n, k))
              = Overwrite(was, at, Source(n + k))
<1> DEFINE cells == Behind(n, k)
           data == Written(was, at, n)
           a == Overwrite(data, at + n, cells)
           b == Overwrite(was, at, Source(n + k))
           len == IF Len(was) > at + (n + k) THEN Len(was) ELSE at + (n + k)
<1>0. data = IF n = 0 THEN was ELSE Overwrite(was, at, Source(n))
  BY DEF Written
<1> HIDE DEF data
<1>1. /\ n + k \in Nat
      /\ Source(n + k) \in Seq(Nat) /\ Len(Source(n + k)) = n + k
      /\ \A i \in 1 .. n + k : Source(n + k)[i] = 10 + i
  BY SourceIs
<1>2. Source(n) \in Seq(Nat) /\ Len(Source(n)) = n /\ \A i \in 1 .. n : Source(n)[i] = 10 + i
  BY SourceIs
<1>3. cells \in Seq(Nat) /\ Len(cells) = k /\ \A j \in 1 .. k : cells[j] = 10 + (n + j)
  <2>1. \A j \in 1 .. k : n + j \in 1 .. n + k /\ cells[j] = 10 + (n + j)
    BY <1>1 DEF Behind
  <2>2. cells \in [1 .. k -> Nat]
    <3>1. \A j \in 1 .. k : cells[j] \in Nat
      <4> HIDE DEF cells
      <4> QED BY <2>1
    <3> QED BY <3>1 DEF Behind
  <2>3. cells \in Seq(Nat)
    BY <2>2, SeqDef
  <2>4. DOMAIN cells = 1 .. k
    BY DEF Behind
  <2> HIDE DEF cells
  <2> QED BY <2>1, <2>3, <2>4
<1> HIDE DEF cells
<1>4. /\ data \in Seq(Nat)
      /\ Len(data) = IF n = 0 THEN Len(was) ELSE IF Len(was) > at + n THEN Len(was) ELSE at + n
  <2>1. CASE n = 0
    BY <1>0, <2>1
  <2>2. CASE n # 0
    <3>1. data = Overwrite(was, at, Source(n))
      BY <1>0, <2>2
    <3>2. data \in Seq(Nat) /\ Len(data) = OverLen(was, at, Source(n))
      BY <1>2, <3>1, OverwriteIs
    <3> QED BY <1>2, <2>2, <3>2 DEF OverLen
  <2> QED BY <2>1, <2>2
<1>5. \A i \in 1 .. Len(data) :
        data[i] = IF i \in at + 1 .. at + n THEN 10 + (i - at)
                  ELSE IF i <= Len(was) THEN was[i] ELSE 0
  <2>1. CASE n = 0
    <3>1. data = was
      BY <1>0, <2>1
    <3>2. \A i \in 1 .. Len(was) : i \notin at + 1 .. at + n /\ i <= Len(was)
      BY <2>1
    <3> QED BY <3>1, <3>2
  <2>2. CASE n # 0
    <3>1. data = Overwrite(was, at, Source(n))
      BY <1>0, <2>2
    <3>2. \A i \in at + 1 .. at + n : Source(n)[i - at] = 10 + (i - at)
      <4>1. \A i \in at + 1 .. at + n : i - at \in 1 .. n
        OBVIOUS
      <4> QED BY <1>2, <4>1
    <3> DEFINE o == Overwrite(was, at, Source(n))
    <3>3. LET more == at + Len(Source(n))
              l == IF Len(was) > more THEN Len(was) ELSE more
          IN /\ o \in Seq(Nat) /\ Len(o) = l
             /\ \A i \in 1 .. l : o[i] = IF i \in at + 1 .. more THEN Source(n)[i - at]
                                         ELSE IF i <= Len(was) THEN was[i] ELSE 0
      <4> HIDE DEF o
      <4> DEFINE t == Source(n)
      <4>1. t \in Seq(Nat)
        BY <1>2
      <4> HIDE DEF t
      <4>2. /\ Overwrite(was, at, t) \in Seq(Nat) /\ Len(Overwrite(was, at, t)) = OverLen(was, at, t)
            /\ \A i \in 1 .. OverLen(was, at, t) : Overwrite(was, at, t)[i] = OverCell(was, at, t, i)
        BY <4>1, OverwriteIs
      <4> QED BY <4>2 DEF OverLen, OverCell, o, t
    <3> HIDE DEF o, len, b, a
    <3>4. \A i \in 1 .. Len(o) : o[i] = IF i \in at + 1 .. at + n THEN Source(n)[i - at]
                                       ELSE IF i <= Len(was) THEN was[i] ELSE 0
      BY <1>2, <3>3
    <3>5. \A i \in 1 .. Len(o) : o[i] = IF i \in at + 1 .. at + n THEN 10 + (i - at)
                                       ELSE IF i <= Len(was) THEN was[i] ELSE 0
      BY <3>2, <3>4
    <3>6. data = o
      BY <3>1 DEF o
    <3> QED BY <3>5, <3>6
  <2> QED BY <2>1, <2>2
<1>6. /\ a \in Seq(Nat) /\ Len(a) = len
      /\ \A i \in 1 .. len : a[i] = IF i \in (at + n) + 1 .. (at + n) + k THEN cells[i - (at + n)]
                                    ELSE IF i <= Len(data) THEN data[i] ELSE 0
  <2>1. at + n \in Nat /\ Len(was) \in Nat
    OBVIOUS
  <2>2. (IF Len(data) > (at + n) + k THEN Len(data) ELSE (at + n) + k) = len
    BY <1>4, <2>1
  <2> HIDE DEF a, len
  <2>3. LET more == (at + n) + Len(cells)
            l == IF Len(data) > more THEN Len(data) ELSE more
        IN /\ a \in Seq(Nat) /\ Len(a) = l
           /\ \A i \in 1 .. l : a[i] = IF i \in (at + n) + 1 .. more THEN cells[i - (at + n)]
                                       ELSE IF i <= Len(data) THEN data[i] ELSE 0
    <3> DEFINE y == at + n
    <3>1. y \in Nat
      BY <2>1
    <3> HIDE DEF y
    <3>2. /\ Overwrite(data, y, cells) \in Seq(Nat) /\ Len(Overwrite(data, y, cells)) = OverLen(data, y, cells)
          /\ \A i \in 1 .. OverLen(data, y, cells) : Overwrite(data, y, cells)[i] = OverCell(data, y, cells, i)
      BY <1>3, <1>4, <3>1, OverwriteIs
    <3> QED BY <3>2 DEF OverLen, OverCell, a, y
  <2> QED BY <1>3, <2>2, <2>3
<1>7. /\ b \in Seq(Nat) /\ Len(b) = len
      /\ \A i \in 1 .. len : b[i] = IF i \in at + 1 .. at + (n + k) THEN Source(n + k)[i - at]
                                    ELSE IF i <= Len(was) THEN was[i] ELSE 0
  <2> HIDE DEF b, len
  <2>1. LET more == at + Len(Source(n + k))
            l == IF Len(was) > more THEN Len(was) ELSE more
        IN /\ b \in Seq(Nat) /\ Len(b) = l
           /\ \A i \in 1 .. l : b[i] = IF i \in at + 1 .. more THEN Source(n + k)[i - at]
                                       ELSE IF i <= Len(was) THEN was[i] ELSE 0
    <3> DEFINE t == Source(n + k)
    <3>1. t \in Seq(Nat)
      BY <1>1
    <3> HIDE DEF t
    <3>2. /\ Overwrite(was, at, t) \in Seq(Nat) /\ Len(Overwrite(was, at, t)) = OverLen(was, at, t)
          /\ \A i \in 1 .. OverLen(was, at, t) : Overwrite(was, at, t)[i] = OverCell(was, at, t, i)
      BY <3>1, OverwriteIs
    <3> QED BY <3>2 DEF OverLen, OverCell, b, t
  <2> QED BY <1>1, <2>1 DEF len
<1> HIDE DEF a, b
<1>8. ASSUME NEW i \in 1 .. len PROVE a[i] = b[i]
  <2>1. len \in Nat /\ i \in Nat /\ i >= 1
    OBVIOUS
  <2> HIDE DEF len
  <2>2. CASE i \in (at + n) + 1 .. (at + n) + k
    <3>1. i - (at + n) \in 1 .. k /\ i - at \in 1 .. n + k /\ i \in at + 1 .. at + (n + k)
      BY <2>2
    <3>2. a[i] = 10 + (n + (i - (at + n)))
      BY <1>3, <1>6, <2>2, <3>1
    <3>3. b[i] = 10 + (i - at)
      BY <1>1, <1>7, <3>1
    <3> QED BY <2>1, <3>2, <3>3
  <2>3. CASE i \in at + 1 .. at + n
    <3>1. i - at \in 1 .. n + k /\ i \in at + 1 .. at + (n + k) /\ i \notin (at + n) + 1 .. (at + n) + k
      BY <2>3
    <3>2. i \in 1 .. Len(data) /\ i <= Len(data)
      BY <1>4, <2>1, <2>3
    <3>3. a[i] = data[i]
      BY <1>6, <3>1, <3>2
    <3>4. data[i] = 10 + (i - at)
      BY <1>5, <2>3, <3>2
    <3>5. b[i] = 10 + (i - at)
      BY <1>1, <1>7, <3>1
    <3> QED BY <3>3, <3>4, <3>5
  <2>4. CASE i \notin at + 1 .. at + (n + k)
    <3>1. i \notin at + 1 .. at + n /\ i \notin (at + n) + 1 .. (at + n) + k
      BY <2>4
    <3>2. b[i] = IF i <= Len(was) THEN was[i] ELSE 0
      BY <1>7, <2>4
    <3>3. a[i] = IF i <= Len(data) THEN data[i] ELSE 0
      BY <1>6, <3>1
    <3>4. CASE i <= Len(data)
      BY <1>5, <2>1, <3>1, <3>2, <3>3, <3>4
    <3>5. CASE ~ (i <= Len(data))
      <4>1. ~ (i <= Len(was))
        BY <1>4, <2>1, <3>5
      <4> QED BY <3>2, <3>3, <3>5, <4>1
    <3> QED BY <3>4, <3>5
  <2>5. i \in (at + n) + 1 .. (at + n) + k \/ i \in at + 1 .. at + n \/ i \notin at + 1 .. at + (n + k)
    BY <2>1
  <2> QED BY <2>2, <2>3, <2>4, <2>5
<1>9. a = b
  <2> HIDE DEF len
  <2> QED BY <1>6, <1>7, <1>8, SeqEqual
<1> QED BY <1>4, <1>9 DEF a, b, cells, data

-----------------------------------------------------------------------------
(* Archives.                                                               *)

\* The sequences FlattenSeq joins, one after the other.
LEMMA FlattenSteps ==
  ASSUME NEW T, NEW s \in Seq(Seq(T))
  PROVE  \E g \in [0 .. Len(s) -> Seq(T)] :
           /\ g[0] = <<>> /\ FlattenSeq(s) = g[Len(s)]
           /\ \A i \in 1 .. Len(s) : g[i] = g[i - 1] \o s[i]
<1> DEFINE n == Len(s)
           Is(f) == f = [i \in 1 .. n |-> IF i = 1 THEN s[i] ELSE f[i - 1] \o s[i]]
           F == [i \in 1 .. n |-> [x \in Seq(T) |-> x \o s[i]]]
           v == CHOOSE f : Is(f)
<1>1. n \in Nat /\ \A i \in 1 .. n : s[i] \in Seq(T)
  OBVIOUS
<1>2. F \in Steps(n, Seq(T))
  <2>1. \A i \in 1 .. n, x \in Seq(T) : x \o s[i] \in Seq(T)
    BY <1>1
  <2> QED BY <2>1 DEF Steps
<1>3. FlattenSeq(s) = IF n = 0 THEN s ELSE v[n]
  BY DEF FlattenSeq
<1> HIDE DEF F
<1>4. PICK g : Computes(g, Seq(T), <<>>, n, F)
  <2>1. <<>> \in Seq(T)
    OBVIOUS
  <2> HIDE DEF n
  <2> QED BY <1>1, <1>2, <2>1, RecursionExists
<1>5. g \in [0 .. n -> Seq(T)] /\ g[0] = <<>> /\ \A i \in 1 .. n : g[i] = F[i][g[i - 1]]
  BY <1>4 DEF Computes
<1>6. ASSUME NEW i \in 1 .. n PROVE g[i] = g[i - 1] \o s[i]
  <2>1. F[i] = [x \in Seq(T) |-> x \o s[i]]
    BY DEF F
  <2>2. i - 1 \in 0 .. n
    BY <1>1
  <2>3. g[i - 1] \in Seq(T)
    BY <1>5, <2>2
  <2> QED BY <1>5, <2>1, <2>3
<1>7. CASE n = 0
  <2>1. s = <<>>
    BY <1>7
  <2> QED BY <1>3, <1>5, <1>6, <1>7, <2>1
<1>8. CASE n # 0
  <2> DEFINE w == [i \in 1 .. n |-> g[i]]
  <2>1. Is(w)
    <3>1. ASSUME NEW i \in 1 .. n PROVE g[i] = IF i = 1 THEN s[i] ELSE w[i - 1] \o s[i]
      <4>1. CASE i = 1
        <5>1. g[1] = g[0] \o s[1]
          <6>1. 1 \in 1 .. n /\ 1 - 1 = 0
            BY <4>1
          <6>2. g[1] = g[1 - 1] \o s[1]
            BY <1>6, <6>1
          <6> QED BY <6>1, <6>2
        <5>2. <<>> \o s[1] = s[1]
          BY <1>1, <4>1, ConcatEmptySeq
        <5> QED BY <1>5, <4>1, <5>1, <5>2
      <4>2. CASE i # 1
        <5>1. i - 1 \in 1 .. n
          BY <1>1, <4>2
        <5>2. w[i - 1] = g[i - 1]
          BY <5>1
        <5> HIDE DEF w
        <5> QED BY <1>6, <4>2, <5>2
      <4> QED BY <4>1, <4>2
    <3> QED BY <3>1
  <2> HIDE DEF w
  <2>2. Is(v)
    <3> HIDE DEF Is
    <3> QED BY <2>1
  <2> HIDE DEF v
  <2>3. \A i \in 1 .. n : v[i] = IF i = 1 THEN s[i] ELSE v[i - 1] \o s[i]
    <3>1. DOMAIN v = 1 .. n
      BY <2>2
    <3> QED BY <2>2
  <2> DEFINE P == {k \in Nat : k + 1 <= n => v[k + 1] = g[k + 1]}
  <2>4. 0 \in P
    <3>1. 1 \in 1 .. n
      BY <1>1, <1>8
    <3>2. g[1] = g[0] \o s[1]
      <4>1. 1 - 1 = 0
        OBVIOUS
      <4>2. g[1] = g[1 - 1] \o s[1]
        BY <1>6, <3>1
      <4> QED BY <4>1, <4>2
    <3>3. <<>> \o s[1] = s[1]
      BY <1>1, <3>1, ConcatEmptySeq
    <3>4. v[1] = s[1]
      BY <2>3, <3>1
    <3> QED BY <1>5, <3>2, <3>3, <3>4
  <2>5. ASSUME NEW k \in P PROVE k + 1 \in P
    <3> SUFFICES ASSUME k + 1 + 1 <= n PROVE v[k + 1 + 1] = g[k + 1 + 1]
      OBVIOUS
    <3>1. k + 1 + 1 \in 1 .. n /\ (k + 1 + 1) - 1 = k + 1 /\ k + 1 + 1 # 1 /\ k + 1 <= n
      BY <1>1
    <3>2. v[k + 1] = g[k + 1]
      BY <3>1
    <3> HIDE DEF P, n
    <3>3. v[k + 1 + 1] = v[k + 1] \o s[k + 1 + 1]
      BY <2>3, <3>1
    <3>4. g[k + 1 + 1] = g[k + 1] \o s[k + 1 + 1]
      BY <1>6, <3>1
    <3> QED BY <3>2, <3>3, <3>4
  <2> HIDE DEF P
  <2>6. P = Nat
    BY <2>4, <2>5, NatInduct DEF P
  <2>7. v[n] = g[n]
    <3>1. n - 1 \in P /\ (n - 1) + 1 = n /\ n <= n
      BY <1>1, <1>8, <2>6
    <3> QED BY <3>1 DEF P
  <2> QED BY <1>3, <1>5, <1>6, <1>8, <2>7
<1> QED BY <1>7, <1>8

LEMMA JoinType ==
  ASSUME NEW path \in Seq(Name)
  PROVE  Join(path) \in Name
<1> DEFINE s == [i \in DOMAIN path |-> IF i = 1 THEN path[i] ELSE <<Slash>> \o path[i]]
<1>1. s \in Seq(Seq(Nat))
  <2>1. \A i \in 1 .. Len(path) : path[i] \in Seq(Nat)
    BY DEF Name
  <2>2. <<Slash>> \in Seq(Nat)
    BY DEF Slash
  <2>3. \A i \in 1 .. Len(path) : <<Slash>> \o path[i] \in Seq(Nat)
    BY <2>1, <2>2
  <2>4. s \in [1 .. Len(path) -> Seq(Nat)]
    BY <2>1, <2>3
  <2>5. Len(path) \in Nat
    OBVIOUS
  <2> QED BY <2>4, <2>5, SeqDef
<1>2. Join(path) = FlattenSeq(s)
  BY DEF Join
<1> HIDE DEF s
<1>3. PICK g \in [0 .. Len(s) -> Seq(Nat)] : FlattenSeq(s) = g[Len(s)]
  BY <1>1, FlattenSteps
<1>4. Len(s) \in 0 .. Len(s)
  BY <1>1
<1> QED BY <1>2, <1>3, <1>4 DEF Name

Filed == [path : Seq(Name), deflated : BOOLEAN, data : Seq(Nat)]

\* Where the units of an archive are.
LEMMA ReleaseIs ==
  ASSUME NEW code \in Seq(Unit), NEW entries \in Seq(Filed)
  PROVE  LET map == Release(code, entries)
             n == Len(entries)
             c == Len(code)
         IN /\ Len(map) = c + n + n + 1
            /\ \A i \in 1 .. n :
                 /\ map[c + i] = [is |-> "local", data |-> entries[i].data]
                 /\ map[c + n + i] = [is |-> "central", name |-> Join(entries[i].path),
                                      local |-> i - 1, deflated |-> entries[i].deflated,
                                      size |-> Len(entries[i].data)]
            /\ map[Len(map)] = [is |-> "end", entries |-> n, size |-> n, offset |-> n]
<1> DEFINE n == Len(entries)
           c == Len(code)
           L == [i \in 1 .. n |-> [is |-> "local", data |-> entries[i].data]]
           C == [i \in 1 .. n |-> [is |-> "central", name |-> Join(entries[i].path),
                                   local |-> i - 1, deflated |-> entries[i].deflated,
                                   size |-> Len(entries[i].data)]]
           e == [is |-> "end", entries |-> n, size |-> n, offset |-> n]
           map == Release(code, entries)
<1>1. c \in Nat /\ n \in Nat
  OBVIOUS
<1>2. \A i \in 1 .. n : /\ entries[i].path \in Seq(Name) /\ entries[i].deflated \in BOOLEAN
                        /\ entries[i].data \in Seq(Nat)
  <2>1. \A i \in 1 .. n : entries[i] \in Filed
    OBVIOUS
  <2> QED BY <2>1 DEF Filed
<1>3. L \in Seq(Unit) /\ Len(L) = n /\ \A i \in 1 .. n : L[i] = [is |-> "local", data |-> entries[i].data]
  <2>1. \A i \in 1 .. n : [is |-> "local", data |-> entries[i].data] \in Unit
    BY <1>2 DEF Unit
  <2>2. L \in [1 .. n -> Unit] /\ DOMAIN L = 1 .. n
    BY <2>1
  <2>3. L \in Seq(Unit)
    BY <1>1, <2>2, SeqDef
  <2> QED BY <1>1, <2>2, <2>3
<1>4. C \in Seq(Unit) /\ Len(C) = n
      /\ \A i \in 1 .. n : C[i] = [is |-> "central", name |-> Join(entries[i].path),
                                   local |-> i - 1, deflated |-> entries[i].deflated,
                                   size |-> Len(entries[i].data)]
  <2>1. ASSUME NEW i \in 1 .. n
        PROVE  [is |-> "central", name |-> Join(entries[i].path),
                local |-> i - 1, deflated |-> entries[i].deflated,
                size |-> Len(entries[i].data)] \in Unit
    <3>1. Join(entries[i].path) \in Seq(Nat)
      BY <1>2, JoinType DEF Name
    <3>2. i - 1 \in Nat /\ Len(entries[i].data) \in Nat
      BY <1>1, <1>2
    <3> QED BY <1>2, <3>1, <3>2 DEF Unit
  <2>2. C \in [1 .. n -> Unit] /\ DOMAIN C = 1 .. n
    BY <2>1
  <2>3. C \in Seq(Unit)
    BY <1>1, <2>2, SeqDef
  <2> QED BY <1>1, <2>2, <2>3
<1>5. e \in Unit /\ <<e>> \in Seq(Unit) /\ Len(<<e>>) = 1 /\ <<e>>[1] = e
  <2>1. e \in Unit
    BY <1>1 DEF Unit
  <2> HIDE DEF e
  <2> QED BY <2>1
<1>6. map = ((code \o L) \o C) \o <<e>>
  BY DEF Release
<1> HIDE DEF L, C, e, map, n, c
<1> DEFINE s == code \o L
           t == s \o C
<1>7. s \in Seq(Unit) /\ Len(s) = c + n /\ \A i \in 1 .. n : s[c + i] = L[i]
  BY <1>1, <1>3 DEF c
<1> HIDE DEF s
<1>14. C \in Seq(Unit) /\ Len(C) = n
  BY <1>4
<1>15. s \in Seq(Unit) /\ Len(s) = c + n
  BY <1>7
<1>8. t \in Seq(Unit) /\ Len(t) = c + n + n
  <2>1. t \in Seq(Unit) /\ Len(t) = Len(s) + Len(C)
    BY <1>14, <1>15, ConcatProperties
  <2> QED BY <1>1, <1>14, <1>15, <2>1
<1>9. /\ \A i \in 1 .. c + n : t[i] = s[i]
      /\ \A i \in 1 .. n : t[c + n + i] = C[i]
  BY <1>1, <1>14, <1>15
<1>10. map = t \o <<e>>
  BY <1>6 DEF s
<1> HIDE DEF t
<1>11. Len(map) = c + n + n + 1 /\ map[c + n + n + 1] = e /\ \A i \in 1 .. c + n + n : map[i] = t[i]
  BY <1>1, <1>5, <1>8, <1>10
<1>12. ASSUME NEW i \in 1 .. n
       PROVE  map[c + i] = L[i] /\ map[c + n + i] = C[i]
  <2>1. c + i \in 1 .. c + n /\ c + i \in 1 .. c + n + n /\ c + n + i \in 1 .. c + n + n
    BY <1>1
  <2> QED BY <1>7, <1>9, <1>11, <2>1
<1>13. \A i \in 1 .. n : /\ map[c + i] = [is |-> "local", data |-> entries[i].data]
                         /\ map[c + n + i] = [is |-> "central", name |-> Join(entries[i].path),
                                              local |-> i - 1, deflated |-> entries[i].deflated,
                                              size |-> Len(entries[i].data)]
  BY <1>3, <1>4, <1>12
<1> QED BY <1>11, <1>13 DEF map, n, c, e

\* The last record is found, and with it where the archive begins.
LEMMA EocdOfRelease ==
  ASSUME NEW code \in Seq(Unit), NEW entries \in Seq(Filed)
  PROVE  /\ EndRecords(Release(code, entries)) # {}
         /\ FindEocd(Release(code, entries))
              = [start |-> Len(code), cd |-> Len(entries), entries |-> Len(entries)]
<1> DEFINE n == Len(entries)
           c == Len(code)
           map == Release(code, entries)
           N == Len(map)
           R == EndRecords(map)
           p == CHOOSE x \in R : \A y \in R : y <= x
<1>1. c \in Nat /\ n \in Nat
  OBVIOUS
<1>2. N = c + n + n + 1 /\ map[N] = [is |-> "end", entries |-> n, size |-> n, offset |-> n]
  BY ReleaseIs
<1>3. R = {x \in 1 .. N : /\ x > N - Window /\ map[x].is = "end"
                          /\ map[x].offset < x /\ map[x].size < x}
  BY DEF EndRecords
<1>4. FindEocd(map) = [start |-> ((p - 1) - map[p].size) - map[p].offset, cd |-> map[p].offset,
                       entries |-> map[p].entries]
  BY DEF FindEocd
<1> HIDE DEF R, map, N, n, c
<1>5. N \in R /\ N \in Nat
  BY <1>1, <1>2, <1>3, LaunchAssumption
<1>6. R \subseteq 1 .. N
  BY <1>3
<1>7. p = N
  <2>1. \A y \in R : y <= N
    BY <1>5, <1>6
  <2>2. p \in R /\ \A y \in R : y <= p
    BY <1>5, <2>1
  <2> HIDE DEF p
  <2> QED BY <1>5, <1>6, <2>1, <2>2
<1> HIDE DEF p
<1>8. ((N - 1) - n) - n = c
  BY <1>1, <1>2
<1>9. FindEocd(map) = [start |-> c, cd |-> n, entries |-> n]
  BY <1>2, <1>4, <1>7, <1>8
<1> QED BY <1>5, <1>9 DEF R, map, n, c

\* The index entry made of the i-th file.
Made(entries, i) ==
  [name |-> Cut(Join(entries[i].path)), deflated |-> entries[i].deflated, data |-> entries[i].data]

\* idx is the index of the first n files: the first of each name.
IndexOf(idx, entries, n) ==
  /\ idx \in Seq(Entries)
  /\ \A k \in DOMAIN idx : \E j \in 1 .. n :
       idx[k] = Made(entries, j) /\ \A i \in 1 .. j - 1 : Made(entries, i).name # Made(entries, j).name
  /\ \A j \in 1 .. n : \E k \in DOMAIN idx : idx[k].name = Made(entries, j).name

LEMMA MadeType ==
  ASSUME NEW entries \in Seq(Filed), NEW i \in 1 .. Len(entries)
  PROVE  /\ Made(entries, i) \in Entries /\ Made(entries, i).name = Cut(Join(entries[i].path))
         /\ Join(entries[i].path) \in Seq(Nat)
<1>1. entries[i] \in Filed
  OBVIOUS
<1>2. entries[i].path \in Seq(Name) /\ entries[i].deflated \in BOOLEAN /\ entries[i].data \in Seq(Nat)
  BY <1>1 DEF Filed
<1>3. Join(entries[i].path) \in Seq(Nat)
  BY <1>2, JoinType DEF Name
<1> DEFINE s == Join(entries[i].path)
<1> HIDE DEF s
<1>4. Cut(s) \in Name
  <2>1. s \in Seq(Nat) /\ Len(s) \in Nat
    BY <1>3 DEF s
  <2>2. Smaller(MaxName, Len(s)) \in 0 .. Len(s)
    BY <2>1, LaunchAssumption DEF Smaller
  <2> QED BY <2>1, <2>2 DEF Cut, Name
<1> QED BY <1>2, <1>3, <1>4 DEF Made, Entries, s

\* hash_put keeps the first of each name.
LEMMA PutIs ==
  ASSUME NEW entries \in Seq(Filed), NEW n \in 1 .. Len(entries), NEW idx,
         IndexOf(idx, entries, n - 1)
  PROVE  IndexOf(Put(idx, Made(entries, n)), entries, n)
<1> DEFINE e == Made(entries, n)
           r == Put(idx, e)
<1>1. idx \in Seq(Entries) /\ e \in Entries
  BY MadeType DEF IndexOf
<1>2. \A k \in DOMAIN idx : \E j \in 1 .. n - 1 :
        idx[k] = Made(entries, j) /\ \A i \in 1 .. j - 1 : Made(entries, i).name # Made(entries, j).name
  BY DEF IndexOf
<1>3. \A j \in 1 .. n - 1 : \E k \in DOMAIN idx : idx[k].name = Made(entries, j).name
  BY DEF IndexOf
<1>4. n \in Nat /\ n - 1 \in Nat /\ \A j \in 1 .. n - 1 : j \in 1 .. n
  OBVIOUS
<1>5. CASE \E i \in DOMAIN idx : idx[i].name = e.name
  <2>1. r = idx
    BY <1>5 DEF Put
  <2>2. \A k \in DOMAIN idx : \E j \in 1 .. n :
          idx[k] = Made(entries, j) /\ \A i \in 1 .. j - 1 : Made(entries, i).name # Made(entries, j).name
    BY <1>2, <1>4
  <2>3. ASSUME NEW j \in 1 .. n PROVE \E k \in DOMAIN idx : idx[k].name = Made(entries, j).name
    <3>1. CASE j = n
      BY <1>5, <3>1
    <3>2. CASE j # n
      <4>1. j \in 1 .. n - 1
        BY <3>2
      <4> QED BY <1>3, <4>1
    <3> QED BY <3>1, <3>2
  <2> QED BY <1>1, <2>1, <2>2, <2>3 DEF IndexOf
<1>6. CASE ~ \E i \in DOMAIN idx : idx[i].name = e.name
  <2>1. r = Append(idx, e)
    BY <1>6 DEF Put
  <2> HIDE DEF e, r
  <2>2. /\ r \in Seq(Entries) /\ DOMAIN r = 1 .. Len(idx) + 1 /\ DOMAIN idx = 1 .. Len(idx)
        /\ Len(idx) \in Nat
        /\ r[Len(idx) + 1] = e /\ \A k \in 1 .. Len(idx) : r[k] = idx[k]
    BY <1>1, <2>1
  <2>3. ASSUME NEW i \in 1 .. n - 1 PROVE Made(entries, i).name # e.name
    <3>1. PICK k \in DOMAIN idx : idx[k].name = Made(entries, i).name
      BY <1>3
    <3> QED BY <1>6, <3>1
  <2>4. ASSUME NEW k \in DOMAIN r
        PROVE  \E j \in 1 .. n :
                 r[k] = Made(entries, j) /\ \A i \in 1 .. j - 1 : Made(entries, i).name # Made(entries, j).name
    <3>1. CASE k = Len(idx) + 1
      <4>1. r[k] = Made(entries, n) /\ n \in 1 .. n
        BY <1>4, <2>2, <3>1 DEF e
      <4>2. \A i \in 1 .. n - 1 : Made(entries, i).name # Made(entries, n).name
        BY <2>3 DEF e
      <4> QED BY <4>1, <4>2
    <3>2. CASE k # Len(idx) + 1
      <4>1. k \in DOMAIN idx /\ r[k] = idx[k]
        BY <2>2, <3>2
      <4> QED BY <1>2, <1>4, <4>1
    <3> QED BY <3>1, <3>2
  <2>5. ASSUME NEW j \in 1 .. n PROVE \E k \in DOMAIN r : r[k].name = Made(entries, j).name
    <3>1. CASE j = n
      <4>1. Len(idx) + 1 \in DOMAIN r
        BY <2>2
      <4> QED BY <2>2, <3>1, <4>1 DEF e
    <3>2. CASE j # n
      <4>1. j \in 1 .. n - 1
        BY <3>2
      <4>2. PICK k \in DOMAIN idx : idx[k].name = Made(entries, j).name
        BY <1>3, <4>1
      <4>3. k \in DOMAIN r /\ r[k] = idx[k]
        BY <2>2
      <4> QED BY <4>2, <4>3
    <3> QED BY <3>1, <3>2
  <2> QED BY <2>2, <2>4, <2>5 DEF IndexOf, e, r
<1> QED BY <1>5, <1>6

\* What a release must be to be loaded.
Loadable(entries) ==
  /\ Len(entries) <= MaxEntries
  /\ \A i \in 1 .. Len(entries) : Len(entries[i].data) <= MaxSize
  /\ \A i \in 1 .. Len(entries) - 1 : Len(Join(entries[i].path)) <= MaxName

\* parse_central_directory, in an archive as the compiler makes it.
LEMMA VfsOfRelease ==
  ASSUME NEW code \in Seq(Unit), NEW entries \in Seq(Filed)
  PROVE  /\ ~ Loadable(entries) => VfsInit(Release(code, entries)) = Corrupt
         /\ Loadable(entries) => IndexOf(VfsInit(Release(code, entries)), entries, Len(entries))
<1> DEFINE n == Len(entries)
           c == Len(code)
           map == Release(code, entries)
           at == [start |-> c, cd |-> n, entries |-> n]
           unit(i) == map[c + n + i]
           there(i) == /\ c + n + i \in 1 .. Len(map) /\ unit(i).is = "central"
                       /\ unit(i).size <= MaxSize
                       /\ i > 1 => Len(unit(i - 1).name) <= MaxName
           Is(f) == f = [i \in 0 .. n |-> IF i = 0 THEN <<>> ELSE Put(f[i - 1], Entry(unit(i), c, map))]
           v == CHOOSE f : Is(f)
<1>1. c \in Nat /\ n \in Nat /\ MaxEntries \in Nat /\ MaxName \in Nat
  BY LaunchAssumption
<1>2. VfsInit(map) = ParseCentralDirectory(map, at)
  BY EocdOfRelease DEF VfsInit
<1>3. ParseCentralDirectory(map, at) =
        IF n > MaxEntries \/ \E i \in 1 .. n : ~there(i) THEN Corrupt ELSE v[n]
  BY DEF ParseCentralDirectory
<1>4. /\ Len(map) = c + n + n + 1
      /\ \A i \in 1 .. n :
           /\ map[c + i] = [is |-> "local", data |-> entries[i].data]
           /\ map[c + n + i] = [is |-> "central", name |-> Join(entries[i].path),
                                local |-> i - 1, deflated |-> entries[i].deflated,
                                size |-> Len(entries[i].data)]
  BY ReleaseIs
<1> HIDE DEF map, n, c
<1>5. \A i \in 1 .. n : /\ unit(i).is = "central" /\ unit(i).name = Join(entries[i].path)
                        /\ unit(i).local = i - 1 /\ unit(i).deflated = entries[i].deflated
                        /\ unit(i).size = Len(entries[i].data)
                        /\ c + n + i \in 1 .. Len(map)
  <2> SUFFICES ASSUME NEW i \in 1 .. n
               PROVE  /\ unit(i).is = "central" /\ unit(i).name = Join(entries[i].path)
                      /\ unit(i).local = i - 1 /\ unit(i).deflated = entries[i].deflated
                      /\ unit(i).size = Len(entries[i].data)
                      /\ c + n + i \in 1 .. Len(map)
    OBVIOUS
  <2>1. unit(i) = [is |-> "central", name |-> Join(entries[i].path),
                   local |-> i - 1, deflated |-> entries[i].deflated,
                   size |-> Len(entries[i].data)]
    BY <1>4
  <2>2. c + n + i \in 1 .. Len(map)
    <3>1. Len(map) = c + n + n + 1
      BY <1>4
    <3> QED BY <1>1, <3>1
  <2> HIDE DEF unit
  <2> QED BY <2>1, <2>2
<1>6. ASSUME NEW i \in 1 .. n PROVE Entry(unit(i), c, map) = Made(entries, i)
  <2>1. c + (i - 1) + 1 = c + i
    BY <1>1
  <2>2. map[c + i].data = entries[i].data
    <3>1. map[c + i] = [is |-> "local", data |-> entries[i].data]
      BY <1>4
    <3> QED BY <3>1
  <2>3. c + unit(i).local + 1 = c + i
    <3> DEFINE l == unit(i).local
    <3>1. l = i - 1
      BY <1>5
    <3> HIDE DEF l
    <3>2. c + l + 1 = c + i
      BY <1>1, <3>1
    <3> QED BY <3>2 DEF l
  <2> HIDE DEF unit
  <2> QED BY <1>5, <2>2, <2>3 DEF Entry, Made, Cut
<1>7. (n > MaxEntries \/ \E i \in 1 .. n : ~there(i)) <=> ~ Loadable(entries)
  <2>1. \A i \in 1 .. n : Len(Join(entries[i].path)) \in Nat
    BY MadeType DEF n
  <2>2. ASSUME NEW i \in 1 .. n
        PROVE  there(i) <=> (/\ Len(entries[i].data) <= MaxSize
                             /\ i > 1 => Len(unit(i - 1).name) <= MaxName)
    <3>1. /\ unit(i).is = "central" /\ unit(i).size = Len(entries[i].data)
          /\ c + n + i \in 1 .. Len(map)
      BY <1>5
    <3> HIDE DEF unit
    <3> QED BY <3>1
  <2> HIDE DEF unit, there
  <2>3. ASSUME \E i \in 1 .. n : ~there(i) PROVE ~ Loadable(entries)
    <3>1. PICK i \in 1 .. n : ~there(i)
      BY <2>3
    <3>3. CASE ~ (Len(entries[i].data) <= MaxSize)
      BY <3>3 DEF Loadable, n
    <3>2. CASE i > 1 /\ ~ (Len(unit(i - 1).name) <= MaxName)
      <4>1. i - 1 \in 1 .. n - 1 /\ i - 1 \in 1 .. n
        BY <1>1, <3>2
      <4>2. ~ (Len(Join(entries[i - 1].path)) <= MaxName)
        BY <1>5, <3>2, <4>1
      <4> QED BY <4>1, <4>2 DEF Loadable, n
    <3> QED BY <2>2, <3>1, <3>3, <3>2
  <2>4. ASSUME n <= MaxEntries, ~ Loadable(entries) PROVE \E i \in 1 .. n : ~there(i)
    <3>1. CASE \E i \in 1 .. n : ~ (Len(entries[i].data) <= MaxSize)
      BY <2>2, <3>1
    <3>2. CASE \E i \in 1 .. n - 1 : ~ (Len(Join(entries[i].path)) <= MaxName)
      <4>1. PICK i \in 1 .. n - 1 : ~ (Len(Join(entries[i].path)) <= MaxName)
        BY <3>2
      <4>2. i + 1 \in 1 .. n /\ (i + 1) - 1 = i /\ i + 1 > 1 /\ i \in 1 .. n
        BY <1>1
      <4>3. ~ (Len(unit(i).name) <= MaxName)
        BY <1>5, <4>1, <4>2
      <4> QED BY <2>2, <4>2, <4>3
    <3> QED BY <2>4, <3>1, <3>2 DEF Loadable, n
  <2>5. n > MaxEntries => ~ Loadable(entries)
    BY <1>1 DEF Loadable, n
  <2> QED BY <1>1, <2>3, <2>4, <2>5
<1> HIDE DEF there
<1>8. ASSUME Loadable(entries) PROVE IndexOf(v[n], entries, n)
  <2> DEFINE S == Seq(Entries)
             F == [i \in 1 .. n |-> [x \in S |-> Put(x, Made(entries, i))]]
  <2>1. ASSUME NEW x \in S, NEW e \in Entries PROVE Put(x, e) \in S
    BY DEF Put
  <2>2. F \in Steps(n, S)
    <3>1. \A i \in 1 .. n, x \in S : Put(x, Made(entries, i)) \in S
      BY <2>1, MadeType DEF n
    <3> QED BY <3>1 DEF Steps
  <2> HIDE DEF F
  <2>3. PICK g : Computes(g, S, <<>>, n, F)
    <3>1. <<>> \in S
      OBVIOUS
    <3> HIDE DEF S
    <3> QED BY <1>1, <2>2, <3>1, RecursionExists
  <2>4. g \in [0 .. n -> S] /\ g[0] = <<>> /\ \A i \in 1 .. n : g[i] = F[i][g[i - 1]]
    BY <2>3 DEF Computes
  <2>5. ASSUME NEW i \in 1 .. n PROVE g[i] = Put(g[i - 1], Entry(unit(i), c, map))
    <3>1. F[i] = [x \in S |-> Put(x, Made(entries, i))]
      BY DEF F
    <3>2. i - 1 \in 0 .. n
      BY <1>1
    <3>3. g[i - 1] \in S
      BY <2>4, <3>2
    <3>4. g[i] = Put(g[i - 1], Made(entries, i))
      BY <2>4, <3>1, <3>3
    <3> QED BY <1>6, <3>4
  <2> HIDE DEF S
  <2>6. Is(g)
    <3> HIDE DEF unit
    <3>1. \A i \in 0 .. n : g[i] = IF i = 0 THEN <<>> ELSE Put(g[i - 1], Entry(unit(i), c, map))
      BY <1>1, <2>4, <2>5
    <3> QED BY <2>4, <3>1
  <2>7. Is(v)
    <3> HIDE DEF Is
    <3> QED BY <2>6
  <2> HIDE DEF v, unit
  <2>8. \A i \in 0 .. n : v[i] = IF i = 0 THEN <<>> ELSE Put(v[i - 1], Entry(unit(i), c, map))
    BY <2>7
  <2> DEFINE P == {k \in Nat : k <= n => IndexOf(v[k], entries, k)}
  <2>9. 0 \in P
    <3>1. v[0] = <<>>
      BY <1>1, <2>8
    <3>2. IndexOf(<<>>, entries, 0)
      BY DEF IndexOf
    <3> QED BY <3>1, <3>2
  <2>10. ASSUME NEW k \in P PROVE k + 1 \in P
    <3> SUFFICES ASSUME k + 1 <= n PROVE IndexOf(v[k + 1], entries, k + 1)
      OBVIOUS
    <3>1. k + 1 \in 1 .. n /\ k + 1 \in 0 .. n /\ k + 1 # 0 /\ (k + 1) - 1 = k /\ k <= n
      BY <1>1
    <3>2. IndexOf(v[k], entries, k)
      BY <3>1
    <3> HIDE DEF P
    <3>3. v[k + 1] = Put(v[k], Made(entries, k + 1))
      BY <1>6, <2>8, <3>1
    <3>4. IndexOf(v[k], entries, (k + 1) - 1)
      BY <3>1, <3>2
    <3> QED BY <3>1, <3>3, <3>4, PutIs DEF n
  <2> HIDE DEF P
  <2>11. P = Nat
    BY <2>9, <2>10, NatInduct DEF P
  <2>12. n \in P /\ n <= n
    BY <1>1, <2>11
  <2> QED BY <2>12 DEF P
<1> QED BY <1>2, <1>3, <1>7, <1>8 DEF map, n

-----------------------------------------------------------------------------
(* The invariant.                                                          *)

Names == IF index = None THEN {} ELSE {index[i].name : i \in DOMAIN index}

\* What is known of the entries: before the start nothing is, and a buffer
\* that can be found was filled before.
IndexInv ==
  /\ phase \in {"start", "booted", "running", "exited", "failed"} /\ launch \in Launches
  /\ index = None \/ index \in Seq(Entries)
  /\ cached \in [Names -> Proc \cup {None, Zmap}]
  /\ \A name \in Names : cached[name] \in Proc => <<name, cached[name]>> \in filled
  /\ phase = "start" => /\ index = None
                        /\ \A p \in Proc : handle[p] = None /\ op[p] = None /\ last[p] = None

Stores == {s \in Seq(Nat) : Len(s) <= MaxFile}

Maps ==
  /\ handle \in [Proc -> Handles \cup {None}]
  /\ disk \in [Proc -> Stores \cup {None}]
  /\ DOMAIN op = Proc /\ DOMAIN last = Proc /\ DOMAIN mem = Proc

\* An open file h over the disk d.
Sound(h, d) ==
  h # None => /\ h.kind = "anon" => /\ h.name \in Names
                                    /\ h.pos <= Len(Lookup(index, h.name).data)
                                    /\ h.buf = Zmap \/ <<h.name, h.buf>> \in filled
              /\ h.kind = "file" => h.pos <= MaxFile /\ d \in Stores

\* An entry is inflated.
Inflating(p, h, o) ==
  /\ h = None /\ o \in [do : {"inflate", "publish", "return"}, name : Names]
  /\ o.do = "publish" => <<o.name, p>> \in filled
  /\ o.do = "return" => cached[o.name] # None

At(h, from, was) == IF "append" \in h.modes THEN Len(was) ELSE from

\* The state of a vectored call that has moved o.n cells.
Moving(h, o, m, d) ==
  LET c == o.call
      at == At(h, c.from, c.was)
  IN /\ h \in Handles /\ h.kind = "file"
     /\ o \in [do : Reads \cup Writes, call : {c}, iov : Seq(Element), at : Nat, n : Nat]
     /\ c.do = o.do /\ c.want \in Nat /\ c.from \in 0 .. MaxFile /\ o.at = c.from + o.n
     /\ Chain(o.iov, o.n, c.want) /\ Dense(o.iov)
     /\ c.do \in Reads => /\ o.n <= Left(d, c.from)
                          /\ m \in [1 .. c.want -> Nat \cup {None}]
                          /\ \A i \in 1 .. o.n : m[i] = d[c.from + i]
     /\ c.do \in Writes =>
          /\ c.was \in Stores /\ c.from + c.want <= MaxFile
          /\ "append" \in h.modes => Len(c.was) + c.want <= MaxFile
          /\ m = Source(c.want)
          /\ d = IF o.n = 0 THEN c.was ELSE Overwrite(c.was, at, Source(o.n))
     /\ h.pos = IF c.do \in {"pread", "pwrite"} THEN c.pos
                ELSE IF o.n = 0 THEN c.from ELSE (IF c.do \in Reads THEN c.from ELSE at) + o.n

Data(h, d) == IF h.kind = "anon" THEN Lookup(index, h.name).data ELSE d

\* What IoExact says of one process.
Exact(h, l, m, d) ==
  l # None /\ l.n >= 0 =>
    LET c == l.call
        n == l.n
        at == IF c.do \in Writes THEN At(h, c.from, c.was) ELSE c.from
    IN /\ c.do \in Reads => /\ n = Smaller(c.want, Left(Data(h, d), c.from))
                            /\ \A i \in 1 .. n : m[i] = Data(h, d)[c.from + i]
       /\ c.do \in Writes => /\ n = c.want
                             /\ d = IF n = 0 THEN c.was ELSE Overwrite(c.was, at, Source(n))
       /\ h.pos = IF c.do \in {"pread", "pwrite"} THEN c.pos
                  ELSE IF n = 0 THEN c.from ELSE at + n

ProcInv(p) ==
  /\ Sound(handle[p], disk[p])
  /\ op[p] # None => /\ phase \in {"running", "failed"} /\ last[p] = None
                     /\ \/ Inflating(p, handle[p], op[p])
                        \/ Moving(handle[p], op[p], mem[p], disk[p])
  /\ Exact(handle[p], last[p], mem[p], disk[p])

IInv == IndexInv /\ Maps /\ \A p \in Proc : ProcInv(p)

\* The descriptor of an open file, None if it has none.
Own(p) == IF handle[p] = None THEN None ELSE handle[p].fd

\* A descriptor is open when somebody has it, and nobody else has it.
FdInv ==
  /\ fds \in [Fd -> {"closed", "anon", "file"}] /\ sockets \subseteq Fd
  /\ \A p \in Proc : Own(p) # None => /\ Own(p) \in Fd \ sockets
                                      /\ fds[Own(p)] = handle[p].kind
  /\ \A p, q \in Proc : Own(p) # None /\ Own(p) = Own(q) => p = q
  /\ \A f \in Fd : fds[f] # "closed" <=> f \in sockets \/ \E p \in Proc : Own(p) = f

LEMMA LookupIs ==
  ASSUME NEW idx \in Seq(Entries), NEW name
  PROVE  /\ (\E i \in DOMAIN idx : idx[i].name = name) =>
              Lookup(idx, name) \in Entries /\ Lookup(idx, name).name = name
         /\ Lookup(idx, name) # None => \E i \in DOMAIN idx : idx[i].name = name
<1> DEFINE found == {i \in DOMAIN idx : idx[i].name = name}
<1>1. Lookup(idx, name) = IF found = {} THEN None ELSE idx[CHOOSE i \in found : TRUE]
  BY DEF Lookup
<1>2. CASE found = {}
  BY <1>1, <1>2
<1>3. CASE found # {}
  <2> DEFINE i == CHOOSE i \in found : TRUE
  <2>1. i \in found
    BY <1>3
  <2> HIDE DEF i
  <2>2. i \in DOMAIN idx /\ idx[i].name = name
    BY <2>1
  <2>3. idx[i] \in Entries
    BY <2>2
  <2>4. Lookup(idx, name) = idx[i]
    BY <1>1, <1>3 DEF i
  <2> QED BY <2>2, <2>3, <2>4
<1> QED BY <1>2, <1>3

\* The entry of a name that is known.
LEMMA NamedIs ==
  ASSUME IndexInv, NEW name
  PROVE  /\ name \in Names => /\ index \in Seq(Entries) /\ name \in Name
                              /\ Lookup(index, name) \in Entries
                              /\ Lookup(index, name).data \in Seq(Nat)
         /\ index # None /\ Lookup(index, name) # None => name \in Names
<1>1. ASSUME name \in Names
      PROVE  /\ index \in Seq(Entries) /\ name \in Name /\ Lookup(index, name) \in Entries
             /\ Lookup(index, name).data \in Seq(Nat)
  <2>1. index # None /\ \E i \in DOMAIN index : index[i].name = name
    BY <1>1 DEF Names
  <2>2. index \in Seq(Entries)
    BY <2>1 DEF IndexInv
  <2>3. Lookup(index, name) \in Entries /\ Lookup(index, name).name = name
    BY <2>1, <2>2, LookupIs
  <2> QED BY <2>2, <2>3 DEF Entries
<1>2. ASSUME index # None, Lookup(index, name) # None PROVE name \in Names
  <2>1. index \in Seq(Entries)
    BY <1>2 DEF IndexInv
  <2> QED BY <1>2, <2>1, LookupIs DEF Names
<1> QED BY <1>1, <1>2

\* A step of p leaves what is known of q as it is.
Others(p) ==
  \A q \in Proc \ {p} :
    /\ handle'[q] = handle[q] /\ op'[q] = op[q] /\ last'[q] = last[q]
    /\ mem'[q] = mem[q] /\ disk'[q] = disk[q]

\* A step of p leaves it the descriptor it has.
KeepsFd(p) ==
  /\ handle[p] \in Handles /\ handle'[p] \in Handles
  /\ handle'[p].fd = handle[p].fd /\ handle'[p].kind = handle[p].kind
  /\ \A q \in Proc \ {p} : handle'[q] = handle[q]

LEMMA Rest ==
  ASSUME IInv, UNCHANGED <<launch, phase, index>>, phase = "running", NEW p \in Proc, Others(p),
         filled \subseteq filled', cached' \in [Names -> Proc \cup {None, Zmap}],
         \A name \in Names : cached'[name] \in Proc => <<name, cached'[name]>> \in filled',
         \A name \in Names : cached[name] # None => cached'[name] # None,
         Maps', ProcInv(p)'
  PROVE  IInv'
<1>1. Names' = Names
  BY DEF Names
<1>2. IndexInv'
  BY <1>1 DEF IInv, IndexInv
<1>3. ASSUME NEW q \in Proc \ {p} PROVE ProcInv(q)'
  <2>1. ProcInv(q)
    BY DEF IInv
  <2>2. /\ handle'[q] = handle[q] /\ op'[q] = op[q] /\ last'[q] = last[q]
        /\ mem'[q] = mem[q] /\ disk'[q] = disk[q]
    BY DEF Others
  <2>3. Sound(handle[q], disk[q])'
    <3>1. Sound(handle[q], disk[q])
      BY <2>1 DEF ProcInv
    <3> QED BY <1>1, <2>2, <3>1 DEF Sound
  <2>4. Exact(handle[q], last[q], mem[q], disk[q])'
    <3>1. Exact(handle[q], last[q], mem[q], disk[q])
      BY <2>1 DEF ProcInv
    <3> QED BY <2>2, <3>1 DEF Exact, Data, At
  <2>5. ASSUME op'[q] # None
        PROVE  /\ phase' \in {"running", "failed"} /\ last'[q] = None
               /\ \/ Inflating(q, handle[q], op[q])'
                  \/ Moving(handle[q], op[q], mem[q], disk[q])'
    <3>1. /\ phase \in {"running", "failed"} /\ last[q] = None
          /\ \/ Inflating(q, handle[q], op[q]) \/ Moving(handle[q], op[q], mem[q], disk[q])
      BY <2>1, <2>2, <2>5 DEF ProcInv
    <3>2. CASE Inflating(q, handle[q], op[q])
      BY <1>1, <2>2, <3>1, <3>2 DEF Inflating
    <3>3. CASE Moving(handle[q], op[q], mem[q], disk[q])
      <4>1. Moving(handle[q], op[q], mem[q], disk[q])'
        BY <2>2, <3>3 DEF Moving, At
      <4> QED BY <2>2, <3>1, <4>1
    <3> QED BY <3>1, <3>2, <3>3
  <2> QED BY <2>3, <2>4, <2>5 DEF ProcInv
<1> QED BY <1>2, <1>3 DEF IInv

-----------------------------------------------------------------------------
(* The steps.                                                              *)

LEMMA RestOfFiles ==
  ASSUME IInv, UNCHANGED <<launch, phase, index, cached, filled>>, phase = "running",
         NEW p \in Proc, Others(p), Maps', ProcInv(p)'
  PROVE  IInv'
<1>1. /\ cached \in [Names -> Proc \cup {None, Zmap}]
      /\ \A name \in Names : cached[name] \in Proc => <<name, cached[name]>> \in filled
  BY DEF IInv, IndexInv
<1> QED BY <1>1, Rest

\* Nothing is said of a call that failed.
LEMMA Quiet ==
  ASSUME NEW h, NEW l \in {None, Failed}, NEW m, NEW d
  PROVE  Exact(h, l, m, d)
<1>1. Failed.n = -1
  BY DEF Failed
<1> QED BY <1>1 DEF Exact

LEMMA QuietNext ==
  ASSUME NEW p \in Proc, last'[p] \in {None, Failed}
  PROVE  Exact(handle[p], last[p], mem[p], disk[p])'
<1>1. Failed.n = -1
  BY DEF Failed
<1> QED BY <1>1 DEF Exact

LEMMA AnonIs ==
  ASSUME NEW h \in Handles, h.kind = "anon"
  PROVE  /\ h.name \in Name /\ h.buf \in Proc \cup {Zmap} /\ h.pos \in Nat /\ h.fd \in Fd \cup {None}
         /\ \A x \in Nat : /\ [h EXCEPT !.pos = x] \in Handles
                           /\ [h EXCEPT !.pos = x].pos = x
                           /\ \A k \in {"kind", "name", "buf", "fd"} : [h EXCEPT !.pos = x][k] = h[k]
         /\ \A f \in Fd \cup {None} : /\ [h EXCEPT !.fd = f] \in Handles
                                      /\ [h EXCEPT !.fd = f].fd = f
                                      /\ \A k \in {"kind", "name", "buf", "pos"} :
                                           [h EXCEPT !.fd = f][k] = h[k]
<1>1. h \in [kind : {"anon"}, name : Name, buf : Proc \cup {Zmap}, pos : Nat, fd : Fd \cup {None}]
  BY DEF Handles
<1>2. /\ h.name \in Name /\ h.buf \in Proc \cup {Zmap} /\ h.pos \in Nat /\ h.fd \in Fd \cup {None}
  BY <1>1
<1>3. ASSUME NEW x \in Nat
      PROVE  /\ [h EXCEPT !.pos = x] \in Handles
             /\ [h EXCEPT !.pos = x].pos = x
             /\ \A k \in {"kind", "name", "buf", "fd"} : [h EXCEPT !.pos = x][k] = h[k]
  BY <1>1 DEF Handles
<1>4. ASSUME NEW f \in Fd \cup {None}
      PROVE  /\ [h EXCEPT !.fd = f] \in Handles
             /\ [h EXCEPT !.fd = f].fd = f
             /\ \A k \in {"kind", "name", "buf", "pos"} : [h EXCEPT !.fd = f][k] = h[k]
  BY <1>1 DEF Handles
<1> QED BY <1>2, <1>3, <1>4

LEMMA FileIs ==
  ASSUME NEW h \in Handles, h.kind = "file"
  PROVE  /\ h.modes \in SUBSET {"read", "write", "append", "excl"} /\ h.pos \in Nat /\ h.fd \in Fd
         /\ \A x \in Nat : /\ [h EXCEPT !.pos = x] \in Handles
                           /\ [h EXCEPT !.pos = x].pos = x
                           /\ \A k \in {"kind", "modes", "fd"} : [h EXCEPT !.pos = x][k] = h[k]
<1>1. h \in [kind : {"file"}, modes : SUBSET {"read", "write", "append", "excl"}, pos : Nat, fd : Fd]
  BY DEF Handles
<1>2. h.modes \in SUBSET {"read", "write", "append", "excl"} /\ h.pos \in Nat /\ h.fd \in Fd
  BY <1>1
<1>3. ASSUME NEW x \in Nat
      PROVE  /\ [h EXCEPT !.pos = x] \in Handles
             /\ [h EXCEPT !.pos = x].pos = x
             /\ \A k \in {"kind", "modes", "fd"} : [h EXCEPT !.pos = x][k] = h[k]
  BY <1>1 DEF Handles
<1> QED BY <1>2, <1>3

LEMMA OpenVfsStep ==
  ASSUME IInv, NEW p \in Proc, NEW name, OpenVfs(p, name)
  PROVE  IInv'
<1> DEFINE entry == IF index = None THEN None ELSE Lookup(index, name)
<1>1. /\ phase = "running" /\ op[p] = None /\ handle[p] = None
      /\ UNCHANGED <<launch, phase, index, argv, filled, mem, disk>>
  BY DEF OpenVfs, Idle, boot, descriptors
<1>2. /\ IndexInv /\ Maps /\ ProcInv(p)
      /\ DOMAIN op = Proc /\ DOMAIN last = Proc /\ DOMAIN handle = Proc
  BY DEF IInv, Maps
<1>3. entry # None => name \in Names
  BY <1>2, NamedIs
<1>4. ASSUME NEW buf \in Proc \cup {Zmap}, entry # None, buf = Zmap \/ <<name, buf>> \in filled,
             handle' = [handle EXCEPT ![p] = VfsHandle(name, buf)],
             last' = [last EXCEPT ![p] = None], op' = op
      PROVE  Others(p) /\ Maps' /\ ProcInv(p)'
  <2> DEFINE h == VfsHandle(name, buf)
  <2>1. name \in Name /\ Lookup(index, name).data \in Seq(Nat) /\ name \in Names
    BY <1>2, <1>3, <1>4, NamedIs
  <2>2. h \in Handles /\ h.kind = "anon" /\ h.name = name /\ h.buf = buf /\ h.pos = 0
    BY <2>1 DEF VfsHandle, Handles
  <2> HIDE DEF h
  <2>3. handle'[p] = h /\ last'[p] = None /\ op'[p] = None
    BY <1>1, <1>2, <1>4 DEF h
  <2>4. Others(p)
    BY <1>1, <1>2, <1>4 DEF Others
  <2>5. Maps'
    BY <1>1, <1>2, <1>4, <2>2 DEF Maps, h
  <2>6. Sound(handle[p], disk[p])'
    <3>1. Names' = Names
      BY <1>1 DEF Names
    <3>2. 0 <= Len(Lookup(index, name).data)
      BY <2>1
    <3> QED BY <1>1, <1>4, <2>1, <2>2, <2>3, <3>1, <3>2 DEF Sound
  <2>7. Exact(handle[p], last[p], mem[p], disk[p])'
    BY <2>3, QuietNext
  <2> QED BY <2>3, <2>4, <2>5, <2>6, <2>7 DEF ProcInv
<1>5. CASE entry = None /\ Returns(p, Failed) /\ UNCHANGED <<handle, op, cached>>
  <2>1. last' = [last EXCEPT ![p] = Failed] /\ last'[p] = Failed /\ op'[p] = None
    BY <1>1, <1>2, <1>5 DEF Returns
  <2>2. Others(p) /\ Maps'
    BY <1>1, <1>2, <1>5, <2>1 DEF Others, Maps
  <2>3. Sound(handle[p], disk[p])'
    BY <1>1, <1>5 DEF Sound
  <2>4. Exact(handle[p], last[p], mem[p], disk[p])'
    BY <2>1, QuietNext
  <2>5. ProcInv(p)'
    BY <2>1, <2>3, <2>4 DEF ProcInv
  <2> QED BY <1>1, <1>5, <2>2, <2>5, RestOfFiles
<1>6. CASE /\ entry # None /\ cached[name] # None
           /\ Handle(p, VfsHandle(name, cached[name]))
           /\ Returns(p, None) /\ UNCHANGED <<op, cached>>
  <2>1. cached[name] \in Proc \cup {Zmap} /\ (cached[name] = Zmap \/ <<name, cached[name]>> \in filled)
    BY <1>2, <1>3, <1>6 DEF IndexInv
  <2>2. Others(p) /\ Maps' /\ ProcInv(p)'
    BY <1>4, <1>6, <2>1 DEF Handle, Returns
  <2> QED BY <1>1, <1>6, <2>2, RestOfFiles
<1>7. CASE /\ entry # None /\ cached[name] = None /\ ~entry.deflated
           /\ cached' = [cached EXCEPT ![name] = Zmap]
           /\ Handle(p, VfsHandle(name, Zmap))
           /\ Returns(p, None) /\ UNCHANGED op
  <2>1. Others(p) /\ Maps' /\ ProcInv(p)'
    BY <1>4, <1>7 DEF Handle, Returns
  <2>2. cached \in [Names -> Proc \cup {None, Zmap}] /\ name \in Names
        /\ \A x \in Names : cached[x] \in Proc => <<x, cached[x]>> \in filled
    BY <1>2, <1>3, <1>7 DEF IndexInv
  <2>3. /\ cached' \in [Names -> Proc \cup {None, Zmap}]
        /\ \A x \in Names : cached'[x] \in Proc => <<x, cached'[x]>> \in filled'
        /\ \A x \in Names : cached[x] # None => cached'[x] # None
    BY <1>1, <1>7, <2>2, RuntimeAssumption
  <2> QED BY <1>1, <2>1, <2>3, Rest
<1>8. CASE /\ entry # None /\ cached[name] = None /\ entry.deflated
           /\ op' = [op EXCEPT ![p] = [do |-> "inflate", name |-> name]]
           /\ Returns(p, None) /\ UNCHANGED <<handle, cached>>
  <2>1. last' = [last EXCEPT ![p] = None] /\ last'[p] = None
    BY <1>2, <1>8 DEF Returns
  <2>2. op'[p] = [do |-> "inflate", name |-> name] /\ handle'[p] = None
    BY <1>1, <1>2, <1>8
  <2>3. Others(p) /\ Maps'
    BY <1>1, <1>2, <1>8, <2>1 DEF Others, Maps
  <2>4. Inflating(p, handle[p], op[p])'
    <3>1. Names' = Names
      BY <1>1 DEF Names
    <3> QED BY <1>3, <1>8, <2>2, <3>1 DEF Inflating
  <2>5. Sound(handle[p], disk[p])'
    BY <2>2 DEF Sound
  <2>6. Exact(handle[p], last[p], mem[p], disk[p])'
    BY <2>1, QuietNext
  <2>7. ProcInv(p)'
    BY <1>1, <2>1, <2>4, <2>5, <2>6 DEF ProcInv
  <2> QED BY <1>1, <1>8, <2>3, <2>7, RestOfFiles
<1> QED BY <1>5, <1>6, <1>7, <1>8 DEF OpenVfs

LEMMA InflateStep ==
  ASSUME IInv, NEW p \in Proc, Inflate(p)
  PROVE  IInv'
<1>1. /\ phase = "running" /\ op[p] # None /\ op[p].do = "inflate" /\ filled' = filled \cup {<<op[p].name, p>>}
      /\ op' = [op EXCEPT ![p].do = "publish"]
      /\ UNCHANGED <<launch, phase, index, argv, cached, handle, last, mem, disk>>
  BY DEF Inflate, Opening, boot
<1>2. IndexInv /\ Maps /\ ProcInv(p) /\ DOMAIN op = Proc
  BY DEF IInv, Maps
<1>3. phase = "running" /\ last[p] = None /\ Inflating(p, handle[p], op[p])
  <2>1. ~ Moving(handle[p], op[p], mem[p], disk[p])
    BY <1>1 DEF Moving, Reads, Writes
  <2> QED BY <1>1, <1>2, <2>1 DEF ProcInv
<1>4. handle[p] = None /\ op[p] \in [do : {"inflate", "publish", "return"}, name : Names]
  BY <1>3 DEF Inflating
<1>5. op'[p] = [op[p] EXCEPT !.do = "publish"]
  BY <1>1, <1>2
<1>6. op'[p] \in [do : {"inflate", "publish", "return"}, name : Names] /\ op'[p].name = op[p].name
  BY <1>4, <1>5
<1>7. Inflating(p, handle[p], op[p])'
  <2>1. Names' = Names
    BY <1>1 DEF Names
  <2> QED BY <1>1, <1>4, <1>6, <2>1 DEF Inflating
<1>8. Others(p) /\ Maps'
  BY <1>1, <1>2 DEF Others, Maps
<1>9. Sound(handle[p], disk[p])'
  BY <1>1, <1>4 DEF Sound
<1>10. Exact(handle[p], last[p], mem[p], disk[p])'
  BY <1>1, <1>3, QuietNext
<1>11. ProcInv(p)'
  BY <1>1, <1>3, <1>7, <1>9, <1>10 DEF ProcInv
<1>12. /\ cached' \in [Names -> Proc \cup {None, Zmap}]
       /\ \A x \in Names : cached'[x] \in Proc => <<x, cached'[x]>> \in filled'
       /\ \A x \in Names : cached[x] # None => cached'[x] # None
  BY <1>1, <1>2 DEF IndexInv
<1>13. filled \subseteq filled'
  BY <1>1
<1> QED BY <1>1, <1>3, <1>8, <1>11, <1>12, <1>13, Rest

LEMMA PublishStep ==
  ASSUME IInv, NEW p \in Proc, Publish(p)
  PROVE  IInv'
<1> DEFINE name == op[p].name
<1>1. /\ phase = "running" /\ op[p] # None /\ op[p].do = "publish"
      /\ cached' = [cached EXCEPT ![name] = p]
      /\ op' = [op EXCEPT ![p].do = "return"]
      /\ UNCHANGED <<launch, phase, index, argv, filled, handle, last, mem, disk>>
  BY DEF Publish, Opening, boot
<1>2. IndexInv /\ Maps /\ ProcInv(p) /\ DOMAIN op = Proc
  BY DEF IInv, Maps
<1>3. last[p] = None /\ Inflating(p, handle[p], op[p])
  <2>1. ~ Moving(handle[p], op[p], mem[p], disk[p])
    BY <1>1 DEF Moving, Reads, Writes
  <2> QED BY <1>1, <1>2, <2>1 DEF ProcInv
<1>4. /\ handle[p] = None /\ op[p] \in [do : {"inflate", "publish", "return"}, name : Names]
      /\ name \in Names /\ <<name, p>> \in filled
  BY <1>1, <1>3 DEF Inflating
<1>5. op'[p] = [op[p] EXCEPT !.do = "return"]
  BY <1>1, <1>2
<1>6. /\ op'[p] \in [do : {"inflate", "publish", "return"}, name : Names]
      /\ op'[p].do = "return" /\ op'[p].name = name
  BY <1>4, <1>5
<1> HIDE DEF name
<1>7. p # None
  BY NoneAssumption
<1>8. /\ cached' \in [Names -> Proc \cup {None, Zmap}] /\ cached'[name] = p
      /\ \A x \in Names : cached'[x] \in Proc => <<x, cached'[x]>> \in filled'
      /\ \A x \in Names : cached[x] # None => cached'[x] # None
  BY <1>1, <1>2, <1>4, <1>7 DEF IndexInv
<1>9. Inflating(p, handle[p], op[p])'
  <2>1. Names' = Names
    BY <1>1 DEF Names
  <2> QED BY <1>1, <1>4, <1>6, <1>7, <1>8, <2>1 DEF Inflating
<1>10. Others(p) /\ Maps'
  BY <1>1, <1>2 DEF Others, Maps
<1>11. Sound(handle[p], disk[p])'
  BY <1>1, <1>4 DEF Sound
<1>12. Exact(handle[p], last[p], mem[p], disk[p])'
  BY <1>1, <1>3, QuietNext
<1>13. ProcInv(p)'
  BY <1>1, <1>3, <1>9, <1>11, <1>12 DEF ProcInv
<1> QED BY <1>1, <1>8, <1>10, <1>13, Rest

\* What cached_data holds once it was set is a buffer that is filled, of
\* whichever process.
LEMMA ReturnIs ==
  ASSUME IInv, NEW p \in Proc, Return(p)
  PROVE  /\ op[p] # None /\ last[p] = None /\ handle[p] = None
         /\ op[p].name \in Names /\ op[p].name \in Name
         /\ cached[op[p].name] \in Proc \cup {Zmap}
         /\ cached[op[p].name] = Zmap \/ <<op[p].name, cached[op[p].name]>> \in filled
<1>1. op[p] # None /\ op[p].do = "return"
  BY DEF Return, Opening
<1>2. IndexInv /\ ProcInv(p)
  BY DEF IInv
<1>3. last[p] = None /\ Inflating(p, handle[p], op[p])
  <2>1. ~ Moving(handle[p], op[p], mem[p], disk[p])
    BY <1>1 DEF Moving, Reads, Writes
  <2> QED BY <1>1, <1>2, <2>1 DEF ProcInv
<1>4. handle[p] = None /\ op[p].name \in Names /\ cached[op[p].name] # None
  BY <1>1, <1>3 DEF Inflating
<1>5. op[p].name \in Name
  BY <1>2, <1>4, NamedIs
<1> QED BY <1>1, <1>2, <1>3, <1>4, <1>5 DEF IndexInv

LEMMA ReturnStep ==
  ASSUME IInv, NEW p \in Proc, Return(p)
  PROVE  IInv'
<1> DEFINE name == op[p].name
           h == VfsHandle(name, cached[name])
<1>1. /\ phase = "running"
      /\ handle' = [handle EXCEPT ![p] = h] /\ op' = [op EXCEPT ![p] = None]
      /\ UNCHANGED <<launch, phase, index, argv, cached, filled, last, mem, disk>>
  BY DEF Return, Opening, boot, cache, Handle
<1>2. IndexInv /\ Maps /\ DOMAIN op = Proc /\ DOMAIN handle = Proc
  BY DEF IInv, Maps
<1>3. /\ last[p] = None /\ name \in Names /\ name \in Name /\ cached[name] \in Proc \cup {Zmap}
      /\ cached[name] = Zmap \/ <<name, cached[name]>> \in filled
  BY ReturnIs
<1> HIDE DEF name
<1>4. Lookup(index, name).data \in Seq(Nat)
  BY <1>2, <1>3, NamedIs
<1>5. h \in Handles /\ h.kind = "anon" /\ h.name = name /\ h.buf = cached[name] /\ h.pos = 0
  BY <1>3 DEF VfsHandle, Handles
<1> HIDE DEF h
<1>6. handle'[p] = h /\ op'[p] = None /\ last'[p] = None
  BY <1>1, <1>2, <1>3
<1>7. Others(p) /\ Maps'
  BY <1>1, <1>2, <1>5 DEF Others, Maps
<1>8. Sound(handle[p], disk[p])'
  <2>1. Names' = Names
    BY <1>1 DEF Names
  <2>2. 0 <= Len(Lookup(index, name).data)
    BY <1>4
  <2> QED BY <1>1, <1>3, <1>5, <1>6, <2>1, <2>2 DEF Sound
<1>9. Exact(handle[p], last[p], mem[p], disk[p])'
  BY <1>6, QuietNext
<1>10. ProcInv(p)'
  BY <1>6, <1>8, <1>9 DEF ProcInv
<1> QED BY <1>1, <1>7, <1>10, RestOfFiles

\* A step that ends no transfer.
LEMMA QuietStep ==
  ASSUME IInv, UNCHANGED <<launch, phase, index, cached, filled>>, phase = "running",
         NEW p \in Proc, Others(p), Maps', op'[p] = None, last'[p] \in {None, Failed},
         Sound(handle[p], disk[p])'
  PROVE  IInv'
<1>1. Exact(handle[p], last[p], mem[p], disk[p])'
  BY QuietNext
<1>2. ProcInv(p)'
  BY <1>1 DEF ProcInv
<1> QED BY <1>2, RestOfFiles

LEMMA FreeIs ==
  ASSUME Free # {}
  PROVE  Least(Free) \in Free /\ Least(Free) \in Fd /\ fds[Least(Free)] = "closed"
<1>1. Free \in SUBSET Nat
  BY RuntimeAssumption DEF Free
<1>2. Least(Free) \in Free
  BY <1>1, LeastIs
<1> QED BY <1>2 DEF Free

LEMMA OpenFileStep ==
  ASSUME IInv, NEW p \in Proc, NEW modes \in Modes, OpenFile(p, modes)
  PROVE  IInv'
<1> DEFINE flags == GetFlags(modes)
           fd == Least(Free)
<1>1. /\ phase = "running" /\ op[p] = None /\ handle[p] = None
      /\ UNCHANGED <<launch, phase, index, argv, cached, filled, op, mem>>
  BY DEF OpenFile, Idle, boot, cache
<1>2. IndexInv /\ Maps /\ ProcInv(p)
  BY DEF IInv
<1>3. CASE Returns(p, Failed) /\ UNCHANGED <<handle, disk>>
  <2>1. last' = [last EXCEPT ![p] = Failed] /\ last'[p] = Failed
    BY <1>2, <1>3 DEF Returns, Maps
  <2>2. Others(p) /\ Maps'
    BY <1>1, <1>2, <1>3, <2>1 DEF Others, Maps
  <2>3. Sound(handle[p], disk[p])'
    BY <1>1, <1>3 DEF Sound
  <2> QED BY <1>1, <1>3, <2>1, <2>2, <2>3, QuietStep
<1>4. CASE /\ disk[p] # None \/ "creat" \in flags
           /\ Free # {}
           /\ disk' = [disk EXCEPT ![p] = IF disk[p] = None \/ "trunc" \in flags THEN <<>> ELSE @]
           /\ Handle(p, [kind |-> "file", modes |-> modes, pos |-> 0, fd |-> fd])
           /\ Returns(p, None)
  <2> DEFINE h == [kind |-> "file", modes |-> modes, pos |-> 0, fd |-> fd]
             d == IF disk[p] = None \/ "trunc" \in flags THEN <<>> ELSE disk[p]
  <2>1. h \in Handles /\ h.kind = "file" /\ h.pos = 0
    BY <1>4, FreeIs DEF Handles, Modes
  <2> HIDE DEF h
  <2>2. d \in Stores
    <3>1. <<>> \in Stores
      BY RuntimeAssumption DEF Stores
    <3>2. disk[p] \in Stores \cup {None}
      BY <1>2 DEF Maps
    <3> QED BY <3>1, <3>2
  <2>3. disk' = [disk EXCEPT ![p] = d] /\ handle' = [handle EXCEPT ![p] = h]
        /\ last' = [last EXCEPT ![p] = None]
    BY <1>4 DEF Handle, Returns, h
  <2> HIDE DEF d
  <2>4. disk'[p] = d /\ handle'[p] = h /\ last'[p] = None
    BY <1>2, <2>3 DEF Maps
  <2>5. Others(p) /\ Maps'
    BY <1>1, <1>2, <2>1, <2>2, <2>3 DEF Others, Maps
  <2>6. Sound(handle[p], disk[p])'
    BY <2>1, <2>2, <2>4, RuntimeAssumption DEF Sound
  <2> QED BY <1>1, <2>4, <2>5, <2>6, QuietStep
<1> QED BY <1>3, <1>4 DEF OpenFile

LEMMA CloseStep ==
  ASSUME IInv, NEW p \in Proc, Close(p)
  PROVE  IInv'
<1>1. /\ phase = "running" /\ op[p] = None
      /\ handle' = [handle EXCEPT ![p] = None] /\ last' = [last EXCEPT ![p] = None]
      /\ mem' = [mem EXCEPT ![p] = <<>>]
      /\ UNCHANGED <<launch, phase, index, argv, cached, filled, op, disk>>
  BY DEF Close, Idle, boot, cache, Handle, Returns
<1>2. Maps
  BY DEF IInv
<1>3. handle'[p] = None /\ last'[p] = None /\ op'[p] = None
  BY <1>1, <1>2 DEF Maps
<1>4. Others(p) /\ Maps'
  BY <1>1, <1>2 DEF Others, Maps
<1>5. Sound(handle[p], disk[p])'
  BY <1>3 DEF Sound
<1> QED BY <1>1, <1>3, <1>4, <1>5, QuietStep

\* The handle of an entry whose position or descriptor changes.
LEMMA SoundAnon ==
  ASSUME IInv, UNCHANGED <<index, filled>>, NEW p \in Proc, Vfs(p),
         handle'[p] \in Handles, \A k \in {"kind", "name", "buf"} : handle'[p][k] = handle[p][k],
         handle'[p].pos <= Len(Lookup(index, handle[p].name).data)
  PROVE  Sound(handle[p], disk[p])'
<1>1. Sound(handle[p], disk[p]) /\ handle[p] # None /\ handle[p].kind = "anon"
  BY DEF IInv, ProcInv, Vfs
<1>2. Names' = Names
  BY DEF Names
<1>3. handle'[p].kind = "anon" /\ handle'[p].name = handle[p].name /\ handle'[p].buf = handle[p].buf
  BY <1>1
<1>4. handle[p].name \in Names /\ (handle[p].buf = Zmap \/ <<handle[p].name, handle[p].buf>> \in filled)
  BY <1>1 DEF Sound
<1> QED BY <1>2, <1>3, <1>4 DEF Sound

\* An open entry.
LEMMA VfsIs ==
  ASSUME IInv, NEW p \in Proc, Vfs(p)
  PROVE  /\ phase = "running" /\ op[p] = None
         /\ handle[p] \in Handles /\ handle[p].kind = "anon"
         /\ handle[p].name \in Names /\ index \in Seq(Entries)
         /\ Lookup(index, handle[p].name).data \in Seq(Nat)
         /\ handle[p].pos \in 0 .. Len(Lookup(index, handle[p].name).data)
         /\ Contents(p) = Lookup(index, handle[p].name).data
<1>1. /\ phase = "running" /\ op[p] = None
      /\ handle[p] \in Handles /\ handle[p].kind = "anon"
  BY DEF IInv, Maps, Vfs, Idle
<1>2. /\ handle[p].name \in Names
      /\ handle[p].pos <= Len(Lookup(index, handle[p].name).data)
      /\ handle[p].buf = Zmap \/ <<handle[p].name, handle[p].buf>> \in filled
  BY <1>1 DEF IInv, ProcInv, Sound, Vfs
<1>3. /\ index \in Seq(Entries) /\ Lookup(index, handle[p].name).data \in Seq(Nat)
  BY <1>2, NamedIs DEF IInv
<1>4. handle[p].pos \in Nat
  BY <1>1, AnonIs
<1>5. handle[p].pos \in 0 .. Len(Lookup(index, handle[p].name).data)
  BY <1>2, <1>3, <1>4
<1>6. Contents(p) = Lookup(index, handle[p].name).data
  BY <1>2 DEF Contents
<1> QED BY <1>1, <1>2, <1>3, <1>5, <1>6

LEMMA GetHandleStep ==
  ASSUME IInv, NEW p \in Proc, GetHandle(p)
  PROVE  IInv'
<1> DEFINE closed == [f \in Fd |-> IF f = handle[p].fd THEN "closed" ELSE fds[f]]
           free == {f \in Fd : closed[f] = "closed"}
<1>1. Vfs(p) /\ UNCHANGED <<launch, phase, index, argv, cached, filled, op, mem, disk>>
      /\ last' = [last EXCEPT ![p] = None]
  BY DEF GetHandle, boot, cache, Returns
<1>2. PICK fd \in MakeAnonFd(free) : handle' = [handle EXCEPT ![p] = [handle[p] EXCEPT !.fd = fd]]
  BY DEF GetHandle, Handle
<1>3. fd \in Fd \cup {None}
  <2>1. free \in SUBSET Nat /\ free \subseteq Fd
    BY RuntimeAssumption
  <2> HIDE DEF free
  <2>2. free # {} => Least(free) \in free
    BY <2>1, LeastIs
  <2> QED BY <1>2, <2>1, <2>2 DEF MakeAnonFd
<1>4. Maps /\ handle[p] \in Handles /\ handle[p].kind = "anon" /\ op[p] = None /\ phase = "running"
      /\ handle[p].pos \in 0 .. Len(Lookup(index, handle[p].name).data)
  BY <1>1, VfsIs DEF IInv
<1> DEFINE h == [handle[p] EXCEPT !.fd = fd]
<1>5. h \in Handles /\ \A k \in {"kind", "name", "buf", "pos"} : h[k] = handle[p][k]
  BY <1>3, <1>4, AnonIs
<1> HIDE DEF h
<1>6. handle'[p] = h /\ last'[p] = None /\ op'[p] = None
  BY <1>1, <1>2, <1>4 DEF h, Maps
<1>7. Others(p) /\ Maps'
  BY <1>1, <1>2, <1>4, <1>5 DEF h, Others, Maps
<1>8. Sound(handle[p], disk[p])'
  <2>1. h.pos <= Len(Lookup(index, handle[p].name).data)
    <3>1. h.pos = handle[p].pos
      BY <1>5
    <3> QED BY <1>4, <3>1
  <2>2. \A k \in {"kind", "name", "buf"} : handle'[p][k] = handle[p][k]
    BY <1>5, <1>6
  <2> QED BY <1>1, <1>5, <1>6, <2>1, <2>2, SoundAnon
<1> QED BY <1>1, <1>4, <1>6, <1>7, <1>8, QuietStep

LEMMA DupHandleStep ==
  ASSUME IInv, NEW p \in Proc, DupHandle(p)
  PROVE  IInv'
<1>1. /\ phase = "running" /\ op[p] = None /\ last' = [last EXCEPT ![p] = None]
      /\ UNCHANGED <<launch, phase, index, argv, cached, filled, handle, op, mem, disk>>
  BY DEF DupHandle, Vfs, File, Idle, boot, cache, Returns
<1>2. Maps /\ Sound(handle[p], disk[p])
  BY DEF IInv, ProcInv
<1>3. last'[p] = None /\ op'[p] = None
  BY <1>1, <1>2 DEF Maps
<1>4. Others(p) /\ Maps'
  BY <1>1, <1>2 DEF Others, Maps
<1>5. Sound(handle[p], disk[p])'
  BY <1>1, <1>2 DEF Sound, Names
<1> QED BY <1>1, <1>3, <1>4, <1>5, QuietStep

LEMMA RefuseVfsStep ==
  ASSUME IInv, NEW p \in Proc, RefuseVfs(p)
  PROVE  IInv'
<1>1. /\ phase = "running" /\ op[p] = None /\ last' = [last EXCEPT ![p] = Failed]
      /\ mem' = [mem EXCEPT ![p] = <<>>]
      /\ UNCHANGED <<launch, phase, index, argv, cached, filled, handle, op, disk>>
  BY DEF RefuseVfs, Vfs, Idle, boot, cache, Returns
<1>2. Maps /\ Sound(handle[p], disk[p])
  BY DEF IInv, ProcInv
<1>3. last'[p] = Failed /\ op'[p] = None
  BY <1>1, <1>2 DEF Maps
<1>4. Others(p) /\ Maps'
  BY <1>1, <1>2 DEF Others, Maps
<1>5. Sound(handle[p], disk[p])'
  BY <1>1, <1>2 DEF Sound, Names
<1> QED BY <1>1, <1>3, <1>4, <1>5, QuietStep

LEMMA SeekVfsStep ==
  ASSUME IInv, NEW p \in Proc, NEW base, NEW offset \in Offsets, SeekVfs(p, base, offset)
  PROVE  IInv' /\ KeepsFd(p)
<1> DEFINE size == Len(Lookup(index, handle[p].name).data)
           to == offset + (IF base = "bof" THEN 0 ELSE IF base = "cur" THEN handle[p].pos ELSE size)
           x == IF to < 0 THEN 0 ELSE Smaller(to, size)
           h == [handle[p] EXCEPT !.pos = x]
<1>1. /\ Vfs(p) /\ last' = [last EXCEPT ![p] = None]
      /\ mem' = [mem EXCEPT ![p] = <<>>] /\ handle' = [handle EXCEPT ![p] = h]
      /\ UNCHANGED <<launch, phase, index, argv, cached, filled, op, disk>>
  BY DEF SeekVfs, boot, cache, Returns
<1>2. /\ Maps /\ handle[p] \in Handles /\ handle[p].kind = "anon" /\ op[p] = None /\ phase = "running"
      /\ size \in Nat /\ handle[p].pos \in Nat
  BY <1>1, VfsIs DEF IInv
<1>3. offset \in Int
  BY RuntimeAssumption
<1> HIDE DEF size
<1>4. x \in Nat /\ x <= size
  BY <1>2, <1>3 DEF Smaller
<1> HIDE DEF x
<1>5. h \in Handles /\ h.pos = x /\ \A k \in {"kind", "name", "buf", "fd"} : h[k] = handle[p][k]
  BY <1>2, <1>4, AnonIs
<1> HIDE DEF h
<1>6. handle'[p] = h /\ last'[p] = None /\ op'[p] = None
  BY <1>1, <1>2 DEF Maps
<1>7. Others(p) /\ Maps'
  BY <1>1, <1>2, <1>5 DEF Others, Maps
<1>8. Sound(handle[p], disk[p])'
  <2>1. \A k \in {"kind", "name", "buf"} : handle'[p][k] = handle[p][k]
    BY <1>5, <1>6
  <2> QED BY <1>1, <1>4, <1>5, <1>6, <2>1, SoundAnon DEF size
<1>9. KeepsFd(p)
  <2>1. h.kind = handle[p].kind /\ h.fd = handle[p].fd
    BY <1>5
  <2> QED BY <1>2, <1>5, <1>6, <1>7, <2>1 DEF KeepsFd, Others
<1> QED BY <1>9, <1>1, <1>2, <1>6, <1>7, <1>8, QuietStep

\* An open file of the system.
LEMMA FileIsOpen ==
  ASSUME IInv, NEW p \in Proc, File(p)
  PROVE  /\ phase = "running" /\ op[p] = None
         /\ handle[p] \in Handles /\ handle[p].kind = "file" /\ handle[p].pos \in 0 .. MaxFile
         /\ disk[p] \in Seq(Nat) /\ Len(disk[p]) <= MaxFile /\ MaxFile \in Nat
         /\ handle[p].modes \in SUBSET {"read", "write", "append", "excl"}
<1>1. /\ phase = "running" /\ op[p] = None
      /\ handle[p] \in Handles /\ handle[p].kind = "file"
  BY DEF IInv, Maps, File, Idle
<1>2. handle[p].pos <= MaxFile /\ disk[p] \in Stores
  BY <1>1 DEF IInv, ProcInv, Sound, File
<1> QED BY <1>1, <1>2, FileIs, RuntimeAssumption DEF Stores

LEMMA SeekFileStep ==
  ASSUME IInv, NEW p \in Proc, NEW base, NEW offset \in Offsets, SeekFile(p, base, offset)
  PROVE  IInv' /\ KeepsFd(p)
<1> DEFINE to == offset + (IF base = "bof" THEN 0 ELSE IF base = "cur" THEN handle[p].pos ELSE Len(disk[p]))
           h == [handle[p] EXCEPT !.pos = to]
<1>1. /\ File(p) /\ to <= MaxFile /\ mem' = [mem EXCEPT ![p] = <<>>]
      /\ UNCHANGED <<launch, phase, index, argv, cached, filled, op, disk>>
      /\ \/ last' = [last EXCEPT ![p] = Failed] /\ UNCHANGED handle
         \/ to >= 0 /\ handle' = [handle EXCEPT ![p] = h] /\ last' = [last EXCEPT ![p] = None]
  BY DEF SeekFile, boot, cache, Returns
<1>2. /\ Maps /\ handle[p] \in Handles /\ handle[p].kind = "file" /\ op[p] = None /\ phase = "running"
      /\ handle[p].pos \in Nat /\ Len(disk[p]) \in Nat /\ disk[p] \in Stores
      /\ Sound(handle[p], disk[p])
  BY <1>1, FileIsOpen DEF IInv, ProcInv, Stores
<1>3. to \in Int
  BY <1>2, RuntimeAssumption
<1> HIDE DEF to
<1>4. CASE last' = [last EXCEPT ![p] = Failed] /\ UNCHANGED handle
  <2>1. last'[p] = Failed /\ op'[p] = None
    BY <1>1, <1>2, <1>4 DEF Maps
  <2>2. Others(p) /\ Maps'
    BY <1>1, <1>2, <1>4 DEF Others, Maps
  <2>3. Sound(handle[p], disk[p])'
    BY <1>1, <1>2, <1>4 DEF Sound, Names
  <2>4. KeepsFd(p)
    BY <1>2, <1>4 DEF KeepsFd
  <2> QED BY <1>1, <1>2, <2>1, <2>2, <2>3, <2>4, QuietStep
<1>5. CASE to >= 0 /\ handle' = [handle EXCEPT ![p] = h] /\ last' = [last EXCEPT ![p] = None]
  <2>1. h \in Handles /\ h.pos = to /\ h.kind = "file" /\ h.fd = handle[p].fd
    <3>1. to \in Nat
      BY <1>3, <1>5
    <3>2. \A k \in {"kind", "modes", "fd"} : h[k] = handle[p][k]
      BY <1>2, <3>1, FileIs
    <3> QED BY <1>2, <3>1, <3>2, FileIs
  <2> HIDE DEF h
  <2>2. handle'[p] = h /\ last'[p] = None /\ op'[p] = None
    BY <1>1, <1>2, <1>5 DEF Maps
  <2>3. Others(p) /\ Maps'
    BY <1>1, <1>2, <1>5, <2>1 DEF Others, Maps
  <2>4. Sound(handle[p], disk[p])'
    BY <1>1, <1>2, <2>1, <2>2 DEF Sound, Stores
  <2>5. KeepsFd(p)
    BY <1>2, <2>1, <2>2, <2>3 DEF KeepsFd, Others
  <2> QED BY <1>1, <1>2, <2>2, <2>3, <2>4, <2>5, QuietStep
<1> QED BY <1>1, <1>4, <1>5

LEMMA TruncateFileStep ==
  ASSUME IInv, NEW p \in Proc, TruncateFile(p)
  PROVE  IInv'
<1> DEFINE d == [i \in 1 .. handle[p].pos |-> IF i <= Len(disk[p]) THEN disk[p][i] ELSE 0]
<1>1. /\ File(p) /\ mem' = [mem EXCEPT ![p] = <<>>] /\ last' = [last EXCEPT ![p] = None]
      /\ disk' = [disk EXCEPT ![p] = d]
      /\ UNCHANGED <<launch, phase, index, argv, cached, filled, handle, op>>
  BY DEF TruncateFile, boot, cache, Returns
<1>2. /\ Maps /\ handle[p] \in Handles /\ handle[p].kind = "file" /\ op[p] = None /\ phase = "running"
      /\ handle[p].pos \in Nat /\ handle[p].pos <= MaxFile /\ disk[p] \in Seq(Nat) /\ MaxFile \in Nat
  BY <1>1, FileIsOpen DEF IInv
<1>3. d \in Stores
  <2>1. d \in [1 .. handle[p].pos -> Nat] /\ DOMAIN d = 1 .. handle[p].pos
    BY <1>2
  <2>2. d \in Seq(Nat)
    BY <1>2, <2>1, SeqDef
  <2>3. Len(d) = handle[p].pos
    BY <1>2, <2>1, <2>2
  <2> QED BY <1>2, <2>2, <2>3 DEF Stores
<1> HIDE DEF d
<1>4. disk'[p] = d /\ last'[p] = None /\ op'[p] = None
  BY <1>1, <1>2 DEF Maps
<1>5. Others(p) /\ Maps'
  BY <1>1, <1>2, <1>3 DEF Others, Maps
<1>6. Sound(handle[p], disk[p])'
  BY <1>1, <1>2, <1>3, <1>4 DEF Sound
<1> QED BY <1>1, <1>2, <1>4, <1>5, <1>6, QuietStep

LEMMA ReadVfsStep ==
  ASSUME IInv, NEW p \in Proc, NEW do \in Reads, NEW lens \in ReadIovs, NEW offset \in Offsets,
         ReadVfs(p, do, lens, offset)
  PROVE  IInv' /\ KeepsFd(p)
<1> DEFINE data == Lookup(index, handle[p].name).data
           from == IF do = "read" THEN handle[p].pos ELSE IF offset < 0 THEN 0 ELSE offset
           n == Copied(lens, Left(data, from))
           h == [handle[p] EXCEPT !.pos = from + n]
           c == Call(p, do, lens, from)
<1>1. Vfs(p) /\ Contents(p) = data
  BY VfsIs DEF ReadVfs
<1>2. /\ mem' = [mem EXCEPT ![p] = SubSeq(data, from + 1, from + n)]
      /\ handle' = IF do = "read" THEN [handle EXCEPT ![p] = h] ELSE handle
      /\ last' = [last EXCEPT ![p] = [call |-> c, n |-> n]]
      /\ UNCHANGED <<launch, phase, index, argv, cached, filled, op, disk>>
  BY <1>1 DEF ReadVfs, boot, cache, Returns
<1>3. /\ Maps /\ handle[p] \in Handles /\ handle[p].kind = "anon" /\ op[p] = None /\ phase = "running"
      /\ data \in Seq(Nat) /\ handle[p].pos \in 0 .. Len(data) /\ Sound(handle[p], disk[p])
  BY <1>1, VfsIs DEF IInv, ProcInv
<1>4. do = "read" \/ do = "pread"
  BY DEF Reads
<1>5. c.do = do /\ c.want = Total(lens) /\ c.from = from /\ c.pos = handle[p].pos
  BY DEF Call
<1> HIDE DEF data, c
<1>6. from \in Nat /\ Left(data, from) \in Nat /\ (Left(data, from) > 0 => from + Left(data, from) = Len(data))
  <2>1. from \in Nat
    BY <1>3, RuntimeAssumption
  <2> HIDE DEF from
  <2> QED BY <1>3, <2>1 DEF Left
<1>7. from <= Len(data) => from + Left(data, from) = Len(data)
  <2> HIDE DEF from
  <2> QED BY <1>3, <1>6 DEF Left
<1>8. do = "read" => from = handle[p].pos
  OBVIOUS
<1> HIDE DEF from
<1>9. n = Smaller(Total(lens), Left(data, from)) /\ n \in Nat /\ n <= Left(data, from)
  <2> DEFINE avail == Left(data, from)
             total == Total(lens)
  <2>1. avail \in Nat
    BY <1>6
  <2> HIDE DEF avail
  <2>2. lens \in Seq(Nat) /\ Copied(lens, avail) = Smaller(total, avail)
    BY <2>1, CopiedIs
  <2>3. total \in Nat
    BY <2>2, TotalIs
  <2>4. n = Smaller(total, avail)
    BY <2>2 DEF avail
  <2> HIDE DEF n, total
  <2>5. n \in Nat /\ n <= avail
    BY <2>1, <2>3, <2>4 DEF Smaller
  <2> QED BY <2>4, <2>5 DEF avail, total
<1> HIDE DEF n
<1>10. \A i \in 1 .. n : SubSeq(data, from + 1, from + n)[i] = data[from + i]
  <2> SUFFICES ASSUME NEW i \in 1 .. n PROVE SubSeq(data, from + 1, from + n)[i] = data[from + i]
    OBVIOUS
  <2> DEFINE avail == Left(data, from)
  <2>1. avail \in Nat /\ n <= avail /\ from \in Nat /\ n \in Nat
        /\ (avail > 0 => from + avail = Len(data))
    BY <1>6, <1>9
  <2> HIDE DEF avail
  <2>2. from + n <= Len(data) /\ Len(data) \in Nat /\ i \in 1 .. n /\ n > 0
    BY <1>3, <2>1
  <2> QED BY <1>3, <2>1, <2>2
<1>11. h \in Handles /\ h.pos = from + n /\ \A k \in {"kind", "name", "buf", "fd"} : h[k] = handle[p][k]
  <2>1. from + n \in Nat
    BY <1>6, <1>9
  <2> QED BY <1>3, <2>1, AnonIs
<1> HIDE DEF h
<1>12. /\ handle'[p] = (IF do = "read" THEN h ELSE handle[p]) /\ op'[p] = None
       /\ last'[p] = [call |-> c, n |-> n] /\ mem'[p] = SubSeq(data, from + 1, from + n)
  BY <1>2, <1>3 DEF Maps
<1>13. Others(p) /\ Maps'
  <2>1. handle' \in [Proc -> Handles \cup {None}]
    BY <1>2, <1>3, <1>11 DEF Maps
  <2>2. DOMAIN last' = Proc /\ DOMAIN mem' = Proc /\ DOMAIN op' = Proc
        /\ disk' \in [Proc -> Stores \cup {None}]
    BY <1>2, <1>3 DEF Maps
  <2>3. \A q \in Proc \ {p} : handle'[q] = handle[q]
    BY <1>2, <1>3 DEF Maps
  <2>4. \A q \in Proc \ {p} : last'[q] = last[q] /\ mem'[q] = mem[q]
    BY <1>2, <1>3 DEF Maps
  <2> QED BY <1>2, <2>1, <2>2, <2>3, <2>4 DEF Others, Maps
<1>14. /\ handle'[p] \in Handles /\ \A k \in {"kind", "name", "buf"} : handle'[p][k] = handle[p][k]
       /\ handle'[p].pos = IF do = "read" THEN from + n ELSE handle[p].pos
  BY <1>3, <1>11, <1>12
<1>15. Sound(handle[p], disk[p])'
  <2>1. handle'[p].pos <= Len(data)
    <3>1. CASE do = "read"
      BY <1>3, <1>6, <1>7, <1>8, <1>9, <1>14, <3>1
    <3>2. CASE do # "read"
      BY <1>3, <1>14, <3>2
    <3> QED BY <3>1, <3>2
  <2> QED BY <1>1, <1>2, <1>14, <2>1, SoundAnon DEF data
<1>16. Exact(handle[p], last[p], mem[p], disk[p])'
  <2>1. Data(handle[p], disk[p])' = data
    <3>1. handle'[p].kind = "anon" /\ handle'[p].name = handle[p].name
      BY <1>3, <1>14
    <3> QED BY <1>2, <3>1 DEF Data, data
  <2>2. last'[p].n = n /\ last'[p].call = c
    BY <1>12
  <2>3. do \in Reads /\ do \notin Writes
    BY <1>4 DEF Reads, Writes
  <2>4. handle'[p].pos = IF do \in {"pread", "pwrite"} THEN c.pos ELSE IF n = 0 THEN c.from ELSE from + n
    BY <1>4, <1>5, <1>6, <1>8, <1>9, <1>14
  <2>5. n = Smaller(c.want, Left(data, c.from))
    BY <1>5, <1>9
  <2>6. \A i \in 1 .. n : mem'[p][i] = data[c.from + i]
    BY <1>5, <1>10, <1>12
  <2> QED BY <1>5, <2>1, <2>2, <2>3, <2>4, <2>5, <2>6 DEF Exact
<1>17. ProcInv(p)'
  BY <1>12, <1>15, <1>16 DEF ProcInv
<1>18. KeepsFd(p)
  <2>1. h.kind = handle[p].kind /\ h.fd = handle[p].fd
    BY <1>11
  <2> QED BY <1>3, <1>11, <1>12, <1>13, <2>1 DEF KeepsFd, Others
<1> QED BY <1>18, <1>2, <1>3, <1>13, <1>17, RestOfFiles

\* A call under way, or that was when the emulator exited.
Calling(p) == op[p] # None /\ op[p].do \in Reads \cup Writes

LEMMA CallingIs ==
  ASSUME IInv, NEW p \in Proc, Calling(p)
  PROVE  /\ last[p] = None
         /\ Moving(handle[p], op[p], mem[p], disk[p])
         /\ handle[p].pos \in 0 .. MaxFile /\ disk[p] \in Stores
<1>1. op[p] # None /\ op[p].do \in {"read", "pread", "write", "pwrite"}
  BY DEF Calling, Reads, Writes
<1>2. ProcInv(p) /\ Maps
  BY DEF IInv
<1>3. ~ Inflating(p, handle[p], op[p])
  BY <1>1 DEF Inflating
<1>4. last[p] = None /\ Moving(handle[p], op[p], mem[p], disk[p])
  BY <1>1, <1>2, <1>3 DEF ProcInv
<1>5. handle[p] \in Handles /\ handle[p].kind = "file"
  BY <1>4 DEF Moving
<1>6. handle[p] # None
  BY <1>5, NoneAssumption
<1>7. handle[p].pos <= MaxFile /\ disk[p] \in Stores
  BY <1>2, <1>5, <1>6 DEF ProcInv, Sound
<1>8. handle[p].pos \in 0 .. MaxFile
  BY <1>5, <1>7, FileIs, RuntimeAssumption
<1> QED BY <1>4, <1>7, <1>8

LEMMA BusyIs ==
  ASSUME IInv, NEW p \in Proc, Busy(p)
  PROVE  /\ phase = "running" /\ last[p] = None
         /\ Moving(handle[p], op[p], mem[p], disk[p])
         /\ handle[p].pos \in 0 .. MaxFile /\ disk[p] \in Stores
BY CallingIs DEF Calling, Busy

\* A step of a transfer that goes on.
LEMMA MovingStep ==
  ASSUME IInv, UNCHANGED <<launch, phase, index, cached, filled>>, phase = "running",
         NEW p \in Proc, Others(p), Maps', last'[p] = None,
         Moving(handle[p], op[p], mem[p], disk[p])', handle'[p].pos <= MaxFile, disk'[p] \in Stores
  PROVE  IInv'
<1>1. handle'[p] \in Handles /\ handle'[p].kind = "file"
  BY DEF Moving
<1>2. Sound(handle[p], disk[p])'
  BY <1>1 DEF Sound
<1>3. Exact(handle[p], last[p], mem[p], disk[p])'
  BY QuietNext
<1>4. ProcInv(p)'
  BY <1>2, <1>3 DEF ProcInv
<1> QED BY <1>4, RestOfFiles

LEMMA BeginIoStep ==
  ASSUME IInv, NEW p \in Proc, NEW do \in Reads \cup Writes, NEW lens \in ReadIovs \cup WriteIovs,
         NEW offset \in Offsets, BeginIo(p, do, lens, offset)
  PROVE  IInv'
<1> DEFINE from == IF do \in {"read", "write"} THEN handle[p].pos ELSE offset
           c == Call(p, do, lens, from)
           want == Total(lens)
           iov == Iov(lens)
           o == [do |-> do, call |-> c, iov |-> iov, at |-> from, n |-> 0]
           m == IF do \in Writes THEN Source(want) ELSE [i \in 1 .. want |-> None]
<1>1. /\ File(p) /\ from >= 0
      /\ do \in Writes => /\ from + want <= MaxFile
                          /\ Len(disk[p]) + want <= MaxFile \/ "append" \notin handle[p].modes
      /\ op' = [op EXCEPT ![p] = o] /\ mem' = [mem EXCEPT ![p] = m]
      /\ last' = [last EXCEPT ![p] = None]
      /\ UNCHANGED <<launch, phase, index, argv, cached, filled, handle, disk>>
  BY DEF BeginIo, boot, cache, Returns
<1>2. /\ phase = "running" /\ handle[p] \in Handles /\ handle[p].kind = "file"
      /\ handle[p].pos \in 0 .. MaxFile /\ disk[p] \in Seq(Nat) /\ Len(disk[p]) <= MaxFile
      /\ MaxFile \in Nat
  BY <1>1, FileIsOpen
<1>3. Maps
  BY DEF IInv
<1>4. want \in Nat /\ Chain(iov, 0, want) /\ Dense(iov) /\ iov \in Seq(Element)
  BY ChainOfLens DEF Chain
<1>5. c.do = do /\ c.want = want /\ c.from = from /\ c.pos = handle[p].pos /\ c.was = disk[p]
  BY DEF Call
<1>6. from \in 0 .. MaxFile /\ (do \in {"read", "write"} => from = handle[p].pos)
  BY <1>1, <1>2, RuntimeAssumption
<1> HIDE DEF from, c, want, iov
<1>7. o.do = do /\ o.call = c /\ o.iov = iov /\ o.at = from /\ o.n = 0
  OBVIOUS
<1>8. o \in [do : Reads \cup Writes, call : {c}, iov : Seq(Element), at : Nat, n : Nat]
  BY <1>4, <1>6
<1> HIDE DEF o, m
<1>9. op'[p] = o /\ mem'[p] = m /\ last'[p] = None /\ handle'[p] = handle[p] /\ disk'[p] = disk[p]
  BY <1>1, <1>3 DEF Maps
<1>10. Others(p) /\ Maps'
  BY <1>1, <1>3 DEF Others, Maps
<1>11. Moving(handle[p], o, m, disk[p])
  <2>1. do \in Reads => /\ 0 <= Left(disk[p], from)
                        /\ m \in [1 .. want -> Nat \cup {None}]
                        /\ \A i \in 1 .. 0 : m[i] = disk[p][from + i]
    <3> SUFFICES ASSUME do \in Reads
                 PROVE  0 <= Left(disk[p], from) /\ m \in [1 .. want -> Nat \cup {None}]
      OBVIOUS
    <3>1. 0 <= Left(disk[p], from)
      BY <1>2, <1>6 DEF Left
    <3>2. m = [i \in 1 .. want |-> None]
      BY DEF m, Reads, Writes
    <3> QED BY <3>1, <3>2
  <2>2. do \in Writes =>
          /\ disk[p] \in Stores /\ from + want <= MaxFile
          /\ "append" \in handle[p].modes => Len(disk[p]) + want <= MaxFile
          /\ m = Source(want)
    BY <1>1, <1>2 DEF m, Stores
  <2>3. handle[p].pos = IF do \in {"pread", "pwrite"} THEN c.pos ELSE from
    BY <1>5, <1>6 DEF Reads, Writes
  <2>4. from = from + 0
    BY <1>6
  <2> QED BY <1>2, <1>4, <1>5, <1>6, <1>7, <1>8, <2>1, <2>2, <2>3, <2>4 DEF Moving
<1>12. Moving(handle[p], op[p], mem[p], disk[p])'
  <2>1. Moving(handle'[p], op'[p], mem'[p], disk'[p])
    BY <1>9, <1>11
  <2> QED BY <2>1 DEF Moving, At, Stores, Left
<1>13. handle'[p].pos <= MaxFile /\ disk'[p] \in Stores
  BY <1>2, <1>9 DEF Stores
<1> QED BY <1>1, <1>2, <1>9, <1>10, <1>12, <1>13, MovingStep

LEMMA IoFailsStep ==
  ASSUME IInv, NEW p \in Proc, IoFails(p)
  PROVE  IInv'
<1>1. /\ Busy(p) /\ op' = [op EXCEPT ![p] = None]
      /\ last' = [last EXCEPT ![p] = [call |-> op[p].call, n |-> -1]]
      /\ UNCHANGED <<launch, phase, index, argv, cached, filled, handle, mem, disk>>
  BY DEF IoFails, Finish, boot, cache, Returns
<1>2. Maps /\ Sound(handle[p], disk[p])
  BY DEF IInv, ProcInv
<1>3. phase = "running"
  BY <1>1, BusyIs
<1>4. op'[p] = None /\ last'[p] = [call |-> op[p].call, n |-> -1]
  BY <1>1, <1>2 DEF Maps
<1>5. Others(p) /\ Maps'
  BY <1>1, <1>2 DEF Others, Maps
<1>6. Sound(handle[p], disk[p])'
  BY <1>1, <1>2 DEF Sound, Names
<1>7. Exact(handle[p], last[p], mem[p], disk[p])'
  <2>1. last'[p].n = -1
    BY <1>4
  <2>2. ~ (last'[p].n >= 0)
    BY <2>1
  <2> QED BY <2>2 DEF Exact
<1>8. ProcInv(p)'
  BY <1>4, <1>6, <1>7 DEF ProcInv
<1> QED BY <1>1, <1>3, <1>5, <1>8, RestOfFiles

\* What a system call is given: the next cells of the buffers.
LEMMA GivenOfCall ==
  ASSUME IInv, NEW p \in Proc, Calling(p)
  PROVE  /\ op[p].n \in Nat /\ op[p].call.want \in Nat
         /\ \E w \in op[p].n .. op[p].call.want :
              /\ Given(p) = [j \in 1 .. w - op[p].n |-> op[p].n + j]
              /\ Len(Given(p)) = w - op[p].n
              /\ w = op[p].n => op[p].n = op[p].call.want
<1> DEFINE n == op[p].n
           want == op[p].call.want
           iov == op[p].iov
<1>1. Chain(iov, n, want) /\ Dense(iov) /\ n \in Nat /\ want \in Nat
  BY CallingIs DEF Moving
<1>2. Given(p) = Cells(SubSeq(iov, 1, Smaller(IovMax, Len(iov))))
  BY DEF Given
<1> HIDE DEF n, want, iov
<1>3. PICK w \in n .. want : /\ Given(p) = [j \in 1 .. w - n |-> n + j]
                             /\ w = n => n = want
  <2> DEFINE s == SubSeq(iov, 1, Smaller(IovMax, Len(iov)))
  <2>1. \E w \in n .. want : /\ Cells(s) = [j \in 1 .. w - n |-> n + j]
                             /\ w = n => n = want
                             /\ iov = <<>> => n = want
    BY <1>1, GivenOfChain
  <2>2. Given(p) = Cells(s)
    BY <1>2
  <2> HIDE DEF s
  <2> QED BY <2>1, <2>2
<1>4. Len(Given(p)) = w - n
  <2>1. w - n \in Nat /\ DOMAIN [j \in 1 .. w - n |-> n + j] = 1 .. w - n
    BY <1>1
  <2>2. [j \in 1 .. w - n |-> n + j] \in Seq(Nat)
    BY <1>1, <2>1, SeqDef
  <2> QED BY <1>3, <2>1, <2>2
<1> QED BY <1>1, <1>3, <1>4 DEF n, want

LEMMA GivenIs ==
  ASSUME IInv, NEW p \in Proc, Busy(p)
  PROVE  /\ op[p].n \in Nat /\ op[p].call.want \in Nat
         /\ \E w \in op[p].n .. op[p].call.want :
              /\ Given(p) = [j \in 1 .. w - op[p].n |-> op[p].n + j]
              /\ Len(Given(p)) = w - op[p].n
              /\ w = op[p].n => op[p].n = op[p].call.want
BY GivenOfCall DEF Calling, Busy

LEMMA IoEndsStep ==
  ASSUME IInv, NEW p \in Proc, IoEnds(p)
  PROVE  IInv'
<1> DEFINE o == op[p]
           c == o.call
           n == o.n
           h == handle[p]
           d == disk[p]
           m == mem[p]
<1>1. /\ Busy(p) /\ Room(p) = 0 /\ op' = [op EXCEPT ![p] = None]
      /\ last' = [last EXCEPT ![p] = [call |-> c, n |-> n]]
      /\ UNCHANGED <<launch, phase, index, argv, cached, filled, handle, mem, disk>>
  BY DEF IoEnds, Finish, boot, cache, Returns
<1>2. Maps /\ Sound(h, d)
  BY DEF IInv, ProcInv
<1>3. phase = "running" /\ Moving(h, o, m, d) /\ d \in Stores
  BY <1>1, BusyIs
<1>4. op'[p] = None /\ last'[p] = [call |-> c, n |-> n]
  BY <1>1, <1>2 DEF Maps
<1>5. Others(p) /\ Maps'
  BY <1>1, <1>2 DEF Others, Maps
<1>6. Sound(handle[p], disk[p])'
  BY <1>1, <1>2 DEF Sound, Names
<1>7. PICK w \in n .. c.want : /\ Len(Given(p)) = w - n
                               /\ w = n => n = c.want
  BY <1>1, GivenIs
<1>8. /\ n \in Nat /\ c.want \in Nat /\ c.from \in 0 .. MaxFile /\ o.at = c.from + n
      /\ c.do = o.do /\ o.do \in Reads \cup Writes /\ h.kind = "file"
      /\ c.do \in Reads => n <= Left(d, c.from) /\ \A i \in 1 .. n : m[i] = d[c.from + i]
      /\ c.do \in Writes => d = IF n = 0 THEN c.was ELSE Overwrite(c.was, At(h, c.from, c.was), Source(n))
      /\ h.pos = IF c.do \in {"pread", "pwrite"} THEN c.pos
                 ELSE IF n = 0 THEN c.from
                 ELSE (IF c.do \in Reads THEN c.from ELSE At(h, c.from, c.was)) + n
  BY <1>3, <1>1, GivenIs DEF Moving, Chain
<1>9. Room(p) = IF o.do \in Writes THEN Len(Given(p)) ELSE Smaller(Len(Given(p)), Left(d, o.at))
  BY DEF Room
<1> DEFINE want == c.want
           from == c.from
           len == Len(d)
<1>10. len \in Nat /\ n \in Nat /\ want \in Nat /\ from \in Nat /\ MaxFile \in Nat
  BY <1>3, <1>8, RuntimeAssumption DEF Stores
<1>11. Left(d, o.at) = IF len > from + n THEN len - (from + n) ELSE 0
  BY <1>8 DEF Left
<1>12. Left(d, from) = IF len > from THEN len - from ELSE 0
  BY DEF Left
<1>13. c.do \in Writes => n = want
  <2> SUFFICES ASSUME c.do \in Writes PROVE n = want
    OBVIOUS
  <2>1. w - n = 0
    BY <1>1, <1>7, <1>8, <1>9
  <2> QED BY <1>7, <1>10, <2>1
<1>14. c.do \in Reads => n = Smaller(want, Left(d, from))
  <2> SUFFICES ASSUME c.do \in Reads PROVE n = Smaller(want, Left(d, from))
    OBVIOUS
  <2>1. c.do \notin Writes
    BY DEF Reads, Writes
  <2>2. Smaller(w - n, Left(d, o.at)) = 0 /\ n <= Left(d, from)
    BY <1>1, <1>7, <1>8, <1>9, <2>1
  <2> HIDE DEF n, want, from, len, c, o, d
  <2>3. w \in n .. want /\ (w = n => n = want)
    BY <1>7 DEF want, n
  <2>4. CASE w = n
    BY <1>10, <1>12, <2>2, <2>3, <2>4 DEF Smaller
  <2>5. CASE w # n
    <3>1. Left(d, o.at) = 0
      BY <1>10, <1>11, <2>2, <2>3, <2>5 DEF Smaller
    <3>2. n = Left(d, from)
      BY <1>10, <1>11, <1>12, <2>2, <3>1
    <3> QED BY <1>10, <2>3, <3>2 DEF Smaller
  <2> QED BY <2>4, <2>5
<1>15. Exact(h, [call |-> c, n |-> n], m, d)
  <2> DEFINE l == [call |-> c, n |-> n]
  <2>1. l.call = c /\ l.n = n
    OBVIOUS
  <2> HIDE DEF l
  <2>2. Data(h, d) = d
    BY <1>8 DEF Data
  <2>3. c.do \in Reads => c.do \notin Writes
    BY DEF Reads, Writes
  <2>4. c.do \in Reads \cup Writes
    BY <1>8
  <2> HIDE DEF n, c, o, h, d, m
  <2>5. c.do \in Reads => /\ n = Smaller(c.want, Left(Data(h, d), c.from))
                          /\ \A i \in 1 .. n : m[i] = Data(h, d)[c.from + i]
    BY <1>8, <1>14, <2>2 DEF want, from
  <2>6. c.do \in Writes => /\ n = c.want
                           /\ d = IF n = 0 THEN c.was ELSE Overwrite(c.was, At(h, c.from, c.was), Source(n))
    BY <1>8, <1>13 DEF want
  <2> QED BY <1>8, <2>1, <2>3, <2>4, <2>5, <2>6 DEF Exact, l
<1>16. Exact(handle[p], last[p], mem[p], disk[p])'
  <2>1. Exact(handle'[p], last'[p], mem'[p], disk'[p])
    BY <1>1, <1>4, <1>15
  <2> QED BY <1>1, <2>1 DEF Exact, Data, At, Left
<1>17. ProcInv(p)'
  BY <1>4, <1>6, <1>16 DEF ProcInv
<1> QED BY <1>1, <1>3, <1>5, <1>17, RestOfFiles

\* What a system call leaves of a call: op is changed in three places.
LEMMA AdvanceIs ==
  ASSUME IInv, NEW p \in Proc, Busy(p), NEW k \in Nat, NEW to, Advance(p, k, to)
  PROVE  /\ op'[p].do = op[p].do /\ op'[p].call = op[p].call /\ op'[p].n = op[p].n + k
         /\ op'[p].at = op[p].at + k /\ op'[p].iov = ShiftIov(op[p].iov, k)
         /\ op'[p] = [do |-> op[p].do, call |-> op[p].call, iov |-> ShiftIov(op[p].iov, k),
                      at |-> op[p].at + k, n |-> op[p].n + k]
         /\ DOMAIN op' = Proc /\ \A q \in Proc \ {p} : op'[q] = op[q]
<1> DEFINE o == op[p]
           r == [do |-> o.do, call |-> o.call, iov |-> ShiftIov(o.iov, k), at |-> o.at + k, n |-> o.n + k]
<1>1. DOMAIN op = Proc /\ Moving(handle[p], o, mem[p], disk[p])
  BY BusyIs DEF IInv, Maps
<1>2. o \in [do : Reads \cup Writes, call : {o.call}, iov : Seq(Element), at : Nat, n : Nat]
  BY <1>1 DEF Moving
<1>3. op' = [op EXCEPT ![p] = [[[o EXCEPT !.iov = ShiftIov(o.iov, k)] EXCEPT !.n = o.n + k] EXCEPT !.at = o.at + k]]
  BY <1>1, <1>2 DEF Advance
<1>4. [[[o EXCEPT !.iov = ShiftIov(o.iov, k)] EXCEPT !.n = o.n + k] EXCEPT !.at = o.at + k] = r
  <2> DEFINE s == ShiftIov(o.iov, k)
             x == o.at + k
             y == o.n + k
             D == {"do", "call", "iov", "at", "n"}
             e == [[[o EXCEPT !.iov = s] EXCEPT !.n = y] EXCEPT !.at = x]
             f == [do |-> o.do, call |-> o.call, iov |-> s, at |-> x, n |-> y]
  <2> HIDE DEF o, s, x, y
  <2>1. DOMAIN o = D /\ o = [i \in D |-> o[i]]
    BY <1>2
  <2>2. e = [i \in D |-> e[i]] /\ f = [i \in D |-> f[i]]
    BY <2>1
  <2>3. e.do = f.do /\ e.call = f.call /\ e.iov = f.iov /\ e.at = f.at /\ e.n = f.n
    BY <2>1
  <2> HIDE DEF e, f
  <2>4. \A i \in D : e[i] = f[i]
    BY <2>3
  <2>5. e = f
    BY <2>2, <2>4
  <2> QED BY <2>5 DEF e, f, s, x, y
<1>5. op'[p] = r
  BY <1>1, <1>3, <1>4
<1> HIDE DEF o
<1>6. r.do = o.do /\ r.call = o.call /\ r.n = o.n + k /\ r.at = o.at + k /\ r.iov = ShiftIov(o.iov, k)
  OBVIOUS
<1> HIDE DEF r
<1>7. DOMAIN op' = Proc /\ \A q \in Proc \ {p} : op'[q] = op[q]
  BY <1>1, <1>3
<1> QED BY <1>5, <1>6, <1>7 DEF o, r

LEMMA ReadSomeStep ==
  ASSUME IInv, NEW p \in Proc, NEW k \in Nat, ReadSome(p, k)
  PROVE  IInv' /\ KeepsFd(p)
<1> DEFINE o == op[p]
           c == o.call
           n == o.n
           want == c.want
           from == c.from
           at == o.at
           h == handle[p]
           d == disk[p]
           m == mem[p]
           cells == Given(p)
           to == at + k
           iov == ShiftIov(o.iov, k)
           x(i) == IF \E j \in 1 .. k : cells[j] = i
                   THEN d[at + (CHOOSE j \in 1 .. k : cells[j] = i)] ELSE m[i]
           r == [i \in DOMAIN m |-> x(i)]
           g == [h EXCEPT !.pos = to]
<1>1. /\ Busy(p) /\ o.do \in Reads /\ k \in 1 .. Room(p) /\ Advance(p, k, to)
      /\ mem' = [mem EXCEPT ![p] = r]
      /\ UNCHANGED <<launch, phase, index, argv, cached, filled, last, disk>>
  BY DEF ReadSome, boot, cache
<1>2. /\ Moving(h, o, m, d) /\ d \in Stores /\ phase = "running" /\ last[p] = None /\ Maps
      /\ h.pos \in 0 .. MaxFile
  BY <1>1, BusyIs DEF IInv
<1>3. o.do = "read" \/ o.do = "pread"
  BY <1>1 DEF Reads
<1>4. /\ h \in Handles /\ h.kind = "file"
      /\ o \in [do : Reads \cup Writes, call : {c}, iov : Seq(Element), at : Nat, n : Nat]
      /\ c.do = o.do /\ want \in Nat /\ from \in 0 .. MaxFile /\ at = from + n
      /\ Chain(o.iov, n, want) /\ Dense(o.iov) /\ n \in Nat
      /\ n <= Left(d, from) /\ m \in [1 .. want -> Nat \cup {None}]
      /\ \A i \in 1 .. n : m[i] = d[from + i]
      /\ h.pos = IF c.do \in {"pread", "pwrite"} THEN c.pos ELSE IF n = 0 THEN from ELSE from + n
  BY <1>1, <1>2, <1>3, GivenIs DEF Moving, Reads
<1>5. PICK w \in n .. want : /\ cells = [j \in 1 .. w - n |-> n + j]
                             /\ Len(cells) = w - n
  BY <1>1, GivenIs
<1>6. Room(p) = Smaller(Len(cells), Left(d, at))
  BY <1>3 DEF Room, Writes
<1>7. /\ d \in Seq(Nat) /\ Len(d) \in Nat /\ Len(d) <= MaxFile /\ MaxFile \in Nat
  BY <1>2, RuntimeAssumption DEF Stores
<1>8. /\ op'[p].do = o.do /\ op'[p].call = c /\ op'[p].n = n + k /\ op'[p].at = to /\ op'[p].iov = iov
      /\ op'[p] = [do |-> o.do, call |-> c, iov |-> iov, at |-> to, n |-> n + k]
      /\ DOMAIN op' = Proc /\ \A q \in Proc \ {p} : op'[q] = op[q]
  BY <1>1, AdvanceIs
<1>9. handle' = IF o.do = "read" THEN [handle EXCEPT ![p] = g] ELSE handle
  BY <1>1, <1>3 DEF Advance
<1>10. mem'[p] = r /\ disk'[p] = d /\ last'[p] = None
  BY <1>1, <1>2 DEF Maps
<1>11. Left(d, at) = IF Len(d) > at THEN Len(d) - at ELSE 0
  BY DEF Left
<1>12. Left(d, from) = IF Len(d) > from THEN Len(d) - from ELSE 0
  BY DEF Left
<1>13. o.iov \in Seq(Element) /\ r = [i \in 1 .. want |-> x(i)]
  BY <1>4 DEF Chain
<1> HIDE DEF c, n, want, from, at, h, d, m, cells, to, iov, r, g
<1>14. /\ k \in 1 .. want - n /\ k <= w - n /\ n + k <= Left(d, from) /\ from + (n + k) <= Len(d)
       /\ to = from + (n + k) /\ at + k <= Len(d)
  <2> DEFINE room == Room(p)
             left == Left(d, at)
  <2>1. room = Smaller(w - n, left) /\ k \in 1 .. room
    BY <1>1, <1>5, <1>6
  <2>2. left = IF Len(d) > at THEN Len(d) - at ELSE 0
    BY <1>11
  <2>3. w \in n .. want /\ n \in Nat /\ want \in Nat /\ from \in Nat /\ at = from + n
    BY <1>4, <1>5
  <2> HIDE DEF room, left
  <2>4. k <= w - n /\ k <= left /\ k >= 1
    BY <1>7, <2>1, <2>2, <2>3 DEF Smaller
  <2> QED BY <1>7, <1>12, <2>2, <2>3, <2>4 DEF to
<1>15. \A j \in 1 .. k : cells[j] = n + j
  BY <1>4, <1>5, <1>14
<1>16. ASSUME NEW i \in 1 .. want
       PROVE  /\ x(i) \in Nat \cup {None}
              /\ i \in 1 .. n + k => x(i) = d[from + i]
  <2>1. CASE i \in n + 1 .. n + k
    <3>1. i - n \in 1 .. k /\ cells[i - n] = i
      BY <1>4, <1>14, <1>15, <2>1
    <3>2. (CHOOSE j \in 1 .. k : cells[j] = i) = i - n
      <4>1. \A j \in 1 .. k : cells[j] = i => j = i - n
        BY <1>4, <1>15, <2>1
      <4> QED BY <3>1, <4>1
    <3>3. x(i) = d[at + (i - n)]
      BY <3>1, <3>2
    <3>4. at + (i - n) = from + i /\ from + i \in 1 .. Len(d)
      BY <1>4, <1>7, <1>14, <2>1
    <3>5. d[from + i] \in Nat
      BY <1>7, <3>4
    <3> QED BY <3>3, <3>4, <3>5
  <2>2. CASE i \notin n + 1 .. n + k
    <3>1. \A j \in 1 .. k : cells[j] # i
      BY <1>4, <1>15, <2>2
    <3>2. x(i) = m[i]
      BY <3>1
    <3>3. i \in 1 .. n + k => i \in 1 .. n
      BY <1>4, <1>14, <2>2
    <3> QED BY <1>4, <3>2, <3>3
  <2> QED BY <2>1, <2>2
<1>17. r \in [1 .. want -> Nat \cup {None}] /\ \A i \in 1 .. n + k : r[i] = d[from + i]
  <2>1. \A i \in 1 .. n + k : i \in 1 .. want
    BY <1>4, <1>14
  <2> QED BY <1>13, <1>16, <2>1
<1>18. Chain(iov, n + k, want) /\ Dense(iov) /\ iov \in Seq(Element)
  <2> DEFINE v == o.iov
             e == ShiftIov(v, k)
  <2>1. Chain(v, n, want) /\ Dense(v) /\ k \in 1 .. want - n
    BY <1>4, <1>14
  <2> HIDE DEF v
  <2>2. Chain(e, n + k, want) /\ Dense(e)
    BY <2>1, ShiftOfChain
  <2> HIDE DEF e
  <2>3. e \in Seq(Element)
    BY <2>2 DEF Chain
  <2> QED BY <2>2, <2>3 DEF e, v, iov
<1>19. to \in Nat /\ to <= MaxFile /\ n + k \in Nat /\ n + k # 0
  BY <1>4, <1>7, <1>14
<1>20. g \in Handles /\ g.pos = to /\ \A i \in {"kind", "modes", "fd"} : g[i] = h[i]
  BY <1>4, <1>19, FileIs DEF g
<1>21. handle'[p] = IF o.do = "read" THEN g ELSE h
  BY <1>2, <1>9 DEF Maps, h
<1>22. /\ handle'[p] \in Handles /\ handle'[p].kind = "file" /\ handle'[p].pos <= MaxFile
       /\ handle'[p].pos = IF c.do \in {"pread", "pwrite"} THEN c.pos ELSE to
  <2>1. CASE o.do = "read"
    BY <1>4, <1>19, <1>20, <1>21, <2>1
  <2>2. CASE o.do = "pread"
    BY <1>2, <1>4, <1>21, <2>2, RuntimeAssumption
  <2> QED BY <1>3, <2>1, <2>2
<1>23. Others(p) /\ Maps'
  <2>1. handle' \in [Proc -> Handles \cup {None}] /\ \A q \in Proc \ {p} : handle'[q] = handle[q]
    BY <1>2, <1>9, <1>20 DEF Maps
  <2>2. /\ DOMAIN mem' = Proc /\ \A q \in Proc \ {p} : mem'[q] = mem[q]
    BY <1>1, <1>2 DEF Maps
  <2> QED BY <1>1, <1>2, <1>8, <2>1, <2>2 DEF Others, Maps
<1>24. Moving(handle'[p], op'[p], mem'[p], disk'[p])
  <2> DEFINE q == op'[p]
             l == handle'[p]
  <2>1. q \in [do : Reads \cup Writes, call : {c}, iov : Seq(Element), at : Nat, n : Nat]
    BY <1>1, <1>8, <1>18, <1>19
  <2>2. q.do = o.do /\ q.call = c /\ q.n = n + k /\ q.at = to /\ q.iov = iov
    BY <1>8
  <2>3. l \in Handles /\ l.kind = "file"
        /\ l.pos = IF c.do \in {"pread", "pwrite"} THEN c.pos ELSE to
    BY <1>22
  <2> HIDE DEF q, l
  <2>4. c.do \in Reads /\ c.do \notin Writes
    BY <1>3, <1>4 DEF Reads, Writes
  <2>5. /\ n + k <= Left(d, from) /\ r \in [1 .. want -> Nat \cup {None}]
        /\ \A i \in 1 .. n + k : r[i] = d[from + i]
    BY <1>14, <1>17
  <2>6. l.pos = IF c.do \in {"pread", "pwrite"} THEN c.pos
                ELSE IF n + k = 0 THEN from ELSE from + (n + k)
    BY <1>14, <1>19, <2>3
  <2>7. Moving(l, q, r, d)
    BY <1>4, <1>14, <1>18, <2>1, <2>2, <2>3, <2>4, <2>5, <2>6 DEF Moving, want, from
  <2> QED BY <1>10, <2>7 DEF q, l
<1>25. Moving(handle[p], op[p], mem[p], disk[p])'
  BY <1>24 DEF Moving, At, Left, Stores
<1>26. disk'[p] \in Stores
  BY <1>2, <1>10 DEF d
<1>27. KeepsFd(p)
  <2>1. g.kind = h.kind /\ g.fd = h.fd
    BY <1>20
  <2> QED BY <1>4, <1>20, <1>21, <1>23, <2>1 DEF KeepsFd, Others, h
<1> QED BY <1>27, <1>1, <1>2, <1>10, <1>22, <1>23, <1>25, <1>26, MovingStep

LEMMA WriteSomeStep ==
  ASSUME IInv, NEW p \in Proc, NEW k \in Nat, WriteSome(p, k)
  PROVE  IInv' /\ KeepsFd(p)
<1> DEFINE o == op[p]
           c == o.call
           n == o.n
           want == c.want
           from == c.from
           was == c.was
           h == handle[p]
           d == disk[p]
           m == mem[p]
           cells == Given(p)
           at == At(h, from, was)
           where == Where(p, o.at, d)
           to == where + k
           iov == ShiftIov(o.iov, k)
           moved == [j \in 1 .. k |-> m[cells[j]]]
           r == Overwrite(d, where, moved)
           g == [h EXCEPT !.pos = to]
<1>1. /\ Busy(p) /\ o.do \in Writes /\ k \in 1 .. Room(p) /\ Advance(p, k, to)
      /\ disk' = [disk EXCEPT ![p] = r]
      /\ UNCHANGED <<launch, phase, index, argv, cached, filled, last, mem>>
  BY DEF WriteSome, boot, cache
<1>2. /\ Moving(h, o, m, d) /\ d \in Stores /\ phase = "running" /\ last[p] = None /\ Maps
      /\ h.pos \in 0 .. MaxFile
  BY <1>1, BusyIs DEF IInv
<1>3. o.do = "write" \/ o.do = "pwrite"
  BY <1>1 DEF Writes
<1>4. o.do \notin Reads
  BY <1>3 DEF Reads
<1>5. /\ h \in Handles /\ h.kind = "file"
      /\ o \in [do : Reads \cup Writes, call : {c}, iov : Seq(Element), at : Nat, n : Nat]
      /\ c.do = o.do /\ want \in Nat /\ from \in 0 .. MaxFile /\ o.at = from + n
      /\ Chain(o.iov, n, want) /\ Dense(o.iov) /\ n \in Nat
      /\ was \in Stores /\ from + want <= MaxFile
      /\ "append" \in h.modes => Len(was) + want <= MaxFile
      /\ m = Source(want)
      /\ d = IF n = 0 THEN was ELSE Overwrite(was, at, Source(n))
      /\ h.pos = IF c.do \in {"pread", "pwrite"} THEN c.pos ELSE IF n = 0 THEN from ELSE at + n
  BY <1>1, <1>2, <1>4, GivenIs DEF Moving
<1>6. PICK w \in n .. want : /\ cells = [j \in 1 .. w - n |-> n + j]
                             /\ Len(cells) = w - n
  BY <1>1, GivenIs
<1>7. Room(p) = Len(cells)
  BY <1>1 DEF Room
<1>8. /\ op'[p].do = o.do /\ op'[p].call = c /\ op'[p].n = n + k /\ op'[p].at = o.at + k /\ op'[p].iov = iov
      /\ op'[p] = [do |-> o.do, call |-> c, iov |-> iov, at |-> o.at + k, n |-> n + k]
      /\ DOMAIN op' = Proc /\ \A q \in Proc \ {p} : op'[q] = op[q]
  BY <1>1, AdvanceIs
<1>9. handle' = IF o.do = "write" THEN [handle EXCEPT ![p] = g] ELSE handle
  BY <1>1, <1>3 DEF Advance
<1>10. disk'[p] = r /\ mem'[p] = m /\ last'[p] = None
  BY <1>1, <1>2 DEF Maps
<1>11. was \in Seq(Nat) /\ Len(was) \in Nat /\ Len(was) <= MaxFile /\ MaxFile \in Nat
  BY <1>5, RuntimeAssumption DEF Stores
<1>12. where = IF "append" \in h.modes THEN Len(d) ELSE o.at
  BY DEF Where
<1>13. at = IF "append" \in h.modes THEN Len(was) ELSE from
  BY DEF At
<1> DEFINE appends == "append" \in h.modes
<1> HIDE DEF c, n, want, from, was, h, d, m, cells, at, where, to, iov, r, g, appends
<1>14. /\ k \in 1 .. want - n /\ k <= w - n /\ k \in Nat \ {0} /\ at \in Nat
       /\ at + want <= MaxFile /\ from + want <= MaxFile /\ n + k <= want /\ n + k \in Nat
  <2>1. k \in 1 .. w - n /\ w \in n .. want
    BY <1>1, <1>6, <1>7
  <2>2. k \in 1 .. want - n /\ k <= w - n /\ n + k <= want
    BY <1>5, <2>1
  <2>3. at \in Nat /\ at + want <= MaxFile
    <3>1. CASE appends
      BY <1>5, <1>11, <1>13, <3>1 DEF appends
    <3>2. CASE ~ appends
      BY <1>5, <1>11, <1>13, <3>2 DEF appends
    <3> QED BY <3>1, <3>2
  <2> QED BY <1>5, <2>2, <2>3
<1>15. /\ d \in Seq(Nat)
       /\ Len(d) = IF n = 0 THEN Len(was) ELSE IF Len(was) > at + n THEN Len(was) ELSE at + n
       /\ Overwrite(d, at + n, Behind(n, k)) = Overwrite(was, at, Source(n + k))
  <2>1. was \in Seq(Nat) /\ at \in Nat /\ n \in Nat /\ k \in Nat \ {0}
    BY <1>5, <1>11, <1>14
  <2>2. d = IF n = 0 THEN was ELSE Overwrite(was, at, Source(n))
    BY <1>5
  <2>3. d = Written(was, at, n)
    BY <2>2 DEF Written
  <2> QED BY <2>1, <2>3, OverwriteMore
<1>16. where = at + n
  <2>1. CASE appends
    BY <1>5, <1>11, <1>12, <1>13, <1>15, <2>1 DEF appends
  <2>2. CASE ~ appends
    BY <1>5, <1>12, <1>13, <2>2 DEF appends
  <2> QED BY <2>1, <2>2
<1>17. moved = Behind(n, k)
  <2>1. ASSUME NEW j \in 1 .. k PROVE m[cells[j]] = Source(n + k)[n + j]
    <3>1. cells[j] = n + j /\ n + j \in 1 .. n + k /\ n + j \in 1 .. want
      BY <1>5, <1>6, <1>14
    <3>2. Source(want)[n + j] = 10 + (n + j)
      BY <1>5, <3>1, SourceIs
    <3>3. Source(n + k)[n + j] = 10 + (n + j)
      BY <1>14, <3>1, SourceIs
    <3> QED BY <1>5, <3>1, <3>2, <3>3
  <2> QED BY <2>1 DEF Behind
<1> HIDE DEF moved
<1>18. r = Overwrite(was, at, Source(n + k))
  BY <1>15, <1>16, <1>17 DEF r
<1>19. r \in Stores
  <2> DEFINE s == Source(n + k)
  <2>1. s \in Seq(Nat) /\ Len(s) = n + k
    BY <1>14, SourceIs
  <2> HIDE DEF s
  <2>2. r = Overwrite(was, at, s)
    BY <1>18 DEF s
  <2>3. Overwrite(was, at, s) \in Seq(Nat) /\ Len(Overwrite(was, at, s)) = OverLen(was, at, s)
    BY <1>11, <1>14, <2>1, OverwriteIs
  <2>4. r \in Seq(Nat) /\ Len(r) = IF Len(was) > at + (n + k) THEN Len(was) ELSE at + (n + k)
    BY <2>1, <2>2, <2>3 DEF OverLen
  <2>5. Len(r) <= MaxFile
    BY <1>5, <1>11, <1>14, <2>4
  <2> QED BY <2>4, <2>5 DEF Stores
<1>20. Chain(iov, n + k, want) /\ Dense(iov) /\ iov \in Seq(Element)
  <2> DEFINE v == o.iov
             e == ShiftIov(v, k)
  <2>1. Chain(v, n, want) /\ Dense(v) /\ k \in 1 .. want - n
    BY <1>5, <1>14
  <2> HIDE DEF v
  <2>2. Chain(e, n + k, want) /\ Dense(e)
    BY <2>1, ShiftOfChain
  <2> HIDE DEF e
  <2>3. e \in Seq(Element)
    BY <2>2 DEF Chain
  <2> QED BY <2>2, <2>3 DEF e, v, iov
<1>21. to = at + (n + k) /\ to \in Nat /\ to <= MaxFile /\ n + k # 0
       /\ o.at + k = from + (n + k) /\ o.at + k \in Nat
  <2> DEFINE x == o.at
  <2>1. x = from + n /\ from \in Nat /\ n \in Nat /\ k \in Nat \ {0} /\ at \in Nat /\ where = at + n
        /\ n + k <= want /\ want \in Nat
    BY <1>5, <1>14, <1>16
  <2> HIDE DEF x
  <2>2. x + k = from + (n + k) /\ x + k \in Nat /\ n + k # 0
    BY <2>1
  <2>3. where + k = at + (n + k) /\ where + k \in Nat /\ where + k <= at + want
    BY <2>1
  <2>4. where + k <= MaxFile
    BY <1>11, <1>14, <2>1, <2>3
  <2> QED BY <2>2, <2>3, <2>4 DEF to, x
<1>22. g \in Handles /\ g.pos = to /\ \A i \in {"kind", "modes", "fd"} : g[i] = h[i]
  BY <1>5, <1>21, FileIs, SMTT(30) DEF g
<1>23. handle'[p] = IF o.do = "write" THEN g ELSE h
  BY <1>2, <1>9 DEF Maps, h
<1>24. /\ handle'[p] \in Handles /\ handle'[p].kind = "file" /\ handle'[p].pos <= MaxFile
       /\ handle'[p].modes = h.modes
       /\ handle'[p].pos = IF c.do \in {"pread", "pwrite"} THEN c.pos ELSE to
  <2>1. CASE o.do = "write"
    BY <1>5, <1>21, <1>22, <1>23, <2>1
  <2>2. CASE o.do = "pwrite"
    BY <1>2, <1>5, <1>11, <1>23, <2>2
  <2> QED BY <1>3, <2>1, <2>2
<1>25. Others(p) /\ Maps'
  <2>1. handle' \in [Proc -> Handles \cup {None}] /\ \A q \in Proc \ {p} : handle'[q] = handle[q]
    BY <1>2, <1>9, <1>22 DEF Maps
  <2>2. disk' \in [Proc -> Stores \cup {None}] /\ \A q \in Proc \ {p} : disk'[q] = disk[q]
    BY <1>1, <1>2, <1>19 DEF Maps
  <2> QED BY <1>1, <1>2, <1>8, <2>1, <2>2 DEF Others, Maps
<1>26. Moving(handle'[p], op'[p], mem'[p], disk'[p])
  <2> DEFINE q == op'[p]
             l == handle'[p]
  <2>1. q \in [do : Reads \cup Writes, call : {c}, iov : Seq(Element), at : Nat, n : Nat]
    BY <1>1, <1>8, <1>14, <1>20, <1>21
  <2>2. q.do = o.do /\ q.call = c /\ q.n = n + k /\ q.at = from + (n + k) /\ q.iov = iov
    BY <1>8, <1>21
  <2>3. l \in Handles /\ l.kind = "file" /\ l.modes = h.modes
        /\ l.pos = IF c.do \in {"pread", "pwrite"} THEN c.pos ELSE to
    BY <1>24
  <2> HIDE DEF q, l
  <2>4. c.do \in Writes /\ c.do \notin Reads
    BY <1>1, <1>4, <1>5
  <2>5. At(l, from, was) = at
    BY <1>13, <2>3 DEF At
  <2>6. l.pos = IF c.do \in {"pread", "pwrite"} THEN c.pos
                ELSE IF n + k = 0 THEN from ELSE at + (n + k)
    BY <1>21, <2>3
  <2>7. r = IF n + k = 0 THEN was ELSE Overwrite(was, at, Source(n + k))
    BY <1>18, <1>21
  <2>8. "append" \in l.modes => Len(was) + want <= MaxFile
    BY <1>5, <2>3
  <2>9. Moving(l, q, m, r)
    BY <1>5, <1>20, <2>1, <2>2, <2>3, <2>4, <2>5, <2>6, <2>7, <2>8 DEF Moving, want, from, was
  <2> QED BY <1>10, <2>9 DEF q, l
<1>27. Moving(handle[p], op[p], mem[p], disk[p])'
  BY <1>26 DEF Moving, At, Left, Stores
<1>28. disk'[p] \in Stores
  BY <1>10, <1>19
<1>29. KeepsFd(p)
  <2>1. g.kind = h.kind /\ g.fd = h.fd
    BY <1>22
  <2> QED BY <1>5, <1>22, <1>23, <1>25, <2>1 DEF KeepsFd, Others, h
<1> QED BY <1>29, <1>1, <1>2, <1>10, <1>24, <1>25, <1>27, <1>28, MovingStep

\* What boot finds in the executable.
LEMMA FoundIs ==
  ASSUME IInv
  PROVE  /\ launch.entries = None => VfsInit(Image) = None
         /\ launch.entries # None =>
              /\ launch.entries \in Seq(Filed)
              /\ ~ Loadable(launch.entries) => VfsInit(Image) = Corrupt
              /\ Loadable(launch.entries) =>
                   IndexOf(VfsInit(Image), launch.entries, Len(launch.entries))
<1>1. launch \in Launches
  BY DEF IInv, IndexInv
<1>2. launch.code \in Seq(Unit)
  BY <1>1, LaunchAssumption
<1>3. CASE launch.entries = None
  <2>1. EndRecords(launch.code) = {} /\ Image = launch.code
    BY <1>1, <1>3, LaunchAssumption DEF Image
  <2> QED BY <1>3, <2>1 DEF VfsInit
<1>4. CASE launch.entries # None
  <2>1. launch.entries \in Seq(Filed)
    BY <1>1, <1>4, LaunchAssumption DEF Filed
  <2>2. Image = Release(launch.code, launch.entries)
    BY <1>4 DEF Image
  <2> QED BY <1>2, <1>4, <2>1, <2>2, VfsOfRelease
<1> QED BY <1>3, <1>4

\* Before the start nothing is open.
LEMMA AtStart ==
  ASSUME IInv, phase = "start"
  PROVE  index = None /\ \A p \in Proc : handle[p] = None /\ op[p] = None /\ last[p] = None
BY DEF IInv, IndexInv

LEMMA BootStep ==
  ASSUME IInv, Boot
  PROVE  IInv'
<1> DEFINE found == VfsInit(Image)
           args == IF found = Corrupt THEN <<>>
                   ELSE Argv(found, launch.raw, launch.argv, launch.home, ErlArgs, Defaults)
<1>1. /\ phase = "start" /\ UNCHANGED <<launch, handle, op, last, mem, disk>>
      /\ \/ phase' = "exited" /\ UNCHANGED <<index, argv, cached, filled>>
         \/ /\ args # <<>> /\ phase' = "booted" /\ index' = found
            /\ cached' = CachedAtBoot(found)
            /\ filled' = {<<name, cached'[name]>> :
                            name \in {n \in DOMAIN cached' : cached'[n] \in Proc}}
  BY DEF Boot, calls, cache
<1>2. index = None /\ \A p \in Proc : handle[p] = None /\ op[p] = None /\ last[p] = None
  BY <1>1, AtStart
<1>3. Maps'
  BY <1>1 DEF IInv, Maps
<1>4. \A p \in Proc : ProcInv(p)'
  <2> SUFFICES ASSUME NEW p \in Proc PROVE ProcInv(p)'
    OBVIOUS
  <2>1. handle'[p] = None /\ op'[p] = None /\ last'[p] = None
    BY <1>1, <1>2
  <2> QED BY <2>1 DEF ProcInv, Sound, Exact
<1>5. launch' \in Launches
  BY <1>1 DEF IInv, IndexInv
<1>6. IndexInv'
  <2>1. CASE phase' = "exited" /\ UNCHANGED <<index, argv, cached, filled>>
    BY <1>1, <1>5, <2>1 DEF IInv, IndexInv, Names
  <2>2. CASE /\ args # <<>> /\ phase' = "booted" /\ index' = found
             /\ cached' = CachedAtBoot(found)
             /\ filled' = {<<name, cached'[name]>> :
                             name \in {n \in DOMAIN cached' : cached'[n] \in Proc}}
    <3>1. found # Corrupt
      BY <2>2
    <3>2. index' = None \/ index' \in Seq(Entries)
      BY <2>2, <3>1, FoundIs DEF IndexOf
    <3>3. cached' \in [Names' -> Proc \cup {None, Zmap}]
      <4> DEFINE names == IF found = None THEN {} ELSE {found[i].name : i \in DOMAIN found}
                 buffer(name) == IF Lookup(found, name).deflated THEN CHOOSE p \in Proc : TRUE ELSE Zmap
      <4>1. cached' = [name \in names |-> IF name = ErlArgs /\ ~launch.raw THEN buffer(name) ELSE None]
        BY <2>2 DEF CachedAtBoot
      <4>2. Names' = names
        BY <2>2 DEF Names
      <4>3. (CHOOSE p \in Proc : TRUE) \in Proc
        BY RuntimeAssumption
      <4>4. \A name : buffer(name) \in Proc \cup {Zmap}
        BY <4>3
      <4> HIDE DEF buffer, names
      <4> QED BY <4>1, <4>2, <4>4
    <3>4. \A name \in Names' : cached'[name] \in Proc => <<name, cached'[name]>> \in filled'
      BY <2>2, <3>3
    <3> QED BY <1>5, <2>2, <3>2, <3>3, <3>4 DEF IndexInv
  <2> QED BY <1>1, <2>1, <2>2
<1> QED BY <1>3, <1>4, <1>6 DEF IInv

\* Where neither a file nor the archive changes the invariant is kept.
LEMMA SameStep ==
  ASSUME IInv, UNCHANGED <<launch, index, cached, filled, handle, op, last, mem, disk>>,
         phase' = phase \/ phase' = "failed" \/ ErlStart
  PROVE  IInv'
<1>1. Maps'
  BY DEF IInv, Maps
<1>2. IndexInv'
  <2>1. phase' = phase \/ phase' \in {"running", "failed"}
    BY DEF ErlStart
  <2> QED BY <2>1 DEF IInv, IndexInv, Names
<1>3. ASSUME NEW p \in Proc PROVE ProcInv(p)'
  <2>1. Sound(handle[p], disk[p])'
    BY DEF IInv, ProcInv, Sound, Names
  <2>2. Exact(handle[p], last[p], mem[p], disk[p])'
    BY DEF IInv, ProcInv, Exact, Data, At
  <2>3. op[p] # None => phase' \in {"running", "failed"}
    BY DEF IInv, ProcInv, ErlStart
  <2>4. op[p] # None => Inflating(p, handle[p], op[p])' \/ Moving(handle[p], op[p], mem[p], disk[p])'
    <3> SUFFICES ASSUME op[p] # None
                 PROVE  Inflating(p, handle[p], op[p])' \/ Moving(handle[p], op[p], mem[p], disk[p])'
      OBVIOUS
    <3>1. CASE Inflating(p, handle[p], op[p])
      BY <3>1 DEF Inflating, Names
    <3>2. CASE Moving(handle[p], op[p], mem[p], disk[p])
      BY <3>2 DEF Moving, At
    <3> QED BY <3>1, <3>2 DEF IInv, ProcInv
  <2> QED BY <2>1, <2>2, <2>3, <2>4 DEF IInv, ProcInv
<1> QED BY <1>1, <1>2, <1>3 DEF IInv

LEMMA InitIs ==
  ASSUME Init
  PROVE  IInv
<1>1. /\ launch \in Launches /\ phase = "start" /\ index = None /\ cached = <<>>
      /\ handle = [p \in Proc |-> None] /\ op = [p \in Proc |-> None]
      /\ last = [p \in Proc |-> None] /\ mem = [p \in Proc |-> <<>>]
      /\ disk = [p \in Proc |-> None]
  BY DEF Init
<1>2. Names = {}
  BY <1>1 DEF Names
<1>3. cached \in [{} -> Proc \cup {None, Zmap}]
  BY <1>1
<1>4. IndexInv
  BY <1>1, <1>2, <1>3 DEF IndexInv
<1>5. Maps
  BY <1>1 DEF Maps
<1>6. \A p \in Proc : ProcInv(p)
  BY <1>1 DEF ProcInv, Sound, Exact
<1> QED BY <1>4, <1>5, <1>6 DEF IInv

\* Every step keeps the invariant.
LEMMA NextIs ==
  ASSUME IInv, [Next]_vars
  PROVE  IInv'
<1>1. CASE Boot
  BY <1>1, BootStep
<1>2. CASE ErlStart \/ BootFails
  BY <1>2, SameStep DEF ErlStart, BootFails, cache, calls
<1>3. CASE UNCHANGED vars
  BY <1>3, SameStep DEF vars, boot, cache, calls
<1>4. ASSUME NEW f \in Fd, SocketCloses(f) PROVE IInv'
  BY <1>4, SameStep DEF SocketCloses, boot, cache, calls
<1>5. ASSUME NEW p \in Proc, Files(p) PROVE IInv'
  <2>1. CASE \E name \in launch.opens[p] \ {Disk} : OpenVfs(p, name)
    BY <2>1, OpenVfsStep
  <2>2. CASE \E modes \in Modes : OpenFile(p, modes)
    BY <2>2, OpenFileStep
  <2>3. CASE Inflate(p) \/ Publish(p) \/ Return(p) \/ Close(p)
    BY <2>3, InflateStep, PublishStep, ReturnStep, CloseStep
  <2>4. CASE GetHandle(p) \/ DupHandle(p)
    BY <2>4, GetHandleStep, DupHandleStep
  <2>5. CASE RefuseVfs(p) \/ TruncateFile(p)
    BY <2>5, RefuseVfsStep, TruncateFileStep
  <2>6. CASE \E do \in Reads, lens \in ReadIovs, offset \in Offsets : ReadVfs(p, do, lens, offset)
    BY <2>6, ReadVfsStep
  <2>7. CASE \E do \in Reads, lens \in ReadIovs, offset \in Offsets : BeginIo(p, do, lens, offset)
    BY <2>7, BeginIoStep
  <2>8. CASE \E do \in Writes, lens \in WriteIovs, offset \in Offsets : BeginIo(p, do, lens, offset)
    BY <2>8, BeginIoStep
  <2>9. CASE \E n \in 1 .. MaxFile : ReadSome(p, n) \/ WriteSome(p, n)
    <3>1. 1 .. MaxFile \subseteq Nat
      BY RuntimeAssumption
    <3> QED BY <2>9, <3>1, ReadSomeStep, WriteSomeStep
  <2>10. CASE IoEnds(p) \/ IoFails(p)
    BY <2>10, IoEndsStep, IoFailsStep
  <2>11. CASE \E base \in Bases, offset \in Offsets : SeekVfs(p, base, offset) \/ SeekFile(p, base, offset)
    BY <2>11, SeekVfsStep, SeekFileStep
  <2>12. CASE InflateFails(p)
    BY <2>12, SameStep DEF InflateFails, cache, calls
  <2> QED
    BY <1>5, <2>1, <2>2, <2>3, <2>4, <2>5, <2>6, <2>7, <2>8, <2>9, <2>10, <2>11, <2>12 DEF Files
<1> QED BY <1>1, <1>2, <1>3, <1>4, <1>5 DEF Next

\* Whatever was done and however the kernel cut the transfers: a call under
\* way has moved the cells before those its iovec still points to, between
\* the buffers and the place of the file where they belong; an open entry has
\* a name of the index, a position within it and a buffer that is filled; and
\* what has ended was exact (gleepack_vfs_get_data, efile_readv, efile_writev,
\* efile_preadv, efile_pwritev, shift_iov).
THEOREM RuntimeInvariant == Spec => []IInv
<1>1. Init => IInv
  BY InitIs
<1>2. IInv /\ [Next]_vars => IInv'
  BY NextIs
<1> QED BY <1>1, <1>2, PTL DEF Spec

\* A transfer that ends well is exact: a read returned the bytes of the file
\* from where it began, as many as asked for or as there were; a write put
\* all of its bytes there and changed no other (efile_readv, efile_writev,
\* efile_preadv, efile_pwritev).
THEOREM TransfersExact == Spec => []IoExact
<1>1. IInv => IoExact
  <2> SUFFICES ASSUME IInv, NEW p \in Proc
               PROVE  last[p] # None /\ last[p].n >= 0 =>
      LET call == last[p].call
          n == last[p].n
          at == IF call.do \in Writes THEN Where(p, call.from, call.was) ELSE call.from
      IN /\ call.do \in Reads =>
              /\ n = Smaller(call.want, Left(Holds(p), call.from))
              /\ \A i \in 1 .. n : mem[p][i] = Holds(p)[call.from + i]
         /\ call.do \in Writes =>
              /\ n = call.want
              /\ disk[p] = IF n = 0 THEN call.was ELSE Overwrite(call.was, at, Source(n))
         /\ handle[p].pos = IF call.do \in {"pread", "pwrite"} THEN call.pos
                            ELSE IF n = 0 THEN call.from ELSE at + n
    BY DEF IoExact
  <2>1. Exact(handle[p], last[p], mem[p], disk[p])
    BY DEF IInv, ProcInv
  <2>2. Holds(p) = Data(handle[p], disk[p])
    BY DEF Holds, Data
  <2>3. \A from, was : Where(p, from, was) = At(handle[p], from, was)
    BY DEF Where, At
  <2> QED BY <2>1, <2>2, <2>3 DEF Exact
<1> QED BY <1>1, RuntimeInvariant, PTL

-----------------------------------------------------------------------------
(* Descriptors.                                                            *)

\* What stays true while every descriptor has the holder it had.
LEMMA FdSame ==
  ASSUME FdInv, UNCHANGED <<fds, sockets>>,
         \A q \in Proc : Own(q)' = Own(q) /\ (Own(q) # None => handle'[q].kind = handle[q].kind)
  PROVE  FdInv'
BY DEF FdInv

LEMMA FdKept ==
  ASSUME FdInv, UNCHANGED <<fds, sockets>>, NEW p \in Proc, KeepsFd(p)
  PROVE  FdInv'
<1>1. handle[p] # None /\ handle'[p] # None
  BY NoneAssumption DEF KeepsFd
<1>2. \A q \in Proc : Own(q)' = Own(q) /\ (Own(q) # None => handle'[q].kind = handle[q].kind)
  BY <1>1 DEF KeepsFd, Own
<1> QED BY <1>2, FdSame

\* The files stay open as they are.
LEMMA FdUnchanged ==
  ASSUME FdInv, UNCHANGED <<fds, sockets, handle>>
  PROVE  FdInv'
BY FdSame DEF Own

\* What a process holds after a step that gives it h.
LEMMA OwnIs ==
  ASSUME Maps, NEW p \in Proc, NEW h \in Handles \cup {None}, handle' = [handle EXCEPT ![p] = h]
  PROVE  /\ Own(p)' = IF h = None THEN None ELSE h.fd
         /\ handle'[p] = h
         /\ \A q \in Proc \ {p} : Own(q)' = Own(q) /\ handle'[q] = handle[q]
BY DEF Own, Maps

\* An entry that is opened has no descriptor.
LEMMA FdOfEntry ==
  ASSUME FdInv, Maps, UNCHANGED <<fds, sockets>>, NEW p \in Proc, handle[p] = None,
         NEW name \in Name, NEW buf \in Proc \cup {Zmap}, handle' = [handle EXCEPT ![p] = VfsHandle(name, buf)]
  PROVE  FdInv'
<1> DEFINE h == VfsHandle(name, buf)
<1>1. h \in Handles /\ h.fd = None
  BY DEF VfsHandle, Handles
<1> HIDE DEF h
<1>2. Own(p)' = None /\ \A q \in Proc \ {p} : Own(q)' = Own(q) /\ handle'[q] = handle[q]
  BY <1>1, OwnIs DEF h
<1>3. Own(p) = None
  BY DEF Own
<1> QED BY <1>2, <1>3, FdSame

LEMMA OpenVfsFd ==
  ASSUME IInv, FdInv, NEW p \in Proc, NEW name, OpenVfs(p, name)
  PROVE  FdInv'
<1>1. /\ handle[p] = None /\ UNCHANGED <<fds, sockets>>
      /\ \/ UNCHANGED handle
         \/ /\ index # None /\ Lookup(index, name) # None
            /\ \/ cached[name] # None /\ handle' = [handle EXCEPT ![p] = VfsHandle(name, cached[name])]
               \/ handle' = [handle EXCEPT ![p] = VfsHandle(name, Zmap)]
  BY DEF OpenVfs, descriptors, Handle
<1>2. CASE UNCHANGED handle
  BY <1>1, <1>2, FdUnchanged
<1>3. CASE /\ index # None /\ Lookup(index, name) # None
           /\ \/ cached[name] # None /\ handle' = [handle EXCEPT ![p] = VfsHandle(name, cached[name])]
              \/ handle' = [handle EXCEPT ![p] = VfsHandle(name, Zmap)]
  <2>1. Maps /\ IndexInv
    BY DEF IInv
  <2>2. name \in Names /\ name \in Name
    BY <1>3, <2>1, NamedIs
  <2>3. cached[name] \in Proc \cup {None, Zmap}
    BY <2>1, <2>2 DEF IndexInv
  <2> QED BY <1>1, <1>3, <2>1, <2>2, <2>3, FdOfEntry
<1> QED BY <1>1, <1>2, <1>3

LEMMA ReturnFd ==
  ASSUME IInv, FdInv, NEW p \in Proc, Return(p)
  PROVE  FdInv'
<1>1. /\ UNCHANGED <<fds, sockets>>
      /\ handle' = [handle EXCEPT ![p] = VfsHandle(op[p].name, cached[op[p].name])]
  BY DEF Return, descriptors, Handle
<1>2. Maps
  BY DEF IInv
<1>3. handle[p] = None /\ op[p].name \in Name /\ cached[op[p].name] \in Proc \cup {Zmap}
  BY ReturnIs
<1> QED BY <1>1, <1>2, <1>3, FdOfEntry

\* A descriptor nobody has.
LEMMA NobodyHas ==
  ASSUME FdInv, NEW f \in Fd, fds[f] = "closed"
  PROVE  f \notin sockets /\ \A q \in Proc : Own(q) # f
BY DEF FdInv

LEMMA FdIsNoNone ==
  ASSUME NEW f \in Fd
  PROVE  f # None
BY NoneAssumption

\* A descriptor nobody has becomes the one of p, which had none or closes it.
LEMMA FdTaken ==
  ASSUME FdInv, NEW p \in Proc, NEW f \in Fd, NEW kind \in {"anon", "file"},
         fds[f] = "closed" \/ f = Own(p),
         fds' = [g \in Fd |-> IF g = f THEN kind ELSE IF g = Own(p) THEN "closed" ELSE fds[g]],
         sockets' = sockets, Own(p)' = f, handle'[p].kind = kind,
         \A q \in Proc \ {p} : Own(q)' = Own(q) /\ handle'[q] = handle[q]
  PROVE  FdInv'
<1>1. f # None /\ f \notin sockets /\ \A q \in Proc \ {p} : Own(q) # f
  BY NobodyHas, FdIsNoNone DEF FdInv
<1>2. fds' \in [Fd -> {"closed", "anon", "file"}] /\ sockets' \subseteq Fd
  BY DEF FdInv
<1>3. ASSUME NEW q \in Proc, Own(q)' # None
      PROVE  Own(q)' \in Fd \ sockets' /\ fds'[Own(q)'] = handle'[q].kind
  <2>1. CASE q = p
    BY <1>1, <2>1
  <2>2. CASE q # p
    <3>1. Own(q)' = Own(q) /\ handle'[q] = handle[q] /\ Own(q) \in Fd \ sockets
          /\ fds[Own(q)] = handle[q].kind
      BY <1>3, <2>2 DEF FdInv
    <3>2. Own(q) # f /\ Own(q) # Own(p)
      BY <1>1, <1>3, <2>2, <3>1 DEF FdInv
    <3> QED BY <3>1, <3>2
  <2> QED BY <2>1, <2>2
<1>4. ASSUME NEW q \in Proc, NEW r \in Proc, Own(q)' # None, Own(q)' = Own(r)'
      PROVE  q = r
  <2>1. CASE q # p /\ r # p
    BY <1>4, <2>1 DEF FdInv
  <2>2. CASE q = p \/ r = p
    BY <1>1, <1>4, <2>2
  <2> QED BY <2>1, <2>2
<1>5. ASSUME NEW g \in Fd
      PROVE  fds'[g] # "closed" <=> g \in sockets' \/ \E q \in Proc : Own(q)' = g
  <2>1. CASE g = f
    BY <2>1
  <2>2. CASE g # f /\ g = Own(p)
    <3>1. fds'[g] = "closed" /\ g # None
      BY <2>2, FdIsNoNone
    <3>2. g \notin sockets
      BY <2>2, <3>1 DEF FdInv
    <3>3. \A q \in Proc : Own(q)' # g
      BY <2>2, <3>1 DEF FdInv
    <3> QED BY <3>1, <3>2, <3>3
  <2>3. CASE g # f /\ g # Own(p)
    <3>1. fds'[g] = fds[g]
      BY <2>3
    <3>2. (\E q \in Proc : Own(q)' = g) <=> \E q \in Proc : Own(q) = g
      BY <2>3
    <3> QED BY <3>1, <3>2 DEF FdInv
  <2> QED BY <2>1, <2>2, <2>3
<1> QED BY <1>2, <1>3, <1>4, <1>5 DEF FdInv

\* The descriptor of p is closed.
LEMMA FdGone ==
  ASSUME FdInv, NEW p \in Proc,
         fds' = [g \in Fd |-> IF g = Own(p) THEN "closed" ELSE fds[g]],
         sockets' = sockets, Own(p)' = None,
         \A q \in Proc \ {p} : Own(q)' = Own(q) /\ handle'[q] = handle[q]
  PROVE  FdInv'
<1>1. fds' \in [Fd -> {"closed", "anon", "file"}] /\ sockets' \subseteq Fd
  BY DEF FdInv
<1>2. ASSUME NEW q \in Proc, Own(q)' # None
      PROVE  Own(q)' \in Fd \ sockets' /\ fds'[Own(q)'] = handle'[q].kind
  <2>1. q # p /\ Own(q)' = Own(q) /\ handle'[q] = handle[q]
    BY <1>2
  <2>2. Own(q) \in Fd \ sockets /\ fds[Own(q)] = handle[q].kind /\ Own(q) # Own(p)
    BY <1>2, <2>1 DEF FdInv
  <2> QED BY <2>1, <2>2
<1>3. ASSUME NEW q \in Proc, NEW r \in Proc, Own(q)' # None, Own(q)' = Own(r)'
      PROVE  q = r
  BY <1>3 DEF FdInv
<1>4. ASSUME NEW g \in Fd
      PROVE  fds'[g] # "closed" <=> g \in sockets' \/ \E q \in Proc : Own(q)' = g
  <2>1. CASE g = Own(p)
    <3>1. fds'[g] = "closed" /\ g # None
      BY <2>1, FdIsNoNone
    <3>2. g \notin sockets
      BY <2>1, <3>1 DEF FdInv
    <3>3. \A q \in Proc : Own(q)' # g
      BY <2>1, <3>1 DEF FdInv
    <3> QED BY <3>1, <3>2, <3>3
  <2>2. CASE g # Own(p)
    <3>1. fds'[g] = fds[g]
      BY <2>2
    <3>2. (\E q \in Proc : Own(q)' = g) <=> \E q \in Proc : Own(q) = g
      BY <2>2, FdIsNoNone
    <3> QED BY <3>1, <3>2 DEF FdInv
  <2> QED BY <2>1, <2>2
<1> QED BY <1>1, <1>2, <1>3, <1>4 DEF FdInv

LEMMA CloseFd ==
  ASSUME IInv, FdInv, NEW p \in Proc, Close(p)
  PROVE  FdInv'
<1>1. /\ handle[p] # None /\ handle' = [handle EXCEPT ![p] = None] /\ sockets' = sockets
      /\ fds' = [f \in Fd |-> IF f = handle[p].fd THEN "closed" ELSE fds[f]]
  BY DEF Close, Handle
<1>2. Own(p) = handle[p].fd
  BY <1>1 DEF Own
<1>3. Maps
  BY DEF IInv
<1>4. Own(p)' = None /\ \A q \in Proc \ {p} : Own(q)' = Own(q) /\ handle'[q] = handle[q]
  BY <1>1, <1>3, OwnIs
<1> QED BY <1>1, <1>2, <1>4, FdGone

LEMMA OpenFileFd ==
  ASSUME IInv, FdInv, NEW p \in Proc, NEW modes \in Modes, OpenFile(p, modes)
  PROVE  FdInv'
<1> DEFINE fd == Least(Free)
           h == [kind |-> "file", modes |-> modes, pos |-> 0, fd |-> fd]
<1>1. /\ handle[p] = None /\ sockets' = sockets
      /\ \/ UNCHANGED <<handle, fds>>
         \/ /\ Free # {} /\ fds' = [fds EXCEPT ![fd] = "file"]
            /\ handle' = [handle EXCEPT ![p] = h]
  BY DEF OpenFile, Handle
<1>2. CASE UNCHANGED <<handle, fds>>
  BY <1>1, <1>2, FdUnchanged
<1>3. CASE /\ Free # {} /\ fds' = [fds EXCEPT ![fd] = "file"]
           /\ handle' = [handle EXCEPT ![p] = h]
  <2>1. fd \in Fd /\ fds[fd] = "closed"
    BY <1>3, FreeIs
  <2>2. h \in Handles
    BY <2>1 DEF Handles, Modes
  <2>3. h.fd = fd /\ h.kind = "file" /\ h # None
    BY <2>2, NoneAssumption
  <2>4. Maps
    BY DEF IInv
  <2> HIDE DEF h, fd
  <2>5. /\ Own(p)' = fd /\ handle'[p] = h
        /\ \A q \in Proc \ {p} : Own(q)' = Own(q) /\ handle'[q] = handle[q]
    BY <1>3, <2>2, <2>3, <2>4, OwnIs
  <2>6. Own(p) = None
    BY <1>1 DEF Own
  <2>7. fds' = [g \in Fd |-> IF g = fd THEN "file" ELSE IF g = Own(p) THEN "closed" ELSE fds[g]]
    <3>1. fds \in [Fd -> {"closed", "anon", "file"}]
      BY DEF FdInv
    <3>2. \A g \in Fd : g # Own(p)
      BY <2>6, FdIsNoNone
    <3> QED BY <1>3, <3>1, <3>2
  <2> QED BY <1>1, <2>1, <2>3, <2>5, <2>7, FdTaken
<1> QED BY <1>1, <1>2, <1>3

LEMMA GetHandleFd ==
  ASSUME IInv, FdInv, NEW p \in Proc, GetHandle(p)
  PROVE  FdInv'
<1> DEFINE closed == [f \in Fd |-> IF f = handle[p].fd THEN "closed" ELSE fds[f]]
           free == {f \in Fd : closed[f] = "closed"}
<1>1. /\ Vfs(p) /\ sockets' = sockets
      /\ \E fd \in MakeAnonFd(free) :
           /\ fds' = [f \in Fd |-> IF f = fd THEN "anon" ELSE closed[f]]
           /\ handle' = [handle EXCEPT ![p] = [handle[p] EXCEPT !.fd = fd]]
  BY DEF GetHandle, Handle
<1>2. PICK fd \in MakeAnonFd(free) :
        /\ fds' = [f \in Fd |-> IF f = fd THEN "anon" ELSE closed[f]]
        /\ handle' = [handle EXCEPT ![p] = [handle[p] EXCEPT !.fd = fd]]
  BY <1>1
<1>3. Maps /\ handle[p] \in Handles /\ handle[p].kind = "anon" /\ handle[p] # None
  BY <1>1, VfsIs, NoneAssumption DEF IInv
<1>4. Own(p) = handle[p].fd
  BY <1>3 DEF Own
<1>5. fd = None \/ (fd \in Fd /\ closed[fd] = "closed")
  <2>1. CASE free = {}
    BY <1>2, <2>1 DEF MakeAnonFd
  <2>2. CASE free # {}
    <3>1. free \in SUBSET Nat
      BY RuntimeAssumption
    <3> HIDE DEF free
    <3>2. Least(free) \in free
      BY <2>2, <3>1, LeastIs
    <3> QED BY <1>2, <2>2, <3>2 DEF MakeAnonFd, free
  <2> QED BY <2>1, <2>2
<1> DEFINE h == [handle[p] EXCEPT !.fd = fd]
<1>6. h \in Handles /\ h.fd = fd /\ h.kind = "anon"
  BY <1>3, <1>5, AnonIs
<1>7. h # None
  BY <1>6, NoneAssumption
<1> HIDE DEF h
<1>8. /\ Own(p)' = fd /\ handle'[p] = h
      /\ \A q \in Proc \ {p} : Own(q)' = Own(q) /\ handle'[q] = handle[q]
  BY <1>2, <1>3, <1>6, <1>7, OwnIs DEF h
<1>9. fds' = [g \in Fd |-> IF g = fd THEN "anon" ELSE IF g = Own(p) THEN "closed" ELSE fds[g]]
  BY <1>2, <1>4
<1>10. CASE fd = None
  <2>1. \A g \in Fd : g # fd
    BY <1>10, FdIsNoNone
  <2>2. fds' = [g \in Fd |-> IF g = Own(p) THEN "closed" ELSE fds[g]]
    BY <1>9, <2>1
  <2> QED BY <1>1, <1>8, <1>10, <2>2, FdGone
<1>11. CASE fd # None
  <2>1. fd \in Fd /\ (fds[fd] = "closed" \/ fd = Own(p))
    BY <1>4, <1>5, <1>11
  <2> QED BY <1>1, <1>6, <1>8, <1>9, <2>1, FdTaken
<1> QED BY <1>10, <1>11

LEMMA DupHandleFd ==
  ASSUME IInv, FdInv, NEW p \in Proc, DupHandle(p)
  PROVE  FdInv'
<1> DEFINE f == Least(Free)
<1>1. /\ Free # {} /\ fds' = [fds EXCEPT ![f] = handle[p].kind] /\ sockets' = sockets \cup {f}
      /\ UNCHANGED handle /\ handle[p].kind \in {"anon", "file"}
  BY DEF DupHandle, Vfs, File
<1>2. f \in Fd /\ fds[f] = "closed"
  BY <1>1, FreeIs
<1>3. f \notin sockets /\ \A q \in Proc : Own(q) # f
  BY <1>2, NobodyHas
<1>4. \A q \in Proc : Own(q)' = Own(q)
  BY <1>1 DEF Own
<1> HIDE DEF f
<1>5. fds' \in [Fd -> {"closed", "anon", "file"}] /\ sockets' \subseteq Fd
  BY <1>1, <1>2 DEF FdInv
<1>6. \A q \in Proc : Own(q)' # None => Own(q)' \in Fd \ sockets' /\ fds'[Own(q)'] = handle'[q].kind
  BY <1>1, <1>2, <1>3, <1>4 DEF FdInv
<1>7. \A q, r \in Proc : Own(q)' # None /\ Own(q)' = Own(r)' => q = r
  BY <1>4 DEF FdInv
<1>8. \A g \in Fd : fds'[g] # "closed" <=> g \in sockets' \/ \E q \in Proc : Own(q)' = g
  <2> SUFFICES ASSUME NEW g \in Fd
               PROVE  fds'[g] # "closed" <=> g \in sockets' \/ \E q \in Proc : Own(q)' = g
    OBVIOUS
  <2>1. CASE g = f
    BY <1>1, <1>2, <2>1 DEF FdInv
  <2>2. CASE g # f
    <3>1. fds'[g] = fds[g] /\ (g \in sockets' <=> g \in sockets)
      BY <1>1, <2>2 DEF FdInv
    <3> QED BY <1>4, <3>1 DEF FdInv
  <2> QED BY <2>1, <2>2
<1> QED BY <1>5, <1>6, <1>7, <1>8 DEF FdInv

LEMMA SocketClosesFd ==
  ASSUME FdInv, NEW f \in Fd, SocketCloses(f)
  PROVE  FdInv'
<1>1. /\ f \in sockets /\ sockets' = sockets \ {f} /\ fds' = [fds EXCEPT ![f] = "closed"]
      /\ UNCHANGED handle
  BY DEF SocketCloses
<1>2. \A q \in Proc : Own(q)' = Own(q) /\ Own(q) # f
  <2>1. \A q \in Proc : Own(q)' = Own(q)
    BY <1>1 DEF Own
  <2>2. f # None
    BY FdIsNoNone
  <2> QED BY <1>1, <2>1, <2>2 DEF FdInv
<1>3. fds' \in [Fd -> {"closed", "anon", "file"}] /\ sockets' \subseteq Fd
  BY <1>1 DEF FdInv
<1>4. \A q \in Proc : Own(q)' # None => Own(q)' \in Fd \ sockets' /\ fds'[Own(q)'] = handle'[q].kind
  BY <1>1, <1>2 DEF FdInv
<1>5. \A q, r \in Proc : Own(q)' # None /\ Own(q)' = Own(r)' => q = r
  BY <1>2 DEF FdInv
<1>6. \A g \in Fd : fds'[g] # "closed" <=> g \in sockets' \/ \E q \in Proc : Own(q)' = g
  <2> SUFFICES ASSUME NEW g \in Fd
               PROVE  fds'[g] # "closed" <=> g \in sockets' \/ \E q \in Proc : Own(q)' = g
    OBVIOUS
  <2>1. CASE g = f
    BY <1>1, <1>2, <2>1 DEF FdInv
  <2>2. CASE g # f
    <3>1. fds'[g] = fds[g] /\ (g \in sockets' <=> g \in sockets)
      BY <1>1, <2>2 DEF FdInv
    <3> QED BY <1>2, <3>1 DEF FdInv
  <2> QED BY <2>1, <2>2
<1> QED BY <1>3, <1>4, <1>5, <1>6 DEF FdInv

\* Every step keeps the invariant of the descriptors.
LEMMA NextFd ==
  ASSUME IInv, FdInv, [Next]_vars
  PROVE  FdInv'
<1>1. CASE Boot \/ BootFails \/ ErlStart \/ UNCHANGED vars
  BY <1>1, FdUnchanged DEF Boot, BootFails, ErlStart, vars, descriptors
<1>2. ASSUME NEW f \in Fd, SocketCloses(f) PROVE FdInv'
  BY <1>2, SocketClosesFd
<1>3. ASSUME NEW p \in Proc, Files(p) PROVE FdInv'
  <2>1. CASE \E name \in launch.opens[p] \ {Disk} : OpenVfs(p, name)
    BY <2>1, OpenVfsFd
  <2>2. CASE \E modes \in Modes : OpenFile(p, modes)
    BY <2>2, OpenFileFd
  <2>3. CASE \/ Inflate(p) \/ InflateFails(p) \/ Publish(p) \/ RefuseVfs(p) \/ TruncateFile(p)
             \/ IoEnds(p) \/ IoFails(p)
    BY <2>3, FdUnchanged DEF Inflate, InflateFails, Publish, RefuseVfs, TruncateFile, IoEnds, IoFails, Finish, descriptors
  <2>4. CASE Return(p) \/ Close(p) \/ GetHandle(p) \/ DupHandle(p)
    BY <2>4, ReturnFd, CloseFd, GetHandleFd, DupHandleFd
  <2>5. ASSUME NEW do \in Reads, NEW lens \in ReadIovs, NEW offset \in Offsets, ReadVfs(p, do, lens, offset)
        PROVE  FdInv'
    <3>1. UNCHANGED <<fds, sockets>>
      BY <2>5 DEF ReadVfs, descriptors
    <3>2. KeepsFd(p)
      BY <2>5, ReadVfsStep
    <3> QED BY <3>1, <3>2, FdKept
  <2>6. ASSUME NEW do, NEW lens, NEW offset, BeginIo(p, do, lens, offset)
        PROVE  FdInv'
    BY <2>6, FdUnchanged DEF BeginIo, descriptors
  <2>7. ASSUME NEW n \in 1 .. MaxFile, ReadSome(p, n) \/ WriteSome(p, n)
        PROVE  FdInv'
    <3>1. UNCHANGED <<fds, sockets>>
      BY <2>7 DEF ReadSome, WriteSome, descriptors
    <3>2. n \in Nat
      BY RuntimeAssumption
    <3>3. KeepsFd(p)
      BY <2>7, <3>2, ReadSomeStep, WriteSomeStep
    <3> QED BY <3>1, <3>3, FdKept
  <2>8. ASSUME NEW base \in Bases, NEW offset \in Offsets, SeekVfs(p, base, offset) \/ SeekFile(p, base, offset)
        PROVE  FdInv'
    <3>1. UNCHANGED <<fds, sockets>>
      BY <2>8 DEF SeekVfs, SeekFile, descriptors
    <3>2. KeepsFd(p)
      BY <2>8, SeekVfsStep, SeekFileStep
    <3> QED BY <3>1, <3>2, FdKept
  <2> QED BY <1>3, <2>1, <2>2, <2>3, <2>4, <2>5, <2>6, <2>7, <2>8 DEF Files
<1> QED BY <1>1, <1>2, <1>3 DEF Next

LEMMA InitFd ==
  ASSUME Init
  PROVE  FdInv
<1>1. fds = [f \in Fd |-> "closed"] /\ sockets = {} /\ handle = [p \in Proc |-> None]
  BY DEF Init
<1>2. \A p \in Proc : Own(p) = None
  BY <1>1 DEF Own
<1>3. \A f \in Fd : f # None
  BY FdIsNoNone
<1> QED BY <1>1, <1>2, <1>3 DEF FdInv

\* A descriptor is open exactly while a file or a socket holds it, never for
\* two of them, as what its holder takes it for: opening, closing, asking for
\* a descriptor twice and handing one to a socket leak none and close none
\* under its holder (efile_open, efile_close, efile_get_handle,
\* efile_dup_handle).
THEOREM DescriptorInvariant == Spec => []FdInv
<1>1. Init => IInv /\ FdInv
  BY InitIs, InitFd
<1>2. (IInv /\ FdInv) /\ [Next]_vars => (IInv /\ FdInv)'
  BY NextIs, NextFd
<1>3. Spec => [](IInv /\ FdInv)
  BY <1>1, <1>2, PTL DEF Spec
<1> QED BY <1>3, PTL

\* The same, counted: as many holders as the descriptor is open
\* (efile_get_handle, efile_dup_handle, efile_close).
THEOREM DescriptorsAccounted == Spec => []FdsAccounted
<1>1. FdInv /\ Maps => FdsAccounted
  <2> SUFFICES ASSUME FdInv, Maps PROVE FdsAccounted
    OBVIOUS
  <2>1. ASSUME NEW f \in Fd
        PROVE  Cardinality({p \in Proc : handle[p] # None /\ handle[p].fd = f})
                 + (IF f \in sockets THEN 1 ELSE 0) = (IF fds[f] = "closed" THEN 0 ELSE 1)
    <3> DEFINE H == {p \in Proc : handle[p] # None /\ handle[p].fd = f}
    <3>1. \A p \in Proc : p \in H <=> Own(p) = f
      BY FdIsNoNone DEF Own
    <3>2. H \subseteq Proc
      OBVIOUS
    <3> HIDE DEF H
    <3>3. \A p, q \in H : p = q
      BY <3>1, <3>2, FdIsNoNone DEF FdInv
    <3>4. f \in sockets => H = {}
      BY <3>1, <3>2, FdIsNoNone DEF FdInv
    <3>5. fds[f] # "closed" <=> f \in sockets \/ H # {}
      BY <3>1, <3>2 DEF FdInv
    <3>6. CASE H = {}
      <4>1. Cardinality(H) = 0
        BY <3>6, FS_EmptySet
      <4> QED BY <3>5, <3>6, <4>1 DEF H
    <3>7. CASE H # {}
      <4>1. PICK p : H = {p}
        BY <3>3, <3>7
      <4>2. Cardinality(H) = 1
        BY <4>1, FS_Singleton
      <4> QED BY <3>4, <3>5, <3>7, <4>2 DEF H
    <3> QED BY <3>6, <3>7
  <2>2. \A p \in Proc : handle[p] # None /\ handle[p].fd # None => fds[handle[p].fd] = handle[p].kind
    BY DEF FdInv, Own
  <2> QED BY <2>1, <2>2 DEF FdsAccounted
<1>2. IInv => Maps
  BY DEF IInv
<1> QED BY <1>1, <1>2, RuntimeInvariant, DescriptorInvariant, PTL

\* What the C types say, and that no position leaves its entry or the file:
\* neither by seeking nor by reading (efile_seek, efile_readv, efile_writev).
THEOREM RuntimeTypes == Spec => []TypeOK
<1>1. IInv /\ FdInv => TypeOK
  <2> SUFFICES ASSUME IInv, FdInv PROVE TypeOK
    OBVIOUS
  <2>1. Maps /\ IndexInv /\ MaxFile \in Nat
    BY RuntimeAssumption DEF IInv
  <2>2. phase \in {"start", "booted", "running", "exited", "failed"}
        /\ \A name \in DOMAIN cached : cached[name] \in Proc \cup {None, Zmap}
    BY <2>1 DEF IndexInv
  <2>3. ASSUME NEW p \in Proc, handle[p] # None
        PROVE  handle[p].pos \in 0 .. Size(handle[p])
    <3>1. handle[p] \in Handles /\ Sound(handle[p], disk[p])
      BY <2>1, <2>3 DEF Maps, IInv, ProcInv
    <3>2. handle[p].kind = "anon" \/ handle[p].kind = "file"
      BY <3>1 DEF Handles
    <3>3. CASE handle[p].kind = "anon"
      <4>1. handle[p].pos \in Nat
        BY <3>1, <3>3, AnonIs
      <4>2. handle[p].name \in Names /\ handle[p].pos <= Len(Lookup(index, handle[p].name).data)
        BY <2>3, <3>1, <3>3 DEF Sound
      <4>3. Lookup(index, handle[p].name).data \in Seq(Nat)
        BY <2>1, <4>2, NamedIs
      <4> QED BY <3>3, <4>1, <4>2, <4>3 DEF Size
    <3>4. CASE handle[p].kind = "file"
      <4>1. handle[p].pos \in Nat /\ handle[p].pos <= MaxFile
        BY <2>3, <3>1, <3>4, FileIs DEF Sound
      <4>2. Size(handle[p]) = MaxFile
        BY <3>4 DEF Size
      <4> QED BY <2>1, <4>1, <4>2
    <3> QED BY <3>2, <3>3, <3>4
  <2>4. ASSUME NEW p \in Proc, disk[p] # None
        PROVE  Len(disk[p]) <= MaxFile
    BY <2>1, <2>4 DEF Maps, Stores
  <2>5. ASSUME NEW p \in Proc, op[p] # None, op[p].do \in Reads \cup Writes
        PROVE  op[p].at \in 0 .. MaxFile
    <3> DEFINE c == op[p].call
               n == op[p].n
               d == disk[p]
    <3>1. Calling(p)
      BY <2>5 DEF Calling
    <3>2. Moving(handle[p], op[p], mem[p], d) /\ d \in Stores
      BY <3>1, CallingIs
    <3>3. n \in Nat /\ c.want \in Nat /\ n <= c.want
      <4>1. PICK w \in n .. c.want : Len(Given(p)) = w - n
        BY <3>1, GivenOfCall
      <4> QED BY <3>1, <4>1, GivenOfCall
    <3>4. /\ op[p].at = c.from + n /\ c.from \in 0 .. MaxFile
          /\ c.do \in Reads \/ c.do \in Writes
          /\ c.do \in Reads => n <= Left(d, c.from)
          /\ c.do \in Writes => c.from + c.want <= MaxFile
      BY <2>5, <3>2 DEF Moving
    <3>5. Len(d) \in Nat /\ Len(d) <= MaxFile
      BY <3>2 DEF Stores
    <3> DEFINE from == c.from
               want == c.want
    <3>6. from \in 0 .. MaxFile /\ want \in Nat /\ n <= want
      BY <3>3, <3>4
    <3>7. Left(d, from) = IF Len(d) > from THEN Len(d) - from ELSE 0
      BY DEF Left
    <3>8. CASE c.do \in Reads
      <4>1. n <= Left(d, from)
        BY <3>4, <3>8
      <4> HIDE DEF n, from, d
      <4>2. from + n \in 0 .. MaxFile
        BY <2>1, <3>3, <3>5, <3>6, <3>7, <4>1
      <4> QED BY <3>4, <4>2 DEF n, from
    <3>9. CASE c.do \in Writes
      <4>1. from + want <= MaxFile
        BY <3>4, <3>9
      <4> HIDE DEF n, from, want
      <4>2. from + n \in 0 .. MaxFile
        BY <2>1, <3>3, <3>6, <4>1
      <4> QED BY <3>4, <4>2 DEF n, from
    <3> QED BY <3>4, <3>8, <3>9
  <2>6. handle \in [Proc -> Handles \cup {None}]
    BY <2>1 DEF Maps
  <2>7. fds \in [Fd -> {"closed", "anon", "file"}] /\ sockets \subseteq Fd
    BY DEF FdInv
  <2> QED BY <2>2, <2>3, <2>4, <2>5, <2>6, <2>7 DEF TypeOK
<1> QED BY <1>1, RuntimeInvariant, DescriptorInvariant, PTL

-----------------------------------------------------------------------------
(* The arguments.                                                          *)

\* A token and the NUL behind it.
LEMMA TokenBehind ==
  ASSUME NEW a \in Seq(Nat), NEW b \in Token
  PROVE  LET c == a \o Append(b, Nul)
         IN /\ c \in Seq(Nat) /\ Len(c) = Len(a) + Len(b) + 1 /\ Append(b, Nul) \in Seq(Nat)
            /\ \A k \in 1 .. Len(a) : c[k] = a[k]
            /\ \A k \in 1 .. Len(b) : c[Len(a) + k] = b[k] /\ b[k] \in Nat /\ b[k] # Nul
            /\ c[Len(a) + Len(b) + 1] = Nul
<1> DEFINE t == Append(b, Nul)
           c == a \o t
<1>1. b \in Seq(Nat \ {Nul}) /\ Len(b) \in Nat /\ Len(a) \in Nat
  BY DEF Token
<1>2. \A k \in 1 .. Len(b) : b[k] \in Nat /\ b[k] # Nul
  BY <1>1
<1>3. b \in Seq(Nat)
  <2>1. b \in [1 .. Len(b) -> Nat]
    BY <1>1, <1>2
  <2> QED BY <1>1, <2>1, SeqDef
<1>4. t \in Seq(Nat) /\ Len(t) = Len(b) + 1 /\ t[Len(b) + 1] = Nul
      /\ \A k \in 1 .. Len(b) : t[k] = b[k]
  <2>1. Nul \in Nat
    BY DEF Nul
  <2> QED BY <1>3, <2>1, AppendProperties
<1> HIDE DEF t
<1>5. c \in Seq(Nat) /\ Len(c) = Len(a) + Len(t)
      /\ \A i \in 1 .. Len(a) + Len(t) : c[i] = IF i <= Len(a) THEN a[i] ELSE t[i - Len(a)]
  BY <1>4, ConcatProperties
<1> HIDE DEF c
<1>6. \A k \in 1 .. Len(a) : c[k] = a[k]
  BY <1>1, <1>4, <1>5, SMTT(30)
<1>7. ASSUME NEW k \in 1 .. Len(b) PROVE c[Len(a) + k] = b[k]
  <2> DEFINE i == Len(a) + k
  <2>1. i \in 1 .. Len(a) + Len(t) /\ ~ (i <= Len(a)) /\ i - Len(a) = k
    BY <1>1, <1>4
  <2> HIDE DEF i
  <2>2. c[i] = t[k]
    BY <1>5, <2>1
  <2> QED BY <1>4, <2>2 DEF i
<1>8. c[Len(a) + Len(b) + 1] = Nul
  <2> DEFINE i == Len(a) + Len(b) + 1
  <2>1. i \in 1 .. Len(a) + Len(t) /\ ~ (i <= Len(a)) /\ i - Len(a) = Len(b) + 1
    BY <1>1, <1>4
  <2> HIDE DEF i
  <2>2. c[i] = t[Len(b) + 1]
    BY <1>5, <2>1
  <2> QED BY <1>4, <2>2 DEF i
<1>9. Len(c) = Len(a) + Len(b) + 1
  BY <1>1, <1>4, <1>5
<1> QED BY <1>2, <1>4, <1>5, <1>6, <1>7, <1>8, <1>9 DEF c, t

\* Where the tokens of a rendered file end.
Ends(tokens, data, e) ==
  LET n == Len(tokens)
      nuls == {k \in DOMAIN data : data[k] = Nul}
  IN /\ data \in Seq(Nat) /\ e \in [0 .. n -> Nat] /\ e[0] = 0 /\ Len(data) = e[n]
     /\ \A i \in 1 .. n : e[i] = e[i - 1] + Len(tokens[i]) + 1
     /\ \A i \in 1 .. n : \A k \in 1 .. Len(tokens[i]) :
          e[i - 1] + k \in 1 .. e[n] /\ data[e[i - 1] + k] = tokens[i][k]
     /\ nuls = {e[i] : i \in 1 .. n} /\ Cardinality(nuls) = n

LEMMA RenderIs ==
  ASSUME NEW tokens \in Seq(Token)
  PROVE  \E e : Ends(tokens, Render(tokens), e)
<1> DEFINE n == Len(tokens)
           s == [i \in DOMAIN tokens |-> Append(tokens[i], Nul)]
<1>1. n \in Nat /\ \A i \in 1 .. n : tokens[i] \in Token /\ tokens[i] \in Seq(Nat \ {Nul}) /\ Len(tokens[i]) \in Nat
  BY DEF Token
<1>2. s \in Seq(Seq(Nat)) /\ Len(s) = n /\ \A i \in 1 .. n : s[i] = Append(tokens[i], Nul)
  <2>1. \A i \in 1 .. n : Append(tokens[i], Nul) \in Seq(Nat)
    <3>1. <<>> \in Seq(Nat)
      OBVIOUS
    <3> QED BY <1>1, <3>1, TokenBehind
  <2>2. s \in [1 .. n -> Seq(Nat)]
    BY <2>1
  <2>3. s \in Seq(Seq(Nat))
    BY <1>1, <2>2, SeqDef
  <2> QED BY <1>1, <2>2, <2>3
<1>3. Render(tokens) = FlattenSeq(s)
  BY DEF Render
<1> HIDE DEF s
<1>4. PICK g \in [0 .. n -> Seq(Nat)] : /\ g[0] = <<>> /\ FlattenSeq(s) = g[n]
                                        /\ \A i \in 1 .. n : g[i] = g[i - 1] \o s[i]
  <2>1. \E g \in [0 .. Len(s) -> Seq(Nat)] :
          /\ g[0] = <<>> /\ FlattenSeq(s) = g[Len(s)]
          /\ \A i \in 1 .. Len(s) : g[i] = g[i - 1] \o s[i]
    BY <1>2, FlattenSteps
  <2> HIDE DEF n
  <2> QED BY <1>2, <2>1
<1> DEFINE e == [i \in 0 .. n |-> Len(g[i])]
           N(m) == {k \in 1 .. e[m] : g[m][k] = Nul}
           E(m) == {e[i] : i \in 1 .. m}
           Same(m) == \A i \in 1 .. m : \A k \in 1 .. Len(tokens[i]) :
                        e[i - 1] + k \in 1 .. e[m] /\ g[m][e[i - 1] + k] = tokens[i][k]
<1> HIDE DEF n
<1>5. e \in [0 .. n -> Nat] /\ \A i \in 0 .. n : e[i] = Len(g[i]) /\ g[i] \in Seq(Nat)
  BY <1>4
<1> HIDE DEF e
<1>6. e[0] = 0
  BY <1>1, <1>4, <1>5
<1>7. ASSUME NEW i \in 1 .. n
      PROVE  /\ i - 1 \in 0 .. n /\ i \in 0 .. n
             /\ e[i] = e[i - 1] + Len(tokens[i]) + 1
             /\ \A k \in 1 .. e[i - 1] : g[i][k] = g[i - 1][k]
             /\ \A k \in 1 .. Len(tokens[i]) :
                  /\ g[i][e[i - 1] + k] = tokens[i][k] /\ tokens[i][k] # Nul
             /\ g[i][e[i - 1] + Len(tokens[i]) + 1] = Nul
  <2> DEFINE a == g[i - 1]
             b == tokens[i]
             c == a \o Append(b, Nul)
  <2>1. i - 1 \in 0 .. n /\ i \in 0 .. n
    BY <1>1
  <2>2. a \in Seq(Nat) /\ b \in Token /\ e[i - 1] = Len(a) /\ e[i] = Len(g[i])
    BY <1>1, <1>5, <2>1
  <2>3. g[i] = c
    BY <1>2, <1>4
  <2> HIDE DEF a, b
  <2>4. /\ Len(c) = Len(a) + Len(b) + 1
        /\ \A k \in 1 .. Len(a) : c[k] = a[k]
        /\ \A k \in 1 .. Len(b) : c[Len(a) + k] = b[k] /\ b[k] # Nul
        /\ c[Len(a) + Len(b) + 1] = Nul
    BY <2>2, TokenBehind
  <2> HIDE DEF c
  <2> QED BY <2>1, <2>2, <2>3, <2>4 DEF a, b
<1> DEFINE P == {m \in Nat : m <= n => /\ IsFiniteSet(N(m)) /\ Cardinality(N(m)) = m
                                       /\ N(m) = E(m) /\ Same(m)}
<1>8. 0 \in P
  <2>1. N(0) = {} /\ E(0) = {}
    BY <1>6
  <2>2. Same(0)
    OBVIOUS
  <2> HIDE DEF N, E, Same
  <2> QED BY <2>1, <2>2, FS_EmptySet
<1>9. ASSUME NEW m \in P PROVE m + 1 \in P
  <2> SUFFICES ASSUME m + 1 <= n
               PROVE  /\ IsFiniteSet(N(m + 1)) /\ Cardinality(N(m + 1)) = m + 1
                      /\ N(m + 1) = E(m + 1) /\ Same(m + 1)
    <3> HIDE DEF N, E, Same
    <3> QED OBVIOUS
  <2> DEFINE j == m + 1
             len == Len(tokens[j])
  <2>1. m \in Nat /\ j \in 1 .. n /\ j - 1 = m /\ m \in 0 .. n /\ j \in Nat
    BY <1>1
  <2>2. IsFiniteSet(N(m)) /\ Cardinality(N(m)) = m /\ N(m) = E(m) /\ Same(m)
    <3> HIDE DEF N, E, Same
    <3> QED BY <1>1, <2>1
  <2> HIDE DEF j
  <2>3. /\ e[m] \in Nat /\ e[j] = e[m] + len + 1 /\ len \in Nat
        /\ \A k \in 1 .. e[m] : g[j][k] = g[m][k]
        /\ \A k \in 1 .. len : g[j][e[m] + k] = tokens[j][k] /\ tokens[j][k] # Nul
        /\ g[j][e[m] + len + 1] = Nul
    <3>1. e[m] \in Nat /\ len \in Nat
      BY <1>1, <1>5, <2>1
    <3>2. /\ e[j] = e[j - 1] + Len(tokens[j]) + 1
          /\ \A k \in 1 .. e[j - 1] : g[j][k] = g[j - 1][k]
          /\ \A k \in 1 .. Len(tokens[j]) : g[j][e[j - 1] + k] = tokens[j][k] /\ tokens[j][k] # Nul
          /\ g[j][e[j - 1] + Len(tokens[j]) + 1] = Nul
      BY <1>7, <2>1
    <3> QED BY <2>1, <3>1, <3>2
  <2>4. N(j) = N(m) \cup {e[j]}
    <3>1. ASSUME NEW k \in 1 .. e[j] PROVE g[j][k] = Nul <=> k \in N(m) \/ k = e[j]
      <4> HIDE DEF len
      <4>1. CASE k \in 1 .. e[m]
        BY <2>3, <4>1
      <4>2. CASE k \in e[m] + 1 .. e[m] + len
        <5>1. PICK x \in 1 .. len : e[m] + x = k
          <6> DEFINE y == e[m]
          <6>1. y \in Nat /\ len \in Nat /\ k \in y + 1 .. y + len
            BY <2>3, <4>2
          <6> HIDE DEF y
          <6>2. k - y \in 1 .. len /\ y + (k - y) = k
            BY <6>1
          <6> QED BY <6>2 DEF y
        <5>2. g[j][e[m] + x] = tokens[j][x] /\ tokens[j][x] # Nul
          BY <2>3
        <5>4. g[j][k] # Nul
          BY <5>1, <5>2
        <5>3. k \notin N(m) /\ k # e[j]
          BY <2>3, <4>2
        <5> QED BY <5>3, <5>4
      <4>3. CASE k = e[j]
        BY <2>3, <4>3
      <4>4. k \in 1 .. e[m] \/ k \in e[m] + 1 .. e[m] + len \/ k = e[j]
        <5> DEFINE x == e[m]
                   y == e[j]
        <5>1. x \in Nat /\ y = x + len + 1 /\ len \in Nat /\ k \in 1 .. y
          BY <2>3
        <5> HIDE DEF x, y
        <5>2. k \in 1 .. x \/ k \in x + 1 .. x + len \/ k = y
          BY <5>1
        <5> QED BY <5>2 DEF x, y
      <4> HIDE DEF N
      <4> QED BY <4>1, <4>2, <4>3, <4>4
    <3>2. e[j] \in 1 .. e[j] /\ \A k \in N(m) : k \in 1 .. e[j]
      <4> HIDE DEF len
      <4> QED BY <2>3
    <3> QED BY <3>1, <3>2
  <2>5. e[j] \notin N(m)
    <3> HIDE DEF len
    <3> QED BY <2>3
  <2>6. IsFiniteSet(N(j)) /\ Cardinality(N(j)) = j
    <3> HIDE DEF N
    <3>1. /\ IsFiniteSet(N(m) \cup {e[j]})
          /\ Cardinality(N(m) \cup {e[j]}) = Cardinality(N(m)) + 1
      BY <2>2, <2>5, FS_AddElement
    <3>2. m + 1 = j
      BY DEF j
    <3> QED BY <2>2, <2>4, <3>1, <3>2
  <2>7. E(j) = E(m) \cup {e[j]}
    <3>1. 1 .. j = 1 .. m \cup {j}
      BY <2>1
    <3> QED BY <3>1, SMTT(30)
  <2>8. Same(j)
    <3> SUFFICES ASSUME NEW i \in 1 .. j, NEW k \in 1 .. Len(tokens[i])
                 PROVE  e[i - 1] + k \in 1 .. e[j] /\ g[j][e[i - 1] + k] = tokens[i][k]
      OBVIOUS
    <3>1. CASE i = j
      <4>1. k \in 1 .. len /\ e[i - 1] = e[m]
        BY <2>1, <3>1
      <4> HIDE DEF len
      <4>2. e[m] + k \in 1 .. e[j]
        <5> DEFINE x == e[m]
                   y == e[j]
        <5>1. x \in Nat /\ y = x + len + 1 /\ len \in Nat /\ k \in 1 .. len
          BY <2>3, <4>1
        <5> HIDE DEF x, y
        <5>2. x + k \in 1 .. y
          BY <5>1
        <5> QED BY <5>2 DEF x, y
      <4>3. g[j][e[m] + k] = tokens[j][k]
        BY <2>3, <4>1
      <4> QED BY <3>1, <4>1, <4>2, <4>3
    <3>2. CASE i # j
      <4>1. i \in 1 .. m
        BY <2>1, <3>2
      <4> DEFINE x == e[i - 1] + k
      <4>2. x \in 1 .. e[m] /\ g[m][x] = tokens[i][k]
        BY <2>2, <4>1
      <4> HIDE DEF x, len
      <4>3. x \in 1 .. e[j]
        BY <2>3, <4>2
      <4>4. g[j][x] = g[m][x]
        BY <2>3, <4>2
      <4> QED BY <4>2, <4>3, <4>4 DEF x
    <3> QED BY <3>1, <3>2
  <2> HIDE DEF N, E, Same
  <2> QED BY <2>2, <2>4, <2>6, <2>7, <2>8 DEF j
<1>10. P = Nat
  <2> HIDE DEF P
  <2>1. P \subseteq Nat
    BY DEF P
  <2> QED BY <1>8, <1>9, <2>1, NatInduct
<1>11. Cardinality(N(n)) = n /\ N(n) = E(n) /\ Same(n)
  <2>1. n \in P
    BY <1>1, <1>10
  <2> HIDE DEF N, E, Same
  <2> QED BY <1>1, <2>1
<1>12. n \in 0 .. n /\ g[n] \in Seq(Nat) /\ Len(g[n]) = e[n] /\ DOMAIN g[n] = 1 .. e[n]
  BY <1>1, <1>5
<1>13. \A i \in 1 .. n : e[i] = e[i - 1] + Len(tokens[i]) + 1
  BY <1>7
<1>14. Ends(tokens, g[n], e)
  BY <1>5, <1>6, <1>11, <1>12, <1>13 DEF Ends, n
<1> QED BY <1>3, <1>4, <1>14

\* parse_erl_args gives back the tokens of which the file was made.
LEMMA ParseIs ==
  ASSUME NEW tokens \in Seq(Token)
  PROVE  ParseErlArgs(Render(tokens)) = tokens
<1> DEFINE data == Render(tokens)
           n == Len(tokens)
           nuls == {i \in DOMAIN data : data[i] = Nul}
           next(i) == Least({j \in nuls : i <= j})
           Is(f) == f = [i \in 1 .. Cardinality(nuls) |-> IF i = 1 THEN 1 ELSE next(f[i - 1]) + 1]
           v == CHOOSE f : Is(f)
<1>1. ParseErlArgs(data) = [i \in 1 .. Cardinality(nuls) |-> SubSeq(data, v[i], next(v[i]) - 1)]
  BY DEF ParseErlArgs
<1>2. PICK e : Ends(tokens, data, e)
  BY RenderIs
<1>3. n \in Nat /\ \A i \in 1 .. n : Len(tokens[i]) \in Nat /\ tokens[i] \in Seq(Nat \ {Nul})
  BY DEF Token
<1> HIDE DEF data
<1>4. /\ data \in Seq(Nat) /\ e \in [0 .. n -> Nat] /\ e[0] = 0 /\ Len(data) = e[n]
      /\ \A i \in 1 .. n : e[i] = e[i - 1] + Len(tokens[i]) + 1
      /\ \A i \in 1 .. n : \A k \in 1 .. Len(tokens[i]) :
           e[i - 1] + k \in 1 .. e[n] /\ data[e[i - 1] + k] = tokens[i][k]
      /\ nuls = {e[i] : i \in 1 .. n} /\ Cardinality(nuls) = n
  BY <1>2 DEF Ends
<1> HIDE DEF n
<1>5. nuls \in SUBSET Nat /\ \A i \in 1 .. n : e[i] \in nuls /\ e[i] \in 1 .. Len(data)
  <2>1. nuls \in SUBSET Nat /\ nuls \subseteq 1 .. Len(data)
    BY <1>4
  <2>2. \A i \in 1 .. n : e[i] \in nuls
    BY <1>4
  <2> QED BY <2>1, <2>2
<1> HIDE DEF nuls
<1>6. ASSUME NEW i \in 0 .. n, NEW j \in 0 .. n, i <= j PROVE e[i] <= e[j]
  <2> DEFINE P == {k \in Nat : i + k <= n => e[i] <= e[i + k]}
  <2>1. 0 \in P
    BY <1>3, <1>4
  <2>2. ASSUME NEW k \in P PROVE k + 1 \in P
    <3> SUFFICES ASSUME i + (k + 1) <= n PROVE e[i] <= e[i + (k + 1)]
      OBVIOUS
    <3>1. e[i] <= e[i + k] /\ i + k \in 0 .. n /\ i + (k + 1) \in 1 .. n /\ (i + (k + 1)) - 1 = i + k
      BY <1>3
    <3> DEFINE x == e[i + k]
               y == e[i + (k + 1)]
               l == Len(tokens[i + (k + 1)])
    <3>2. y = x + l + 1 /\ x \in Nat /\ l \in Nat /\ e[i] \in Nat
      BY <1>3, <1>4, <3>1
    <3>3. e[i] <= x
      BY <3>1
    <3> HIDE DEF x, y, l
    <3>4. e[i] <= y
      BY <3>2, <3>3
    <3> QED BY <3>4 DEF y
  <2>3. P = Nat
    <3> HIDE DEF P
    <3>1. P \subseteq Nat
      BY DEF P
    <3> QED BY <2>1, <2>2, <3>1, NatInduct
  <2> DEFINE k == j - i
  <2>4. k \in Nat /\ i + k = j /\ j <= n
    <3>1. i \in Nat /\ j \in Nat /\ i <= j /\ j <= n
      BY <1>3, <1>6
    <3> HIDE DEF P
    <3> QED BY <3>1
  <2> HIDE DEF k, P
  <2>5. i + k <= n => e[i] <= e[i + k]
    BY <2>3, <2>4 DEF P
  <2> QED BY <2>4, <2>5
<1>7. ASSUME NEW i \in 1 .. n
      PROVE  e[i - 1] \in Nat /\ e[i] \in Nat /\ e[i - 1] < e[i] /\ next(e[i - 1] + 1) = e[i]
  <2>1. i - 1 \in 0 .. n /\ i \in 0 .. n
    BY <1>3
  <2>2. e[i - 1] \in Nat /\ e[i] \in Nat
    BY <1>4, <2>1
  <2>3. e[i - 1] < e[i]
    <3> DEFINE x == e[i - 1]
               y == e[i]
               l == Len(tokens[i])
    <3>1. y = x + l + 1 /\ l \in Nat /\ x \in Nat
      BY <1>3, <1>4, <2>2
    <3> HIDE DEF x, y, l
    <3>2. x < y
      BY <3>1
    <3> QED BY <3>2 DEF x, y
  <2> DEFINE S == {j \in nuls : e[i - 1] + 1 <= j}
  <2>4. e[i] \in S
    BY <1>5, <2>2, <2>3
  <2>5. ASSUME NEW x \in S PROVE e[i] <= x
    <3>1. PICK j \in 1 .. n : x = e[j]
      BY <1>4
    <3>2. j \in 0 .. n /\ (j < i => j <= i - 1)
      BY <1>3
    <3>3. e[i - 1] < x /\ x \in Nat
      BY <1>5, <2>2
    <3>4. CASE j < i
      <4>1. e[j] <= e[i - 1]
        BY <1>6, <2>1, <3>2, <3>4
      <4> QED BY <2>2, <3>1, <3>3, <4>1
    <3>5. CASE i <= j
      BY <1>6, <2>1, <3>1, <3>2, <3>5
    <3> QED BY <3>4, <3>5
  <2>6. S \in SUBSET Nat
    BY <1>5
  <2> HIDE DEF S
  <2>7. Least(S) \in S /\ \A y \in S : Least(S) <= y
    BY <2>4, <2>6, LeastIs
  <2>8. Least(S) = e[i]
    <3> DEFINE x == Least(S)
               y == e[i]
    <3>1. x \in Nat /\ y \in Nat /\ y <= x /\ x <= y
      BY <2>2, <2>4, <2>5, <2>6, <2>7
    <3> HIDE DEF x, y
    <3>2. x = y
      BY <3>1
    <3> QED BY <3>2 DEF x, y
  <2> QED BY <2>2, <2>3, <2>8 DEF S
<1> HIDE DEF next
<1> DEFINE w == [i \in 1 .. n |-> e[i - 1] + 1]
<1>8. Is(w)
  <2>1. ASSUME NEW i \in 1 .. n PROVE w[i] = IF i = 1 THEN 1 ELSE next(w[i - 1]) + 1
    <3>1. CASE i = 1
      <4>1. w[1] = e[0] + 1
        <5>1. 1 - 1 = 0 /\ 1 \in 1 .. n
          BY <3>1
        <5>2. w[1] = e[1 - 1] + 1
          BY <5>1
        <5> QED BY <5>1, <5>2
      <4> QED BY <1>4, <3>1, <4>1
    <3>2. CASE i # 1
      <4>1. i - 1 \in 1 .. n
        BY <1>3, <3>2
      <4>2. next(e[(i - 1) - 1] + 1) = e[i - 1]
        BY <1>7, <4>1
      <4>3. w[i - 1] = e[(i - 1) - 1] + 1
        BY <4>1
      <4> QED BY <3>2, <4>2, <4>3
    <3> QED BY <3>1, <3>2
  <2>2. w = [i \in 1 .. n |-> w[i]]
    OBVIOUS
  <2> HIDE DEF w
  <2> QED BY <1>4, <2>1, <2>2
<1>9. Is(v)
  <2> HIDE DEF Is
  <2> QED BY <1>8
<1>10. \A i \in 1 .. n : v[i] = IF i = 1 THEN 1 ELSE next(v[i - 1]) + 1
  <2> HIDE DEF v
  <2> QED BY <1>4, <1>9
<1> HIDE DEF v, Is, w
<1> DEFINE Q == {k \in Nat : k + 1 <= n => v[k + 1] = e[k] + 1}
<1>11. 0 \in Q
  <2>1. 0 + 1 = 1
    OBVIOUS
  <2>2. 1 <= n => v[1] = 1
    BY <1>3, <1>10
  <2>3. e[0] + 1 = 1
    BY <1>4
  <2> QED BY <2>1, <2>2, <2>3
<1>12. ASSUME NEW k \in Q PROVE k + 1 \in Q
  <2> SUFFICES ASSUME (k + 1) + 1 <= n PROVE v[(k + 1) + 1] = e[k + 1] + 1
    OBVIOUS
  <2> DEFINE i == k + 2
  <2>1. k \in Nat /\ i \in 1 .. n /\ i # 1 /\ i - 1 = k + 1 /\ (k + 1) + 1 = i /\ k + 1 \in 1 .. n /\ (k + 1) - 1 = k
    BY <1>3
  <2>2. v[k + 1] = e[k] + 1
    BY <1>3, <2>1
  <2>3. next(e[k] + 1) = e[k + 1]
    <3> DEFINE j == k + 1
    <3>1. j \in 1 .. n /\ j - 1 = k
      BY <2>1
    <3> HIDE DEF j
    <3>2. next(e[j - 1] + 1) = e[j]
      BY <1>7, <3>1
    <3> QED BY <3>1, <3>2 DEF j
  <2> HIDE DEF i
  <2>4. v[i] = next(v[i - 1]) + 1
    BY <1>10, <2>1
  <2> QED BY <2>1, <2>2, <2>3, <2>4
<1> HIDE DEF Q
<1>13. Q = Nat
  <2>1. Q \subseteq Nat
    BY DEF Q
  <2> QED BY <1>11, <1>12, <2>1, NatInduct
<1>14. ASSUME NEW i \in 1 .. n PROVE v[i] = e[i - 1] + 1
  <2>1. i - 1 \in Nat /\ (i - 1) + 1 = i /\ i <= n
    BY <1>3
  <2>2. (i - 1) + 1 <= n => v[(i - 1) + 1] = e[i - 1] + 1
    BY <1>13, <2>1 DEF Q
  <2> QED BY <2>1, <2>2
<1>15. ASSUME NEW i \in 1 .. n PROVE SubSeq(data, v[i], next(v[i]) - 1) = tokens[i]
  <2> DEFINE a == e[i - 1]
             b == e[i]
             t == tokens[i]
             l == Len(t)
             s == SubSeq(data, a + 1, b - 1)
  <2>1. v[i] = a + 1 /\ next(v[i]) = b
    BY <1>7, <1>14
  <2>2. a \in Nat /\ b = a + l + 1 /\ l \in Nat /\ b \in 1 .. Len(data) /\ t \in Seq(Nat \ {Nul})
    BY <1>3, <1>4, <1>5, <1>7
  <2>3. \A k \in 1 .. l : data[a + k] = t[k]
    BY <1>4
  <2> HIDE DEF a, b, t
  <2>4. a + 1 \in 1 .. Len(data) /\ b - 1 \in 0 .. Len(data) /\ (b - 1) - (a + 1) + 1 = l /\ b - 1 = a + l
        /\ b - 1 <= Len(data) /\ data \in Seq(Nat)
    BY <1>4, <2>2
  <2> HIDE DEF l
  <2>5. s \in Seq(Nat) /\ Len(s) = l
    BY <2>2, <2>4
  <2>6. ASSUME NEW k \in 1 .. l PROVE s[k] = t[k]
    <3>1. s[k] = data[a + k]
      BY <2>2, <2>4, <2>6
    <3> QED BY <2>3, <3>1
  <2> HIDE DEF s
  <2>7. t \in Seq(Nat)
    <3>1. t \in [1 .. l -> Nat]
      BY <2>2 DEF l
    <3> QED BY <2>2, <3>1, SeqDef
  <2>8. s = t
    <3>1. Len(t) = l
      BY DEF l
    <3> QED BY <2>5, <2>6, <2>7, <3>1, SeqEqual
  <2> QED BY <2>1, <2>8 DEF s, t
<1>16. ParseErlArgs(data) = [i \in 1 .. n |-> tokens[i]]
  BY <1>1, <1>4, <1>15
<1>17. tokens = [i \in 1 .. n |-> tokens[i]]
  BY DEF n
<1> QED BY <1>16, <1>17 DEF data

\* A release loads when the code can load it.
LEMMA LoadsIs ==
  ASSUME launch.entries \in Seq(Filed)
  PROVE  Loads <=> Loadable(launch.entries)
BY DEF Loads, Loadable, EntryName

\* The names under which the files are found, and the first of a name.
MadeNames(entries) == {Made(entries, i).name : i \in 1 .. Len(entries)}
FirstOf(entries, name) == Least({i \in 1 .. Len(entries) : Made(entries, i).name = name})

\* The first file of a name is found.
LEMMA FirstIs ==
  ASSUME NEW entries \in Seq(Filed), NEW idx, IndexOf(idx, entries, Len(entries)), NEW name
  PROVE  /\ name \in MadeNames(entries) =>
              /\ Lookup(idx, name) \in Entries /\ FirstOf(entries, name) \in 1 .. Len(entries)
              /\ Lookup(idx, name) = Made(entries, FirstOf(entries, name))
              /\ Made(entries, FirstOf(entries, name)).name = name
         /\ name \notin MadeNames(entries) => Lookup(idx, name) = None
<1> DEFINE n == Len(entries)
           names == {Made(entries, i).name : i \in 1 .. n}
           S == {i \in 1 .. n : Made(entries, i).name = name}
           first == Least(S)
<1>1. /\ idx \in Seq(Entries) /\ n \in Nat
      /\ \A k \in DOMAIN idx : \E j \in 1 .. n :
           idx[k] = Made(entries, j) /\ \A i \in 1 .. j - 1 : Made(entries, i).name # Made(entries, j).name
      /\ \A j \in 1 .. n : \E k \in DOMAIN idx : idx[k].name = Made(entries, j).name
  BY DEF IndexOf
<1>2. CASE name \in names
  <2>1. \E k \in DOMAIN idx : idx[k].name = name
    BY <1>1, <1>2
  <2>2. Lookup(idx, name) \in Entries
    BY <1>1, <2>1, LookupIs
  <2>3. PICK k \in DOMAIN idx : idx[k] = Lookup(idx, name) /\ idx[k].name = name
    <3> DEFINE found == {i \in DOMAIN idx : idx[i].name = name}
    <3>1. found # {}
      BY <2>1
    <3>2. Lookup(idx, name) = idx[CHOOSE i \in found : TRUE]
      BY <3>1 DEF Lookup
    <3>3. (CHOOSE i \in found : TRUE) \in found
      BY <3>1
    <3> QED BY <3>2, <3>3
  <2>4. PICK j \in 1 .. n :
          idx[k] = Made(entries, j) /\ \A i \in 1 .. j - 1 : Made(entries, i).name # Made(entries, j).name
    BY <1>1
  <2>5. j \in S /\ \A i \in S : j <= i
    <3>1. Made(entries, j).name = name
      BY <2>3, <2>4
    <3>2. ASSUME NEW i \in S PROVE j <= i
      <4>1. i \in Nat /\ j \in Nat /\ i >= 1 /\ Made(entries, i).name = name
        BY <1>1
      <4>2. i \notin 1 .. j - 1
        BY <2>4, <3>1, <4>1
      <4> QED BY <4>1, <4>2
    <3> QED BY <3>1, <3>2
  <2>6. S \in SUBSET Nat /\ S \subseteq 1 .. n
    <3>1. 1 .. n \subseteq Nat
      BY <1>1
    <3>2. S \subseteq 1 .. n
      OBVIOUS
    <3> HIDE DEF S, n
    <3> QED BY <3>1, <3>2
  <2> HIDE DEF S
  <2>7. Least(S) \in S /\ \A y \in S : Least(S) <= y
    BY <2>5, <2>6, LeastIs
  <2>8. first = j
    <3>1. Least(S) \in Nat /\ j \in Nat /\ j <= Least(S) /\ Least(S) <= j
      BY <2>5, <2>6, <2>7
    <3> DEFINE x == Least(S)
    <3> HIDE DEF x
    <3>2. x = j
      BY <3>1 DEF x
    <3> QED BY <3>2 DEF x
  <2>9. name \in names => /\ Lookup(idx, name) \in Entries /\ first \in 1 .. n
                          /\ Lookup(idx, name) = Made(entries, first)
                          /\ Made(entries, first).name = name
    BY <2>2, <2>3, <2>4, <2>8
  <2> QED BY <1>2, <2>9 DEF S, MadeNames, FirstOf
<1>3. CASE name \notin names
  <2>1. \A k \in DOMAIN idx : idx[k].name # name
    BY <1>1, <1>3
  <2>2. Lookup(idx, name) = None
    BY <2>1 DEF Lookup
  <2> QED BY <1>3, <2>2 DEF MadeNames
<1> QED BY <1>2, <1>3 DEF MadeNames, FirstOf

LEMMA ConcatIs ==
  ASSUME NEW S, NEW s \in Seq(S), NEW t \in Seq(S)
  PROVE  /\ s \o t \in Seq(S) /\ Len(s \o t) = Len(s) + Len(t)
         /\ Len(s) \in Nat /\ Len(t) \in Nat
BY ConcatProperties, LenProperties

\* What main makes of the tokens is not empty.
LEMMA ArgsAreSome ==
  ASSUME NEW args \in Seq(STRING) \ {<<>>}, NEW home \in {None} \cup STRING, NEW tokens \in Seq(Token)
  PROVE  <<args[1]>> \o tokens \o Structural(home, args[1]) \o Tail(args) # <<>>
<1> DEFINE U == STRING \cup Token \cup {"-home", "/", "-progname", "-extra"}
           a == <<args[1]>>
           b == Structural(home, args[1])
           c == Tail(args)
<1>1. args[1] \in STRING /\ c \in Seq(STRING)
  BY EmptySeq, HeadTailProperties
<1>2. a \in Seq(U) /\ Len(a) = 1
  BY <1>1
<1>3. b \in Seq(U)
  <2> DEFINE x == IF home = None THEN "/" ELSE home
             y == args[1]
  <2>1. x \in U /\ y \in U /\ "-home" \in U /\ "-progname" \in U /\ "-extra" \in U
    <3>1. y \in STRING /\ (x \in STRING \/ x = "/")
      BY <1>1
    <3> HIDE DEF x, y
    <3> QED BY <3>1
  <2>2. b = <<"-home", x, "-progname", y, "-extra">>
    BY DEF Structural
  <2> HIDE DEF x, y, U, b
  <2> QED BY <2>1, <2>2
<1>4. tokens \in Seq(U) /\ c \in Seq(U)
  <2>1. tokens \in [1 .. Len(tokens) -> U] /\ Len(tokens) \in Nat
    OBVIOUS
  <2> HIDE DEF c
  <2>2. c \in [1 .. Len(c) -> U] /\ Len(c) \in Nat
    BY <1>1
  <2> QED BY <2>1, <2>2, SeqDef
<1> HIDE DEF U, a, b, c
<1>5. a \o tokens \in Seq(U) /\ Len(a \o tokens) = Len(a) + Len(tokens) /\ Len(tokens) \in Nat
  BY <1>2, <1>4, ConcatIs
<1> DEFINE d == a \o tokens
<1> HIDE DEF d
<1>6. d \in Seq(U) /\ Len(d) > 0 /\ Len(d) \in Nat
  BY <1>2, <1>5 DEF d
<1>7. d \o b \in Seq(U) /\ Len(d \o b) = Len(d) + Len(b) /\ Len(b) \in Nat
  BY <1>3, <1>6, ConcatIs
<1> DEFINE f == d \o b
<1> HIDE DEF f
<1>8. Len(f \o c) = Len(f) + Len(c) /\ Len(c) \in Nat /\ Len(f) = Len(d) + Len(b) /\ f \o c \in Seq(U)
  BY <1>4, <1>7, ConcatIs DEF f
<1>9. f \o c # <<>>
  BY <1>6, <1>7, <1>8
<1> QED BY <1>9 DEF f, d, a, b, c

\* The arguments main makes of an index.
LEMMA ArgvIs ==
  ASSUME IInv, launch.entries # None, NEW idx, IndexOf(idx, launch.entries, Len(launch.entries))
  PROVE  LET names == {Cut(EntryName(i)) : i \in DOMAIN launch.entries}
             tokens == IF ErlArgs \in names THEN launch.tokens ELSE Defaults
             args == Argv(idx, launch.raw, launch.argv, launch.home, ErlArgs, Defaults)
         IN /\ args = IF launch.raw THEN launch.argv
                      ELSE <<launch.argv[1]>> \o tokens
                           \o Structural(launch.home, launch.argv[1]) \o Tail(launch.argv)
            /\ args # <<>>
<1> DEFINE entries == launch.entries
           n == Len(entries)
           names == {Cut(EntryName(i)) : i \in DOMAIN entries}
           tokens == IF ErlArgs \in names THEN launch.tokens ELSE Defaults
           args == Argv(idx, launch.raw, launch.argv, launch.home, ErlArgs, Defaults)
           first == FirstOf(entries, ErlArgs)
           entry == Lookup(idx, ErlArgs)
           read == IF entry = None THEN Defaults ELSE ParseErlArgs(entry.data)
           whole == <<launch.argv[1]>> \o tokens \o Structural(launch.home, launch.argv[1]) \o Tail(launch.argv)
<1>1. /\ launch \in Launches /\ entries \in Seq(Filed) /\ DOMAIN entries = 1 .. n
      /\ idx \in Seq(Entries) /\ IndexOf(idx, entries, Len(entries))
  <2> HIDE DEF names, tokens, args, first, entry, read, whole
  <2>1. launch \in Launches
    BY DEF IInv, IndexInv
  <2>2. entries \in Seq(Filed)
    BY FoundIs
  <2>3. DOMAIN entries = 1 .. n
    BY <2>2
  <2>4. IndexOf(idx, entries, Len(entries))
    OBVIOUS
  <2>5. idx \in Seq(Entries)
    BY <2>4 DEF IndexOf
  <2> QED BY <2>1, <2>2, <2>3, <2>4, <2>5
<1>2. launch.argv \in Seq(STRING) \ {<<>>} /\ launch.home \in {None} \cup STRING
  BY <1>1, LaunchAssumption
<1>3. idx # None
  BY <1>1, NoneAssumption
<1>4. CASE launch.raw
  <2>1. args = launch.argv
    BY <1>4 DEF Argv
  <2> QED BY <1>2, <1>4, <2>1
<1>5. CASE ~ launch.raw
  <2>1. \A i \in 1 .. n : Made(entries, i).name = Cut(Join(entries[i].path))
                          /\ Made(entries, i).data = entries[i].data
    BY <1>1, MadeType DEF Made
  <2>2. names = MadeNames(entries)
    BY <1>1, <2>1 DEF EntryName, MadeNames
  <2>3. read = tokens /\ tokens \in Seq(Token) \ {<<>>}
    <3>1. CASE ErlArgs \in names
      <4>1. /\ entry \in Entries /\ first \in 1 .. n /\ entry = Made(entries, first)
            /\ Made(entries, first).name = ErlArgs
        <5> HIDE DEF names, entries
        <5> QED BY <1>1, <2>2, <3>1, FirstIs DEF n
      <4>2. entry.data = entries[first].data /\ Cut(Join(entries[first].path)) = ErlArgs
        BY <2>1, <4>1
      <4>3. launch.tokens \in Seq(Token) \ {<<>>} /\ entries[first].data = Render(launch.tokens)
        <5> HIDE DEF first
        <5>1. first \in DOMAIN launch.entries /\ Cut(Join(launch.entries[first].path)) = ErlArgs
          BY <1>1, <4>1, <4>2
        <5> QED BY <1>1, <5>1, LaunchAssumption
      <4>4. entry # None
        BY <4>1, NoneAssumption
      <4>5. read = ParseErlArgs(Render(launch.tokens))
        BY <4>2, <4>3, <4>4
      <4>6. read = launch.tokens
        BY <4>3, <4>5, ParseIs
      <4> QED BY <3>1, <4>3, <4>6
    <3>2. CASE ErlArgs \notin names
      <4>1. entry = None
        <5> HIDE DEF names, entries
        <5> QED BY <1>1, <2>2, <3>2, FirstIs
      <4> QED BY <3>2, <4>1, LaunchAssumption
    <3> QED BY <3>1, <3>2
  <2> HIDE DEF tokens, read, entry
  <2>4. args = IF read = <<>> THEN <<>>
               ELSE <<launch.argv[1]>> \o read \o Structural(launch.home, launch.argv[1]) \o Tail(launch.argv)
    BY <1>3, <1>5 DEF Argv, read, entry
  <2>5. args = whole
    BY <2>3, <2>4
  <2>6. whole # <<>>
    BY <1>2, <2>3, ArgsAreSome
  <2> QED BY <1>5, <2>5, <2>6 DEF tokens
<1> QED BY <1>4, <1>5

LEMMA BootedBoot ==
  ASSUME IInv, Boot
  PROVE  Booted'
<1> DEFINE found == VfsInit(Image)
           args == IF found = Corrupt THEN <<>>
                   ELSE Argv(found, launch.raw, launch.argv, launch.home, ErlArgs, Defaults)
           entries == launch.entries
           n == Len(entries)
           names == {Cut(EntryName(i)) : i \in DOMAIN entries}
           First(name) == Least({i \in DOMAIN entries : Cut(EntryName(i)) = name})
           tokens == IF ErlArgs \in names THEN launch.tokens ELSE Defaults
           whole == IF launch.raw THEN launch.argv
                    ELSE <<launch.argv[1]>> \o tokens
                         \o Structural(launch.home, launch.argv[1]) \o Tail(launch.argv)
<1>1. /\ UNCHANGED launch
      /\ \/ args = <<>> /\ phase' = "exited"
         \/ args # <<>> /\ phase' = "booted" /\ index' = found /\ argv' = args
  BY DEF Boot
<1>2. launch \in Launches
  BY DEF IInv, IndexInv
<1>3. launch.argv # <<>>
  BY <1>2, LaunchAssumption
<1>4. CASE entries = None
  <2>1. found = None /\ found # Corrupt
    <3>1. None # Corrupt
      BY NoneAssumption
    <3> QED BY <1>4, <3>1, FoundIs
  <2>2. args = launch.argv
    BY <2>1 DEF Argv
  <2>3. phase' = "booted" /\ index' = None /\ argv' = launch.argv /\ launch'.entries = None
        /\ launch' = launch
    BY <1>1, <1>3, <1>4, <2>1, <2>2
  <2> QED BY <2>3 DEF Booted
<1>5. CASE entries # None /\ ~ Loadable(entries)
  <2>1. args = <<>>
    BY <1>5, FoundIs
  <2>2. ~ Loads /\ entries \in Seq(Filed)
    BY <1>5, FoundIs, LoadsIs
  <2>3. phase' = "exited" /\ launch' = launch
    BY <1>1, <2>1
  <2>4. ~ Loads'
    BY <2>2, <2>3 DEF Loads, EntryName
  <2> QED BY <1>5, <2>3, <2>4 DEF Booted
<1>6. CASE entries # None /\ Loadable(entries)
  <2>1. /\ entries \in Seq(Filed) /\ IndexOf(found, entries, n) /\ DOMAIN entries = 1 .. n
    BY <1>6, FoundIs
  <2>2. found \in Seq(Entries) /\ found # Corrupt
    BY <2>1, NoneAssumption DEF IndexOf
  <2>3. args = whole /\ args # <<>>
    BY <1>6, <2>1, <2>2, ArgvIs
  <2>4. \A i \in 1 .. n : /\ Made(entries, i).name = Cut(EntryName(i))
                          /\ Made(entries, i).data = entries[i].data
    BY <2>1, MadeType DEF Made, EntryName
  <2>5. names = MadeNames(entries)
    BY <2>1, <2>4 DEF MadeNames
  <2>6. ASSUME NEW name \in names
        PROVE  Lookup(found, name).data = entries[First(name)].data
    <3>1. First(name) = FirstOf(entries, name)
      <4>1. {i \in DOMAIN entries : Cut(EntryName(i)) = name}
              = {i \in 1 .. n : Made(entries, i).name = name}
        BY <2>1, <2>4
      <4> QED BY <4>1 DEF FirstOf
    <3> DEFINE j == FirstOf(entries, name)
    <3>2. j \in 1 .. n /\ Lookup(found, name) = Made(entries, j)
      <4> HIDE DEF found, entries, names
      <4>1. name \in MadeNames(entries)
        BY <2>5
      <4> QED BY <2>1, <4>1, FirstIs
    <3> HIDE DEF j
    <3>3. Lookup(found, name).data = entries[j].data
      BY <2>4, <3>2
    <3> QED BY <3>1, <3>3 DEF j
  <2>7. {found[i].name : i \in DOMAIN found} = names
    <3>1. ASSUME NEW i \in DOMAIN found PROVE found[i].name \in names
      <4>1. \E j \in 1 .. n : found[i] = Made(entries, j)
        BY <2>1 DEF IndexOf
      <4> QED BY <2>5, <4>1 DEF MadeNames
    <3>2. ASSUME NEW name \in names PROVE \E i \in DOMAIN found : found[i].name = name
      <4>1. \E j \in 1 .. n : name = Made(entries, j).name
        BY <2>5 DEF MadeNames
      <4> QED BY <2>1, <4>1 DEF IndexOf
    <3> HIDE DEF names, found
    <3> QED BY <3>1, <3>2
  <2>8. Loads
    BY <1>6, <2>1, LoadsIs
  <2>9. phase' = "booted" /\ index' = found /\ argv' = whole /\ launch' = launch
    BY <1>1, <2>3
  <2> DEFINE Good(idx, av) ==
        /\ Loads
        /\ {idx[i].name : i \in DOMAIN idx} = names
        /\ \A name \in names : Lookup(idx, name).data = entries[First(name)].data
        /\ av = whole
  <2>10. Good(found, whole)
    BY <2>6, <2>7, <2>8
  <2>11. Good(index', argv')
    <3> HIDE DEF Good, found, whole
    <3> QED BY <2>9, <2>10
  <2>12. Loads' /\ launch'.entries # None
    BY <1>6, <2>8, <2>9 DEF Loads, EntryName
  <2>13. \A i : EntryName(i)' = EntryName(i)
    BY <2>9 DEF EntryName
  <2> QED BY <2>9, <2>11, <2>12, <2>13 DEF Booted
<1> QED BY <1>4, <1>5, <1>6

\* Where the system lets it run, boot finds every entry of the release by its
\* name, with the content of the first of that name and nothing else, and it
\* refuses exactly the archives it cannot load: too many entries, one that is
\* too large or a name too long before the last; the emulator is started with the tokens of erl_args one by one, the
\* structural flags and the arguments of the caller (gleepack_vfs_init,
\* find_eocd, parse_central_directory, hash_put, parse_erl_args, main).
THEOREM BootExact == Spec => []Booted
<1>1. Init => IInv /\ Booted
  BY InitIs DEF Init, Booted
<1>2. (IInv /\ Booted) /\ [Next]_vars => (IInv /\ Booted)'
  <2> SUFFICES ASSUME IInv, Booted, [Next]_vars PROVE Booted'
    BY NextIs
  <2>1. CASE Boot
    BY <2>1, BootedBoot
  <2>2. CASE ErlStart \/ BootFails \/ \E p \in Proc : InflateFails(p)
    BY <2>2 DEF ErlStart, BootFails, InflateFails, Booted
  <2>3. CASE UNCHANGED <<launch, phase, index, argv>>
    BY <2>3 DEF Booted, Loads, EntryName
  <2>4. ASSUME NEW p \in Proc, Files(p), ~ InflateFails(p)
        PROVE  UNCHANGED <<launch, phase, index, argv>>
    BY <2>4 DEF Files, OpenVfs, OpenFile, Inflate, Publish, Return, Close, GetHandle, DupHandle, RefuseVfs,
      TruncateFile, ReadVfs, BeginIo, ReadSome, WriteSome, IoEnds, IoFails, Finish, SeekVfs, SeekFile, boot
  <2>5. ASSUME NEW f \in Fd, SocketCloses(f) PROVE UNCHANGED <<launch, phase, index, argv>>
    BY <2>5 DEF SocketCloses, boot
  <2>6. CASE UNCHANGED vars
    BY <2>3, <2>6 DEF vars, boot
  <2> QED BY <2>1, <2>2, <2>3, <2>4, <2>5, <2>6 DEF Next
<1>3. Spec => [](IInv /\ Booted)
  BY <1>1, <1>2, PTL DEF Spec
<1> QED BY <1>3, PTL

-----------------------------------------------------------------------------
(* The order of names.                                                     *)

\* Two sequences begin alike.
LEMMA SameFront ==
  ASSUME NEW S, NEW s \in Seq(S), NEW t \in Seq(S), NEW n \in Nat, n <= Len(s), n <= Len(t)
  PROVE  SubSeq(s, 1, n) = SubSeq(t, 1, n) <=> \A i \in 1 .. n : s[i] = t[i]
<1> DEFINE a == SubSeq(s, 1, n)
           b == SubSeq(t, 1, n)
<1>1. a \in Seq(S) /\ Len(a) = n /\ \A i \in 1 .. n : a[i] = s[i]
  BY SubSeqProperties
<1>2. b \in Seq(S) /\ Len(b) = n /\ \A i \in 1 .. n : b[i] = t[i]
  BY SubSeqProperties
<1> HIDE DEF a, b
<1>3. a = b <=> \A i \in 1 .. n : a[i] = b[i]
  BY <1>1, <1>2, SeqEqual
<1> QED BY <1>1, <1>2, <1>3 DEF a, b

LEMMA PrefixIs ==
  ASSUME NEW S, NEW s \in Seq(S), NEW t \in Seq(S)
  PROVE  IsPrefix(s, t) <=> Len(s) <= Len(t) /\ \A i \in 1 .. Len(s) : s[i] = t[i]
<1>1. Len(s) \in Nat
  OBVIOUS
<1>2. CASE Len(s) <= Len(t)
  <2>1. SubSeq(s, 1, Len(s)) = SubSeq(t, 1, Len(s)) <=> \A i \in 1 .. Len(s) : s[i] = t[i]
    BY <1>1, <1>2, SameFront
  <2> QED BY <1>2, <2>1 DEF IsPrefix
<1>3. CASE ~ (Len(s) <= Len(t))
  BY <1>3 DEF IsPrefix
<1> QED BY <1>2, <1>3

\* n is where s and t part.
Parts(s, t, n) ==
  /\ n \in 0 .. Len(s) /\ n < Len(t)
  /\ \A i \in 1 .. n : s[i] = t[i]
  /\ n = Len(s) \/ s[n + 1] < t[n + 1]

LEMMA BeforeIs ==
  ASSUME NEW s \in Name, NEW t \in Name
  PROVE  Before(s, t) <=> \E n \in Nat : Parts(s, t, n)
<1>1. s \in Seq(Nat) /\ t \in Seq(Nat) /\ Len(s) \in Nat /\ Len(t) \in Nat
  BY DEF Name
<1>2. ASSUME NEW n \in 0 .. Len(s), n < Len(t)
      PROVE  SubSeq(s, 1, n) = SubSeq(t, 1, n) <=> \A i \in 1 .. n : s[i] = t[i]
  <2>1. n \in Nat /\ n <= Len(s) /\ n <= Len(t)
    BY <1>1, <1>2
  <2> QED BY <1>1, <2>1, SameFront
<1>3. ASSUME Before(s, t) PROVE \E n \in Nat : Parts(s, t, n)
  <2>1. PICK n \in 0 .. Len(s) : /\ n < Len(t) /\ SubSeq(s, 1, n) = SubSeq(t, 1, n)
                                 /\ n = Len(s) \/ s[n + 1] < t[n + 1]
    BY <1>3 DEF Before
  <2>2. n \in Nat /\ \A i \in 1 .. n : s[i] = t[i]
    BY <1>1, <1>2, <2>1
  <2> QED BY <2>1, <2>2 DEF Parts
<1>4. ASSUME NEW n \in Nat, Parts(s, t, n) PROVE Before(s, t)
  BY <1>2, <1>4 DEF Before, Parts
<1> QED BY <1>3, <1>4

\* strcmp orders the names: of two that differ one is before the other, and
\* not the other way round.
LEMMA BeforeTotal ==
  ASSUME NEW s \in Name, NEW t \in Name
  PROVE  s = t \/ Before(s, t) \/ Before(t, s)
<1> DEFINE m == Smaller(Len(s), Len(t))
           D == {k \in 1 .. m : s[k] # t[k]}
<1>1. s \in Seq(Nat) /\ t \in Seq(Nat) /\ Len(s) \in Nat /\ Len(t) \in Nat
  BY DEF Name
<1>2. m \in Nat /\ m <= Len(s) /\ m <= Len(t) /\ (m = Len(s) \/ m = Len(t))
  BY <1>1 DEF Smaller
<1> HIDE DEF m
<1>3. CASE D = {}
  <2>1. \A i \in 1 .. m : s[i] = t[i]
    BY <1>3
  <2>2. CASE Len(s) = Len(t)
    <3>1. m = Len(s)
      BY <1>2, <2>2
    <3> QED BY <1>1, <2>1, <2>2, <3>1, SeqEqual
  <2>3. CASE Len(s) < Len(t)
    <3>1. m = Len(s)
      BY <1>1, <1>2, <2>3
    <3>2. Parts(s, t, m)
      BY <1>1, <1>2, <2>1, <2>3, <3>1 DEF Parts
    <3> QED BY <1>2, <3>2, BeforeIs
  <2>4. CASE Len(t) < Len(s)
    <3>1. m = Len(t)
      BY <1>1, <1>2, <2>4
    <3>2. Parts(t, s, m)
      BY <1>1, <1>2, <2>1, <2>4, <3>1 DEF Parts
    <3> QED BY <1>2, <3>2, BeforeIs
  <2> QED BY <1>1, <2>2, <2>3, <2>4
<1>4. CASE D # {}
  <2>1. D \in SUBSET Nat
    BY <1>2
  <2>2. PICK k \in D : \A y \in D : k <= y
    BY <1>4, <2>1, LeastNat
  <2>3. k \in 1 .. m /\ s[k] # t[k]
    BY <2>2
  <2>4. \A i \in 1 .. k - 1 : s[i] = t[i]
    BY <1>2, <2>2
  <2> HIDE DEF D
  <2>5. k - 1 \in Nat /\ (k - 1) + 1 = k /\ k - 1 \in 0 .. Len(s) /\ k - 1 \in 0 .. Len(t)
        /\ k - 1 < Len(s) /\ k - 1 < Len(t) /\ k \in 1 .. Len(s) /\ k \in 1 .. Len(t)
    BY <1>1, <1>2, <2>3
  <2>6. s[k] \in Nat /\ t[k] \in Nat
    BY <1>1, <2>5
  <2>7. s[k] < t[k] \/ t[k] < s[k]
    BY <2>3, <2>6
  <2>8. ASSUME s[k] < t[k] PROVE Before(s, t)
    <3>1. Parts(s, t, k - 1)
      BY <2>4, <2>5, <2>8 DEF Parts
    <3> QED BY <2>5, <3>1, BeforeIs
  <2>9. ASSUME t[k] < s[k] PROVE Before(t, s)
    <3>1. Parts(t, s, k - 1)
      BY <2>4, <2>5, <2>9 DEF Parts
    <3> QED BY <2>5, <3>1, BeforeIs
  <2> QED BY <2>7, <2>8, <2>9
<1> QED BY <1>3, <1>4

LEMMA BeforeTrans ==
  ASSUME NEW s \in Name, NEW t \in Name, NEW u \in Name, Before(s, t), Before(t, u)
  PROVE  Before(s, u)
<1>1. s \in Seq(Nat) /\ t \in Seq(Nat) /\ u \in Seq(Nat)
      /\ Len(s) \in Nat /\ Len(t) \in Nat /\ Len(u) \in Nat
  BY DEF Name
<1>2. \A i \in 1 .. Len(s) : s[i] \in Nat
  BY <1>1
<1>3. \A i \in 1 .. Len(t) : t[i] \in Nat
  BY <1>1
<1>4. \A i \in 1 .. Len(u) : u[i] \in Nat
  BY <1>1
<1>5. PICK a \in Nat : Parts(s, t, a)
  BY BeforeIs
<1>6. PICK b \in Nat : Parts(t, u, b)
  BY BeforeIs
<1>7. CASE a <= b
  <2>1. \A i \in 1 .. a : s[i] = u[i]
    <3> SUFFICES ASSUME NEW i \in 1 .. a PROVE s[i] = u[i]
      OBVIOUS
    <3>1. i \in 1 .. b
      BY <1>7
    <3> QED BY <1>5, <1>6, <3>1 DEF Parts
  <2>2. a \in 0 .. Len(s) /\ a < Len(t) /\ a < Len(u) /\ b \in 0 .. Len(t)
    BY <1>1, <1>5, <1>6, <1>7 DEF Parts
  <2>3. ASSUME a # Len(s) PROVE s[a + 1] < u[a + 1]
    <3>1. a + 1 \in 1 .. Len(s) /\ a + 1 \in 1 .. Len(t) /\ a + 1 \in 1 .. Len(u)
      BY <1>1, <2>2, <2>3
    <3>2. s[a + 1] < t[a + 1]
      BY <1>5, <2>3 DEF Parts
    <3>3. CASE a < b
      <4>1. a + 1 \in 1 .. b
        BY <3>3
      <4>2. t[a + 1] = u[a + 1]
        BY <1>6, <4>1 DEF Parts
      <4> QED BY <3>2, <4>2
    <3>4. CASE a = b
      <4>1. t[a + 1] < u[a + 1]
        BY <1>1, <1>6, <2>2, <3>4 DEF Parts
      <4>2. s[a + 1] \in Nat /\ t[a + 1] \in Nat /\ u[a + 1] \in Nat
        BY <1>2, <1>3, <1>4, <3>1
      <4> HIDE DEF Parts
      <4> QED BY <3>2, <4>1, <4>2
    <3> QED BY <1>7, <3>3, <3>4
  <2>4. Parts(s, u, a)
    BY <2>1, <2>2, <2>3 DEF Parts
  <2> QED BY <2>4, BeforeIs
<1>8. CASE b < a
  <2>1. \A i \in 1 .. b : s[i] = u[i]
    <3> SUFFICES ASSUME NEW i \in 1 .. b PROVE s[i] = u[i]
      OBVIOUS
    <3>1. i \in 1 .. a
      BY <1>8
    <3> QED BY <1>5, <1>6, <3>1 DEF Parts
  <2>2. b \in 0 .. Len(s) /\ b < Len(u) /\ b < Len(t) /\ b + 1 \in 1 .. a
    <3>1. a \in 0 .. Len(s) /\ a < Len(t) /\ b \in 0 .. Len(t) /\ b < Len(u)
      BY <1>5, <1>6 DEF Parts
    <3> QED BY <1>1, <1>8, <3>1
  <2>3. s[b + 1] = t[b + 1]
    BY <1>5, <2>2 DEF Parts
  <2>4. t[b + 1] < u[b + 1]
    BY <1>1, <1>6, <2>2 DEF Parts
  <2>5. Parts(s, u, b)
    BY <2>1, <2>2, <2>3, <2>4 DEF Parts
  <2> QED BY <2>5, BeforeIs
<1> QED BY <1>7, <1>8

LEMMA BeforeStrict ==
  ASSUME NEW s \in Name
  PROVE  ~ Before(s, s)
<1> SUFFICES ASSUME Before(s, s) PROVE FALSE
  OBVIOUS
<1>1. PICK n \in Nat : Parts(s, s, n)
  BY BeforeIs
<1>2. s \in Seq(Nat) /\ Len(s) \in Nat /\ n < Len(s) /\ s[n + 1] < s[n + 1]
  BY <1>1 DEF Name, Parts
<1>3. n + 1 \in 1 .. Len(s)
  BY <1>2
<1>4. s[n + 1] \in Nat
  BY <1>2, <1>3
<1> QED BY <1>2, <1>4

\* Not to be after is transitive.
LEMMA NotAfterTrans ==
  ASSUME NEW s \in Name, NEW t \in Name, NEW u \in Name, ~ Before(t, s), ~ Before(u, t)
  PROVE  ~ Before(u, s)
<1> SUFFICES ASSUME Before(u, s) PROVE FALSE
  OBVIOUS
<1>1. s = t \/ Before(s, t)
  BY BeforeTotal
<1> QED BY <1>1, BeforeTrans

\* In order: nothing is before what stands before it.
Ordered(s) == \A i, j \in 1 .. Len(s) : i < j => ~ Before(s[j], s[i])

\* Of some places of a sequence, one has a last name.
LEMMA LastExists ==
  ASSUME NEW s \in Seq(Name), NEW T \in SUBSET (1 .. Len(s)), T # {}
  PROVE  \E m \in T : \A i \in T : ~ Before(s[m], s[i])
<1> DEFINE HasLast(U) == \E m \in U : \A i \in U : ~ Before(s[m], s[i])
           P == {k \in Nat : \A U \in SUBSET (1 .. Len(s)) : Cardinality(U) = k + 1 => HasLast(U)}
<1>1. Len(s) \in Nat /\ \A i \in 1 .. Len(s) : s[i] \in Name
  OBVIOUS
<1>2. ASSUME NEW U \in SUBSET (1 .. Len(s))
      PROVE  IsFiniteSet(U) /\ Cardinality(U) \in Nat /\ (Cardinality(U) = 0 <=> U = {})
  <2>1. IsFiniteSet(1 .. Len(s))
    BY <1>1, FS_Interval
  <2>2. IsFiniteSet(U)
    BY <2>1, FS_Subset
  <2> QED BY <2>2, FS_CardinalityType, FS_EmptySet
<1>3. 0 \in P
  <2> SUFFICES ASSUME NEW U \in SUBSET (1 .. Len(s)), Cardinality(U) = 0 + 1 PROVE HasLast(U)
    OBVIOUS
  <2>1. PICK x : U = {x}
    <3>1. Cardinality(U) = 1
      OBVIOUS
    <3> QED BY <1>2, <3>1, FS_Singleton
  <2>2. x \in U /\ s[x] \in Name
    BY <1>1, <2>1
  <2>3. ~ Before(s[x], s[x])
    BY <2>2, BeforeStrict
  <2> QED BY <2>1, <2>2, <2>3
<1>4. ASSUME NEW k \in P PROVE k + 1 \in P
  <2> SUFFICES ASSUME NEW U \in SUBSET (1 .. Len(s)), Cardinality(U) = k + 1 + 1 PROVE HasLast(U)
    OBVIOUS
  <2>1. k \in Nat
    OBVIOUS
  <2>2. PICK x \in U : TRUE
    BY <1>2, <2>1
  <2> DEFINE V == U \ {x}
  <2>3. V \in SUBSET (1 .. Len(s)) /\ U = V \cup {x}
    BY <2>2
  <2>4. Cardinality(V) = k + 1
    <3>1. Cardinality(V) = Cardinality(U) - 1
      BY <1>2, <2>2, FS_RemoveElement
    <3> HIDE DEF V
    <3> QED BY <2>1, <3>1
  <2> HIDE DEF V
  <2>5. HasLast(V)
    BY <2>3, <2>4
  <2> HIDE DEF P
  <2>6. PICK m \in V : \A i \in V : ~ Before(s[m], s[i])
    BY <2>5
  <2>7. s[m] \in Name /\ s[x] \in Name /\ \A i \in U : s[i] \in Name
    BY <1>1, <2>2, <2>3
  <2>8. CASE ~ Before(s[m], s[x])
    <3>1. \A i \in U : ~ Before(s[m], s[i])
      BY <2>3, <2>6, <2>8
    <3> QED BY <2>3, <3>1
  <2>9. CASE Before(s[m], s[x])
    <3>1. ~ Before(s[x], s[m])
      BY <2>7, <2>9, BeforeTrans, BeforeStrict
    <3>2. ASSUME NEW i \in U PROVE ~ Before(s[x], s[i])
      <4>1. CASE i = x
        BY <2>7, <4>1, BeforeStrict
      <4>2. CASE i # x
        <5>1. ~ Before(s[m], s[i])
          BY <2>3, <2>6, <4>2
        <5> QED BY <2>7, <3>1, <5>1, NotAfterTrans
      <4> QED BY <4>1, <4>2
    <3> QED BY <2>2, <3>2
  <2> QED BY <2>8, <2>9
<1> HIDE DEF P
<1>5. P = Nat
  BY <1>3, <1>4, NatInduct DEF P
<1>6. Cardinality(T) - 1 \in P /\ (Cardinality(T) - 1) + 1 = Cardinality(T)
  <2> DEFINE c == Cardinality(T)
  <2>1. c \in Nat /\ c # 0
    BY <1>2
  <2> HIDE DEF c
  <2>2. c - 1 \in Nat /\ (c - 1) + 1 = c
    BY <2>1
  <2> QED BY <1>5, <2>2 DEF c
<1> QED BY <1>6 DEF P

\* f goes through the places T of s in the order of the names there.
Sorts(f, k, T, s) ==
  /\ f \in [1 .. k -> T] /\ \A t \in T : \E i \in 1 .. k : f[i] = t
  /\ \A i, j \in 1 .. k : f[i] = f[j] => i = j
  /\ \A i, j \in 1 .. k : i < j => ~ Before(s[f[j]], s[f[i]])

LEMMA SortExists ==
  ASSUME NEW s \in Seq(Name)
  PROVE  \E f : Sorts(f, Len(s), 1 .. Len(s), s)
<1> DEFINE n == Len(s)
           P == {k \in Nat : \A T \in SUBSET (1 .. n) : Cardinality(T) = k => \E f : Sorts(f, k, T, s)}
<1>1. n \in Nat
  OBVIOUS
<1>2. ASSUME NEW U \in SUBSET (1 .. n)
      PROVE  IsFiniteSet(U) /\ Cardinality(U) \in Nat /\ (Cardinality(U) = 0 <=> U = {})
  <2>1. IsFiniteSet(1 .. n)
    BY <1>1, FS_Interval
  <2>2. IsFiniteSet(U)
    BY <2>1, FS_Subset
  <2> QED BY <2>2, FS_CardinalityType, FS_EmptySet
<1>3. 0 \in P
  <2> SUFFICES ASSUME NEW T \in SUBSET (1 .. n), Cardinality(T) = 0 PROVE \E f : Sorts(f, 0, T, s)
    OBVIOUS
  <2>1. T = {}
    BY <1>2
  <2>2. Sorts([i \in 1 .. 0 |-> i], 0, T, s)
    BY <2>1 DEF Sorts
  <2> QED BY <2>2
<1>4. ASSUME NEW k \in P PROVE k + 1 \in P
  <2> SUFFICES ASSUME NEW T \in SUBSET (1 .. n), Cardinality(T) = k + 1
               PROVE  \E f : Sorts(f, k + 1, T, s)
    OBVIOUS
  <2>1. k \in Nat /\ T # {}
    BY <1>2
  <2>2. PICK m \in T : \A i \in T : ~ Before(s[m], s[i])
    BY <2>1, LastExists
  <2> DEFINE V == T \ {m}
  <2>3. V \in SUBSET (1 .. n) /\ T = V \cup {m} /\ m \notin V
    BY <2>2
  <2>4. Cardinality(V) = k
    <3>1. Cardinality(V) = Cardinality(T) - 1
      BY <1>2, <2>2, FS_RemoveElement
    <3> HIDE DEF V
    <3> QED BY <2>1, <3>1
  <2> HIDE DEF V
  <2>5. PICK f : Sorts(f, k, V, s)
    BY <2>3, <2>4
  <2> HIDE DEF P, n
  <2> DEFINE g == [i \in 1 .. k + 1 |-> IF i = k + 1 THEN m ELSE f[i]]
  <2>6. g[k + 1] = m /\ \A i \in 1 .. k : g[i] = f[i] /\ f[i] \in V
    BY <2>1, <2>5 DEF Sorts
  <2>7. \A i \in 1 .. k + 1 : i = k + 1 \/ i \in 1 .. k
    BY <2>1
  <2>8. g \in [1 .. k + 1 -> T]
    BY <2>3, <2>6, <2>7
  <2> HIDE DEF g
  <2>9. ASSUME NEW t \in T PROVE \E i \in 1 .. k + 1 : g[i] = t
    <3>1. CASE t = m
      <4>1. k + 1 \in 1 .. k + 1
        BY <2>1
      <4> QED BY <2>6, <3>1, <4>1
    <3>2. CASE t # m
      <4>1. PICK i \in 1 .. k : f[i] = t
        BY <2>3, <2>5, <3>2 DEF Sorts
      <4>2. i \in 1 .. k + 1
        BY <2>1
      <4> QED BY <2>6, <4>1, <4>2
    <3> QED BY <3>1, <3>2
  <2>10. ASSUME NEW i \in 1 .. k + 1, NEW j \in 1 .. k + 1, g[i] = g[j] PROVE i = j
    <3>1. CASE i \in 1 .. k /\ j \in 1 .. k
      BY <2>5, <2>6, <2>10, <3>1 DEF Sorts
    <3> QED BY <2>3, <2>6, <2>7, <2>10, <3>1
  <2>11. ASSUME NEW i \in 1 .. k + 1, NEW j \in 1 .. k + 1, i < j PROVE ~ Before(s[g[j]], s[g[i]])
    <3>1. i \in 1 .. k
      BY <2>1, <2>11
    <3>2. CASE j \in 1 .. k
      BY <2>5, <2>6, <2>11, <3>1, <3>2 DEF Sorts
    <3>3. CASE j = k + 1
      BY <2>2, <2>3, <2>6, <3>1, <3>3
    <3> QED BY <2>7, <3>2, <3>3
  <2>12. Sorts(g, k + 1, T, s)
    BY <2>8, <2>9, <2>10, <2>11 DEF Sorts
  <2> QED BY <2>12
<1> HIDE DEF P
<1>5. P = Nat
  BY <1>3, <1>4, NatInduct DEF P
<1>6. Cardinality(1 .. n) = n
  <2> HIDE DEF n
  <2>1. 1 \in Int /\ n \in Int /\ n - 1 + 1 = n /\ (1 > n => n = 0)
    BY <1>1
  <2>2. Cardinality(1 .. n) = IF 1 > n THEN 0 ELSE n - 1 + 1
    BY <2>1, FS_Interval
  <2> QED BY <2>1, <2>2
<1>7. n \in P
  BY <1>1, <1>5
<1> QED BY <1>6, <1>7 DEF P

\* qsort: the same names, in order.
LEMMA SortIs ==
  ASSUME NEW s \in Seq(Name)
  PROVE  /\ Sort(s) \in Seq(Name) /\ Len(Sort(s)) = Len(s) /\ Ordered(Sort(s))
         /\ {Sort(s)[i] : i \in 1 .. Len(s)} = {s[i] : i \in 1 .. Len(s)}
<1> DEFINE n == Len(s)
           Is(f) == \A i, j \in DOMAIN s : i < j => ~ Before(s[f[j]], s[f[i]])
           order == CHOOSE f \in Bijection(DOMAIN s, DOMAIN s) : Is(f)
           t == [i \in 1 .. n |-> s[order[i]]]
<1>1. n \in Nat /\ DOMAIN s = 1 .. n /\ \A i \in 1 .. n : s[i] \in Name
  OBVIOUS
<1>2. Sort(s) = t
  BY <1>1 DEF Sort
<1>3. PICK f : Sorts(f, n, 1 .. n, s)
  BY SortExists
<1>4. f \in Bijection(DOMAIN s, DOMAIN s) /\ Is(f)
  BY <1>1, <1>3 DEF Sorts, Bijection, Injection, Surjection, IsInjective
<1>5. order \in Bijection(DOMAIN s, DOMAIN s) /\ Is(order)
  <2> HIDE DEF Is
  <2> QED BY <1>4
<1> HIDE DEF order
<1>6. order \in [1 .. n -> 1 .. n] /\ \A y \in 1 .. n : \E x \in 1 .. n : order[x] = y
  BY <1>1, <1>5 DEF Bijection, Injection, Surjection
<1>7. t \in [1 .. n -> Name] /\ \A i \in 1 .. n : t[i] = s[order[i]]
  BY <1>1, <1>6
<1>8. t \in Seq(Name) /\ Len(t) = n
  <2>1. t \in Seq(Name)
    BY <1>1, <1>7, SeqDef
  <2>2. DOMAIN t = 1 .. n
    BY <1>7
  <2> QED BY <1>1, <2>1, <2>2, LenProperties
<1> HIDE DEF t
<1>9. Ordered(t)
  BY <1>1, <1>5, <1>7, <1>8 DEF Ordered
<1>10. {t[i] : i \in 1 .. n} = {s[i] : i \in 1 .. n}
  <2> HIDE DEF n
  <2>1. \A i \in 1 .. n : \E j \in 1 .. n : t[i] = s[j]
    BY <1>6, <1>7
  <2>2. ASSUME NEW i \in 1 .. n PROVE \E j \in 1 .. n : t[j] = s[i]
    <3>1. PICK j \in 1 .. n : order[j] = i
      BY <1>6
    <3> QED BY <1>7, <3>1
  <2> DEFINE A == {t[i] : i \in 1 .. n}
             B == {s[i] : i \in 1 .. n}
  <2>3. A \subseteq B
    BY <2>1
  <2>4. B \subseteq A
    BY <2>2
  <2> HIDE DEF A, B
  <2>5. A = B
    BY <2>3, <2>4
  <2> QED BY <2>5 DEF A, B
<1> QED BY <1>2, <1>8, <1>9, <1>10

\* What the loop of efile_list_dir keeps of the last names is what there is of
\* them, each once.
Keeps(d, s, k) ==
  /\ d \in Seq(Name) /\ (k > 0 => d # <<>>)
  /\ \A x : (\E i \in 1 .. Len(d) : d[i] = x) <=> \E j \in Len(s) + 1 - k .. Len(s) : s[j] = x
  /\ \A i \in 1 .. Len(d) - 1 : Before(d[i], d[i + 1])

\* One more name.
More(d, name) == IF d # <<>> /\ IsPrefix(Head(d), name) THEN d ELSE <<name>> \o d

LEMMA MoreIs ==
  ASSUME NEW s \in Seq(Name), Ordered(s), NEW k \in 0 .. Len(s) - 1, NEW d, Keeps(d, s, k)
  PROVE  Keeps(More(d, s[Len(s) - k]), s, k + 1)
<1> DEFINE n == Len(s)
           m == n - k
           name == s[m]
           e == <<name>> \o d
<1>1. n \in Nat /\ k \in Nat /\ m \in 1 .. n /\ n + 1 - (k + 1) = m /\ n + 1 - k = m + 1
  OBVIOUS
<1>2. name \in Name /\ \A i \in 1 .. n : s[i] \in Name
  BY <1>1
<1>3. d \in Seq(Name) /\ Len(d) \in Nat /\ \A i \in 1 .. Len(d) : d[i] \in Name
  BY DEF Keeps
<1>4. \A x : (\E i \in 1 .. Len(d) : d[i] = x) <=> \E j \in m + 1 .. n : s[j] = x
  BY <1>1 DEF Keeps
<1>5. \A x : (\E j \in m .. n : s[j] = x) <=> x = name \/ \E j \in m + 1 .. n : s[j] = x
  <2> HIDE DEF n
  <2>1. \A j : j \in m .. n <=> j = m \/ j \in m + 1 .. n
    BY <1>1
  <2> QED BY <1>1, <2>1
<1>6. ASSUME d # <<>>
      PROVE  1 \in 1 .. Len(d) /\ Head(d) = d[1] /\ Head(d) \in Name /\ ~ Before(Head(d), name)
  <2>1. 1 \in 1 .. Len(d) /\ Head(d) = d[1]
    BY <1>3, <1>6, HeadTailProperties
  <2>2. PICK j \in m + 1 .. n : s[j] = d[1]
    BY <1>4, <2>1
  <2>3. j \in 1 .. n /\ m < j
    BY <1>1, <2>2
  <2>4. ~ Before(s[j], s[m])
    BY <1>1, <2>3 DEF Ordered
  <2> QED BY <1>3, <2>1, <2>2, <2>4
<1> HIDE DEF n, m
<1>7. CASE d # <<>> /\ IsPrefix(Head(d), name)
  <2> DEFINE h == Head(d)
  <2>1. h \in Name /\ ~ Before(h, name)
    BY <1>6, <1>7
  <2> HIDE DEF h, name
  <2>2. h \in Seq(Nat) /\ name \in Seq(Nat) /\ Len(h) \in Nat /\ Len(name) \in Nat
    BY <1>2, <2>1 DEF Name
  <2>3. Len(h) <= Len(name) /\ \A i \in 1 .. Len(h) : h[i] = name[i]
    <3>1. IsPrefix(h, name)
      BY <1>7 DEF h
    <3> QED BY <2>2, <3>1, PrefixIs
  <2>4. h = name
    <3>1. CASE Len(h) < Len(name)
      <4>1. Parts(h, name, Len(h))
        BY <2>2, <2>3, <3>1 DEF Parts
      <4> QED BY <1>2, <2>1, <2>2, <4>1, BeforeIs
    <3>2. CASE Len(h) = Len(name)
      BY <2>2, <2>3, <3>2, SeqEqual
    <3> QED BY <2>2, <2>3, <3>1, <3>2
  <2>5. \E i \in 1 .. Len(d) : d[i] = name
    BY <1>6, <1>7, <2>4 DEF h
  <2>6. \A x : (\E i \in 1 .. Len(d) : d[i] = x) <=> \E j \in m .. n : s[j] = x
    BY <1>4, <1>5, <2>5
  <2>7. More(d, name) = d
    BY <1>7 DEF More
  <2>8. d # <<>> /\ \A i \in 1 .. Len(d) - 1 : Before(d[i], d[i + 1])
    BY <1>7 DEF Keeps
  <2>9. Keeps(d, s, k + 1)
    BY <1>1, <1>3, <2>6, <2>8 DEF Keeps, n
  <2> QED BY <2>7, <2>9 DEF name, m, n
<1>8. CASE ~ (d # <<>> /\ IsPrefix(Head(d), name))
  <2> DEFINE l == Len(d)
  <2>1. e \in Seq(Name) /\ Len(e) = 1 + l /\ l \in Nat
        /\ \A i \in 1 .. 1 + l : e[i] = IF i <= 1 THEN name ELSE d[i - 1]
    <3>1. <<name>> \in Seq(Name) /\ Len(<<name>>) = 1 /\ <<name>>[1] = name
      BY <1>2
    <3> DEFINE a == <<name>>
    <3> HIDE DEF a, name
    <3>2. a \o d \in Seq(Name) /\ Len(a \o d) = Len(a) + Len(d)
          /\ \A i \in 1 .. Len(a) + Len(d) : (a \o d)[i] = IF i <= Len(a) THEN a[i] ELSE d[i - Len(a)]
      BY <1>3, <3>1, ConcatProperties DEF a
    <3>3. Len(a) = 1 /\ a[1] = name
      BY <3>1 DEF a
    <3>4. \A i \in 1 .. 1 + l : i <= 1 => i = 1
      OBVIOUS
    <3> QED BY <1>3, <3>2, <3>3, <3>4 DEF a
  <2> HIDE DEF e, name
  <2>2. 1 \in 1 .. 1 + l /\ e[1] = name
    BY <2>1
  <2>3. \A i \in 1 .. l : i + 1 \in 1 .. 1 + l /\ e[i + 1] = d[i]
    <3> HIDE DEF l
    <3> SUFFICES ASSUME NEW i \in 1 .. l PROVE i + 1 \in 1 .. 1 + l /\ e[i + 1] = d[i]
      OBVIOUS
    <3>1. i + 1 \in 1 .. 1 + l /\ ~ (i + 1 <= 1) /\ (i + 1) - 1 = i
      BY <2>1
    <3> QED BY <2>1, <3>1
  <2>4. \A i \in 1 .. 1 + l : i = 1 \/ \E j \in 1 .. l : i = j + 1
    <3> SUFFICES ASSUME NEW i \in 1 .. 1 + l, i # 1 PROVE \E j \in 1 .. l : i = j + 1
      OBVIOUS
    <3> HIDE DEF l
    <3>1. i - 1 \in 1 .. l /\ i = (i - 1) + 1
      BY <2>1
    <3> QED BY <3>1
  <2>5. \A x : (\E i \in 1 .. 1 + l : e[i] = x) <=> \E j \in m .. n : s[j] = x
    <3>1. \A x : (\E i \in 1 .. 1 + l : e[i] = x) <=> x = name \/ \E i \in 1 .. l : d[i] = x
      <4> HIDE DEF l
      <4> QED BY <2>2, <2>3, <2>4
    <3> QED BY <1>4, <1>5, <3>1
  <2>6. ASSUME NEW i \in 1 .. l PROVE Before(e[i], e[i + 1])
    <3>1. CASE i = 1
      <4>1. d # <<>> /\ Head(d) = d[1] /\ Head(d) \in Name /\ ~ Before(Head(d), name)
        <5>1. d # <<>>
          BY <2>6
        <5> QED BY <1>6, <5>1
      <4>2. Head(d) # name
        <5>1. ~ IsPrefix(Head(d), name)
          BY <1>8, <4>1
        <5>2. IsPrefix(name, name)
          BY <1>2, PrefixIs DEF Name
        <5> QED BY <5>1, <5>2
      <4>3. Before(name, Head(d))
        BY <1>2, <4>1, <4>2, BeforeTotal
      <4>4. 1 \in 1 .. l
        BY <2>6, <3>1
      <4>5. e[1] = name /\ e[1 + 1] = d[1]
        BY <2>2, <2>3, <4>4
      <4> QED BY <3>1, <4>1, <4>3, <4>5
    <3>2. CASE i # 1
      <4>1. PICK j \in 1 .. l : i = j + 1
        BY <2>1, <2>4, <2>6, <3>2
      <4>2. j \in 1 .. l - 1
        BY <2>1, <2>6, <4>1
      <4>3. Before(d[j], d[j + 1])
        BY <4>2 DEF Keeps
      <4>4. e[j + 1] = d[j] /\ e[i + 1] = d[i]
        BY <2>3, <2>6
      <4> QED BY <4>1, <4>3, <4>4
    <3> QED BY <3>1, <3>2
  <2>7. (1 + l) - 1 = l /\ e # <<>>
    <3>1. Len(e) # 0
      BY <2>1
    <3> QED BY <2>1, <3>1
  <2>8. More(d, name) = e
    BY <1>8 DEF More, e
  <2>9. Keeps(e, s, k + 1)
    <3>1. \A x : (\E i \in 1 .. Len(e) : e[i] = x) <=> \E j \in Len(s) + 1 - (k + 1) .. Len(s) : s[j] = x
      <4>1. Len(s) + 1 - (k + 1) = m
        BY <1>1 DEF n
      <4> QED BY <2>1, <2>5, <4>1 DEF n
    <3>2. \A i \in 1 .. Len(e) - 1 : Before(e[i], e[i + 1])
      BY <2>1, <2>6, <2>7
    <3> QED BY <2>1, <2>7, <3>1, <3>2 DEF Keeps
  <2> QED BY <2>8, <2>9 DEF name, m, n
<1> QED BY <1>7, <1>8

\* Sorted names without the copies.
LEMMA DedupIs ==
  ASSUME NEW s \in Seq(Name), Ordered(s)
  PROVE  Keeps(Dedup(s), s, Len(s))
<1> DEFINE n == Len(s)
           S == Seq(Name)
           By(f, k) == IF k = 0 THEN <<>> ELSE More(f[k - 1], s[n + 1 - k])
           v == CHOOSE f : f = [k \in 0 .. n |-> By(f, k)]
           F == [k \in 1 .. n |-> [d \in S |-> More(d, s[n + 1 - k])]]
<1>1. n \in Nat /\ \A i \in 1 .. n : s[i] \in Name
  OBVIOUS
<1>2. Dedup(s) = v[n]
  BY DEF Dedup, More
<1>3. ASSUME NEW k \in 1 .. n, NEW d \in S PROVE More(d, s[n + 1 - k]) \in S
  <2>1. n + 1 - k \in 1 .. n
    BY <1>1
  <2>2. s[n + 1 - k] \in Name
    BY <1>1, <2>1
  <2> DEFINE x == s[n + 1 - k]
  <2> HIDE DEF x
  <2>3. <<x>> \in Seq(Name)
    BY <2>2 DEF x
  <2>4. <<x>> \o d \in Seq(Name)
    BY <2>3, ConcatProperties
  <2> QED BY <2>4 DEF More, x
<1>4. F \in Steps(n, S)
  BY <1>3 DEF Steps
<1>5. PICK g : Computes(g, S, <<>>, n, F)
  <2>1. <<>> \in S
    OBVIOUS
  <2> HIDE DEF n, S, F
  <2> QED BY <1>1, <1>4, <2>1, RecursionExists
<1>6. /\ g \in [0 .. n -> S] /\ g[0] = <<>>
      /\ \A k \in 1 .. n : g[k] = More(g[k - 1], s[n + 1 - k])
  <2>1. g \in [0 .. n -> S] /\ g[0] = <<>> /\ \A k \in 1 .. n : g[k] = F[k][g[k - 1]]
    BY <1>5 DEF Computes
  <2>2. \A k \in 1 .. n : k - 1 \in 0 .. n
    BY <1>1
  <2>3. \A k \in 1 .. n : g[k - 1] \in S
    BY <2>1, <2>2
  <2>4. \A k \in 1 .. n : F[k][g[k - 1]] = More(g[k - 1], s[n + 1 - k])
    BY <2>3
  <2> QED BY <2>1, <2>4
<1> HIDE DEF F
<1>7. g = [k \in 0 .. n |-> By(g, k)]
  <2>1. \A k \in 0 .. n : k = 0 \/ k \in 1 .. n
    BY <1>1
  <2>2. \A k \in 0 .. n : g[k] = By(g, k)
    BY <1>6, <2>1
  <2> HIDE DEF By
  <2> QED BY <1>6, <2>2
<1>8. v = [k \in 0 .. n |-> By(v, k)]
  <2> HIDE DEF By
  <2> QED BY <1>7, Zenon
<1> HIDE DEF v
<1>9. \A k \in 0 .. n : v[k] = By(v, k)
  <2> HIDE DEF By
  <2> QED BY <1>8
<1> DEFINE P == {k \in Nat : k <= n => Keeps(v[k], s, k)}
<1>10. 0 \in P
  <2>1. 0 \in 0 .. n
    BY <1>1
  <2>2. v[0] = <<>>
    BY <1>9, <2>1
  <2>3. \A j : ~ (j \in n + 1 - 0 .. n)
    BY <1>1
  <2>4. Keeps(<<>>, s, 0)
    BY <2>3 DEF Keeps
  <2> QED BY <2>2, <2>4
<1>11. ASSUME NEW k \in P PROVE k + 1 \in P
  <2> SUFFICES ASSUME k + 1 <= n PROVE Keeps(v[k + 1], s, k + 1)
    OBVIOUS
  <2>1. k \in Nat /\ k \in 0 .. n - 1 /\ k + 1 \in 0 .. n /\ k + 1 # 0 /\ (k + 1) - 1 = k
        /\ n + 1 - (k + 1) = n - k
    BY <1>1
  <2>2. Keeps(v[k], s, k)
    BY <2>1
  <2>3. v[k + 1] = More(v[k], s[n - k])
    <3> HIDE DEF n, P
    <3>1. v[k + 1] = More(v[(k + 1) - 1], s[n + 1 - (k + 1)])
      BY <1>9, <2>1
    <3> QED BY <2>1, <3>1
  <2> HIDE DEF P
  <2> QED BY <2>1, <2>2, <2>3, MoreIs
<1> HIDE DEF P
<1>12. P = Nat
  BY <1>10, <1>11, NatInduct DEF P
<1> QED BY <1>1, <1>2, <1>12 DEF P

-----------------------------------------------------------------------------
(* Paths and names.                                                        *)

\* The components of a path have a character and no slash.
Clean == Seq(Seq(Nat \ {Slash}) \ {<<>>})

LEMMA CleanIs ==
  ASSUME NEW path \in Clean
  PROVE  /\ path \in Seq(Name) /\ Len(path) \in Nat
         /\ \A k \in 1 .. Len(path) :
              /\ path[k] \in Name /\ path[k] \in Seq(Nat \ {Slash}) \ {<<>>}
              /\ Len(path[k]) \in Nat \ {0}
              /\ \A i \in 1 .. Len(path[k]) : path[k][i] \in Nat /\ path[k][i] # Slash
<1>1. Len(path) \in Nat /\ \A k \in 1 .. Len(path) : path[k] \in Seq(Nat \ {Slash}) \ {<<>>}
  BY DEF Clean
<1>2. ASSUME NEW x \in Seq(Nat \ {Slash}) \ {<<>>}
      PROVE  x \in Name /\ Len(x) \in Nat \ {0} /\ \A i \in 1 .. Len(x) : x[i] \in Nat /\ x[i] # Slash
  <2>1. Len(x) \in Nat \ {0} /\ \A i \in 1 .. Len(x) : x[i] \in Nat \ {Slash}
    BY EmptySeq
  <2>2. x \in Seq(Nat)
    BY SeqMonotonic
  <2> QED BY <2>1, <2>2 DEF Name
<1>3. path \in [1 .. Len(path) -> Name]
  <2>1. path \in [1 .. Len(path) -> Seq(Nat \ {Slash}) \ {<<>>}]
    BY DEF Clean
  <2> QED BY <1>2, <2>1
<1>4. path \in Seq(Name)
  BY <1>1, <1>3, SeqDef
<1> QED BY <1>1, <1>2, <1>4

\* Where component k begins when component i ends at e[i].
Begins(e, k) == IF k = 1 THEN 0 ELSE e[k - 1] + 1

\* s is the first n components of a path, the i-th up to e[i].
Laid(path, n, s, e) ==
  /\ s \in Name /\ e[0] = 0 /\ Len(s) = e[n]
  /\ \A k \in 0 .. n : e[k] \in Nat /\ e[k] <= e[n]
  /\ \A k \in 1 .. n : e[k] = Begins(e, k) + Len(path[k])
  /\ \A k \in 1 .. n : \A i \in 1 .. Len(path[k]) : s[Begins(e, k) + i] = path[k][i]
  /\ \A k \in 1 .. n - 1 : e[k] + 1 <= e[n] /\ s[e[k] + 1] = Slash

Joined(c, a, b) ==
  /\ Len(c) = Len(a) + Len(b)
  /\ \A i \in 1 .. Len(a) + Len(b) : c[i] = IF i <= Len(a) THEN a[i] ELSE b[i - Len(a)]

LEMMA JoinedIs ==
  ASSUME NEW a \in Seq(Nat), NEW b \in Seq(Nat)
  PROVE  a \o b \in Seq(Nat) /\ Joined(a \o b, a, b)
BY ConcatProperties DEF Joined

\* One more component.
LEMMA LaidStep ==
  ASSUME NEW path \in Seq(Name), NEW n \in 0 .. Len(path) - 1, NEW s, NEW e, Laid(path, n, s, e),
         NEW t, t = s \o (IF n + 1 = 1 THEN path[n + 1] ELSE <<Slash>> \o path[n + 1]),
         e[n + 1] = Len(t)
  PROVE  Laid(path, n + 1, t, e)
<1> DEFINE m == n + 1
           x == path[m]
           d == IF m = 1 THEN x ELSE <<Slash>> \o x
           b == Begins(e, m)
           u == Len(x)
<1>1. Len(path) \in Nat /\ n \in Nat /\ m \in 1 .. Len(path) /\ m - 1 = n /\ x \in Name
  OBVIOUS
<1>2. x \in Seq(Nat) /\ u \in Nat
  BY <1>1 DEF Name
<1>3. s \in Seq(Nat) /\ Len(s) = e[n] /\ e[n] \in Nat
  BY <1>1 DEF Laid, Name
<1> HIDE DEF x, u
<1>4. d \in Seq(Nat) /\ Len(d) = (IF m = 1 THEN 0 ELSE 1) + u
      /\ (m # 1 => d[1] = Slash) /\ \A i \in 1 .. u : d[(IF m = 1 THEN 0 ELSE 1) + i] = x[i]
  <2>1. CASE m = 1
    BY <1>2, <2>1 DEF u
  <2>2. CASE m # 1
    <3>1. Slash \in Nat
      BY DEF Slash
    <3> DEFINE a == <<Slash>>
               c == a \o x
    <3>2. a \in Seq(Nat) /\ Len(a) = 1 /\ a[1] = Slash
      BY <3>1
    <3> HIDE DEF a
    <3>3. c \in Seq(Nat) /\ Len(c) = 1 + u
          /\ \A i \in 1 .. 1 + u : c[i] = IF i <= 1 THEN a[i] ELSE x[i - 1]
      <4>1. c \in Seq(Nat) /\ Joined(c, a, x)
        BY <1>2, <3>2, JoinedIs
      <4>2. Len(a) = 1 /\ Len(x) = u
        BY <3>2 DEF u
      <4> HIDE DEF c, u
      <4> QED BY <4>1, <4>2 DEF Joined
    <3>4. d = c
      BY <2>2 DEF a
    <3> HIDE DEF c, d
    <3>5. \A i \in 1 .. u : 1 + i \in 1 .. 1 + u /\ ~ (1 + i <= 1) /\ (1 + i) - 1 = i
      BY <1>2
    <3>6. \A i \in 1 .. u : c[1 + i] = x[i]
      BY <3>3, <3>5
    <3>7. 1 \in 1 .. 1 + u /\ 1 <= 1
      BY <1>2
    <3>8. c[1] = Slash
      BY <3>2, <3>3, <3>7
    <3> QED BY <2>2, <3>3, <3>4, <3>6, <3>8
  <2> QED BY <2>1, <2>2
<1>5. t = s \o d
  BY DEF x
<1> HIDE DEF d
<1>6. t \in Seq(Nat) /\ Len(t) = e[n] + Len(d) /\ Len(d) \in Nat
      /\ \A i \in 1 .. e[n] + Len(d) : t[i] = IF i <= e[n] THEN s[i] ELSE d[i - e[n]]
  <2>1. t \in Seq(Nat) /\ Joined(t, s, d)
    BY <1>3, <1>4, <1>5, JoinedIs
  <2>2. Len(d) \in Nat
    BY <1>4
  <2> QED BY <1>3, <2>1, <2>2 DEF Joined
<1>7. b = e[n] + (IF m = 1 THEN 0 ELSE 1)
  <2>1. n = 0 => e[n] = 0
    BY DEF Laid
  <2> QED BY <1>1, <2>1 DEF Begins
<1> DEFINE o == IF m = 1 THEN 0 ELSE 1
           l == e[n]
<1>8. o \in 0 .. 1 /\ b = l + o /\ Len(d) = o + u /\ e[m] = b + u /\ l \in Nat
  <2>1. o \in 0 .. 1 /\ b = l + o /\ Len(d) = o + u /\ l \in Nat
    BY <1>3, <1>4, <1>7
  <2>2. e[m] = l + Len(d)
    BY <1>6
  <2> HIDE DEF o, b, l
  <2> QED BY <1>2, <2>1, <2>2
<1>9. \A i \in 1 .. u : t[b + i] = x[i]
  <2> SUFFICES ASSUME NEW i \in 1 .. u PROVE t[b + i] = x[i]
    OBVIOUS
  <2>1. d[o + i] = x[i]
    BY <1>4
  <2> DEFINE j == b + i
  <2> HIDE DEF o, b, l
  <2>2. j \in 1 .. l + (o + u) /\ ~ (j <= l) /\ j - l = o + i
    BY <1>2, <1>8
  <2> HIDE DEF j
  <2>3. t[j] = d[j - l]
    BY <1>6, <1>8, <2>2 DEF l
  <2> QED BY <2>1, <2>2, <2>3 DEF j
<1>10. m # 1 => t[l + 1] = Slash /\ l + 1 <= e[m]
  <2> SUFFICES ASSUME m # 1 PROVE t[l + 1] = Slash /\ l + 1 <= e[m]
    OBVIOUS
  <2>1. o = 1 /\ d[1] = Slash
    BY <1>4
  <2> DEFINE j == l + 1
  <2> HIDE DEF o, b, l
  <2>2. j \in 1 .. l + (o + u) /\ ~ (j <= l) /\ j - l = 1 /\ j <= e[m]
    BY <1>2, <1>8, <2>1
  <2> HIDE DEF j
  <2>3. t[j] = d[j - l]
    BY <1>6, <1>8, <2>2 DEF l
  <2> QED BY <2>1, <2>2, <2>3 DEF j
<1>11. \A i \in 1 .. l : t[i] = s[i]
  <2> SUFFICES ASSUME NEW i \in 1 .. l PROVE t[i] = s[i]
    OBVIOUS
  <2> HIDE DEF o, b, l
  <2>1. i \in 1 .. l + Len(d) /\ i <= l
    BY <1>6, <1>8
  <2> QED BY <1>6, <2>1 DEF l
<1>12. l <= e[m] /\ e[m] \in Nat
  <2> HIDE DEF o, b, l
  <2> QED BY <1>2, <1>8
<1> HIDE DEF b, o
<1>13. \A k \in 0 .. m : e[k] \in Nat /\ e[k] <= e[m]
  <2> SUFFICES ASSUME NEW k \in 0 .. m PROVE e[k] \in Nat /\ e[k] <= e[m]
    OBVIOUS
  <2>1. CASE k = m
    BY <1>12, <2>1
  <2>2. CASE k # m
    <3>1. k \in 0 .. n
      BY <1>1, <2>2
    <3>2. e[k] \in Nat /\ e[k] <= l
      BY <3>1 DEF Laid
    <3> HIDE DEF l, m
    <3> QED BY <1>8, <1>12, <3>2
  <2> QED BY <2>1, <2>2
<1>14. \A k \in 1 .. m : k = m \/ k \in 1 .. n
  BY <1>1
<1>15. \A k \in 1 .. m : e[k] = Begins(e, k) + Len(path[k])
  <2>1. e[m] = Begins(e, m) + Len(path[m])
    BY <1>8 DEF b, u, x
  <2> HIDE DEF m
  <2> QED BY <1>14, <2>1 DEF Laid
<1>16. ASSUME NEW k \in 1 .. m, NEW i \in 1 .. Len(path[k]) PROVE t[Begins(e, k) + i] = path[k][i]
  <2>1. CASE k = m
    BY <1>9, <1>16, <2>1 DEF b, u, x
  <2>2. CASE k \in 1 .. n
    <3> DEFINE j == Begins(e, k) + i
    <3>1. s[j] = path[k][i] /\ e[k] = Begins(e, k) + Len(path[k]) /\ e[k] <= l
      <4>1. k \in 0 .. n
        BY <2>2
      <4> QED BY <1>16, <2>2, <4>1 DEF Laid
    <3>2. Begins(e, k) \in Nat
      <4>1. k # 1 => k - 1 \in 0 .. n
        BY <2>2
      <4>2. k # 1 => e[k - 1] \in Nat
        BY <4>1 DEF Laid
      <4> QED BY <4>2 DEF Begins
    <3>3. Len(path[k]) \in Nat
      <4>1. k \in 1 .. Len(path)
        BY <1>1
      <4>2. path[k] \in Name
        BY <4>1
      <4> QED BY <4>2 DEF Name
    <3> DEFINE c == Begins(e, k)
               w == Len(path[k])
    <3>4. i \in 1 .. w
      BY <1>16
    <3> HIDE DEF l, c, w
    <3>5. j \in 1 .. l
      <4>1. c \in Nat /\ w \in Nat /\ c + w <= l
        BY <3>1, <3>2, <3>3 DEF c, w
      <4>2. c + i \in 1 .. l
        BY <1>8, <3>4, <4>1
      <4> QED BY <4>2 DEF c
    <3> QED BY <1>11, <3>1, <3>5
  <2> QED BY <1>14, <2>1, <2>2
<1>17. ASSUME NEW k \in 1 .. m - 1 PROVE e[k] + 1 <= e[m] /\ t[e[k] + 1] = Slash
  <2>1. CASE k = n
    <3>1. m # 1
      BY <1>1, <2>1
    <3> QED BY <1>10, <2>1, <3>1
  <2>2. CASE k # n
    <3>1. k \in 1 .. n - 1 /\ k \in 0 .. n
      BY <1>1, <2>2
    <3>2. e[k] + 1 <= l /\ s[e[k] + 1] = Slash /\ e[k] \in Nat
      BY <3>1 DEF Laid
    <3> HIDE DEF l, m
    <3>3. e[k] + 1 \in 1 .. l /\ e[k] + 1 <= e[m]
      BY <1>8, <1>12, <3>2
    <3> QED BY <1>11, <3>2, <3>3
  <2> QED BY <2>1, <2>2
<1>18. t \in Name /\ e[0] = 0 /\ Len(t) = e[m]
  BY <1>6 DEF Laid, Name
<1> QED BY <1>13, <1>15, <1>16, <1>17, <1>18 DEF Laid

\* The name of a path has its components one after the other.
LEMMA JoinIs ==
  ASSUME NEW path \in Seq(Name)
  PROVE  \E e : Laid(path, Len(path), Join(path), e)
<1> DEFINE n == Len(path)
           s == [i \in DOMAIN path |-> IF i = 1 THEN path[i] ELSE <<Slash>> \o path[i]]
<1>1. n \in Nat /\ \A i \in 1 .. n : path[i] \in Seq(Nat)
  BY DEF Name
<1>2. s \in Seq(Seq(Nat)) /\ Len(s) = n
      /\ \A i \in 1 .. n : s[i] = IF i = 1 THEN path[i] ELSE <<Slash>> \o path[i]
  <2>1. <<Slash>> \in Seq(Nat)
    BY DEF Slash
  <2>2. \A i \in 1 .. n : <<Slash>> \o path[i] \in Seq(Nat)
    BY <1>1, <2>1
  <2>3. s \in [1 .. n -> Seq(Nat)] /\ \A i \in 1 .. n : s[i] = IF i = 1 THEN path[i] ELSE <<Slash>> \o path[i]
    BY <1>1, <2>2
  <2>4. s \in Seq(Seq(Nat))
    BY <1>1, <2>3, SeqDef
  <2> HIDE DEF s
  <2>5. DOMAIN s = 1 .. n
    BY <2>3
  <2>6. Len(s) = n
    BY <1>1, <2>4, <2>5, LenProperties
  <2> QED BY <2>3, <2>4, <2>6
<1>3. Join(path) = FlattenSeq(s)
  BY DEF Join
<1> HIDE DEF s
<1>4. PICK g \in [0 .. n -> Seq(Nat)] : /\ g[0] = <<>> /\ FlattenSeq(s) = g[n]
                                        /\ \A i \in 1 .. n : g[i] = g[i - 1] \o s[i]
  <2>1. PICK g \in [0 .. Len(s) -> Seq(Nat)] : /\ g[0] = <<>> /\ FlattenSeq(s) = g[Len(s)]
                                               /\ \A i \in 1 .. Len(s) : g[i] = g[i - 1] \o s[i]
    <3>1. s \in Seq(Seq(Nat))
      BY <1>2
    <3> HIDE DEF n
    <3> QED BY <3>1, FlattenSteps
  <2>2. Len(s) = n
    BY <1>2
  <2> HIDE DEF n
  <2> QED BY <2>1, <2>2
<1> DEFINE e == [k \in 0 .. n |-> Len(g[k])]
           P == {k \in Nat : k <= n => Laid(path, k, g[k], e)}
<1>5. \A k \in 0 .. n : e[k] = Len(g[k]) /\ e[k] \in Nat
  BY <1>4
<1> HIDE DEF e
<1>6. 0 \in P
  <2>1. 0 \in 0 .. n /\ e[0] = 0 /\ g[0] \in Name
    <3>1. 0 \in 0 .. n
      BY <1>1
    <3>2. Len(g[0]) = 0
      BY <1>4
    <3> QED BY <1>4, <1>5, <3>1, <3>2 DEF Name
  <2>2. Laid(path, 0, g[0], e)
    BY <1>5, <2>1 DEF Laid
  <2> QED BY <2>2
<1>7. ASSUME NEW k \in P PROVE k + 1 \in P
  <2> SUFFICES ASSUME k + 1 <= n PROVE Laid(path, k + 1, g[k + 1], e)
    OBVIOUS
  <2>1. k \in Nat /\ k \in 0 .. n - 1 /\ k + 1 \in 1 .. n /\ (k + 1) - 1 = k /\ k + 1 \in 0 .. n
    BY <1>1
  <2>2. Laid(path, k, g[k], e)
    BY <2>1
  <2> HIDE DEF P, n
  <2>3. g[k + 1] = g[k] \o s[k + 1]
    <3>1. g[k + 1] = g[(k + 1) - 1] \o s[k + 1]
      BY <1>4, <2>1
    <3> QED BY <2>1, <3>1
  <2>4. g[k + 1] = g[k] \o (IF k + 1 = 1 THEN path[k + 1] ELSE <<Slash>> \o path[k + 1])
    BY <1>2, <2>1, <2>3
  <2>5. e[k + 1] = Len(g[k + 1])
    BY <1>5, <2>1
  <2>6. k \in 0 .. Len(path) - 1
    BY <2>1 DEF n
  <2> QED BY <2>2, <2>4, <2>5, <2>6, LaidStep
<1> HIDE DEF P
<1>8. P = Nat
  BY <1>6, <1>7, NatInduct DEF P
<1> QED BY <1>1, <1>3, <1>4, <1>8 DEF P

\* What the layout of a clean path says of its places.
Places(path, s, e) ==
  LET n == Len(path)
  IN /\ n \in Nat /\ s \in Seq(Nat) /\ Len(s) \in Nat /\ Len(s) = e[n] /\ e[0] = 0
     /\ \A k \in 0 .. n : e[k] \in Nat /\ e[k] <= e[n]
     /\ \A k \in 1 .. n : /\ Len(path[k]) \in Nat \ {0} /\ Begins(e, k) \in Nat
                          /\ e[k] = Begins(e, k) + Len(path[k])
     /\ \A k \in 1 .. n : \A i \in 1 .. Len(path[k]) :
          /\ Begins(e, k) + i \in 1 .. Len(s)
          /\ s[Begins(e, k) + i] = path[k][i]
          /\ path[k][i] \in Nat /\ path[k][i] # Slash
     /\ \A k \in 1 .. n - 1 : e[k] + 1 \in 1 .. Len(s) /\ s[e[k] + 1] = Slash

LEMMA LaidIs ==
  ASSUME NEW path \in Clean, NEW s, NEW e, Laid(path, Len(path), s, e)
  PROVE  Places(path, s, e)
<1> DEFINE n == Len(path)
<1>1. /\ n \in Nat
      /\ \A k \in 1 .. n : /\ Len(path[k]) \in Nat \ {0}
                           /\ \A i \in 1 .. Len(path[k]) : path[k][i] \in Nat /\ path[k][i] # Slash
  BY CleanIs
<1>2. s \in Seq(Nat) /\ Len(s) \in Nat /\ Len(s) = e[n] /\ e[0] = 0
  BY DEF Laid, Name
<1>3. \A k \in 0 .. n : e[k] \in Nat /\ e[k] <= e[n]
  BY DEF Laid
<1>4. ASSUME NEW k \in 1 .. n PROVE Begins(e, k) \in Nat /\ e[k] = Begins(e, k) + Len(path[k])
  <2>1. k # 1 => k - 1 \in 0 .. n
    BY <1>1
  <2>2. k # 1 => e[k - 1] \in Nat
    BY <1>3, <2>1
  <2>3. Begins(e, k) \in Nat
    BY <2>2 DEF Begins
  <2> QED BY <2>3 DEF Laid
<1>5. ASSUME NEW k \in 1 .. n, NEW i \in 1 .. Len(path[k])
      PROVE  Begins(e, k) + i \in 1 .. Len(s) /\ s[Begins(e, k) + i] = path[k][i]
  <2>1. s[Begins(e, k) + i] = path[k][i]
    BY DEF Laid
  <2> DEFINE b == Begins(e, k)
             u == Len(path[k])
             l == Len(s)
             x == e[k]
  <2>2. b \in Nat /\ u \in Nat /\ x = b + u /\ i \in 1 .. u
    BY <1>1, <1>4
  <2>3. x <= l /\ l \in Nat
    <3>1. k \in 0 .. n
      BY <1>1
    <3> QED BY <1>2, <1>3, <3>1
  <2> HIDE DEF b, u, l, x
  <2>4. b + i \in 1 .. l
    BY <2>2, <2>3
  <2> QED BY <2>1, <2>4 DEF b, l
<1>6. ASSUME NEW k \in 1 .. n - 1 PROVE e[k] + 1 \in 1 .. Len(s) /\ s[e[k] + 1] = Slash
  <2>1. e[k] + 1 <= e[n] /\ s[e[k] + 1] = Slash
    BY DEF Laid
  <2>2. k \in 0 .. n
    BY <1>1
  <2> DEFINE x == e[k]
             l == Len(s)
  <2>3. x \in Nat /\ x + 1 <= l /\ l \in Nat
    BY <1>2, <1>3, <2>1, <2>2
  <2> HIDE DEF x, l
  <2>4. x + 1 \in 1 .. l
    BY <2>3
  <2> QED BY <2>1, <2>4 DEF x, l
<1> HIDE DEF n
<1>7. \A k \in 1 .. n : \A i \in 1 .. Len(path[k]) :
        /\ Begins(e, k) + i \in 1 .. Len(s)
        /\ s[Begins(e, k) + i] = path[k][i]
        /\ path[k][i] \in Nat /\ path[k][i] # Slash
  BY <1>1, <1>5
<1>8. \A k \in 1 .. n : /\ Len(path[k]) \in Nat \ {0} /\ Begins(e, k) \in Nat
                        /\ e[k] = Begins(e, k) + Len(path[k])
  BY <1>1, <1>4
<1>9. \A k \in 1 .. n - 1 : e[k] + 1 \in 1 .. Len(s) /\ s[e[k] + 1] = Slash
  BY <1>6
<1> QED BY <1>1, <1>2, <1>3, <1>7, <1>8, <1>9 DEF Places, n

\* The first components of a path: their name is where its own begins, and a
\* slash is behind it.
LEMMA PrefixJoin ==
  ASSUME NEW p \in Clean, NEW q \in Clean, Len(q) <= Len(p), \A i \in 1 .. Len(q) : p[i] = q[i],
         NEW s, NEW d, Laid(p, Len(p), s, d), NEW t, NEW e, Laid(q, Len(q), t, e)
  PROVE  /\ d[Len(q)] = Len(t) /\ Len(t) <= Len(s)
         /\ \A j \in 1 .. Len(t) : s[j] = t[j]
         /\ Len(q) < Len(p) /\ q # <<>> => Len(t) + 1 \in 1 .. Len(s) /\ s[Len(t) + 1] = Slash
<1> DEFINE n == Len(p)
           m == Len(q)
           P == {k \in Nat : k <= m => e[k] = d[k] /\ \A j \in 1 .. e[k] : s[j] = t[j]}
<1>1. /\ n \in Nat /\ Len(s) \in Nat /\ Len(s) = d[n] /\ d[0] = 0
      /\ \A k \in 0 .. n : d[k] \in Nat /\ d[k] <= d[n]
      /\ \A k \in 1 .. n : /\ Len(p[k]) \in Nat \ {0} /\ Begins(d, k) \in Nat
                           /\ d[k] = Begins(d, k) + Len(p[k])
      /\ \A k \in 1 .. n : \A i \in 1 .. Len(p[k]) : s[Begins(d, k) + i] = p[k][i]
      /\ \A k \in 1 .. n - 1 : d[k] + 1 \in 1 .. Len(s) /\ s[d[k] + 1] = Slash
  <2>1. Places(p, s, d)
    BY LaidIs
  <2> QED BY <2>1 DEF Places
<1>2. /\ m \in Nat /\ Len(t) \in Nat /\ Len(t) = e[m] /\ e[0] = 0
      /\ \A k \in 0 .. m : e[k] \in Nat /\ e[k] <= e[m]
      /\ \A k \in 1 .. m : /\ Len(q[k]) \in Nat \ {0} /\ Begins(e, k) \in Nat
                           /\ e[k] = Begins(e, k) + Len(q[k])
      /\ \A k \in 1 .. m : \A i \in 1 .. Len(q[k]) : t[Begins(e, k) + i] = q[k][i]
      /\ \A k \in 1 .. m - 1 : e[k] + 1 \in 1 .. Len(t) /\ t[e[k] + 1] = Slash
  <2>1. Places(q, t, e)
    BY LaidIs
  <2> QED BY <2>1 DEF Places
<1>3. m <= n /\ \A i \in 1 .. m : p[i] = q[i]
  OBVIOUS
<1> HIDE DEF n, m
<1>4. 0 \in P
  BY <1>1, <1>2
<1>5. ASSUME NEW k \in P PROVE k + 1 \in P
  <2> SUFFICES ASSUME k + 1 <= m
               PROVE  e[k + 1] = d[k + 1] /\ \A j \in 1 .. e[k + 1] : s[j] = t[j]
    OBVIOUS
  <2>1. /\ k \in Nat /\ k \in 0 .. m /\ k \in 0 .. n /\ k + 1 \in 1 .. m /\ k + 1 \in 1 .. n
        /\ (k + 1) - 1 = k /\ (k = 0 <=> k + 1 = 1)
        /\ k # 0 => k \in 1 .. n - 1 /\ k \in 1 .. m - 1
    BY <1>1, <1>2, <1>3
  <2>2. e[k] = d[k] /\ \A j \in 1 .. e[k] : s[j] = t[j]
    BY <2>1
  <2> HIDE DEF P
  <2> DEFINE b == Begins(e, k + 1)
             u == Len(q[k + 1])
             l == e[k]
             x == e[k + 1]
  <2>3. Begins(d, k + 1) = b /\ b = IF k = 0 THEN 0 ELSE l + 1
    BY <2>1, <2>2 DEF Begins
  <2>4. x = b + u /\ d[k + 1] = b + u /\ b \in Nat /\ u \in Nat /\ l \in Nat /\ x \in Nat
    <3>1. p[k + 1] = q[k + 1]
      BY <1>3, <2>1
    <3>2. x = b + u /\ b \in Nat /\ u \in Nat /\ l \in Nat
      BY <1>2, <2>1
    <3>3. d[k + 1] = Begins(d, k + 1) + Len(p[k + 1])
      BY <1>1, <2>1
    <3> HIDE DEF b, u, l, x
    <3>4. d[k + 1] = b + u
      BY <2>3, <3>1, <3>3 DEF u
    <3> QED BY <3>2, <3>4
  <2>5. ASSUME NEW j \in 1 .. x PROVE s[j] = t[j]
    <3> HIDE DEF b, u, l, x
    <3>1. CASE j \in 1 .. l
      BY <2>2, <3>1 DEF l
    <3>2. CASE k # 0 /\ j = l + 1
      <4>1. s[d[k] + 1] = Slash /\ t[e[k] + 1] = Slash
        BY <1>1, <1>2, <2>1, <3>2
      <4> QED BY <2>2, <3>2, <4>1 DEF l
    <3>3. CASE j \in b + 1 .. b + u
      <4> DEFINE i == j - b
      <4>1. i \in 1 .. u /\ j = b + i
        BY <2>4, <3>3
      <4> HIDE DEF i
      <4>2. t[b + i] = q[k + 1][i]
        BY <1>2, <2>1, <4>1 DEF b, u
      <4>3. p[k + 1] = q[k + 1]
        BY <1>3, <2>1
      <4>4. i \in 1 .. Len(p[k + 1])
        BY <4>1, <4>3 DEF u
      <4>5. s[Begins(d, k + 1) + i] = p[k + 1][i]
        BY <1>1, <2>1, <4>4
      <4> QED BY <2>3, <4>1, <4>2, <4>3, <4>5
    <3>4. l = 0 \/ k # 0
      BY <1>2 DEF l
    <3> QED BY <2>3, <2>4, <3>1, <3>2, <3>3, <3>4
  <2> QED BY <2>4, <2>5 DEF x
<1> HIDE DEF P
<1>6. P = Nat
  BY <1>4, <1>5, NatInduct DEF P
<1>7. e[m] = d[m] /\ \A j \in 1 .. e[m] : s[j] = t[j]
  BY <1>2, <1>6 DEF P
<1>8. d[m] <= d[n]
  <2>1. m \in 0 .. n
    BY <1>1, <1>2, <1>3
  <2> QED BY <1>1, <2>1
<1>9. ASSUME m < n, q # <<>> PROVE d[m] + 1 \in 1 .. Len(s) /\ s[d[m] + 1] = Slash
  <2>1. m # 0
    BY <1>9, CleanIs, EmptySeq DEF m
  <2>2. m \in 1 .. n - 1
    BY <1>1, <1>2, <1>9, <2>1
  <2> QED BY <1>1, <2>2
<1>10. d[m] = Len(t) /\ Len(t) <= Len(s) /\ \A j \in 1 .. Len(t) : s[j] = t[j]
  BY <1>1, <1>2, <1>7, <1>8
<1> QED BY <1>9, <1>10 DEF n, m

\* The other way round: where the name of a path is followed by a slash or by
\* nothing, its components are the first ones.
LEMMA JoinPrefix ==
  ASSUME NEW p \in Clean, NEW q \in Clean, NEW s, NEW d, Laid(p, Len(p), s, d),
         NEW t, NEW e, Laid(q, Len(q), t, e),
         Len(t) <= Len(s), \A j \in 1 .. Len(t) : s[j] = t[j],
         Len(t) = Len(s) \/ s[Len(t) + 1] = Slash
  PROVE  Len(q) <= Len(p) /\ \A i \in 1 .. Len(q) : p[i] = q[i]
<1> DEFINE n == Len(p)
           m == Len(q)
           P == {k \in Nat : k <= m => k <= n /\ e[k] = d[k] /\ \A i \in 1 .. k : p[i] = q[i]}
<1>1. /\ n \in Nat /\ Len(s) \in Nat /\ Len(s) = d[n] /\ d[0] = 0
      /\ \A k \in 0 .. n : d[k] \in Nat /\ d[k] <= d[n]
      /\ \A k \in 1 .. n : /\ Len(p[k]) \in Nat \ {0} /\ Begins(d, k) \in Nat
                           /\ d[k] = Begins(d, k) + Len(p[k])
      /\ \A k \in 1 .. n : \A i \in 1 .. Len(p[k]) :
           /\ Begins(d, k) + i \in 1 .. Len(s)
           /\ s[Begins(d, k) + i] = p[k][i]
           /\ p[k][i] \in Nat /\ p[k][i] # Slash
      /\ \A k \in 1 .. n - 1 : d[k] + 1 \in 1 .. Len(s) /\ s[d[k] + 1] = Slash
  <2>1. Places(p, s, d)
    BY LaidIs
  <2> QED BY <2>1 DEF Places
<1>2. /\ m \in Nat /\ Len(t) \in Nat /\ Len(t) = e[m] /\ e[0] = 0
      /\ \A k \in 0 .. m : e[k] \in Nat /\ e[k] <= e[m]
      /\ \A k \in 1 .. m : /\ Len(q[k]) \in Nat \ {0} /\ Begins(e, k) \in Nat
                           /\ e[k] = Begins(e, k) + Len(q[k])
      /\ \A k \in 1 .. m : \A i \in 1 .. Len(q[k]) :
           /\ Begins(e, k) + i \in 1 .. Len(t)
           /\ t[Begins(e, k) + i] = q[k][i]
           /\ q[k][i] \in Nat /\ q[k][i] # Slash
      /\ \A k \in 1 .. m - 1 : e[k] + 1 \in 1 .. Len(t) /\ t[e[k] + 1] = Slash
  <2>1. Places(q, t, e)
    BY LaidIs
  <2> QED BY <2>1 DEF Places
<1>3. /\ \A k \in 1 .. n : p[k] \in Seq(Nat \ {Slash})
      /\ \A k \in 1 .. m : q[k] \in Seq(Nat \ {Slash})
  BY CleanIs
<1> HIDE DEF n, m
<1>4. 0 \in P
  BY <1>1, <1>2
<1>5. ASSUME NEW k \in P PROVE k + 1 \in P
  <2> SUFFICES ASSUME k + 1 <= m
               PROVE  k + 1 <= n /\ e[k + 1] = d[k + 1] /\ \A i \in 1 .. k + 1 : p[i] = q[i]
    OBVIOUS
  <2>1. /\ k \in Nat /\ k \in 0 .. m /\ k + 1 \in 1 .. m /\ k + 1 \in 0 .. m /\ (k + 1) - 1 = k
        /\ (k = 0 <=> k + 1 = 1)
    <3>1. k \in Nat /\ m \in Nat
      BY <1>2
    <3> HIDE DEF P
    <3> QED BY <3>1
  <2>2. k <= n /\ e[k] = d[k] /\ \A i \in 1 .. k : p[i] = q[i]
    BY <2>1
  <2> HIDE DEF P
  <2> DEFINE b == Begins(e, k + 1)
             x == q[k + 1]
             y == p[k + 1]
             u == Len(x)
             v == Len(y)
             l == e[k]
             h == e[k + 1]
             S == Len(s)
             T == Len(t)
  <2>3. Begins(d, k + 1) = b /\ b = (IF k = 0 THEN 0 ELSE l + 1) /\ b >= l
    <3>1. Begins(d, k + 1) = b /\ b = IF k = 0 THEN 0 ELSE l + 1
      BY <2>1, <2>2 DEF Begins
    <3>2. l \in Nat /\ (k = 0 => l = 0)
      BY <1>2, <2>1
    <3> HIDE DEF b, l
    <3> QED BY <3>1, <3>2
  <2>4. h = b + u /\ b \in Nat /\ u \in Nat \ {0} /\ l \in Nat /\ h <= T /\ T \in Nat /\ S \in Nat /\ T <= S
    <3>1. h = b + u /\ b \in Nat /\ u \in Nat \ {0}
      BY <1>2, <2>1
    <3>2. l \in Nat /\ h <= T /\ T \in Nat /\ S \in Nat
      BY <1>1, <1>2, <2>1
    <3> QED BY <3>1, <3>2
  <2>5. k + 1 <= n
    <3> SUFFICES ASSUME k = n PROVE FALSE
      BY <1>1, <2>1, <2>2
    <3>1. l = S
      BY <1>1, <2>2
    <3> HIDE DEF b, u, l, h, S, T
    <3> QED BY <2>3, <2>4, <3>1
  <2>6. k + 1 \in 1 .. n
    BY <1>1, <2>1, <2>5
  <2>7. d[k + 1] = b + v /\ v \in Nat \ {0} /\ b + v <= S
    <3>1. d[k + 1] = Begins(d, k + 1) + v /\ v \in Nat \ {0}
      BY <1>1, <2>6
    <3>2. d[k + 1] <= S
      <4>1. k + 1 \in 0 .. n
        BY <2>6
      <4> QED BY <1>1, <4>1
    <3> HIDE DEF b, v, S
    <3> QED BY <2>3, <3>1, <3>2
  <2>8. \A i \in 1 .. u : t[b + i] = x[i] /\ x[i] # Slash /\ b + i \in 1 .. T
    BY <1>2, <2>1
  <2>9. \A i \in 1 .. v : s[b + i] = y[i] /\ y[i] # Slash /\ b + i \in 1 .. S
    <3>1. \A i \in 1 .. v : /\ s[Begins(d, k + 1) + i] = y[i] /\ y[i] # Slash
                            /\ Begins(d, k + 1) + i \in 1 .. S
      BY <1>1, <2>6
    <3> HIDE DEF b, v, S
    <3> QED BY <2>3, <3>1
  <2>10. \A j \in 1 .. T : s[j] = t[j]
    OBVIOUS
  <2>11. T = S \/ s[T + 1] = Slash
    OBVIOUS
  <2>12. k + 1 < m => h + 1 \in 1 .. T /\ t[h + 1] = Slash
    <3>1. k + 1 < m => k + 1 \in 1 .. m - 1
      BY <1>2, <2>1
    <3> QED BY <1>2, <3>1
  <2>13. k + 1 = m => h = T
    BY <1>2
  <2>14. k + 1 < n => s[b + v + 1] = Slash
    <3>1. k + 1 < n => k + 1 \in 1 .. n - 1
      BY <1>1, <2>1
    <3>2. k + 1 < n => s[d[k + 1] + 1] = Slash
      BY <1>1, <3>1
    <3> HIDE DEF b, v
    <3> QED BY <2>7, <3>2
  <2>15. k + 1 = n => b + v = S
    <3>1. k + 1 = n => d[k + 1] = S
      BY <1>1
    <3> QED BY <2>7, <3>1
  <2>16. u = v
    <3> HIDE DEF b, x, y, u, v, l, h, S, T
    <3>1. CASE u < v
      <4>1. u + 1 \in 1 .. v /\ b + (u + 1) = h + 1
        BY <2>4, <2>7, <3>1
      <4>2. s[h + 1] # Slash /\ h + 1 \in 1 .. S
        <5>1. s[b + (u + 1)] = y[u + 1] /\ y[u + 1] # Slash /\ b + (u + 1) \in 1 .. S
          BY <2>9, <4>1
        <5> QED BY <4>1, <5>1
      <4>3. k + 1 < m \/ k + 1 = m
        BY <1>2, <2>1
      <4>4. CASE k + 1 < m
        BY <2>10, <2>12, <4>2, <4>4
      <4>5. CASE k + 1 = m
        BY <2>4, <2>11, <2>13, <4>2, <4>5
      <4> QED BY <4>3, <4>4, <4>5
    <3>2. CASE v < u
      <4>1. v + 1 \in 1 .. u /\ b + (v + 1) = b + v + 1
        BY <2>4, <2>7, <3>2
      <4>2. t[b + v + 1] # Slash /\ b + v + 1 \in 1 .. T
        <5>1. t[b + (v + 1)] = x[v + 1] /\ x[v + 1] # Slash /\ b + (v + 1) \in 1 .. T
          BY <2>8, <4>1
        <5> QED BY <4>1, <5>1
      <4>3. s[b + v + 1] # Slash
        BY <2>10, <4>2
      <4>4. k + 1 = n
        BY <1>1, <2>1, <2>5, <2>14, <4>3
      <4>5. b + v = S
        BY <2>15, <4>4
      <4> QED BY <2>4, <4>2, <4>5
    <3> QED BY <2>4, <2>7, <3>1, <3>2
  <2>17. x = y
    <3>1. ASSUME NEW i \in 1 .. u PROVE x[i] = y[i]
      <4> HIDE DEF b, x, y, u, v, l, h, S, T
      <4>1. t[b + i] = x[i] /\ b + i \in 1 .. T
        BY <2>8
      <4>2. i \in 1 .. v
        BY <2>16
      <4>3. s[b + i] = y[i]
        BY <2>9, <4>2
      <4> QED BY <2>10, <4>1, <4>3
    <3>2. x \in Seq(Nat \ {Slash}) /\ y \in Seq(Nat \ {Slash})
      BY <1>3, <2>1, <2>6
    <3> HIDE DEF x, y
    <3> QED BY <2>16, <3>1, <3>2, SeqEqual
  <2>18. h = d[k + 1]
    BY <2>4, <2>7, <2>16
  <2>19. \A i \in 1 .. k + 1 : i = k + 1 \/ i \in 1 .. k
    BY <2>1
  <2> QED BY <2>2, <2>5, <2>17, <2>18, <2>19
<1> HIDE DEF P
<1>6. P = Nat
  BY <1>4, <1>5, NatInduct DEF P
<1>7. m \in P /\ m <= m
  BY <1>2, <1>6
<1>8. m <= n /\ \A i \in 1 .. m : p[i] = q[i]
  BY <1>7 DEF P
<1> QED BY <1>8 DEF n, m

\* check_prefix on the names of paths.
LEMMA BelowIs ==
  ASSUME NEW p \in Clean, NEW q \in Clean \ {<<>>}
  PROVE  CheckPrefix(Join(p), Join(q)) <=> Len(q) <= Len(p) /\ \A i \in 1 .. Len(q) : p[i] = q[i]
<1> DEFINE s == Join(p)
           t == Join(q)
<1>1. PICK d : Laid(p, Len(p), s, d)
  BY CleanIs, JoinIs
<1>2. PICK e : Laid(q, Len(q), t, e)
  BY CleanIs, JoinIs
<1>3. s \in Seq(Nat) /\ t \in Seq(Nat) /\ Len(s) \in Nat /\ Len(t) \in Nat
  BY <1>1, <1>2 DEF Laid, Name
<1>4. CheckPrefix(s, t) <=> /\ Len(t) <= Len(s) /\ \A j \in 1 .. Len(t) : t[j] = s[j]
                            /\ Len(s) = Len(t) \/ s[Len(t) + 1] = Slash
  BY <1>3, PrefixIs DEF CheckPrefix
<1> HIDE DEF s, t
<1>5. ASSUME CheckPrefix(s, t) PROVE Len(q) <= Len(p) /\ \A i \in 1 .. Len(q) : p[i] = q[i]
  <2>1. /\ Len(t) <= Len(s) /\ \A j \in 1 .. Len(t) : s[j] = t[j]
        /\ Len(t) = Len(s) \/ s[Len(t) + 1] = Slash
    BY <1>4, <1>5
  <2> QED BY <1>1, <1>2, <2>1, JoinPrefix
<1>6. ASSUME Len(q) <= Len(p), \A i \in 1 .. Len(q) : p[i] = q[i] PROVE CheckPrefix(s, t)
  <2>1. /\ d[Len(q)] = Len(t) /\ Len(t) <= Len(s)
        /\ \A j \in 1 .. Len(t) : s[j] = t[j]
        /\ Len(q) < Len(p) /\ q # <<>> => Len(t) + 1 \in 1 .. Len(s) /\ s[Len(t) + 1] = Slash
    BY <1>1, <1>2, <1>6, PrefixJoin
  <2>2. Len(p) \in Nat /\ Len(q) \in Nat
    BY CleanIs
  <2>3. CASE Len(q) = Len(p)
    <3>1. Len(s) = Len(t)
      BY <1>1, <2>1, <2>3 DEF Laid
    <3> QED BY <1>4, <2>1, <3>1
  <2>4. CASE Len(q) < Len(p)
    BY <1>4, <2>1, <2>4
  <2> QED BY <1>6, <2>2, <2>3, <2>4
<1> QED BY <1>5, <1>6 DEF s, t

LEMMA CleanEqual ==
  ASSUME NEW p \in Clean, NEW q \in Clean, Len(p) = Len(q), \A i \in 1 .. Len(q) : p[i] = q[i]
  PROVE  p = q
<1>1. p \in Seq(Name) /\ q \in Seq(Name)
  BY CleanIs
<1>2. \A i \in 1 .. Len(p) : p[i] = q[i]
  OBVIOUS
<1> QED BY <1>1, <1>2, SeqEqual

\* Where the name of a path of components ends.
LEMMA JoinEnds ==
  ASSUME NEW p \in Clean
  PROVE  /\ Join(p) \in Name /\ Join(p) \in Seq(Nat) /\ Len(Join(p)) \in Nat
         /\ p = <<>> => Join(p) = <<>>
         /\ p # <<>> => Join(p) # <<>> /\ Len(Join(p)) # 0 /\ Join(p)[Len(Join(p))] # Slash
<1> DEFINE s == Join(p)
           n == Len(p)
<1>1. PICK d : Laid(p, n, s, d)
  BY CleanIs, JoinIs
<1>2. /\ n \in Nat /\ s \in Seq(Nat) /\ Len(s) \in Nat /\ Len(s) = d[n] /\ d[0] = 0
      /\ \A k \in 1 .. n : /\ Len(p[k]) \in Nat \ {0} /\ Begins(d, k) \in Nat
                           /\ d[k] = Begins(d, k) + Len(p[k])
      /\ \A k \in 1 .. n : \A i \in 1 .. Len(p[k]) :
           /\ Begins(d, k) + i \in 1 .. Len(s)
           /\ s[Begins(d, k) + i] = p[k][i]
           /\ p[k][i] \in Nat /\ p[k][i] # Slash
  <2>1. Places(p, s, d)
    BY <1>1, LaidIs
  <2> QED BY <2>1 DEF Places
<1>3. p = <<>> <=> n = 0
  BY CleanIs, EmptySeq
<1> HIDE DEF s, n
<1>4. CASE p = <<>>
  <2>1. Len(s) = 0
    BY <1>2, <1>3, <1>4
  <2>2. s = <<>>
    BY <1>2, <2>1, EmptySeq
  <2> QED BY <1>2, <1>4, <2>2 DEF s, Name
<1>5. CASE p # <<>>
  <2>1. n \in 1 .. n
    BY <1>2, <1>3, <1>5
  <2> DEFINE b == Begins(d, n)
             u == Len(p[n])
  <2>2. u \in Nat \ {0} /\ b \in Nat /\ Len(s) = b + u /\ u \in 1 .. u
    BY <1>2, <2>1
  <2>3. s[b + u] = p[n][u] /\ p[n][u] # Slash
    BY <1>2, <2>1, <2>2
  <2> HIDE DEF b, u
  <2>4. Len(s) # 0 /\ s[Len(s)] # Slash
    BY <2>2, <2>3
  <2>5. s # <<>>
    BY <1>2, <2>4, EmptySeq
  <2> QED BY <1>2, <1>5, <2>4, <2>5 DEF s, Name
<1> QED BY <1>4, <1>5

\* Different paths have different names.
LEMMA JoinOne ==
  ASSUME NEW p \in Clean, NEW q \in Clean, Join(p) = Join(q)
  PROVE  p = q
<1>1. CASE p = <<>> \/ q = <<>>
  BY <1>1, JoinEnds
<1>2. CASE p # <<>> /\ q # <<>>
  <2>1. ASSUME NEW s \in Seq(Nat) PROVE CheckPrefix(s, s)
    BY PrefixIs DEF CheckPrefix
  <2>2. CheckPrefix(Join(p), Join(q)) /\ CheckPrefix(Join(q), Join(p))
    BY <2>1, JoinEnds
  <2>3. Len(q) <= Len(p) /\ \A i \in 1 .. Len(q) : p[i] = q[i]
    BY <1>2, <2>2, BelowIs
  <2>4. Len(p) <= Len(q)
    BY <1>2, <2>2, BelowIs
  <2>5. Len(p) = Len(q)
    BY <2>3, <2>4, CleanIs
  <2> QED BY <2>3, <2>5, CleanEqual
<1> QED BY <1>1, <1>2

\* Trailing slashes do not count, and a name of a path has none.
LEMMA StripIs ==
  ASSUME NEW s \in Seq(Nat), s = <<>> \/ s[Len(s)] # Slash
  PROVE  Strip(s) = s /\ Strip(s \o <<Slash>>) = s
<1> DEFINE l == Len(s)
           t == s \o <<Slash>>
           EndsAt(r, m) == /\ \A i \in m + 1 .. Len(r) : r[i] = Slash
                           /\ m = 0 \/ r[m] # Slash
<1>1. l \in Nat /\ (s = <<>> <=> l = 0)
  BY EmptySeq
<1>2. t \in Seq(Nat) /\ Len(t) = l + 1 /\ t[l + 1] = Slash /\ \A i \in 1 .. l : t[i] = s[i]
  <2>1. Slash \in Nat
    BY DEF Slash
  <2>2. t = Append(s, Slash)
    BY <2>1, AppendIsConcat
  <2> QED BY <2>1, <2>2, AppendProperties
<1>3. ASSUME NEW r \in Seq(Nat), Len(r) >= l, EndsAt(r, l) PROVE Strip(r) = SubSeq(r, 1, l)
  <2> DEFINE m == CHOOSE n \in 0 .. Len(r) : EndsAt(r, n)
  <2>1. Len(r) \in Nat /\ l \in 0 .. Len(r)
    BY <1>1, <1>3
  <2>2. m \in 0 .. Len(r) /\ EndsAt(r, m)
    <3> HIDE DEF EndsAt
    <3> QED BY <1>3, <2>1
  <2>3. Strip(r) = SubSeq(r, 1, m)
    BY DEF Strip
  <2> HIDE DEF m
  <2>4. m = l
    <3>1. CASE m < l
      <4>1. l \in m + 1 .. Len(r) /\ l # 0
        BY <1>1, <2>1, <2>2, <3>1
      <4> QED BY <1>3, <2>2, <4>1
    <3>2. CASE l < m
      <4>1. m \in l + 1 .. Len(r) /\ m # 0
        BY <1>1, <2>1, <2>2, <3>2
      <4> QED BY <1>3, <2>2, <4>1
    <3> QED BY <1>1, <2>2, <3>1, <3>2
  <2> QED BY <2>3, <2>4
<1>4. EndsAt(s, l)
  BY <1>1
<1>5. EndsAt(t, l)
  <2>1. \A i \in l + 1 .. l + 1 : t[i] = Slash
    BY <1>1, <1>2
  <2>2. l = 0 \/ t[l] # Slash
    <3>1. l = 0 \/ l \in 1 .. l
      BY <1>1
    <3> QED BY <1>1, <1>2, <3>1
  <2> QED BY <1>2, <2>1, <2>2
<1>6. SubSeq(s, 1, l) = s
  BY SubSeqFull
<1>7. SubSeq(t, 1, l) = s
  <2>1. l \in Nat /\ l <= Len(t) /\ l <= Len(s)
    BY <1>1, <1>2
  <2>2. \A i \in 1 .. l : t[i] = s[i]
    BY <1>2
  <2>3. SubSeq(t, 1, l) = SubSeq(s, 1, l)
    BY <1>2, <2>1, <2>2, SameFront
  <2> QED BY <1>6, <2>3
<1> HIDE DEF t, EndsAt
<1>8. Strip(s) = s
  BY <1>1, <1>3, <1>4, <1>6
<1>9. Strip(t) = s
  <2>1. Len(t) >= l /\ t \in Seq(Nat)
    BY <1>1, <1>2
  <2> HIDE DEF l
  <2>2. Strip(t) = SubSeq(t, 1, l)
    BY <1>3, <1>5, <2>1
  <2> QED BY <1>7, <2>2
<1> QED BY <1>8, <1>9 DEF t

\* q is a directory p is below, at any depth.
Under(p, q) == Len(q) < Len(p) /\ \A i \in 1 .. Len(q) : p[i] = q[i]

\* What s has from a place on up to a slash or to the end.
Piece(s, from) ==
  LET slashes == {i \in from .. Len(s) : s[i] = Slash}
      to == IF slashes = {} THEN Len(s) ELSE (CHOOSE i \in slashes : \A j \in slashes : i <= j) - 1
  IN SubSeq(s, from, to)

LEMMA PieceIs ==
  ASSUME NEW s \in Seq(Nat), NEW b \in Nat, NEW c \in Seq(Nat), Len(c) # 0, b + Len(c) <= Len(s),
         \A i \in 1 .. Len(c) : s[b + i] = c[i] /\ c[i] # Slash,
         b + Len(c) = Len(s) \/ s[b + Len(c) + 1] = Slash,
         NEW from, from = b + 1
  PROVE  from <= Len(s) /\ Piece(s, from) = c
<1> DEFINE l == Len(s)
           u == Len(c)
           slashes == {i \in from .. l : s[i] = Slash}
           first == CHOOSE i \in slashes : \A j \in slashes : i <= j
           to == IF slashes = {} THEN l ELSE first - 1
<1>1. l \in Nat /\ u \in Nat \ {0} /\ from = b + 1 /\ b + u <= l /\ from \in Nat /\ from <= l
  OBVIOUS
<1>2. \A i \in from .. b + u : s[i] # Slash
  <2> SUFFICES ASSUME NEW i \in from .. b + u PROVE s[i] # Slash
    OBVIOUS
  <2>1. i - b \in 1 .. u /\ b + (i - b) = i
    BY <1>1
  <2> QED BY <2>1
<1>3. \A i \in slashes : i \in b + u + 1 .. l
  <2> HIDE DEF l, u
  <2>1. \A i \in from .. l : i \in from .. b + u \/ i \in b + u + 1 .. l
    BY <1>1
  <2> QED BY <1>2, <2>1
<1>4. to = b + u
  <2>1. CASE b + u = l
    <3>1. slashes = {}
      <4> HIDE DEF l, u, slashes
      <4> QED BY <1>1, <1>3, <2>1
    <3> QED BY <2>1, <3>1
  <2>2. CASE b + u # l
    <3> DEFINE k == b + u + 1
    <3>1. k \in from .. l
      <4> HIDE DEF l, u
      <4> QED BY <1>1, <2>2
    <3>2. k \in slashes /\ \A j \in slashes : k <= j
      <4>1. s[k] = Slash
        BY <2>2
      <4>2. k \in slashes
        BY <3>1, <4>1
      <4> HIDE DEF l, u, slashes
      <4> QED BY <1>1, <1>3, <4>2
    <3>3. \A j \in slashes : j \in Int
      BY <1>1
    <3> HIDE DEF slashes, k
    <3>4. first \in slashes /\ \A j \in slashes : first <= j
      BY <3>2
    <3>5. first = k
      BY <3>2, <3>3, <3>4
    <3>6. slashes # {}
      BY <3>2
    <3> HIDE DEF first, l, u
    <3> QED BY <1>1, <3>5, <3>6 DEF k
  <2> QED BY <2>1, <2>2
<1>5. SubSeq(s, from, b + u) = c
  <2> DEFINE d == SubSeq(s, from, b + u)
  <2>1. \A i \in from .. b + u : s[i] \in Nat
    <3>1. \A i \in from .. b + u : i \in 1 .. l
      BY <1>1
    <3> QED BY <3>1
  <2>2. from \in Int /\ b + u \in Int /\ (b + u) - from + 1 = u /\ from <= b + u
    <3> HIDE DEF u
    <3> QED BY <1>1
  <2> HIDE DEF l, u
  <2>3. d \in Seq(Nat) /\ Len(d) = u /\ \A i \in 1 .. u : d[i] = s[from + i - 1]
    <3> DEFINE end == b + u
    <3> HIDE DEF end
    <3>1. end \in Int /\ from \in Int /\ \A i \in from .. end : s[i] \in Nat
      BY <2>1, <2>2 DEF end
    <3>2. /\ SubSeq(s, from, end) \in Seq(Nat)
          /\ Len(SubSeq(s, from, end)) = IF from <= end THEN end - from + 1 ELSE 0
          /\ \A i \in 1 .. end - from + 1 : SubSeq(s, from, end)[i] = s[from + i - 1]
      BY <3>1, SubSeqProperties
    <3>3. end - from + 1 = u /\ from <= end
      BY <2>2 DEF end
    <3>4. d = SubSeq(s, from, end)
      BY DEF end
    <3> HIDE DEF d
    <3> QED BY <3>2, <3>3, <3>4
  <2>4. \A i \in 1 .. u : from + i - 1 = b + i
    BY <1>1
  <2>5. \A i \in 1 .. u : d[i] = c[i]
    BY <2>3, <2>4 DEF u
  <2> HIDE DEF d
  <2>6. d = c
    BY <2>3, <2>5, SeqEqual DEF u
  <2> QED BY <2>6 DEF d
<1> HIDE DEF slashes, to
<1>6. from <= l /\ SubSeq(s, from, to) = c
  BY <1>1, <1>4, <1>5
<1> QED BY <1>6 DEF Piece, to, slashes

\* list_dir_collect takes the component of the path behind the directory.
LEMMA ChildIs ==
  ASSUME NEW p \in Clean \ {<<>>}, NEW q \in Clean
  PROVE  Child(Join(p), Join(q)) = IF Under(p, q) THEN <<p[Len(q) + 1]>> ELSE <<>>
<1> DEFINE s == Join(p)
           t == Join(q)
           n == Len(p)
           m == Len(q)
           from == IF t = <<>> THEN 1 ELSE Len(t) + 2
           Below == IsPrefix(t, s) /\ Len(s) > Len(t) /\ s[Len(t) + 1] = Slash
<1>1. Child(s, t) = IF t # <<>> /\ ~ Below THEN <<>>
                    ELSE IF from > Len(s) THEN <<>> ELSE <<Piece(s, from)>>
  BY DEF Child, Piece
<1>2. PICK d : Laid(p, n, s, d)
  BY CleanIs, JoinIs
<1>3. PICK e : Laid(q, m, t, e)
  BY CleanIs, JoinIs
<1>4. /\ n \in Nat /\ s \in Seq(Nat) /\ Len(s) \in Nat /\ Len(s) = d[n] /\ d[0] = 0
      /\ \A k \in 0 .. n : d[k] \in Nat /\ d[k] <= d[n]
      /\ \A k \in 1 .. n : /\ Len(p[k]) \in Nat \ {0} /\ Begins(d, k) \in Nat
                           /\ d[k] = Begins(d, k) + Len(p[k])
      /\ \A k \in 1 .. n : \A i \in 1 .. Len(p[k]) :
           /\ Begins(d, k) + i \in 1 .. Len(s)
           /\ s[Begins(d, k) + i] = p[k][i]
           /\ p[k][i] \in Nat /\ p[k][i] # Slash
      /\ \A k \in 1 .. n - 1 : d[k] + 1 \in 1 .. Len(s) /\ s[d[k] + 1] = Slash
  <2>1. Places(p, s, d)
    BY <1>2, LaidIs
  <2> QED BY <2>1 DEF Places
<1>5. m \in Nat /\ t \in Seq(Nat) /\ Len(t) \in Nat /\ (q = <<>> <=> m = 0) /\ (t = <<>> <=> q = <<>>)
  <2>1. m \in Nat /\ (q = <<>> <=> m = 0)
    BY CleanIs, EmptySeq
  <2> QED BY <2>1, JoinEnds
<1>6. n # 0
  BY CleanIs, EmptySeq
<1> HIDE DEF from
<1>7. ASSUME q # <<>>, Below PROVE Under(p, q)
  <2> HIDE DEF s, t, n, m
  <2>1. Len(t) <= Len(s) /\ \A j \in 1 .. Len(t) : s[j] = t[j]
    BY <1>4, <1>5, <1>7, PrefixIs
  <2>2. s[Len(t) + 1] = Slash /\ Len(t) # Len(s)
    BY <1>4, <1>5, <1>7
  <2>3. m <= n /\ \A i \in 1 .. m : p[i] = q[i]
    BY <1>2, <1>3, <2>1, <2>2, JoinPrefix DEF n, m
  <2>4. m # n
    <3> SUFFICES ASSUME m = n PROVE FALSE
      OBVIOUS
    <3>1. p = q
      BY <2>3, CleanEqual DEF n, m
    <3> QED BY <2>2, <3>1 DEF s, t
  <2> QED BY <1>4, <1>5, <2>3, <2>4 DEF Under, n, m
<1>8. ASSUME Under(p, q) PROVE (q # <<>> => Below) /\ d[m] = Len(t)
  <2> HIDE DEF s, t, n, m
  <2>1. m < n /\ \A i \in 1 .. m : p[i] = q[i]
    BY <1>8 DEF Under, n, m
  <2>2. m <= n
    BY <1>4, <1>5, <2>1
  <2>3. /\ d[m] = Len(t) /\ Len(t) <= Len(s)
        /\ \A j \in 1 .. Len(t) : s[j] = t[j]
        /\ m < n /\ q # <<>> => Len(t) + 1 \in 1 .. Len(s) /\ s[Len(t) + 1] = Slash
    BY <1>2, <1>3, <2>1, <2>2, PrefixJoin DEF n, m
  <2>4. IsPrefix(t, s)
    BY <1>4, <1>5, <2>3, PrefixIs
  <2> QED BY <1>4, <1>5, <2>1, <2>3, <2>4
<1>9. CASE Under(p, q)
  <2> DEFINE k == m + 1
             c == p[k]
             b == Begins(d, k)
             u == Len(c)
  <2> HIDE DEF s, t, n, m
  <2>1. k \in 1 .. n /\ k - 1 = m /\ k \in 0 .. n
    BY <1>4, <1>5, <1>9 DEF Under, n, m
  <2>2. from = b + 1 /\ b \in Nat
    <3>1. b = IF m = 0 THEN 0 ELSE Len(t) + 1
      BY <1>5, <1>8, <1>9, <2>1 DEF Begins
    <3>2. from = IF m = 0 THEN 1 ELSE Len(t) + 2
      BY <1>5 DEF from
    <3> HIDE DEF b
    <3> QED BY <1>5, <3>1, <3>2
  <2>3. c \in Seq(Nat) /\ u \in Nat \ {0} /\ d[k] = b + u
    <3>1. c \in Name
      BY <2>1, CleanIs DEF n
    <3> QED BY <1>4, <2>1, <3>1 DEF Name
  <2>4. \A i \in 1 .. u : s[b + i] = c[i] /\ c[i] # Slash
    BY <1>4, <2>1
  <2>5. d[k] <= Len(s)
    BY <1>4, <2>1
  <2>6. d[k] = Len(s) \/ s[d[k] + 1] = Slash
    <3>1. k = n \/ k \in 1 .. n - 1
      BY <1>4, <2>1
    <3> QED BY <1>4, <3>1
  <2> HIDE DEF c, b, k
  <2>7. from <= Len(s) /\ Piece(s, from) = c
    <3>1. Len(c) # 0 /\ b + Len(c) <= Len(s)
      BY <2>3, <2>5
    <3>2. b + Len(c) = Len(s) \/ s[b + Len(c) + 1] = Slash
      BY <2>3, <2>6
    <3> QED BY <1>4, <2>2, <2>3, <2>4, <3>1, <3>2, PieceIs
  <2>8. ~ (from > Len(s))
    BY <1>4, <2>2, <2>7
  <2>9. ~ (t # <<>> /\ ~ Below)
    <3> HIDE DEF Below
    <3> QED BY <1>5, <1>8, <1>9
  <2> HIDE DEF Below
  <2>10. Child(s, t) = <<c>>
    BY <1>1, <2>7, <2>8, <2>9
  <2> QED BY <1>9, <2>10 DEF c, k, m, s, t
<1>10. CASE ~ Under(p, q)
  <2>1. q # <<>>
    <3> SUFFICES ASSUME q = <<>> PROVE FALSE
      OBVIOUS
    <3>1. m = 0
      BY <1>5
    <3>2. 0 < n /\ \A i \in 1 .. 0 : p[i] = q[i]
      BY <1>4, <1>6
    <3> HIDE DEF n, m
    <3>3. Under(p, q)
      BY <3>1, <3>2 DEF Under, n, m
    <3> QED BY <1>10, <3>3
  <2>2. t # <<>> /\ ~ Below
    <3> HIDE DEF Below
    <3> QED BY <1>5, <1>7, <1>10, <2>1
  <2> HIDE DEF Below
  <2> QED BY <1>1, <1>10, <2>2
<1> QED BY <1>9, <1>10

-----------------------------------------------------------------------------
(* What the index says of the tree.                                        *)

Has(s, x) == \E i \in 1 .. Len(s) : s[i] = x

LEMMA ConcatHas ==
  ASSUME NEW S, NEW a \in Seq(S), NEW b \in Seq(S)
  PROVE  a \o b \in Seq(S) /\ \A x : Has(a \o b, x) <=> Has(a, x) \/ Has(b, x)
<1> DEFINE c == a \o b
           m == Len(a)
           n == Len(b)
<1>1. c \in Seq(S) /\ Len(c) = m + n
      /\ \A i \in 1 .. m + n : c[i] = IF i <= m THEN a[i] ELSE b[i - m]
  BY ConcatProperties
<1>2. m \in Nat /\ n \in Nat
  OBVIOUS
<1> HIDE DEF c, m, n
<1>3. ASSUME NEW x, NEW i \in 1 .. m + n, c[i] = x
      PROVE  (\E j \in 1 .. m : a[j] = x) \/ \E j \in 1 .. n : b[j] = x
  <2>1. CASE i <= m
    <3>1. i \in 1 .. m /\ c[i] = a[i]
      BY <1>1, <1>2, <2>1
    <3> QED BY <1>3, <3>1
  <2>2. CASE ~ (i <= m)
    <3>1. i - m \in 1 .. n /\ c[i] = b[i - m]
      BY <1>1, <1>2, <2>2
    <3> QED BY <1>3, <3>1
  <2> QED BY <2>1, <2>2
<1>4. ASSUME NEW i \in 1 .. m PROVE i \in 1 .. m + n /\ c[i] = a[i]
  <2>1. i \in 1 .. m + n /\ i <= m
    BY <1>2
  <2> QED BY <1>1, <2>1
<1>5. ASSUME NEW i \in 1 .. n PROVE m + i \in 1 .. m + n /\ c[m + i] = b[i]
  <2>1. m + i \in 1 .. m + n /\ ~ (m + i <= m) /\ (m + i) - m = i
    BY <1>2
  <2> QED BY <1>1, <2>1
<1>6. \A x : (\E i \in 1 .. m + n : c[i] = x)
               <=> (\E j \in 1 .. m : a[j] = x) \/ \E j \in 1 .. n : b[j] = x
  BY <1>3, <1>4, <1>5
<1> QED BY <1>1, <1>6 DEF Has, c, m, n

\* FlattenSeq has what the sequences it joins have.
LEMMA FlattenHas ==
  ASSUME NEW T, NEW s \in Seq(Seq(T))
  PROVE  FlattenSeq(s) \in Seq(T) /\ \A x : Has(FlattenSeq(s), x) <=> \E j \in 1 .. Len(s) : Has(s[j], x)
<1> DEFINE n == Len(s)
<1>1. n \in Nat /\ \A i \in 1 .. n : s[i] \in Seq(T)
  OBVIOUS
<1>2. PICK g \in [0 .. n -> Seq(T)] : /\ g[0] = <<>> /\ FlattenSeq(s) = g[n]
                                      /\ \A i \in 1 .. n : g[i] = g[i - 1] \o s[i]
  BY FlattenSteps
<1> DEFINE P == {k \in Nat : k <= n => \A x : Has(g[k], x) <=> \E j \in 1 .. k : Has(s[j], x)}
<1> HIDE DEF n
<1>3. 0 \in P
  <2>1. \A x : ~ Has(<<>>, x)
    BY DEF Has
  <2> QED BY <1>2, <2>1
<1>4. ASSUME NEW k \in P PROVE k + 1 \in P
  <2> SUFFICES ASSUME k + 1 <= n
               PROVE  \A x : Has(g[k + 1], x) <=> \E j \in 1 .. k + 1 : Has(s[j], x)
    OBVIOUS
  <2>1. k \in Nat /\ k <= n /\ k \in 0 .. n /\ k + 1 \in 1 .. n /\ (k + 1) - 1 = k
    BY <1>1
  <2>2. \A x : Has(g[k], x) <=> \E j \in 1 .. k : Has(s[j], x)
    BY <2>1
  <2> HIDE DEF P
  <2>3. g[k + 1] = g[k] \o s[k + 1]
    <3>1. g[k + 1] = g[(k + 1) - 1] \o s[k + 1]
      BY <1>2, <2>1
    <3> QED BY <2>1, <3>1
  <2>4. g[k] \in Seq(T) /\ s[k + 1] \in Seq(T)
    BY <1>1, <1>2, <2>1
  <2>5. \A x : Has(g[k + 1], x) <=> Has(g[k], x) \/ Has(s[k + 1], x)
    BY <2>3, <2>4, ConcatHas
  <2>6. \A j : j \in 1 .. k + 1 <=> j \in 1 .. k \/ j = k + 1
    BY <2>1
  <2> QED BY <2>2, <2>5, <2>6
<1> HIDE DEF P
<1>5. P = Nat
  BY <1>3, <1>4, NatInduct DEF P
<1>6. \A x : Has(g[n], x) <=> \E j \in 1 .. n : Has(s[j], x)
  <2>1. n \in P /\ n <= n
    BY <1>1, <1>5
  <2> QED BY <2>1 DEF P
<1>7. g[n] \in Seq(T)
  BY <1>1, <1>2
<1> QED BY <1>2, <1>6, <1>7 DEF n

\* idx has the names of the paths P and no other.
Indexes(idx, P) ==
  /\ idx \in Seq(Entries) /\ P \subseteq Clean \ {<<>>}
  /\ \A i \in DOMAIN idx : \E p \in P : idx[i].name = Join(p)
  /\ \A p \in P : \E i \in DOMAIN idx : idx[i].name = Join(p)

\* The name of a path with or without a slash is that name without it.
LEMMA StripJoin ==
  ASSUME NEW q \in Clean
  PROVE  Strip(Join(q)) = Join(q) /\ Strip(Join(q) \o <<Slash>>) = Join(q)
BY JoinEnds, StripIs

\* A name with a slash at its end is no path's.
LEMMA SlashEnds ==
  ASSUME NEW p \in Clean \ {<<>>}, NEW q \in Clean
  PROVE  Join(p) # Join(q) \o <<Slash>>
<1> SUFFICES ASSUME Join(p) = Join(q) \o <<Slash>> PROVE FALSE
  OBVIOUS
<1>1. Join(p) = Join(q)
  BY StripJoin
<1> DEFINE s == Join(q)
<1>2. s \in Seq(Nat) /\ Slash \in Nat
  BY JoinEnds DEF Slash
<1>3. s \o <<Slash>> = Append(s, Slash)
  BY <1>2, AppendIsConcat
<1>4. Len(Append(s, Slash)) = Len(s) + 1 /\ Len(s) \in Nat
  BY <1>2, AppendProperties
<1> HIDE DEF s
<1>5. s = Append(s, Slash)
  BY <1>1, <1>3 DEF s
<1> QED BY <1>4, <1>5

\* efile_read_info: a path is regular when it is in the archive, a directory
\* when it is not but one below it is, and else there is nothing there.
LEMMA ReadInfoIs ==
  ASSUME NEW idx, NEW P, Indexes(idx, P), NEW q \in Clean \ {<<>>}
  PROVE  /\ q \in P => ReadInfo(idx, Join(q)) = "regular"
         /\ q \notin P /\ (\E p \in P : Under(p, q)) =>
              /\ ReadInfo(idx, Join(q)) = "directory"
              /\ ReadInfo(idx, Join(q) \o <<Slash>>) = "directory"
         /\ q \notin P /\ (\A p \in P : ~ Under(p, q)) => ReadInfo(idx, Join(q)) = "enoent"
<1> DEFINE s == Join(q)
           t == s \o <<Slash>>
           IsBelow == \E i \in DOMAIN idx : CheckPrefix(idx[i].name, s)
<1>1. /\ idx \in Seq(Entries) /\ P \subseteq Clean \ {<<>>}
      /\ \A i \in DOMAIN idx : \E p \in P : idx[i].name = Join(p)
      /\ \A p \in P : \E i \in DOMAIN idx : idx[i].name = Join(p)
  BY DEF Indexes
<1>2. ASSUME NEW name PROVE Lookup(idx, name) # None <=> \E p \in P : name = Join(p)
  <2>1. Lookup(idx, name) # None <=> \E i \in DOMAIN idx : idx[i].name = name
    BY <1>1, LookupIs, NoneAssumption
  <2> QED BY <1>1, <2>1
<1>3. Lookup(idx, s) # None <=> q \in P
  <2>1. ASSUME NEW p \in P, s = Join(p) PROVE p = q
    BY <1>1, <2>1, JoinOne
  <2> QED BY <1>2, <2>1
<1>4. Lookup(idx, t) = None
  <2>1. \A p \in P : Join(p) # t
    BY <1>1, SlashEnds
  <2> HIDE DEF t
  <2> QED BY <1>2, <2>1
<1>5. Strip(s) = s /\ Strip(t) = s
  BY StripJoin
<1>6. IsBelow <=> \E p \in P : CheckPrefix(Join(p), s)
  BY <1>1
<1>7. ASSUME NEW p \in P PROVE CheckPrefix(Join(p), s) <=> p = q \/ Under(p, q)
  <2>1. CheckPrefix(Join(p), s) <=> Len(q) <= Len(p) /\ \A i \in 1 .. Len(q) : p[i] = q[i]
    BY <1>1, BelowIs
  <2>2. Len(p) \in Nat /\ Len(q) \in Nat
    BY <1>1, CleanIs
  <2>3. Len(q) <= Len(p) <=> Len(q) < Len(p) \/ Len(p) = Len(q)
    BY <2>2
  <2>4. Len(p) = Len(q) /\ (\A i \in 1 .. Len(q) : p[i] = q[i]) <=> p = q
    BY <1>1, CleanEqual
  <2> QED BY <2>1, <2>3, <2>4 DEF Under
<1>8. ReadInfo(idx, s) = IF Lookup(idx, s) # None THEN "regular" ELSE IF IsBelow THEN "directory" ELSE "enoent"
  BY <1>5 DEF ReadInfo
<1>9. ReadInfo(idx, t) = IF Lookup(idx, t) # None THEN "regular" ELSE IF IsBelow THEN "directory" ELSE "enoent"
  BY <1>5 DEF ReadInfo
<1> HIDE DEF s, t, IsBelow
<1>10. q \in P => ReadInfo(idx, s) = "regular"
  BY <1>3, <1>8
<1>11. q \notin P /\ (\E p \in P : Under(p, q)) =>
         ReadInfo(idx, s) = "directory" /\ ReadInfo(idx, t) = "directory"
  BY <1>3, <1>4, <1>6, <1>7, <1>8, <1>9
<1>12. q \notin P /\ (\A p \in P : ~ Under(p, q)) => ReadInfo(idx, s) = "enoent"
  BY <1>3, <1>6, <1>7, <1>8
<1> QED BY <1>10, <1>11, <1>12 DEF s, t

\* efile_list_dir: the next components of the paths below, in order and once.
LEMMA ListDirIs ==
  ASSUME NEW idx, NEW P, Indexes(idx, P), NEW q \in Clean, \E p \in P : Under(p, q),
         NEW name, Strip(name) = Join(q)
  PROVE  /\ ListDir(idx, name) \in Seq(Name)
         /\ \A x : Has(ListDir(idx, name), x) <=> \E p \in P : Under(p, q) /\ p[Len(q) + 1] = x
         /\ \A i \in 1 .. Len(ListDir(idx, name)) - 1 :
              Before(ListDir(idx, name)[i], ListDir(idx, name)[i + 1])
<1> DEFINE n == Len(idx)
           t == Join(q)
           found == [i \in DOMAIN idx |-> Child(idx[i].name, t)]
           names == FlattenSeq(found)
           list == Dedup(Sort(names))
<1>1. /\ idx \in Seq(Entries) /\ P \subseteq Clean \ {<<>>}
      /\ \A i \in DOMAIN idx : \E p \in P : idx[i].name = Join(p)
      /\ \A p \in P : \E i \in DOMAIN idx : idx[i].name = Join(p)
  BY DEF Indexes
<1>2. n \in Nat /\ DOMAIN idx = 1 .. n
  BY <1>1
<1>3. ASSUME NEW p \in P
      PROVE  /\ Child(Join(p), t) = IF Under(p, q) THEN <<p[Len(q) + 1]>> ELSE <<>>
             /\ Child(Join(p), t) \in Seq(Name)
             /\ \A x : Has(Child(Join(p), t), x) <=> Under(p, q) /\ p[Len(q) + 1] = x
  <2> DEFINE y == p[Len(q) + 1]
             c == Child(Join(p), t)
  <2>1. c = IF Under(p, q) THEN <<y>> ELSE <<>>
    BY <1>1, ChildIs
  <2>2. Under(p, q) => y \in Name
    <3> SUFFICES ASSUME Under(p, q) PROVE y \in Name
      OBVIOUS
    <3>1. Len(p) \in Nat /\ Len(q) \in Nat /\ Len(q) < Len(p)
      BY <1>1, CleanIs DEF Under
    <3>2. Len(q) + 1 \in 1 .. Len(p)
      BY <3>1
    <3> QED BY <1>1, <3>2, CleanIs
  <2> HIDE DEF y, c
  <2>3. ASSUME NEW z \in Name
        PROVE  <<z>> \in Seq(Name) /\ \A x : Has(<<z>>, x) <=> z = x
    BY DEF Has
  <2>4. \A x : ~ Has(<<>>, x)
    BY DEF Has
  <2>5. c \in Seq(Name)
    BY <2>1, <2>2, <2>3
  <2>6. \A x : Has(c, x) <=> Under(p, q) /\ y = x
    BY <2>1, <2>2, <2>3, <2>4
  <2> QED BY <2>1, <2>5, <2>6 DEF c, y
<1>4. found \in Seq(Seq(Name)) /\ Len(found) = n /\ \A i \in 1 .. n : found[i] = Child(idx[i].name, t)
  <2>1. \A i \in DOMAIN idx : Child(idx[i].name, t) \in Seq(Name)
    BY <1>1, <1>3
  <2>2. found \in [1 .. n -> Seq(Name)] /\ \A i \in 1 .. n : found[i] = Child(idx[i].name, t)
    BY <1>2, <2>1
  <2>3. found \in Seq(Seq(Name))
    BY <1>2, <2>2, SeqDef
  <2> HIDE DEF found
  <2>4. DOMAIN found = 1 .. n
    BY <2>2
  <2>5. Len(found) = n
    BY <1>2, <2>3, <2>4, LenProperties
  <2> QED BY <2>2, <2>3, <2>5
<1>5. ListDir(idx, name) = IF names = <<>> THEN "enoent" ELSE list
  BY DEF ListDir
<1> HIDE DEF found
<1>6. names \in Seq(Name) /\ \A x : Has(names, x) <=> \E j \in 1 .. n : Has(found[j], x)
  BY <1>4, FlattenHas
<1> HIDE DEF names
<1>7. \A x : Has(names, x) <=> \E p \in P : Under(p, q) /\ p[Len(q) + 1] = x
  <2>1. ASSUME NEW x, NEW j \in 1 .. n, Has(found[j], x)
        PROVE  \E p \in P : Under(p, q) /\ p[Len(q) + 1] = x
    <3>1. PICK p \in P : idx[j].name = Join(p)
      BY <1>1, <1>2
    <3>2. Has(Child(Join(p), t), x)
      BY <1>4, <2>1, <3>1
    <3> QED BY <1>3, <3>2
  <2>2. ASSUME NEW x, NEW p \in P, Under(p, q), p[Len(q) + 1] = x
        PROVE  \E j \in 1 .. n : Has(found[j], x)
    <3>1. PICK j \in 1 .. n : idx[j].name = Join(p)
      BY <1>1, <1>2
    <3>2. Has(Child(Join(p), t), x)
      BY <1>3, <2>2
    <3> QED BY <1>4, <3>1, <3>2
  <2> QED BY <1>6, <2>1, <2>2
<1>8. names # <<>>
  <2>1. \E x : Has(names, x)
    BY <1>7
  <2> QED BY <2>1 DEF Has
<1> DEFINE sorted == Sort(names)
           l == Len(names)
<1>9. /\ sorted \in Seq(Name) /\ Len(sorted) = l /\ Ordered(sorted)
      /\ {sorted[i] : i \in 1 .. l} = {names[i] : i \in 1 .. l}
  BY <1>6, SortIs
<1> HIDE DEF sorted
<1>10. Keeps(Dedup(sorted), sorted, l)
  BY <1>9, DedupIs
<1>11. l \in Nat /\ l + 1 - l = 1
  BY <1>6
<1>12. \A x : Has(Dedup(sorted), x) <=> \E j \in 1 .. l : sorted[j] = x
  <2>1. \A x : (\E i \in 1 .. Len(Dedup(sorted)) : Dedup(sorted)[i] = x)
                 <=> \E j \in Len(sorted) + 1 - l .. Len(sorted) : sorted[j] = x
    BY <1>10 DEF Keeps
  <2>2. Len(sorted) + 1 - l = 1 /\ Len(sorted) = l
    BY <1>9, <1>11
  <2> HIDE DEF l
  <2> QED BY <2>1, <2>2 DEF Has
<1>13. \A x : (\E j \in 1 .. l : sorted[j] = x) <=> \E j \in 1 .. l : names[j] = x
  <2>1. \A x : x \in {sorted[i] : i \in 1 .. l} <=> x \in {names[i] : i \in 1 .. l}
    BY <1>9
  <2> HIDE DEF l
  <2> QED BY <2>1
<1>14. \A x : Has(Dedup(sorted), x) <=> \E p \in P : Under(p, q) /\ p[Len(q) + 1] = x
  BY <1>7, <1>12, <1>13 DEF Has
<1>15. list = Dedup(sorted)
  BY DEF sorted
<1>16. list \in Seq(Name) /\ \A i \in 1 .. Len(list) - 1 : Before(list[i], list[i + 1])
  BY <1>10, <1>15 DEF Keeps
<1> HIDE DEF list
<1> QED BY <1>5, <1>8, <1>14, <1>15, <1>16

\* The paths of a release the index of which holds every name whole.
LEMMA TreeIndexes ==
  ASSUME IndexInv, Booted, phase = "booted", index # None,
         \A i \in DOMAIN launch.entries : Len(EntryName(i)) <= MaxName
  PROVE  Indexes(index, Paths)
<1> DEFINE E == launch.entries
<1>1. launch \in Launches /\ index \in Seq(Entries)
  BY DEF IndexInv
<1>2. E # None /\ {index[i].name : i \in DOMAIN index} = {Cut(EntryName(i)) : i \in DOMAIN E}
  BY DEF Booted
<1>3. E \in Seq([path : Seq(Name), deflated : BOOLEAN, data : Seq(Nat)])
  BY <1>1, <1>2, LaunchAssumption
<1>4. \A i \in DOMAIN E : E[i].path \in Clean \ {<<>>}
  <2> SUFFICES ASSUME NEW i \in DOMAIN E PROVE E[i].path \in Clean \ {<<>>}
    OBVIOUS
  <2> DEFINE path == E[i].path
  <2>1. path # <<>> /\ \A j \in DOMAIN path : path[j] \in Seq(Nat \ {Slash}) \ {<<>>}
    BY <1>1, <1>2, PathAssumption
  <2>2. path \in Seq(Name)
    <3> DEFINE R == [path : Seq(Name), deflated : BOOLEAN, data : Seq(Nat)]
    <3>1. E \in Seq(R) /\ i \in DOMAIN E
      BY <1>3
    <3> HIDE DEF E, R
    <3>2. E[i] \in R
      BY <3>1
    <3> QED BY <3>2 DEF R
  <2> HIDE DEF path
  <2>3. Len(path) \in Nat /\ path \in [1 .. Len(path) -> Seq(Nat \ {Slash}) \ {<<>>}]
    BY <2>1, <2>2
  <2>4. path \in Clean
    BY <2>3, SeqDef DEF Clean
  <2> QED BY <2>1, <2>4 DEF path
<1>5. \A i \in DOMAIN E : Cut(EntryName(i)) = Join(E[i].path)
  <2> SUFFICES ASSUME NEW i \in DOMAIN E PROVE Cut(EntryName(i)) = Join(E[i].path)
    OBVIOUS
  <2> DEFINE s == Join(E[i].path)
  <2>1. s \in Seq(Nat) /\ Len(s) \in Nat
    BY <1>4, JoinEnds
  <2>2. Len(s) <= MaxName /\ EntryName(i) = s
    BY DEF EntryName
  <2>3. MaxName \in Nat
    BY LaunchAssumption
  <2> HIDE DEF s
  <2>4. Smaller(MaxName, Len(s)) = Len(s)
    BY <2>1, <2>2, <2>3 DEF Smaller
  <2>5. Cut(s) = s
    BY <2>1, <2>4, SubSeqFull DEF Cut
  <2> QED BY <2>2, <2>5 DEF s
<1>6. Paths = {E[i].path : i \in DOMAIN E}
  BY DEF Paths
<1> DEFINE A == {index[i].name : i \in DOMAIN index}
           B == {Cut(EntryName(i)) : i \in DOMAIN E}
<1>7. A = B
  BY <1>2
<1> HIDE DEF E
<1>8. Paths \subseteq Clean \ {<<>>}
  BY <1>4, <1>6
<1>9. ASSUME NEW i \in DOMAIN index PROVE \E p \in Paths : index[i].name = Join(p)
  <2>1. index[i].name \in B
    BY <1>7
  <2> QED BY <1>5, <1>6, <2>1
<1>10. ASSUME NEW p \in Paths PROVE \E i \in DOMAIN index : index[i].name = Join(p)
  <2>1. PICK j \in DOMAIN E : p = E[j].path
    BY <1>6
  <2>2. Join(p) \in A
    BY <1>5, <1>7, <2>1
  <2> QED BY <2>2
<1> QED BY <1>1, <1>8, <1>9, <1>10 DEF Indexes

\* A node of the tree is a path or has one below it.
LEMMA NodeIs ==
  ASSUME Paths \subseteq Clean \ {<<>>}, NEW q
  PROVE  q \in Nodes <=> q \in Clean /\ \E p \in Paths : p = q \/ Under(p, q)
<1>1. ASSUME NEW p \in Paths, NEW n \in 0 .. Len(p), q = SubSeq(p, 1, n)
      PROVE  q \in Clean /\ (p = q \/ Under(p, q))
  <2> DEFINE S == Seq(Nat \ {Slash}) \ {<<>>}
  <2>1. p \in Seq(S) /\ Len(p) \in Nat /\ n \in Nat
    BY <1>1 DEF Clean
  <2>2. \A i \in 1 .. n : i \in 1 .. Len(p)
    BY <2>1
  <2> HIDE DEF S
  <2>3. \A i \in 1 .. n : p[i] \in S
    BY <2>1, <2>2
  <2>4. 1 \in Int /\ n \in Int
    BY <2>1
  <2>5. /\ SubSeq(p, 1, n) \in Seq(S)
        /\ Len(SubSeq(p, 1, n)) = IF 1 <= n THEN n - 1 + 1 ELSE 0
        /\ \A i \in 1 .. n - 1 + 1 : SubSeq(p, 1, n)[i] = p[1 + i - 1]
    BY <2>3, <2>4, SubSeqProperties
  <2>6. q \in Seq(S) /\ Len(q) = n /\ \A i \in 1 .. n : q[i] = p[i]
    <3>1. n - 1 + 1 = n /\ (~ (1 <= n) => n = 0) /\ \A i \in 1 .. n : 1 + i - 1 = i
      BY <2>1
    <3> QED BY <1>1, <2>5, <3>1
  <2>7. q \in Clean
    BY <2>6 DEF Clean, S
  <2>8. n < Len(p) \/ n = Len(p)
    BY <1>1, <2>1
  <2>9. CASE n < Len(p)
    BY <2>6, <2>7, <2>9 DEF Under
  <2>10. CASE n = Len(p)
    <3>1. Len(p) = Len(q) /\ \A i \in 1 .. Len(q) : p[i] = q[i]
      BY <2>6, <2>10
    <3> QED BY <2>7, <3>1, CleanEqual
  <2> QED BY <2>8, <2>9, <2>10
<1>2. ASSUME q \in Clean, NEW p \in Paths, p = q \/ Under(p, q)
      PROVE  Len(q) \in 0 .. Len(p) /\ q = SubSeq(p, 1, Len(q))
  <2>1. p \in Seq(Name) /\ q \in Seq(Name) /\ Len(p) \in Nat /\ Len(q) \in Nat
    BY <1>2, CleanIs
  <2>2. Len(q) <= Len(p) /\ \A i \in 1 .. Len(q) : q[i] = p[i]
    BY <1>2, <2>1 DEF Under
  <2>3. SubSeq(q, 1, Len(q)) = SubSeq(p, 1, Len(q))
    BY <2>1, <2>2, SameFront
  <2>4. SubSeq(q, 1, Len(q)) = q
    BY <2>1, SubSeqFull
  <2> QED BY <2>1, <2>2, <2>3, <2>4
<1>3. q \in Nodes <=> \E p \in Paths : \E n \in 0 .. Len(p) : q = SubSeq(p, 1, n)
  BY DEF Nodes
<1> QED BY <1>1, <1>2, <1>3

LEMMA StrictIs ==
  ASSUME NEW p \in Clean, NEW q \in Clean
  PROVE  IsStrictPrefix(q, p) <=> Under(p, q)
<1>1. p \in Seq(Name) /\ q \in Seq(Name) /\ Len(p) \in Nat /\ Len(q) \in Nat
  BY CleanIs
<1>2. IsPrefix(q, p) <=> Len(q) <= Len(p) /\ \A i \in 1 .. Len(q) : q[i] = p[i]
  BY <1>1, PrefixIs
<1>3. ASSUME IsPrefix(q, p), q # p PROVE Len(q) # Len(p)
  BY <1>2, <1>3, CleanEqual
<1> QED BY <1>1, <1>2, <1>3 DEF IsStrictPrefix, Under

\* The tree from the characters is the tree from the components.
LEMMA TreeOfIndex ==
  ASSUME IndexInv, Booted
  PROVE  TreeExact
<1> SUFFICES ASSUME phase = "booted", index # None,
                    \A i \in DOMAIN launch.entries : Len(EntryName(i)) <= MaxName
             PROVE  /\ \A path \in Nodes \ {<<>>} :
                         /\ ReadInfo(index, Join(path)) = IF path \in Paths THEN "regular" ELSE "directory"
                         /\ path \notin Paths => ReadInfo(index, Join(path) \o <<Slash>>) = "directory"
                    /\ \A path \in Nodes, part \in UNION {Children(d) : d \in Nodes} :
                         Append(path, part) \notin Nodes =>
                           ReadInfo(index, Join(Append(path, part))) = "enoent"
                    /\ \A dir \in Nodes \ Paths : \A name \in Variants(dir) :
                         LET list == ListDir(index, name)
                         IN /\ {list[i] : i \in DOMAIN list} = Children(dir)
                            /\ \A i \in 1 .. Len(list) - 1 :
                                 list[i] # list[i + 1] /\ Before(list[i], list[i + 1])
  BY DEF TreeExact
<1>1. Indexes(index, Paths)
  BY TreeIndexes
<1>2. Paths \subseteq Clean \ {<<>>}
  BY <1>1 DEF Indexes
<1>3. \A q : q \in Nodes <=> q \in Clean /\ \E p \in Paths : p = q \/ Under(p, q)
  BY <1>2, NodeIs
<1>4. ASSUME NEW path \in Nodes \ {<<>>}
      PROVE  /\ ReadInfo(index, Join(path)) = IF path \in Paths THEN "regular" ELSE "directory"
             /\ path \notin Paths => ReadInfo(index, Join(path) \o <<Slash>>) = "directory"
  <2>1. path \in Clean \ {<<>>} /\ \E p \in Paths : p = path \/ Under(p, path)
    BY <1>3
  <2>2. path \in Paths => ReadInfo(index, Join(path)) = "regular"
    BY <1>1, <2>1, ReadInfoIs
  <2>3. path \notin Paths => /\ ReadInfo(index, Join(path)) = "directory"
                             /\ ReadInfo(index, Join(path) \o <<Slash>>) = "directory"
    <3> SUFFICES ASSUME path \notin Paths
                 PROVE  /\ ReadInfo(index, Join(path)) = "directory"
                        /\ ReadInfo(index, Join(path) \o <<Slash>>) = "directory"
      OBVIOUS
    <3>1. \E p \in Paths : Under(p, path)
      BY <2>1
    <3> QED BY <1>1, <2>1, <3>1, ReadInfoIs
  <2> QED BY <2>2, <2>3
<1>5. ASSUME NEW path \in Nodes, NEW part \in UNION {Children(d) : d \in Nodes},
             Append(path, part) \notin Nodes
      PROVE  ReadInfo(index, Join(Append(path, part))) = "enoent"
  <2> DEFINE q == Append(path, part)
             S == Seq(Nat \ {Slash}) \ {<<>>}
  <2>1. PICK d \in Nodes : part \in Children(d)
    OBVIOUS
  <2>2. PICK p \in Paths : IsStrictPrefix(d, p) /\ part = p[Len(d) + 1]
    BY <2>1 DEF Children
  <2>3. p \in Clean /\ d \in Clean /\ path \in Clean
    BY <1>2, <1>3
  <2>4. Under(p, d) /\ Len(p) \in Nat /\ Len(d) \in Nat
    BY <2>2, <2>3, StrictIs, CleanIs
  <2>5. Len(d) + 1 \in 1 .. Len(p)
    BY <2>4 DEF Under
  <2>6. part \in S
    BY <2>2, <2>3, <2>5, CleanIs
  <2>7. path \in Seq(S)
    BY <2>3 DEF Clean
  <2> HIDE DEF S
  <2>8. q \in Seq(S) /\ q # <<>>
    BY <2>6, <2>7, AppendProperties
  <2>9. q \in Clean \ {<<>>}
    BY <2>8 DEF Clean, S
  <2> HIDE DEF q
  <2>10. q \notin Paths /\ \A x \in Paths : ~ Under(x, q)
    BY <1>3, <1>5, <2>9 DEF q
  <2>11. ReadInfo(index, Join(q)) = "enoent"
    BY <1>1, <2>9, <2>10, ReadInfoIs
  <2> QED BY <2>11 DEF q
<1>6. ASSUME NEW dir \in Nodes \ Paths, NEW name \in Variants(dir), NEW list, list = ListDir(index, name)
      PROVE  /\ {list[i] : i \in DOMAIN list} = Children(dir)
             /\ \A i \in 1 .. Len(list) - 1 : list[i] # list[i + 1] /\ Before(list[i], list[i + 1])
  <2>1. dir \in Clean /\ \E p \in Paths : Under(p, dir)
    BY <1>3
  <2>2. Strip(name) = Join(dir)
    BY <2>1, StripJoin DEF Variants
  <2>3. /\ list \in Seq(Name)
        /\ \A x : Has(list, x) <=> \E p \in Paths : Under(p, dir) /\ p[Len(dir) + 1] = x
        /\ \A i \in 1 .. Len(list) - 1 : Before(list[i], list[i + 1])
    BY <1>1, <1>6, <2>1, <2>2, ListDirIs
  <2>4. \A x : x \in Children(dir) <=> \E p \in Paths : Under(p, dir) /\ p[Len(dir) + 1] = x
    <3>1. \A p \in Paths : IsStrictPrefix(dir, p) <=> Under(p, dir)
      BY <1>2, <2>1, StrictIs
    <3> QED BY <3>1 DEF Children
  <2>5. DOMAIN list = 1 .. Len(list)
    BY <2>3
  <2>6. \A x : x \in {list[i] : i \in DOMAIN list} <=> Has(list, x)
    BY <2>5 DEF Has
  <2> DEFINE A == {list[i] : i \in DOMAIN list}
             B == Children(dir)
  <2>7. \A x : x \in A <=> x \in B
    BY <2>3, <2>4, <2>6
  <2> HIDE DEF A, B
  <2>8. A = B
    BY <2>7
  <2>9. ASSUME NEW i \in 1 .. Len(list) - 1 PROVE list[i] # list[i + 1]
    <3>1. i \in 1 .. Len(list) /\ Before(list[i], list[i + 1])
      BY <2>3
    <3>2. list[i] \in Name
      BY <2>3, <3>1
    <3> QED BY <3>1, <3>2, BeforeStrict
  <2> QED BY <2>3, <2>8, <2>9 DEF A, B
<1> QED BY <1>4, <1>5, <1>6

\* The index finds the tree the release has, whatever its files are called
\* (efile_read_info, efile_list_dir): after boot, and for every release whose
\* names are not cut.
THEOREM TreeIsExact == Spec => []TreeExact
<1>1. Spec => []IInv
  BY RuntimeInvariant
<1>2. Spec => []Booted
  BY BootExact
<1>3. IInv /\ Booted => TreeExact
  BY TreeOfIndex DEF IInv
<1> QED BY <1>1, <1>2, <1>3, PTL
=============================================================================
